-------------------------------- MODULE Log --------------------------------
(***************************************************************************)
(* The diagnostic side channel of Util/Log.h: one shared LogState with two *)
(* callback slots and a threshold, set and read without a lock.  Every     *)
(* access to a slot is a step; a callback may log or configure again.      *)
(***************************************************************************)
EXTENDS Integers, Sequences

CONSTANTS
    Loggers,       \* threads
    Configurers,   \* the ones that also call the setters
    NoSink,
    LegacySinks, RecordSinks,
    LogLevels,     \* the levels passed in, those past Off too
    Lengths        \* what vsnprintf would have written; -1: it failed

ASSUME SinksAssumption == NoSink \notin LegacySinks \union RecordSinks
ASSUME LengthsAssumption == Lengths \subseteq Int

LogBuffer == 4                       \* log_buffer_size
Error == 3
Off == 4

VARIABLES
    sink, record_sink, level,   \* the LogState
    call,      \* call[w]: [at, level, record, legacy, new] of a call in progress
    installed, \* the sinks that were installed at some time since w's event began
    delivered  \* what w's last event delivered: [sink, length, truncated]

logVars == <<sink, record_sink, level, call, installed, delivered>>

NoCall == [at |-> "idle", level |-> 0, record |-> NoSink, legacy |-> NoSink, new |-> NoSink]
Nothing == [sink |-> NoSink, length |-> 0, truncated |-> FALSE]

LogInit ==
    /\ sink = NoSink /\ record_sink = NoSink
    /\ level = 2                     \* LogLevel::Warning
    /\ call = [w \in Loggers |-> NoCall]
    /\ installed = [w \in Loggers |-> {NoSink}]
    /\ delivered = [w \in Loggers |-> Nothing]

Remember(s) == installed' = [w \in Loggers |-> installed[w] \union {s}]

\* set_log_sink and set_log_record_sink: the other kind goes first ...
BeginSet(w, s) ==
    /\ call[w].at = "idle" /\ w \in Configurers
    /\ IF s \in LegacySinks THEN record_sink' = NoSink /\ UNCHANGED sink
                            ELSE sink' = NoSink /\ UNCHANGED record_sink
    /\ call' = [call EXCEPT ![w] = [NoCall EXCEPT !.at = "set", !.new = s]]
    /\ UNCHANGED <<level, installed, delivered>>

\* ... and then the new one is published.
EndSet(w) ==
    /\ call[w].at = "set"
    /\ LET s == call[w].new
       IN IF s \in LegacySinks THEN sink' = s /\ UNCHANGED record_sink
                               ELSE record_sink' = s /\ UNCHANGED sink
    /\ Remember(call[w].new)
    /\ call' = [call EXCEPT ![w] = NoCall]
    /\ UNCHANGED <<level, delivered>>

\* A setter that is given a null pointer clears both slots, one after the other.
ClearFirst(w) ==
    /\ call[w].at = "idle" /\ w \in Configurers
    /\ record_sink' = NoSink
    /\ call' = [call EXCEPT ![w] = [NoCall EXCEPT !.at = "clear"]]
    /\ UNCHANGED <<sink, level, installed, delivered>>

ClearSecond(w) ==
    /\ call[w].at = "clear"
    /\ sink' = NoSink
    /\ call' = [call EXCEPT ![w] = NoCall]
    /\ UNCHANGED <<record_sink, level, installed, delivered>>

normalize_log_level(l) == IF l <= Off THEN l ELSE Off

SetLevel(w, l) ==
    /\ call[w].at = "idle" /\ w \in Configurers
    /\ level' = normalize_log_level(l)
    /\ UNCHANGED <<sink, record_sink, call, installed, delivered>>

log_level_enabled(l) == l <= Error /\ level # Off /\ l >= level

\* log_v(): the threshold, then the two slots in turn.
BeginLog(w, l) ==
    /\ call[w].at = "idle"
    /\ log_level_enabled(l)
    /\ call' = [call EXCEPT ![w] = [NoCall EXCEPT !.at = "record", !.level = l]]
    /\ installed' = [installed EXCEPT ![w] = {sink, record_sink}]
    /\ delivered' = [delivered EXCEPT ![w] = Nothing]
    /\ UNCHANGED <<sink, record_sink, level>>

ReadRecordSink(w) ==
    /\ call[w].at = "record"
    /\ call' = [call EXCEPT ![w].record = record_sink,
                            ![w].at = IF record_sink = NoSink THEN "legacy" ELSE "format"]
    /\ UNCHANGED <<sink, record_sink, level, installed, delivered>>

ReadSink(w) ==
    /\ call[w].at = "legacy"
    /\ call' = IF sink = NoSink THEN [call EXCEPT ![w] = NoCall]
               ELSE [call EXCEPT ![w].legacy = sink, ![w].at = "format"]
    /\ UNCHANGED <<sink, record_sink, level, installed, delivered>>

\* Mutation of Truncated: a message that fills the buffer is not reported.
TruncatedLate(written) == written > LogBuffer

Truncated(written) == written >= LogBuffer

\* Formatting, and the callback, synchronously and without a lock.
Deliver(w, written) ==
    /\ call[w].at = "format"
    /\ delivered' = IF written < 0 THEN delivered
                    ELSE [delivered EXCEPT ![w] =
                        [sink |-> IF call[w].record # NoSink THEN call[w].record
                                  ELSE call[w].legacy,
                         length |-> IF Truncated(written) THEN LogBuffer - 1 ELSE written,
                         truncated |-> Truncated(written)]]
    /\ call' = [call EXCEPT ![w] = NoCall]
    /\ UNCHANGED <<sink, record_sink, level, installed>>

LogNext ==
    \E w \in Loggers :
        \/ \E s \in LegacySinks \union RecordSinks : BeginSet(w, s)
        \/ EndSet(w) \/ ClearFirst(w) \/ ClearSecond(w)
        \/ \E l \in LogLevels : SetLevel(w, l) \/ BeginLog(w, l)
        \/ ReadRecordSink(w) \/ ReadSink(w)
        \/ \E n \in Lengths : Deliver(w, n)

LogSpec == LogInit /\ [][LogNext]_logVars
-----------------------------------------------------------------------------
\* "Only one callback kind is active at a time" (Log.h:162): holds while one
\* thread configures; two setters of different kinds can leave both.
OneKindActive == sink = NoSink \/ record_sink = NoSink

\* An event goes to at most one callback, one that was installed at some moment
\* while the event was logged, even when the sinks change between the two reads;
\* and the length it reports always leaves room for the final NUL.
DeliveredToInstalled ==
    \A w \in Loggers : delivered[w] # Nothing =>
        /\ delivered[w].sink \in installed[w] \ {NoSink}
        /\ delivered[w].length < LogBuffer

\* One kind of sink is installed at a time, and an event goes to one that was
\* installed while it was logged, with a length that fits.
DeliverySound ==
    /\ OneKindActive
    /\ DeliveredToInstalled

(***************************************************************************)
(* The inductive invariant, for a process in which one thread configures.  *)
(***************************************************************************)
OneConfigurer == \A c, d \in Configurers : c = d

Sinks == LegacySinks \union RecordSinks \union {NoSink}
CallSteps == {"idle", "set", "clear", "record", "legacy", "format"}

LogTypes ==
    /\ sink \in Sinks /\ record_sink \in Sinks
    /\ call \in [Loggers -> [at : CallSteps, level : LogLevels \union {0}, record : Sinks,
                            legacy : Sinks, new : Sinks]]
    /\ installed \in [Loggers -> SUBSET Sinks]
    /\ delivered \in [Loggers -> [sink : Sinks, length : Int, truncated : BOOLEAN]]

\* Between the two stores of a setter the other slot is empty.
SettersClear ==
    \A w \in Loggers :
        /\ call[w].at \in {"set", "clear"} => w \in Configurers
        /\ call[w].at = "set" =>
            IF call[w].new \in LegacySinks THEN record_sink = NoSink ELSE sink = NoSink
        /\ call[w].at = "clear" => record_sink = NoSink

\* What is installed, and what an event has read, was installed in its time.
ReadsInstalled ==
    \A w \in Loggers :
        /\ {sink, record_sink, call[w].record, call[w].legacy}
              \subseteq installed[w] \union {NoSink}
        /\ call[w].at = "format" => call[w].record # NoSink \/ call[w].legacy # NoSink

LogInv == LogTypes /\ SettersClear /\ ReadsInstalled /\ DeliverySound
=============================================================================
