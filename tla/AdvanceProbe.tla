---------------------------- MODULE AdvanceProbe ----------------------------
(***************************************************************************)
(* The advancement statistics of rcu::Domain (RCU/Domain.h, built with     *)
(* SKL_ABIX_RCU_ENABLE_STATS) and the program that reads them,             *)
(* bench/rcu/advance_probe.cpp: writers that retire and synchronize for a  *)
(* window, readers that hold sections, a sampler, the drain, the verdict   *)
(* and the parent process that collects the verdicts of its children.      *)
(* What a grace period proves is RcuDomain's subject: here a scan of the   *)
(* readers and the section under the writer lock that ends an advancement  *)
(* are one step.                                                           *)
(***************************************************************************)
EXTENDS Integers, Sequences, FiniteSetsExt

CONSTANTS
    ProbeWriters,
    ProbeReaders,
    DeadlineTicks,  \* --deadline-ms
    WindowTicks,    \* --duration-ms
    MaxTicks,       \* bound: the clock stops here
    MaxProbeCalls,  \* bound: calls of one writer
    MaxLosses,      \* bound: attempts that find the advancement taken
    MaxEntryEpoch,  \* bound: readers enter up to this epoch
    MaxBacklog,     \* --max-backlog
    MinProgress,    \* successes per writer that allow a verdict: 64
    MaxChildren     \* bound: repetitions the parent runs

ASSUME ProbeAssumption ==
    /\ DeadlineTicks \in Nat \ {0} /\ WindowTicks \in Nat /\ MaxTicks \in Nat
    /\ IsFiniteSet(ProbeWriters)
    /\ MaxProbeCalls \in Nat /\ MaxLosses \in Nat /\ MaxEntryEpoch \in Nat 
    /\ MaxBacklog \in Nat /\ MinProgress \in Nat /\ MaxChildren \in Nat

VARIABLES
    mode,      \* "raw", "reload" for --reload, "parent" for --repeat and --sweep
    stage,     \* where run_once() is
    clock,
    running,
    domain,    \* [global, sync, completed, retired]: retired counts published nodes by epoch
    inside,    \* reader -> the epoch of its section, 0 outside
    counters,  \* Domain::Counters
    writer,    \* writer -> the locals of its loop and of its synchronize_until()
    reports,   \* writer -> WriterReport
    result,    \* RunResult
    noted,     \* history: the longest wait that note_max_wait_ns() was given
    parent     \* [verdicts, rc]: the orchestrating process

probeVars == <<mode, stage, clock, running, domain, inside, counters, writer, reports, result, noted, parent>>

LastEpoch == (MaxProbeCalls + 2) * Cardinality(ProbeWriters) + 2
Zeroes == [e \in 1..LastEpoch |-> 0]
NoCounts == [attempts |-> 0, contentions |-> 0, retries |-> 0, timeouts |-> 0, max_wait |-> 0, grace |-> 0]
reset_stats == NoCounts

\* The locals of a call that has not lost an attempt and does not own the advancement.
CallOf(last, start, until, token, proven) ==
    [last |-> last, start |-> start, until |-> until, token |-> token, proven |-> proven, waiting |-> FALSE,
     since |-> 0, old |-> 0, sample |-> 0, observed |-> 0, owner |-> FALSE]
NoCall == CallOf(FALSE, 0, 0, 0, FALSE)
NoReport == [ok |-> 0, timeouts |-> 0, max_streak |-> 0, failed |-> FALSE]
NoResult == [capped |-> FALSE, totals |-> NoCounts, drained |-> FALSE, backlog |-> 0, verdict |-> 0]
Tally(n) == MapThenSumSet(LAMBDA e : n[e], 1..LastEpoch)

ProbeInit ==
    /\ mode \in {"raw", "reload", "parent"}
    /\ stage = IF mode = "parent" THEN "parent" ELSE "window"
    /\ clock = 0 /\ running = (mode # "parent")
    /\ domain = [global |-> 1, sync |-> 0, completed |-> 0, retired |-> Zeroes]
    /\ inside = [r \in ProbeReaders |-> 0]
    /\ counters = reset_stats
    /\ writer = [w \in ProbeWriters |->
                    [pc |-> CASE mode = "raw" -> "loop" [] mode = "reload" -> "load" [] OTHER -> "done",
                     local |-> Zeroes, calls |-> 0, streak |-> 0,
                     loaded |-> FALSE, call |-> NoCall]]
    /\ reports = [w \in ProbeWriters |-> NoReport]
    /\ result = NoResult
    /\ noted = 0
    /\ parent = [verdicts |-> <<>>, rc |-> 0]

My(w) == writer[w].call
\* The snapshot under the writer lock.
stats == [counts |-> counters, retired_backlog |-> Tally(domain.retired)]

At(w, pc) == writer[w].pc = pc
Expired(w) == clock >= My(w).until
-----------------------------------------------------------------------------
(* The clock and the readers.                                              *)
Tick ==
    /\ clock < MaxTicks /\ stage \in {"window", "join"}
    /\ clock' = clock + 1
    /\ UNCHANGED <<mode, stage, running, domain, inside, counters, writer, reports, result, noted, parent>>

ReaderEnter(r) ==
    /\ running /\ inside[r] = 0 /\ domain.global <= MaxEntryEpoch
    /\ inside' = [inside EXCEPT ![r] = domain.global]
    /\ UNCHANGED <<mode, stage, clock, running, domain, counters, writer, reports, result, noted, parent>>

ReaderExit(r) ==
    /\ inside[r] # 0
    /\ inside' = [inside EXCEPT ![r] = 0]
    /\ UNCHANGED <<mode, stage, clock, running, domain, counters, writer, reports, result, noted, parent>>
-----------------------------------------------------------------------------
(* The loops of the writers.                                               *)
OnlyWriter == UNCHANGED <<mode, stage, clock, running, inside, result, parent>>

\* Mutation of CallDeadline: one deadline for the whole window in either mode.
CallDeadlineOnce == DeadlineTicks

\* run_once() makes the raw mode's deadline once, before the window (clock 0); the
\* Object makes one for every operation.
CallDeadline == IF mode = "raw" THEN DeadlineTicks ELSE clock + DeadlineTicks

\* retire() of n nodes and the entry of synchronize_until().
Call(w, n, last) ==
    writer' = [writer EXCEPT
                  ![w].pc = "try", ![w].calls = @ + 1, ![w].local[domain.global] = @ + n,
                  ![w].call = CallOf(last, clock, CallDeadline, domain.global, FALSE)]

\* An iteration of raw_writer_loop().
RawCall(w) ==
    /\ At(w, "loop") /\ mode = "raw" /\ running /\ writer[w].calls < MaxProbeCalls
    /\ Call(w, 1, FALSE)
    /\ OnlyWriter /\ UNCHANGED <<domain, counters, reports, noted>>

\* reload_writer_loop(): the first load, which retires nothing.
ReloadLoad(w) ==
    /\ At(w, "load")
    /\ \/ /\ writer' = [writer EXCEPT ![w].pc = "loop", ![w].loaded = TRUE]
          /\ UNCHANGED reports
       \/ /\ writer' = [writer EXCEPT ![w].pc = "done"]
          /\ reports' = [reports EXCEPT ![w].failed = TRUE]
    /\ OnlyWriter /\ UNCHANGED <<domain, counters, noted>>

\* An iteration that swaps the image and retires the old one with its index.
ReloadCall(w) ==
    /\ At(w, "loop") /\ mode = "reload" /\ running /\ writer[w].calls + 1 < MaxProbeCalls
    /\ Call(w, 2, FALSE)
    /\ OnlyWriter /\ UNCHANGED <<domain, counters, reports, noted>>

\* The library is gone: the loop ends.
ReloadFails(w) ==
    /\ At(w, "loop") /\ mode = "reload" /\ running
    /\ writer' = [writer EXCEPT ![w].pc = "unload"]
    /\ reports' = [reports EXCEPT ![w].failed = TRUE]
    /\ OnlyWriter /\ UNCHANGED <<domain, counters, noted>>

LoopEnds(w) ==
    /\ At(w, "loop") /\ ~running
    /\ writer' = [writer EXCEPT ![w].pc = IF mode = "raw" THEN "done" ELSE "unload"]
    /\ OnlyWriter /\ UNCHANGED <<domain, counters, reports, noted>>

\* ~Object() retires the last image; nobody reports on this call.
Unload(w) ==
    /\ At(w, "unload")
    /\ Call(w, 2, TRUE)
    /\ OnlyWriter /\ UNCHANGED <<domain, counters, reports, noted>>

\* The end of an iteration, and of the thread after ~Object().
Report(w, timeout) ==
    LET streak == IF timeout THEN writer[w].streak + 1 ELSE 0
    IN /\ writer' = [writer EXCEPT ![w].pc = IF My(w).last THEN "done" ELSE "loop", ![w].streak = streak,
                                   ![w].call = NoCall]
       /\ reports' = IF My(w).last THEN reports
                     ELSE [reports EXCEPT ![w].ok = @ + IF timeout THEN 0 ELSE 1,
                                          ![w].timeouts = @ + IF timeout THEN 1 ELSE 0,
                                          ![w].max_streak = Max({@, streak})]

RawReturned(w) ==
    /\ At(w, "return") /\ mode = "raw"
    /\ Report(w, ~My(w).proven)
    /\ OnlyWriter /\ UNCHANGED <<domain, counters, noted>>

\* An image that somebody else's advancement collected was reclaimed, proven or not.
ReloadReturned(w) ==
    /\ At(w, "return") /\ mode = "reload"
    /\ Report(w, ~My(w).proven /\ domain.completed < My(w).token)
    /\ OnlyWriter /\ UNCHANGED <<domain, counters, noted>>
-----------------------------------------------------------------------------
(* synchronize_until(), with its counters.                                 *)
Published(w) == [e \in 1..LastEpoch |-> domain.retired[e] + writer[w].local[e]]

\* begin_advance() under the writer lock.
BeginAdvance(w) ==
    /\ At(w, "try") /\ domain.sync = 0
    /\ domain' = [domain EXCEPT !.retired = Published(w), !.global = @ + 1, !.sync = domain.global + 1]
    /\ counters' = [counters EXCEPT !.attempts = @ + 1]
    /\ writer' = [writer EXCEPT
                     ![w].local = Zeroes, ![w].pc = IF My(w).waiting THEN "note" ELSE "poll",
                     ![w].call = [@ EXCEPT !.old = domain.global, !.owner = TRUE, !.sample = clock - My(w).since]]
    /\ OnlyWriter /\ UNCHANGED <<reports, noted>>

LoseAdvance(w) ==
    /\ At(w, "try") /\ domain.sync # 0 /\ counters.contentions < MaxLosses
    /\ domain' = [domain EXCEPT !.retired = Published(w)]
    /\ counters' = [counters EXCEPT !.attempts = @ + 1, !.contentions = @ + 1]
    /\ writer' = [writer EXCEPT ![w].local = Zeroes, ![w].pc = "lost"]
    /\ OnlyWriter /\ UNCHANGED <<reports, noted>>

\* The wait is timed from the first lost attempt.
Lost(w) ==
    /\ At(w, "lost")
    /\ LET since == IF My(w).waiting THEN My(w).since ELSE clock
       IN /\ writer' = [writer EXCEPT ![w].pc = IF Expired(w) THEN "note" ELSE "try",
                ![w].call = [@ EXCEPT !.waiting = TRUE, !.since = since, !.sample = clock - since]]
          /\ counters' = [counters EXCEPT !.retries = @ + 1, !.timeouts = @ + IF Expired(w) THEN 1 ELSE 0]
    /\ OnlyWriter /\ UNCHANGED <<domain, reports, noted>>

\* note_max_wait_ns(): the first load of the maximum.
NoteLoad(w) ==
    /\ At(w, "note")
    /\ writer' = [writer EXCEPT ![w].call.observed = counters.max_wait, ![w].pc = "cas"]
    /\ OnlyWriter /\ UNCHANGED <<domain, counters, reports, noted>>

AfterNote(w) == IF My(w).owner THEN "poll" ELSE "return"

\* Mutation of NoteCas: a plain store after the test.
NoteCasStores(w) ==
    /\ At(w, "cas")
    /\ writer' = [writer EXCEPT ![w].pc = AfterNote(w)]
    /\ counters' = IF My(w).sample > My(w).observed
                   THEN [counters EXCEPT !.max_wait = My(w).sample] ELSE counters
    /\ noted' = Max({noted, My(w).sample})
    /\ OnlyWriter /\ UNCHANGED <<domain, reports>>

\* A round of the loop: a failed exchange loads the maximum again.
NoteCas(w) ==
    /\ At(w, "cas")
    /\ LET larger == My(w).sample > My(w).observed
           same == counters.max_wait = My(w).observed
       IN /\ writer' = [writer EXCEPT
                           ![w].call = IF larger /\ ~same THEN [@ EXCEPT !.observed = counters.max_wait]
                                       ELSE [@ EXCEPT !.observed = 0, !.sample = 0, !.since = 0, !.waiting = FALSE],
                           ![w].pc = IF larger /\ ~same THEN "cas" ELSE AfterNote(w)]
          /\ counters' = IF larger /\ same THEN [counters EXCEPT !.max_wait = My(w).sample] ELSE counters
          /\ noted' = IF larger /\ ~same THEN noted ELSE Max({noted, My(w).sample})
    /\ OnlyWriter /\ UNCHANGED <<domain, reports>>

readers_passed(target) == \A r \in ProbeReaders : inside[r] = 0 \/ inside[r] > target

\* Mutation of Collected: the nodes of the epoch itself stay.
CollectedBelow(retired, safe) == [e \in 1..LastEpoch |-> IF e < safe THEN 0 ELSE retired[e]]

\* collect() of both classes.
Collected(retired, safe) == [e \in 1..LastEpoch |-> IF e <= safe THEN 0 ELSE retired[e]]

\* The locals of a call that its caller still reads.
Live(w, proven) == CallOf(My(w).last, My(w).start, 0, My(w).token, proven)

\* The readers have passed: end_advance() collects.
Proven(w) ==
    /\ At(w, "poll") /\ readers_passed(My(w).old)
    /\ domain' = [domain EXCEPT !.sync = 0, !.completed = Max({@, My(w).old}), !.retired = Collected(@, My(w).old)]
    /\ writer' = [writer EXCEPT ![w].call = Live(w, TRUE), ![w].pc = "return"]
    /\ OnlyWriter /\ UNCHANGED <<counters, reports, noted>>

\* They have not, and the deadline has: end_advance() only gives the advancement back.
GraceTimeout(w) ==
    /\ At(w, "poll") /\ ~readers_passed(My(w).old) /\ Expired(w)
    /\ domain' = [domain EXCEPT !.sync = 0]
    /\ writer' = [writer EXCEPT ![w].call = Live(w, FALSE), ![w].pc = "return"]
    /\ counters' = [counters EXCEPT !.grace = @ + 1]
    /\ OnlyWriter /\ UNCHANGED <<reports, noted>>
-----------------------------------------------------------------------------
(* run_once() after its threads have started.                              *)
OnlyMain == UNCHANGED <<mode, clock, inside, writer, reports, noted, parent>>

\* A poll of stats() that finds the backlog at its cap ends the window.
Sample ==
    /\ stage = "window" /\ clock < WindowTicks
    /\ MaxBacklog # 0 /\ stats.retired_backlog >= MaxBacklog
    /\ result' = [result EXCEPT !.capped = TRUE]
    /\ running' = FALSE /\ stage' = "join"
    /\ OnlyMain /\ UNCHANGED <<domain, counters>>

WindowEnds ==
    /\ stage = "window" /\ clock >= WindowTicks
    /\ running' = FALSE /\ stage' = "join"
    /\ OnlyMain /\ UNCHANGED <<domain, counters, result>>

Join ==
    /\ stage = "join"
    /\ \A w \in ProbeWriters : At(w, "done")
    /\ \A r \in ProbeReaders : inside[r] = 0
    /\ stage' = "drain"
    /\ result' = [result EXCEPT !.totals = stats.counts]
    /\ OnlyMain /\ UNCHANGED <<running, domain, counters>>

\* synchronize_until() by the main thread, with five seconds: an advancement that
\* somebody left behind, or a reader, would run them out.
Drain ==
    /\ stage = "drain"
    /\ LET proven == domain.sync = 0 /\ readers_passed(domain.global)
           left == IF proven THEN Collected(domain.retired, domain.global) ELSE domain.retired
       IN /\ domain' = IF proven THEN [domain EXCEPT !.global = @ + 1, !.completed = domain.global, !.retired = left]
                       ELSE domain
          /\ result' = [result EXCEPT !.drained = proven, !.backlog = Tally(left)]
    /\ stage' = "judge"
    /\ OnlyMain /\ UNCHANGED <<running, counters>>

Verdict ==
    LET oks == {reports[w].ok : w \in ProbeWriters}
        total == MapThenSumSet(LAMBDA w : reports[w].ok, ProbeWriters)
    IN IF ~result.drained THEN 2
       ELSE IF \E w \in ProbeWriters : reports[w].failed THEN 3
       ELSE IF total >= Cardinality(ProbeWriters) * MinProgress /\ Min(oks) = 0 THEN 1
       ELSE 0

Judge ==
    /\ stage = "judge"
    /\ result' = [result EXCEPT !.verdict = Verdict]
    /\ stage' = "done"
    /\ OnlyMain /\ UNCHANGED <<running, domain, counters>>
-----------------------------------------------------------------------------
(* The parent: one process per repetition, and its exit code.              *)
worst_rc(verdicts) ==
    LET upto[n \in 0..Len(verdicts)] ==
            IF n = 0 THEN 0
            ELSE LET rc == upto[n - 1]
                     v == verdicts[n]
                 IN IF rc = 3 \/ v = 3 THEN 3
                    ELSE IF v = 2 /\ rc < 2 THEN 2
                    ELSE IF v = 1 /\ rc < 1 THEN 1
                    ELSE rc
    IN upto[Len(verdicts)]

\* The RESULT line of a child, by its keys, and what the parent reads in it.
print_result_line(v) == [min_ok |-> 0, verdict |-> v]
NoLine == [error |-> 64]
parse_result_line(line) ==
    [got |-> "min_ok" \in DOMAIN line, verdict |-> IF "verdict" \in DOMAIN line THEN line.verdict ELSE 0]

\* One repetition; without its line the parent gives up.
RunChild ==
    /\ mode = "parent" /\ Len(parent.verdicts) < MaxChildren /\ parent.rc # 64
    /\ \E line \in {print_result_line(v) : v \in 0..3} \union {NoLine} :
          LET r == parse_result_line(line)
              all == Append(parent.verdicts, r.verdict)
          IN parent' = IF r.got THEN [verdicts |-> all, rc |-> worst_rc(all)] ELSE [parent EXCEPT !.rc = 64]
    /\ UNCHANGED <<mode, stage, clock, running, domain, inside, counters, writer, reports, result, noted>>

ProbeNext ==
    \/ RunChild
    \/ Tick \/ Sample \/ WindowEnds \/ Join \/ Drain \/ Judge
    \/ \E r \in ProbeReaders : ReaderEnter(r) \/ ReaderExit(r)
    \/ \E w \in ProbeWriters :
          \/ RawCall(w) \/ ReloadLoad(w) \/ ReloadCall(w) \/ ReloadFails(w) \/ LoopEnds(w) \/ Unload(w)
          \/ RawReturned(w) \/ ReloadReturned(w)
          \/ BeginAdvance(w) \/ LoseAdvance(w) \/ Lost(w) \/ NoteLoad(w) \/ NoteCas(w)
          \/ Proven(w) \/ GraceTimeout(w)

ProbeSpec == ProbeInit /\ [][ProbeNext]_probeVars
-----------------------------------------------------------------------------
Total(n) == MapThenSumSet(LAMBDA w : n[w], ProbeWriters)

\* "the Domain counters are what distinguish the two failure modes" (advance_probe.cpp:25):
\* when the threads have ended, every call of synchronize_until() is in the counters
\* exactly once, as proven, as an advancement timeout or as a grace period timeout, every
\* lost attempt is a contention and a retry, and the writers' own reports agree with
\* that. A reload may call its timeout a success, when another writer collected for it.
ReportsMatchCounters ==
    stage \in {"drain", "judge", "done"} =>
        LET c == result.totals
            own == Total([w \in ProbeWriters |-> reports[w].ok + reports[w].timeouts])
            unloads == Cardinality({w \in ProbeWriters : writer[w].loaded})
            timeouts == Total([w \in ProbeWriters |-> reports[w].timeouts])
        IN /\ own + unloads = (c.attempts - c.contentions) + c.timeouts
           /\ c.contentions = c.retries
           /\ IF mode = "raw" THEN timeouts = c.timeouts + c.grace ELSE timeouts <= c.timeouts + c.grace

\* "concurrent writers do not lose a larger sample" (Domain.h:467): the recorded maximum
\* is at least every wait whose note_max_wait_ns() has returned.
MaxWaitKept == counters.max_wait >= noted

\* "Safe: defer, never leak" (advance_probe.cpp:49): whatever timed out in the window,
\* the handshake is free afterwards and one advancement collects every retired node; none
\* is left in the batch of a thread that has ended.
DrainLeavesNothing ==
    stage \in {"judge", "done"} =>
        /\ result.drained /\ result.backlog = 0
        /\ \A w \in ProbeWriters : writer[w].local = Zeroes

\* "--deadline-ms M  per-call wait bound" (advance_probe.cpp:34): a call gives up only
\* after it has waited that long.
WaitBoundIsPerCall ==
    \A w \in ProbeWriters :
        (At(w, "return") /\ ~My(w).proven) => clock - My(w).start >= DeadlineTicks

\* "a configured timeout is never reused as an absolute instant" (Object.h:166): so it is
\* for the reloads of an Object, one after the other and with a wait in each.
ReloadsWaitTheirOwnTime == mode = "reload" => WaitBoundIsPerCall

\* The exit code is the worst of the children's verdicts, in whatever order they came.
ExitCodeIsWorst ==
    parent.rc = 64 \/ parent.rc = Max({0} \union {parent.verdicts[i] : i \in DOMAIN parent.verdicts})

\* What the probe tells is what happened: the domain's counters agree with the
\* writers, no larger wait was lost, and the exit code is that of the worst child.
StatisticsTrue ==
    /\ ReportsMatchCounters
    /\ MaxWaitKept
    /\ ExitCodeIsWorst
-----------------------------------------------------------------------------
(***************************************************************************)
(* The inductive invariants behind these properties.                       *)
(***************************************************************************)
Epochs == 1..LastEpoch
InCall == {"try", "lost", "note", "cas", "poll", "return"}
Counts == [attempts : Nat, contentions : Nat, retries : Nat, timeouts : Nat, max_wait : Nat, grace : Nat]
ProbeCalls ==
    [last : BOOLEAN, start : Nat, until : Nat, waiting : BOOLEAN, since : Nat, old : Nat, token : Nat,
     sample : Int, observed : Nat, owner : BOOLEAN, proven : BOOLEAN]

ProbeTypes ==
    /\ mode \in {"raw", "reload", "parent"}
    /\ stage \in {"parent", "window", "join", "drain", "judge", "done"}
    /\ clock \in Nat /\ running \in BOOLEAN
    /\ domain \in [global : Nat, sync : Nat, completed : Nat, retired : [Epochs -> Nat]]
    /\ inside \in [ProbeReaders -> Nat]
    /\ counters \in Counts
    /\ writer \in [ProbeWriters ->
                      [pc : InCall \union {"load", "loop", "unload", "done"}, local : [Epochs -> Nat],
                       calls : Nat, streak : Nat, loaded : BOOLEAN, call : ProbeCalls]]
    /\ reports \in [ProbeWriters -> [ok : Nat, timeouts : Nat, max_streak : Nat, failed : BOOLEAN]]
    /\ result \in [capped : BOOLEAN, totals : Counts, drained : BOOLEAN, backlog : Int, verdict : 0..3]
    /\ noted \in Nat
    /\ parent \in [verdicts : Seq(0..3), rc : Nat]

\* Which writers there are, by mode, and what has ended with the window.
StagesInv ==
    /\ running => stage = "window"
    /\ stage \in {"drain", "judge", "done"} =>
          /\ \A w \in ProbeWriters : At(w, "done")
          /\ \A r \in ProbeReaders : inside[r] = 0
          /\ result.totals = counters
    /\ mode = "parent" => \A w \in ProbeWriters : At(w, "done")
    /\ mode = "raw" => \A w \in ProbeWriters :
          ~At(w, "load") /\ ~At(w, "unload") /\ ~writer[w].loaded /\ ~My(w).last
    /\ mode = "reload" => \A w \in ProbeWriters :
          (At(w, "load") => ~writer[w].loaded) /\ (At(w, "load") \/ At(w, "done") \/ writer[w].loaded)

\* The deadline of a call in progress, and who has run into it.
DeadlinesInv ==
    mode = "reload" => \A w \in ProbeWriters :
        /\ writer[w].pc \in InCall \ {"return"} => My(w).until = My(w).start + DeadlineTicks
        /\ writer[w].pc \in {"note", "cas"} /\ ~My(w).owner => Expired(w)
        /\ At(w, "return") /\ ~My(w).proven => clock - My(w).start >= DeadlineTicks

\* The advancement has an owner while it is taken, and one only.
HandshakeInv ==
    /\ domain.sync # 0 <=> \E w \in ProbeWriters : My(w).owner
    /\ \A w \in ProbeWriters :
          /\ My(w).owner => writer[w].pc \in {"note", "cas", "poll"}
          /\ At(w, "poll") => My(w).owner
          /\ My(w).proven => At(w, "return")
          /\ \A v \in ProbeWriters : My(w).owner /\ My(v).owner => v = w

\* No node has an epoch that has not begun, and a batch is published by the call
\* that its writer makes next.
NodesInv ==
    /\ domain.global >= 1
    /\ \A e \in Epochs : e > domain.global =>
          domain.retired[e] = 0 /\ \A w \in ProbeWriters : writer[w].local[e] = 0
    /\ \A w \in ProbeWriters : ~At(w, "try") => writer[w].local = Zeroes
    /\ stage \in {"judge", "done"} => result.drained /\ result.backlog = 0

One(P) == IF P THEN 1 ELSE 0

\* What a writer has put into the counters: the ends of its calls, and those that ran
\* out of time.
EndsOf(w) ==
    reports[w].ok + reports[w].timeouts
        + One(writer[w].pc \in {"note", "cas", "poll", "return"} \/ (At(w, "done") /\ writer[w].loaded))
TimeoutsOf(w) ==
    reports[w].timeouts
        + One(\/ writer[w].pc \in {"note", "cas"} /\ ~My(w).owner
              \/ At(w, "return") /\ ~My(w).proven)

CountersInv ==
    LET c == counters
        expired == Total([w \in ProbeWriters |-> TimeoutsOf(w)])
    IN /\ Total([w \in ProbeWriters |-> EndsOf(w)]) = (c.attempts - c.contentions) + c.timeouts
       /\ c.contentions = c.retries + Total([w \in ProbeWriters |-> One(At(w, "lost"))])
       /\ IF mode = "raw" THEN expired = c.timeouts + c.grace ELSE expired <= c.timeouts + c.grace

\* Every advance was somebody's call, so the table of epochs is never too short.
BegunOf(w) == writer[w].calls - One(writer[w].pc \in {"try", "lost"})

CallsInv ==
    \A w \in ProbeWriters :
        /\ writer[w].calls <= MaxProbeCalls + 1
        /\ At(w, "done") \/ (writer[w].pc \in InCall /\ My(w).last) \/ writer[w].calls <= MaxProbeCalls

EpochsInv ==
    /\ domain.global <= 1 + Total([w \in ProbeWriters |-> BegunOf(w)]) + One(stage \in {"judge", "done"})
    /\ domain.global <= LastEpoch

\* A maximum that was read is still reached.
ObservedInv == \A w \in ProbeWriters : My(w).observed <= counters.max_wait

ProbeInv ==
    /\ ProbeTypes
    /\ StagesInv
    /\ DeadlinesInv
    /\ HandshakeInv
    /\ NodesInv
    /\ CountersInv
    /\ CallsInv
    /\ EpochsInv
    /\ ObservedInv
    /\ MaxWaitKept
    /\ ExitCodeIsWorst
=============================================================================
