------------------------- MODULE SharedStateProofs -------------------------
(***************************************************************************)
(* What is proved of the log and of three kinds of handle that own an      *)
(* object.  The log's callback slots (Log): every message goes to a sink   *)
(* that was installed.  dll::SharedPtr and dll::WeakPtr (SharedPtr): the   *)
(* two counts of a control block are exact, so it is freed once and in     *)
(* time, as long as operations on a WeakPtr exclude those on the other     *)
(* threads.  dll::RefPtr and dll::ViewPtr (RefPtr): the same for plain     *)
(* counts on one thread, however deep the destroy callbacks nest, as long  *)
(* as the pointers of an object never lead back to it.                     *)
(* runtime::Function and dll::UniquePtr (Handles): a cell has one owner,   *)
(* is destroyed once and never left behind, however long its chain.        *)
(***************************************************************************)
EXTENDS Log, SharedPtr, RefPtr, Handles, FiniteSetTheorems, Induction

-----------------------------------------------------------------------------
(***************************************************************************)
(* The log.                                                                *)
(***************************************************************************)
LEMMA LogTypesInit == LogInit => LogTypes
  BY DEF LogInit, LogTypes, NoCall, Nothing, Sinks, CallSteps

\* Each step of Util/Log.h keeps every slot, call and event in its range.
LEMMA LogTypesStep ==
    ASSUME LogTypes, [LogNext]_logVars
    PROVE  LogTypes'
<1> USE SinksAssumption, LengthsAssumption DEF LogTypes
<1> DEFINE Calls == [at : CallSteps, level : LogLevels \union {0}, record : Sinks,
                     legacy : Sinks, new : Sinks]
           Events == [sink : Sinks, length : Int, truncated : BOOLEAN]
<1>a. NoSink \in Sinks /\ NoCall \in Calls /\ Nothing \in Events
  BY DEF Sinks, NoCall, CallSteps, Nothing
<1>b. LegacySinks \subseteq Sinks /\ RecordSinks \subseteq Sinks
  BY DEF Sinks
<1>1. CASE UNCHANGED logVars
  BY <1>1 DEF logVars
<1>2. ASSUME NEW w \in Loggers, NEW s \in LegacySinks \union RecordSinks, BeginSet(w, s)
      PROVE  LogTypes'
  <2>1. [NoCall EXCEPT !.at = "set", !.new = s] \in Calls
    BY <1>a, <1>b DEF NoCall, CallSteps
  <2> QED BY <1>2, <1>a, <2>1 DEF BeginSet
<1>3. ASSUME NEW w \in Loggers, EndSet(w)
      PROVE  LogTypes'
  <2>1. call[w].new \in Sinks
    OBVIOUS
  <2> QED BY <1>3, <1>a, <2>1 DEF EndSet, Remember
<1>4. ASSUME NEW w \in Loggers, ClearFirst(w)
      PROVE  LogTypes'
  <2>1. [NoCall EXCEPT !.at = "clear"] \in Calls
    BY <1>a, <1>b DEF NoCall, CallSteps
  <2> QED BY <1>4, <1>a, <2>1 DEF ClearFirst
<1>5. ASSUME NEW w \in Loggers, ClearSecond(w)
      PROVE  LogTypes'
  BY <1>5, <1>a DEF ClearSecond
<1>6. ASSUME NEW w \in Loggers, NEW l \in LogLevels, SetLevel(w, l)
      PROVE  LogTypes'
  BY <1>6 DEF SetLevel
<1>7. ASSUME NEW w \in Loggers, NEW l \in LogLevels, BeginLog(w, l)
      PROVE  LogTypes'
  <2>1. [NoCall EXCEPT !.at = "record", !.level = l] \in Calls
    BY <1>a, <1>b DEF NoCall, CallSteps
  <2> QED BY <1>7, <1>a, <2>1 DEF BeginLog
<1>8. ASSUME NEW w \in Loggers, ReadRecordSink(w)
      PROVE  LogTypes'
  BY <1>8 DEF ReadRecordSink, CallSteps
<1>9. ASSUME NEW w \in Loggers, ReadSink(w)
      PROVE  LogTypes'
  <2>1. CASE sink = NoSink
    BY <1>9, <1>a, <2>1 DEF ReadSink
  <2>2. CASE sink # NoSink
    BY <1>9, <2>2 DEF ReadSink, CallSteps
  <2> QED BY <2>1, <2>2
<1>10. ASSUME NEW w \in Loggers, NEW n \in Lengths, Deliver(w, n)
       PROVE  LogTypes'
  <2>1. call' \in [Loggers -> Calls]
    BY <1>10, <1>a DEF Deliver
  <2> DEFINE e == [sink |-> IF call[w].record # NoSink THEN call[w].record ELSE call[w].legacy,
                   length |-> IF Truncated(n) THEN LogBuffer - 1 ELSE n,
                   truncated |-> Truncated(n)]
  <2>2. e \in Events
    BY DEF Truncated, LogBuffer
  <2>3. delivered' \in [Loggers -> Events]
    <3> HIDE DEF e
    <3> QED BY <1>10, <2>2 DEF Deliver, e
  <2> QED BY <1>10, <2>1, <2>3 DEF Deliver
<1> QED
  BY <1>1, <1>2, <1>3, <1>4, <1>5, <1>6, <1>7, <1>8, <1>9, <1>10 DEF LogNext

\* While one thread configures, no other setter is between its two stores.
LEMMA SettersAlone ==
    ASSUME OneConfigurer, LogTypes, SettersClear,
           NEW w \in Loggers, w \in Configurers,
           NEW v \in Loggers, v # w
    PROVE  call[v].at \notin {"set", "clear"}
  BY DEF OneConfigurer, SettersClear

\* Each step keeps the slots exclusive and every event with an installed sink.
LEMMA LogStep ==
    ASSUME OneConfigurer, LogInv, [LogNext]_logVars
    PROVE  (SettersClear /\ ReadsInstalled /\ DeliverySound)'
<1> DEFINE Rest == SettersClear /\ ReadsInstalled /\ DeliverySound
<1> USE SinksAssumption, LengthsAssumption
        DEF LogInv, LogTypes, SettersClear, ReadsInstalled, DeliverySound, OneKindActive,
            DeliveredToInstalled
<1>1. CASE UNCHANGED logVars
  BY <1>1 DEF logVars
<1>2. ASSUME NEW w \in Loggers, NEW s \in LegacySinks \union RecordSinks, BeginSet(w, s)
      PROVE  Rest'
  <2>1. /\ call[w].at = "idle" /\ w \in Configurers
        /\ \A v \in Loggers : v # w => call[v].at \notin {"set", "clear"}
    BY <1>2, SettersAlone DEF BeginSet
  <2>2. /\ call'[w].at = "set" /\ call'[w].new = s
        /\ call'[w].record = NoSink /\ call'[w].legacy = NoSink
        /\ \A v \in Loggers : v # w => call'[v] = call[v]
    BY <1>2 DEF BeginSet, NoCall
  <2>3. IF s \in LegacySinks THEN record_sink' = NoSink /\ sink' = sink
                             ELSE sink' = NoSink /\ record_sink' = record_sink
    BY <1>2 DEF BeginSet
  <2>4. installed' = installed /\ delivered' = delivered
    BY <1>2 DEF BeginSet
  <2> QED BY SMTT(30), <2>1, <2>2, <2>3, <2>4
<1>3. ASSUME NEW w \in Loggers, EndSet(w)
      PROVE  Rest'
  <2>1. /\ call[w].at = "set" /\ w \in Configurers
        /\ \A v \in Loggers : v # w => call[v].at \notin {"set", "clear"}
    BY <1>3, SettersAlone DEF EndSet
  <2>2. /\ call'[w] = NoCall
        /\ \A v \in Loggers : v # w => call'[v] = call[v]
    BY <1>3 DEF EndSet
  <2>3. IF call[w].new \in LegacySinks THEN sink' = call[w].new /\ record_sink' = record_sink
                             ELSE record_sink' = call[w].new /\ sink' = sink
    BY <1>3 DEF EndSet
  <2>4. delivered' = delivered /\ \A v \in Loggers : installed'[v] = installed[v] \union {call[w].new}
    BY <1>3 DEF EndSet, Remember
  <2>5. SettersClear'
    BY <2>1, <2>2, <2>3 DEF NoCall
  <2>6. ReadsInstalled'
    BY <2>1, <2>2, <2>3, <2>4 DEF NoCall
  <2>7. DeliverySound'
    BY <2>1, <2>3, <2>4
  <2> QED BY <2>5, <2>6, <2>7
<1>4. ASSUME NEW w \in Loggers, ClearFirst(w)
      PROVE  Rest'
  <2>1. /\ call[w].at = "idle" /\ w \in Configurers
        /\ \A v \in Loggers : v # w => call[v].at \notin {"set", "clear"}
    BY <1>4, SettersAlone DEF ClearFirst
  <2>2. /\ call'[w].at = "clear"
        /\ call'[w].record = NoSink /\ call'[w].legacy = NoSink
        /\ \A v \in Loggers : v # w => call'[v] = call[v]
    BY <1>4 DEF ClearFirst, NoCall
  <2>3. record_sink' = NoSink /\ sink' = sink /\ installed' = installed /\ delivered' = delivered
    BY <1>4 DEF ClearFirst
  <2> QED BY SMTT(30), <2>1, <2>2, <2>3
<1>5. ASSUME NEW w \in Loggers, ClearSecond(w)
      PROVE  Rest'
  <2>1. /\ call[w].at = "clear" /\ w \in Configurers
        /\ \A v \in Loggers : v # w => call[v].at \notin {"set", "clear"}
    BY <1>5, SettersAlone DEF ClearSecond
  <2>2. /\ call'[w] = NoCall
        /\ \A v \in Loggers : v # w => call'[v] = call[v]
    BY <1>5 DEF ClearSecond
  <2>3. sink' = NoSink /\ record_sink' = record_sink /\ installed' = installed
        /\ delivered' = delivered
    BY <1>5 DEF ClearSecond
  <2>4. call'[w].at = "idle" /\ call'[w].record = NoSink /\ call'[w].legacy = NoSink
    BY <2>2 DEF NoCall
  <2>5. SettersClear'
    BY <2>1, <2>2, <2>3, <2>4
  <2>6. ReadsInstalled'
    BY <2>2, <2>3, <2>4
  <2> QED BY <2>3, <2>5, <2>6
<1>6. ASSUME NEW w \in Loggers, NEW l \in LogLevels, SetLevel(w, l)
      PROVE  Rest'
  BY <1>6 DEF SetLevel
<1>7. ASSUME NEW w \in Loggers, NEW l \in LogLevels, BeginLog(w, l)
      PROVE  Rest'
  <2>1. /\ call'[w].at = "record"
        /\ call'[w].record = NoSink /\ call'[w].legacy = NoSink
        /\ \A v \in Loggers : v # w => call'[v] = call[v]
    BY <1>7 DEF BeginLog, NoCall
  <2>2. /\ installed'[w] = {sink, record_sink} /\ delivered'[w] = Nothing
        /\ \A v \in Loggers : v # w => installed'[v] = installed[v] /\ delivered'[v] = delivered[v]
        /\ sink' = sink /\ record_sink' = record_sink
    BY <1>7 DEF BeginLog
  <2> QED BY SMTT(30), <2>1, <2>2
<1>8. ASSUME NEW w \in Loggers, ReadRecordSink(w)
      PROVE  Rest'
  <2>1. /\ call[w].at = "record"
        /\ call'[w].record = record_sink /\ call'[w].legacy = call[w].legacy
        /\ call'[w].at = IF record_sink = NoSink THEN "legacy" ELSE "format"
        /\ \A v \in Loggers : v # w => call'[v] = call[v]
    BY <1>8 DEF ReadRecordSink
  <2>2. sink' = sink /\ record_sink' = record_sink /\ installed' = installed
        /\ delivered' = delivered
    BY <1>8 DEF ReadRecordSink
  <2>3. record_sink \in installed[w] \union {NoSink}
    OBVIOUS
  <2>4. SettersClear'
    BY <2>1, <2>2
  <2>5. ReadsInstalled'
    BY <2>1, <2>2, <2>3
  <2> QED BY <2>2, <2>4, <2>5
<1>9. ASSUME NEW w \in Loggers, ReadSink(w)
      PROVE  Rest'
  <2>2. sink' = sink /\ record_sink' = record_sink /\ installed' = installed
        /\ delivered' = delivered
    BY <1>9 DEF ReadSink
  <2>3. CASE sink = NoSink
    BY <1>9, <2>2, <2>3 DEF ReadSink, NoCall
  <2>4. CASE sink # NoSink
    <3>1. /\ call'[w].record = call[w].record /\ call'[w].legacy = sink
          /\ call'[w].at = "format"
          /\ \A v \in Loggers : v # w => call'[v] = call[v]
      BY <1>9, <2>4 DEF ReadSink
    <3>2. SettersClear'
      BY <3>1, <2>2
    <3>3. ReadsInstalled'
      BY <3>1, <2>2, <2>4
    <3> QED BY <2>2, <3>2, <3>3
  <2> QED BY <2>3, <2>4
<1>10. ASSUME NEW w \in Loggers, NEW n \in Lengths, Deliver(w, n)
       PROVE  Rest'
  <2>1. /\ call[w].at = "format" /\ call'[w] = NoCall
        /\ \A v \in Loggers : v # w => call'[v] = call[v]
    BY <1>10 DEF Deliver
  <2>2. sink' = sink /\ record_sink' = record_sink /\ installed' = installed
    BY <1>10 DEF Deliver
  <2>a. call'[w].at = "idle" /\ call'[w].record = NoSink /\ call'[w].legacy = NoSink
    BY <2>1 DEF NoCall
  <2>b. SettersClear'
    BY <2>1, <2>2, <2>a
  <2>c. ReadsInstalled'
    BY <2>1, <2>2, <2>a
  <2>3. SettersClear' /\ ReadsInstalled' /\ OneKindActive'
    BY <2>2, <2>b, <2>c
  <2>4. DeliveredToInstalled'
    <3>1. CASE n < 0
      BY <1>10, <2>2, <3>1 DEF Deliver
    <3>2. CASE ~(n < 0)
      <4>1. \A v \in Loggers : v # w => delivered'[v] = delivered[v]
        BY <1>10, <3>2 DEF Deliver
      <4>2. delivered'[w].sink \in installed[w] \ {NoSink}
        BY <1>10, <3>2, <2>1 DEF Deliver
      <4>3. n \in Int /\ delivered'[w].length = IF Truncated(n) THEN LogBuffer - 1 ELSE n
        BY <1>10, <3>2 DEF Deliver
      <4>4. delivered'[w].length < LogBuffer
        BY <4>3 DEF Truncated, LogBuffer
      <4> QED BY <2>2, <4>1, <4>2, <4>4
    <3> QED BY <3>1, <3>2
  <2> QED BY <2>3, <2>4
<1> QED
  BY <1>1, <1>2, <1>3, <1>4, <1>5, <1>6, <1>7, <1>8, <1>9, <1>10 DEF LogNext

\* While one thread calls the setters of Util/Log.h, whatever the others log and
\* however their two reads fall between the setter's two stores, one kind of sink
\* is installed at a time and every event goes to a sink that was installed in
\* its time, with a length that leaves room for the final NUL.
THEOREM DeliveryStaysSound ==
    ASSUME OneConfigurer
    PROVE  LogSpec => []DeliverySound
<1>1. LogInit => LogInv
  BY LogTypesInit DEF LogInit, LogInv, SettersClear, ReadsInstalled, DeliverySound,
     OneKindActive, DeliveredToInstalled, NoCall
<1>2. LogInv /\ [LogNext]_logVars => LogInv'
  BY LogTypesStep, LogStep DEF LogInv
<1>3. LogInv => DeliverySound
  BY DEF LogInv
<1> QED
  BY <1>1, <1>2, <1>3, PTL DEF LogSpec

-----------------------------------------------------------------------------
(***************************************************************************)
(* Counting the variables that point to a block.                           *)
(***************************************************************************)
LEMMA VarsCounted ==
    ASSUME NEW S, IsFiniteSet(S), NEW p, NEW b
    PROVE  /\ IsFiniteSet(VarsAt(p, S, b))
           /\ Cardinality(VarsAt(p, S, b)) \in Nat
           /\ VarsAt(p, S, b) = {} <=> Cardinality(VarsAt(p, S, b)) = 0
<1>1. VarsAt(p, S, b) \subseteq S
  BY DEF VarsAt
<1>2. IsFiniteSet(VarsAt(p, S, b))
  BY <1>1, FS_Subset
<1> QED BY <1>2, FS_CardinalityType, FS_EmptySet

\* A variable that comes to point to b adds one to what points to b.
LEMMA VarsGain ==
    ASSUME NEW S, IsFiniteSet(S), NEW p, NEW q, NEW b, NEW x \in S,
           p[x] # b, q[x] = b, \A y \in S : y # x => q[y] = p[y]
    PROVE  Cardinality(VarsAt(q, S, b)) = Cardinality(VarsAt(p, S, b)) + 1
<1>1. VarsAt(q, S, b) = VarsAt(p, S, b) \union {x} /\ x \notin VarsAt(p, S, b)
  BY DEF VarsAt
<1>2. IsFiniteSet(VarsAt(p, S, b))
  BY VarsCounted
<1> QED BY <1>1, <1>2, FS_AddElement

LEMMA VarsKeep ==
    ASSUME NEW S, NEW p, NEW q, NEW b, \A y \in S : q[y] = b <=> p[y] = b
    PROVE  VarsAt(q, S, b) = VarsAt(p, S, b)
  BY DEF VarsAt

\* A null variable is pointed to c; a variable is cleared.
LEMMA VarsPoint ==
    ASSUME NEW S, IsFiniteSet(S), NEW p, NEW q, NEW x \in S, NEW b,
           q[x] # p[x], p[x] # b, \A y \in S : y # x => q[y] = p[y]
    PROVE  Cardinality(VarsAt(q, S, b)) =
             Cardinality(VarsAt(p, S, b)) + IF b = q[x] THEN 1 ELSE 0
<1>0. Cardinality(VarsAt(p, S, b)) \in Nat
  BY VarsCounted
<1>1. CASE b = q[x]
  <2>1. Cardinality(VarsAt(q, S, b)) = Cardinality(VarsAt(p, S, b)) + 1
    BY <1>1, VarsGain
  <2> QED BY ONLY <1>1, <2>1
<1>2. CASE b # q[x]
  <2>1. VarsAt(q, S, b) = VarsAt(p, S, b)
    BY <1>2, VarsKeep
  <2> QED BY ONLY <1>0, <1>2, <2>1
<1> QED BY <1>1, <1>2

LEMMA VarsClear ==
    ASSUME NEW S, IsFiniteSet(S), NEW p, NEW q, NEW x \in S, NEW b,
           q[x] # p[x], q[x] # b, \A y \in S : y # x => q[y] = p[y]
    PROVE  Cardinality(VarsAt(q, S, b)) =
             Cardinality(VarsAt(p, S, b)) - IF b = p[x] THEN 1 ELSE 0
<1>0. Cardinality(VarsAt(q, S, b)) \in Nat
  BY VarsCounted
<1>1. Cardinality(VarsAt(p, S, b)) =
        Cardinality(VarsAt(q, S, b)) + IF b = p[x] THEN 1 ELSE 0
  BY VarsPoint
<1> QED BY ONLY <1>0, <1>1

\* A variable that points to b is counted.
LEMMA VarsHold ==
    ASSUME NEW S, IsFiniteSet(S), NEW p, NEW x \in S
    PROVE  Cardinality(VarsAt(p, S, p[x])) > 0
<1>1. VarsAt(p, S, p[x]) # {}
  BY DEF VarsAt
<1>2. /\ Cardinality(VarsAt(p, S, p[x])) \in Nat
      /\ VarsAt(p, S, p[x]) = {} <=> Cardinality(VarsAt(p, S, p[x])) = 0
  BY VarsCounted
<1> QED BY ONLY <1>1, <1>2

-----------------------------------------------------------------------------
(***************************************************************************)
(* What the invariant says where an operation begins.                      *)
(***************************************************************************)
LEMMA CountTypes ==
    ASSUME SharedInv, NEW b \in Blocks
    PROVE  /\ Cardinality(VarsAt(ptr, Strongs, b)) \in Nat
           /\ Cardinality(VarsAt(ptr, Weaks, b)) \in Nat
           /\ block[b].strongs \in Nat /\ block[b].weaks \in Nat
  BY VarsCounted, PointersAssumption DEF SharedInv, SharedTypes

\* A worker inside reset(), or between its halves, has no strong variable left.
LEMMA StepsBare ==
    ASSUME SharedInv, NEW u \in Workers, step[u].at \in {"reset", "destroy", "free"}
    PROVE  step[u].block \in Blocks /\ Cardinality(VarsAt(ptr, Strongs, step[u].block)) = 0
<1> DEFINE b == step[u].block
           n == Cardinality(VarsAt(ptr, Strongs, b))
<1>1. b \in Blocks
  BY DEF SharedInv, StepsApart, Apart
<1>2. n \in Nat /\ block[b].strongs = n + IF Releasing(b) THEN 1 ELSE 0
  BY <1>1, CountTypes DEF SharedInv, CountsExact, Exact
<1>3. IF step[u].at = "reset" THEN block[b].strongs = 1 ELSE block[b].strongs = 0
  BY DEF SharedInv, StepsApart, Apart
<1>4. step[u].at = "reset" => Releasing(b)
  BY DEF Releasing
<1>5. n = 0
  <2> HIDE DEF n, b
  <2> QED BY <1>2, <1>3, <1>4
<1> QED BY <1>1, <1>5

\* A SharedPtr's block: counted, live, and no worker is on its way to free it.
LEMMA StrongHeld ==
    ASSUME SharedInv, NEW x \in Strongs, ptr[x] # NoBlock
    PROVE  /\ ptr[x] \in Blocks
           /\ block[ptr[x]].strongs > 0 /\ block[ptr[x]].live
           /\ block[ptr[x]].strongs = Cardinality(VarsAt(ptr, Strongs, ptr[x]))
           /\ ~Releasing(ptr[x])
           /\ \A u \in Workers : step[u].block = ptr[x] => step[u].at \in WeakSteps
<1> DEFINE b == ptr[x]
<1>1. b \in Blocks
  BY DEF SharedInv, SharedTypes
<1>2. Cardinality(VarsAt(ptr, Strongs, b)) > 0
  BY VarsHold, PointersAssumption
<1>3. \A u \in Workers : step[u].block = b => step[u].at \in WeakSteps
  <2>1. ASSUME NEW u \in Workers, step[u].block = b, step[u].at \notin WeakSteps
        PROVE  FALSE
    <3>1. step[u].at # "idle"
      BY <1>1, <2>1, PointersAssumption DEF SharedInv, StepsApart, Apart, Idle
    <3>2. step[u].at \in {"reset", "destroy", "free"}
      BY <2>1, <3>1 DEF SharedInv, SharedTypes, PtrSteps, WeakSteps
    <3>3. Cardinality(VarsAt(ptr, Strongs, b)) = 0
      BY <2>1, <3>2, StepsBare
    <3> QED BY ONLY <1>2, <3>3
  <2> QED BY <2>1
<1>4. ~Releasing(b)
  BY <1>3 DEF Releasing, WeakSteps
<1>5. block[b].strongs = Cardinality(VarsAt(ptr, Strongs, b))
  BY <1>1, <1>4, CountTypes DEF SharedInv, CountsExact, Exact
<1>6. block[b].live
  BY <1>1, <1>2, <1>5 DEF SharedInv, LiveWhileUsed, Lives
<1> QED BY <1>1, <1>2, <1>3, <1>4, <1>5, <1>6

LEMMA WeakHeld ==
    ASSUME SharedInv, NEW x \in Weaks, ptr[x] # NoBlock
    PROVE  /\ ptr[x] \in Blocks
           /\ block[ptr[x]].weaks > 0 /\ block[ptr[x]].live
           /\ block[ptr[x]].weaks = Cardinality(VarsAt(ptr, Weaks, ptr[x]))
<1>1. ptr[x] \in Blocks
  BY DEF SharedInv, SharedTypes
<1>2. Cardinality(VarsAt(ptr, Weaks, ptr[x])) > 0
  BY VarsHold, PointersAssumption
<1>3. block[ptr[x]].weaks = Cardinality(VarsAt(ptr, Weaks, ptr[x]))
  BY <1>1 DEF SharedInv, CountsExact, Exact
<1> QED BY <1>1, <1>2, <1>3 DEF SharedInv, LiveWhileUsed, Lives

\* Beginning an operation: who else may be inside one.
LEMMA Begins ==
    ASSUME SharedInv, Serialized, NEW w \in Workers, NEW weak \in BOOLEAN, MayBegin(w, weak)
    PROVE  /\ step[w] = Idle
           /\ \A u \in Workers : step[u].at \notin WeakSteps
           /\ weak => \A u \in Workers : step[u] = Idle
  BY DEF MayBegin

\* What storing to one variable does to the two counts: a null one is pointed to a
\* block, or one is cleared.
LEMMA StrongPointed ==
    ASSUME SharedInv, NEW x \in Strongs, NEW c \in Blocks, ptr[x] = NoBlock,
           ptr' = [ptr EXCEPT ![x] = c]
    PROVE  /\ ptr' \in [Strongs \union Weaks -> Blocks \union {NoBlock}]
           /\ \A b \in Blocks :
                /\ Cardinality(VarsAt(ptr', Strongs, b)) =
                     Cardinality(VarsAt(ptr, Strongs, b)) + IF b = c THEN 1 ELSE 0
                /\ Cardinality(VarsAt(ptr', Weaks, b)) = Cardinality(VarsAt(ptr, Weaks, b))
<1> USE PointersAssumption
<1>1. ptr' \in [Strongs \union Weaks -> Blocks \union {NoBlock}]
  BY DEF SharedInv, SharedTypes
<1> DEFINE q == ptr'
<1>2. /\ q[x] = c /\ q[x] # ptr[x]
      /\ \A y \in Strongs : y # x => q[y] = ptr[y]
      /\ \A y \in Weaks : q[y] = ptr[y]
      /\ IsFiniteSet(Strongs)
  BY DEF SharedInv, SharedTypes
<1> HIDE DEF q
<1>3. ASSUME NEW b \in Blocks
      PROVE  Cardinality(VarsAt(q, Strongs, b)) =
               Cardinality(VarsAt(ptr, Strongs, b)) + IF b = c THEN 1 ELSE 0
  <2>1. ptr[x] # b
    BY <1>2
  <2>2. Cardinality(VarsAt(q, Strongs, b)) =
          Cardinality(VarsAt(ptr, Strongs, b)) + IF b = q[x] THEN 1 ELSE 0
    BY ONLY <1>2, <2>1, VarsPoint
  <2> QED BY ONLY <1>2, <2>2
<1>4. ASSUME NEW b \in Blocks
      PROVE  Cardinality(VarsAt(q, Weaks, b)) = Cardinality(VarsAt(ptr, Weaks, b))
  BY <1>2, VarsKeep
<1> QED BY <1>1, <1>3, <1>4 DEF q

LEMMA StrongCleared ==
    ASSUME SharedInv, NEW x \in Strongs, ptr[x] # NoBlock, ptr' = [ptr EXCEPT ![x] = NoBlock]
    PROVE  /\ ptr' \in [Strongs \union Weaks -> Blocks \union {NoBlock}]
           /\ \A b \in Blocks :
                /\ Cardinality(VarsAt(ptr', Strongs, b)) =
                     Cardinality(VarsAt(ptr, Strongs, b)) - IF b = ptr[x] THEN 1 ELSE 0
                /\ Cardinality(VarsAt(ptr', Weaks, b)) = Cardinality(VarsAt(ptr, Weaks, b))
<1> USE PointersAssumption
<1>1. ptr' \in [Strongs \union Weaks -> Blocks \union {NoBlock}]
  BY DEF SharedInv, SharedTypes
<1> DEFINE q == ptr'
<1>2. /\ q[x] = NoBlock /\ q[x] # ptr[x]
      /\ \A y \in Strongs : y # x => q[y] = ptr[y]
      /\ \A y \in Weaks : q[y] = ptr[y]
      /\ IsFiniteSet(Strongs)
  BY DEF SharedInv, SharedTypes
<1> HIDE DEF q
<1>3. ASSUME NEW b \in Blocks
      PROVE  Cardinality(VarsAt(q, Strongs, b)) =
               Cardinality(VarsAt(ptr, Strongs, b)) - IF b = ptr[x] THEN 1 ELSE 0
  <2>1. q[x] # b
    BY <1>2
  <2>2. Cardinality(VarsAt(q, Strongs, b)) =
          Cardinality(VarsAt(ptr, Strongs, b)) - IF b = ptr[x] THEN 1 ELSE 0
    BY ONLY <1>2, <2>1, VarsClear
  <2> QED BY ONLY <1>2, <2>2
<1>4. ASSUME NEW b \in Blocks
      PROVE  Cardinality(VarsAt(q, Weaks, b)) = Cardinality(VarsAt(ptr, Weaks, b))
  BY <1>2, VarsKeep
<1> QED BY <1>1, <1>3, <1>4 DEF q

LEMMA WeakPointed ==
    ASSUME SharedInv, NEW x \in Weaks, NEW c \in Blocks, ptr[x] = NoBlock,
           ptr' = [ptr EXCEPT ![x] = c]
    PROVE  /\ ptr' \in [Strongs \union Weaks -> Blocks \union {NoBlock}]
           /\ \A b \in Blocks :
                /\ Cardinality(VarsAt(ptr', Weaks, b)) =
                     Cardinality(VarsAt(ptr, Weaks, b)) + IF b = c THEN 1 ELSE 0
                /\ Cardinality(VarsAt(ptr', Strongs, b)) = Cardinality(VarsAt(ptr, Strongs, b))
<1> USE PointersAssumption
<1>1. ptr' \in [Strongs \union Weaks -> Blocks \union {NoBlock}]
  BY DEF SharedInv, SharedTypes
<1> DEFINE q == ptr'
<1>2. /\ q[x] = c /\ q[x] # ptr[x]
      /\ \A y \in Weaks : y # x => q[y] = ptr[y]
      /\ \A y \in Strongs : q[y] = ptr[y]
      /\ IsFiniteSet(Weaks)
  BY DEF SharedInv, SharedTypes
<1> HIDE DEF q
<1>3. ASSUME NEW b \in Blocks
      PROVE  Cardinality(VarsAt(q, Weaks, b)) =
               Cardinality(VarsAt(ptr, Weaks, b)) + IF b = c THEN 1 ELSE 0
  <2>1. ptr[x] # b
    BY <1>2
  <2>2. Cardinality(VarsAt(q, Weaks, b)) =
          Cardinality(VarsAt(ptr, Weaks, b)) + IF b = q[x] THEN 1 ELSE 0
    BY ONLY <1>2, <2>1, VarsPoint
  <2> QED BY ONLY <1>2, <2>2
<1>4. ASSUME NEW b \in Blocks
      PROVE  Cardinality(VarsAt(q, Strongs, b)) = Cardinality(VarsAt(ptr, Strongs, b))
  BY <1>2, VarsKeep
<1> QED BY <1>1, <1>3, <1>4 DEF q

LEMMA WeakCleared ==
    ASSUME SharedInv, NEW x \in Weaks, ptr[x] # NoBlock, ptr' = [ptr EXCEPT ![x] = NoBlock]
    PROVE  /\ ptr' \in [Strongs \union Weaks -> Blocks \union {NoBlock}]
           /\ \A b \in Blocks :
                /\ Cardinality(VarsAt(ptr', Weaks, b)) =
                     Cardinality(VarsAt(ptr, Weaks, b)) - IF b = ptr[x] THEN 1 ELSE 0
                /\ Cardinality(VarsAt(ptr', Strongs, b)) = Cardinality(VarsAt(ptr, Strongs, b))
<1> USE PointersAssumption
<1>1. ptr' \in [Strongs \union Weaks -> Blocks \union {NoBlock}]
  BY DEF SharedInv, SharedTypes
<1> DEFINE q == ptr'
<1>2. /\ q[x] = NoBlock /\ q[x] # ptr[x]
      /\ \A y \in Weaks : y # x => q[y] = ptr[y]
      /\ \A y \in Strongs : q[y] = ptr[y]
      /\ IsFiniteSet(Weaks)
  BY DEF SharedInv, SharedTypes
<1> HIDE DEF q
<1>3. ASSUME NEW b \in Blocks
      PROVE  Cardinality(VarsAt(q, Weaks, b)) =
               Cardinality(VarsAt(ptr, Weaks, b)) - IF b = ptr[x] THEN 1 ELSE 0
  <2>1. q[x] # b
    BY <1>2
  <2>2. Cardinality(VarsAt(q, Weaks, b)) =
          Cardinality(VarsAt(ptr, Weaks, b)) - IF b = ptr[x] THEN 1 ELSE 0
    BY ONLY <1>2, <2>1, VarsClear
  <2> QED BY ONLY <1>2, <2>2
<1>4. ASSUME NEW b \in Blocks
      PROVE  Cardinality(VarsAt(q, Strongs, b)) = Cardinality(VarsAt(ptr, Strongs, b))
  BY <1>2, VarsKeep
<1> QED BY <1>1, <1>3, <1>4 DEF q

\* What a store to one field of a control block changes.
BlockTypes == [strongs : Nat, weaks : Nat, object : {"none", "owned", "destroyed"},
               live : BOOLEAN]

LEMMA StrongsStored ==
    ASSUME SharedTypes, NEW b \in Blocks, NEW n \in Nat,
           block' = [block EXCEPT ![b].strongs = n]
    PROVE  /\ block' \in [Blocks -> BlockTypes]
           /\ block'[b].strongs = n /\ block'[b].weaks = block[b].weaks
           /\ block'[b].object = block[b].object /\ block'[b].live = block[b].live
           /\ \A c \in Blocks : c # b => block'[c] = block[c]
<1>1. block \in [Blocks -> BlockTypes]
  BY DEF SharedTypes, BlockTypes
<1>2. block'[b] = [block[b] EXCEPT !.strongs = n] /\ \A c \in Blocks : c # b => block'[c] = block[c]
  BY <1>1
<1>3. block[b] \in BlockTypes
  BY <1>1
<1>4. [block[b] EXCEPT !.strongs = n] \in BlockTypes
  BY <1>3 DEF BlockTypes
<1>5. block' \in [Blocks -> BlockTypes]
  BY <1>1, <1>4
<1> QED BY <1>2, <1>3, <1>5 DEF BlockTypes

LEMMA WeaksStored ==
    ASSUME SharedTypes, NEW b \in Blocks, NEW n \in Nat,
           block' = [block EXCEPT ![b].weaks = n]
    PROVE  /\ block' \in [Blocks -> BlockTypes]
           /\ block'[b].strongs = block[b].strongs /\ block'[b].weaks = n
           /\ block'[b].object = block[b].object /\ block'[b].live = block[b].live
           /\ \A c \in Blocks : c # b => block'[c] = block[c]
<1>1. block \in [Blocks -> BlockTypes]
  BY DEF SharedTypes, BlockTypes
<1>2. block'[b] = [block[b] EXCEPT !.weaks = n] /\ \A c \in Blocks : c # b => block'[c] = block[c]
  BY <1>1
<1>3. block[b] \in BlockTypes
  BY <1>1
<1>4. [block[b] EXCEPT !.weaks = n] \in BlockTypes
  BY <1>3 DEF BlockTypes
<1>5. block' \in [Blocks -> BlockTypes]
  BY <1>1, <1>4
<1> QED BY <1>2, <1>3, <1>5 DEF BlockTypes

LEMMA ObjectStored ==
    ASSUME SharedTypes, NEW b \in Blocks, NEW n \in {"none", "owned", "destroyed"},
           block' = [block EXCEPT ![b].object = n]
    PROVE  /\ block' \in [Blocks -> BlockTypes]
           /\ block'[b].strongs = block[b].strongs /\ block'[b].weaks = block[b].weaks
           /\ block'[b].object = n /\ block'[b].live = block[b].live
           /\ \A c \in Blocks : c # b => block'[c] = block[c]
<1>1. block \in [Blocks -> BlockTypes]
  BY DEF SharedTypes, BlockTypes
<1>2. block'[b] = [block[b] EXCEPT !.object = n] /\ \A c \in Blocks : c # b => block'[c] = block[c]
  BY <1>1
<1>3. block[b] \in BlockTypes
  BY <1>1
<1>4. [block[b] EXCEPT !.object = n] \in BlockTypes
  BY <1>3 DEF BlockTypes
<1>5. block' \in [Blocks -> BlockTypes]
  BY <1>1, <1>4
<1> QED BY <1>2, <1>3, <1>5 DEF BlockTypes

LEMMA LiveStored ==
    ASSUME SharedTypes, NEW b \in Blocks, NEW n \in BOOLEAN,
           block' = [block EXCEPT ![b].live = n]
    PROVE  /\ block' \in [Blocks -> BlockTypes]
           /\ block'[b].strongs = block[b].strongs /\ block'[b].weaks = block[b].weaks
           /\ block'[b].object = block[b].object /\ block'[b].live = n
           /\ \A c \in Blocks : c # b => block'[c] = block[c]
<1>1. block \in [Blocks -> BlockTypes]
  BY DEF SharedTypes, BlockTypes
<1>2. block'[b] = [block[b] EXCEPT !.live = n] /\ \A c \in Blocks : c # b => block'[c] = block[c]
  BY <1>1
<1>3. block[b] \in BlockTypes
  BY <1>1
<1>4. [block[b] EXCEPT !.live = n] \in BlockTypes
  BY <1>3 DEF BlockTypes
<1>5. block' \in [Blocks -> BlockTypes]
  BY <1>1, <1>4
<1> QED BY <1>2, <1>3, <1>5 DEF BlockTypes

\* What an operation does not touch stays as it was.
LEMMA ExactKept ==
    ASSUME CountsExact, NEW c \in Blocks, block'[c].strongs = block[c].strongs,
           block'[c].weaks = block[c].weaks, Releasing(c)' <=> Releasing(c),
           Cardinality(VarsAt(ptr', Strongs, c)) = Cardinality(VarsAt(ptr, Strongs, c)),
           Cardinality(VarsAt(ptr', Weaks, c)) = Cardinality(VarsAt(ptr, Weaks, c))
    PROVE  Exact(c)'
  BY DEF CountsExact, Exact

LEMMA ApartKept ==
    ASSUME StepsApart, NEW u \in Workers, step'[u] = step[u], step[u].at \notin WeakSteps,
           step[u].at # "idle" => block'[step[u].block] = block[step[u].block],
           step[u].at # "idle" =>
               \A v \in Workers : step'[v].block = step[u].block => step[v].block = step[u].block
    PROVE  Apart(u)'
  BY DEF StepsApart, Apart, WeakSteps

LEMMA LivesKept ==
    ASSUME LiveWhileUsed, NEW c \in Blocks, block'[c] = block[c], past \subseteq past',
           (\E w \in Workers : step'[w].block = c) <=> \E w \in Workers : step[w].block = c
    PROVE  Lives(c)'
  BY DEF LiveWhileUsed, Lives

\* SharedPtr(p, d): a fresh block is nobody's.
LEMMA NewShared ==
    ASSUME SharedInv, Serialized, NEW w \in Workers, NEW x \in Strongs, NEW b \in Blocks,
           New(w, x, b)
    PROVE  SharedInv'
<1> USE PointersAssumption DEF SharedInv
<1>1. /\ \A u \in Workers : step[u].at \notin WeakSteps
      /\ ptr[x] = NoBlock /\ b \notin past
      /\ step' = step /\ past' = past \union {b}
  BY Begins DEF New
<1>2. /\ ~block[b].live /\ block[b].strongs = 0 /\ block[b].weaks = 0
      /\ \A u \in Workers : step[u].block # b
  BY <1>1, CountTypes DEF LiveWhileUsed, Lives
<1>3. /\ block' \in [Blocks -> BlockTypes]
      /\ block'[b].strongs = 1 /\ block'[b].weaks = 0
      /\ block'[b].object = "owned" /\ block'[b].live
      /\ \A c \in Blocks : c # b => block'[c] = block[c]
  BY DEF New, SharedTypes, BlockTypes
<1>4. /\ ptr' \in [Strongs \union Weaks -> Blocks \union {NoBlock}]
      /\ \A c \in Blocks :
           /\ Cardinality(VarsAt(ptr', Strongs, c)) = Cardinality(VarsAt(ptr, Strongs, c))
                + IF c = b THEN 1 ELSE 0
           /\ Cardinality(VarsAt(ptr', Weaks, c)) = Cardinality(VarsAt(ptr, Weaks, c))
  BY <1>1, StrongPointed DEF New
<1>5. \A c \in Blocks : Releasing(c)' <=> Releasing(c)
  BY <1>1 DEF Releasing
<1>6. SharedTypes'
  BY <1>1, <1>3, <1>4 DEF SharedTypes, BlockTypes
<1>7. CountsExact'
  <2>1. ASSUME NEW c \in Blocks, c # b PROVE Exact(c)'
    BY <1>3, <1>4, <1>5, <2>1, ExactKept, CountTypes
  <2>2. Exact(b)'
    <3>1. Exact(b) /\ ~Releasing(b)
      BY <1>2 DEF Releasing, CountsExact
    <3> QED BY <1>2, <1>3, <1>4, <1>5, <3>1, CountTypes DEF Exact
  <2> QED BY <2>1, <2>2 DEF CountsExact
<1>8. StepsApart'
  <2>1. ASSUME NEW u \in Workers PROVE Apart(u)'
    <3>1. step[u].at # "idle" => step[u].block \in Blocks
      BY DEF StepsApart, Apart
    <3> QED BY <1>1, <1>2, <1>3, <3>1, ApartKept
  <2> QED BY <2>1 DEF StepsApart
<1>9. WeakAlone'
  BY <1>1 DEF WeakAlone
<1>10. LiveWhileUsed'
  <2>1. ASSUME NEW c \in Blocks, c # b PROVE Lives(c)'
    BY <1>1, <1>3, <2>1, LivesKept
  <2>2. Lives(b)'
    BY <1>1, <1>3 DEF Lives
  <2> QED BY <2>1, <2>2 DEF LiveWhileUsed
<1> QED BY <1>6, <1>7, <1>8, <1>9, <1>10

LEMMA CopySharedKeeps ==
    ASSUME SharedInv, Serialized, NEW w \in Workers,
           NEW x \in Strongs \union Weaks, NEW y \in Strongs \union Weaks, CopyShared(w, x, y)
    PROVE  SharedInv'
<1> USE PointersAssumption DEF SharedInv
<1>0. PICK b \in Blocks : b = ptr[x]
  BY DEF CopyShared, SharedTypes
<1>1. /\ \A u \in Workers : step[u].at \notin WeakSteps
      /\ x \in Strongs /\ y \in Strongs /\ ptr[y] = NoBlock
      /\ step' = step /\ past' = past
      /\ ptr' = [ptr EXCEPT ![y] = b]
      /\ block' = [block EXCEPT ![b].strongs = block[b].strongs + 1]
  BY <1>0, Begins DEF CopyShared
<1>2. /\ b \in Blocks /\ block[b].strongs > 0 /\ block[b].live /\ ~Releasing(b)
      /\ \A u \in Workers : step[u].block # b
  BY <1>0, <1>1, StrongHeld
<1>3. /\ block' \in [Blocks -> BlockTypes]
      /\ block'[b].strongs = block[b].strongs + 1 /\ block'[b].weaks = block[b].weaks
      /\ block'[b].object = block[b].object /\ block'[b].live = block[b].live
      /\ \A c \in Blocks : c # b => block'[c] = block[c]
  <2>1. block[b].strongs + 1 \in Nat
    BY <1>2, CountTypes
  <2> QED BY <1>1, <1>2, <2>1, StrongsStored
<1>4. /\ ptr' \in [Strongs \union Weaks -> Blocks \union {NoBlock}]
      /\ \A c \in Blocks :
           /\ Cardinality(VarsAt(ptr', Strongs, c)) = Cardinality(VarsAt(ptr, Strongs, c))
                + IF c = b THEN 1 ELSE 0
           /\ Cardinality(VarsAt(ptr', Weaks, c)) = Cardinality(VarsAt(ptr, Weaks, c))
  BY <1>1, <1>2, StrongPointed
<1>5. \A c \in Blocks : Releasing(c)' <=> Releasing(c)
  BY <1>1 DEF Releasing
<1>6. SharedTypes'
  BY <1>1, <1>3, <1>4 DEF SharedTypes, BlockTypes
<1>7. CountsExact'
  <2>1. ASSUME NEW c \in Blocks, c # b PROVE Exact(c)'
    BY <1>3, <1>4, <1>5, <2>1, ExactKept, CountTypes
  <2>2. Exact(b)'
    <3>1. Exact(b)
      BY <1>2 DEF CountsExact
    <3> QED BY <1>2, <1>3, <1>4, <1>5, <3>1, CountTypes DEF Exact
  <2> QED BY <2>1, <2>2 DEF CountsExact
<1>8. StepsApart'
  <2>1. ASSUME NEW u \in Workers PROVE Apart(u)'
    <3>1. step[u].at # "idle" => step[u].block \in Blocks
      BY DEF StepsApart, Apart
    <3> QED BY <1>1, <1>2, <1>3, <3>1, ApartKept
  <2> QED BY <2>1 DEF StepsApart
<1>9. WeakAlone'
  BY <1>1 DEF WeakAlone
<1>10. LiveWhileUsed'
  <2>1. ASSUME NEW c \in Blocks, c # b PROVE Lives(c)'
    BY <1>1, <1>3, <2>1, LivesKept
  <2>2. Lives(b)'
    BY <1>1, <1>2, <1>3, CountTypes DEF Lives, LiveWhileUsed
  <2> QED BY <2>1, <2>2 DEF LiveWhileUsed
<1> QED BY <1>6, <1>7, <1>8, <1>9, <1>10

StepTypes == [at : PtrSteps, block : Blocks \union {NoBlock}, to : Strongs \union {NoBlock}]

LEMMA Continues ==
    ASSUME SharedTypes, NEW w \in Workers, NEW a \in PtrSteps, NEW b \in Blocks \union {NoBlock},
           NEW y \in Strongs \union {NoBlock}, Continue(w, a, b, y)
    PROVE  /\ step' \in [Workers -> StepTypes]
           /\ step'[w].at = a /\ step'[w].block = b /\ step'[w].to = y
           /\ \A u \in Workers : u # w => step'[u] = step[u]
  BY DEF Continue, SharedTypes, StepTypes

LEMMA Ends ==
    ASSUME SharedTypes, NEW w \in Workers, Done(w)
    PROVE  /\ step' \in [Workers -> StepTypes]
           /\ step'[w] = Idle
           /\ \A u \in Workers : u # w => step'[u] = step[u]
  BY DEF Done, SharedTypes, StepTypes, Idle, PtrSteps

LEMMA ApartIdle ==
    ASSUME NEW u \in Workers, step'[u] = Idle
    PROVE  Apart(u)'
  BY DEF Apart, Idle

\* Nobody is inside an operation on a block that has no worker.
LEMMA AllIdle ==
    ASSUME \A u \in Workers : step[u] = Idle, NEW b \in Blocks
    PROVE  ~Releasing(b) /\ \A u \in Workers : step[u].block # b
  BY PointersAssumption DEF Releasing, Idle

LEMMA CopyWeakKeeps ==
    ASSUME SharedInv, Serialized, NEW w \in Workers,
           NEW x \in Strongs \union Weaks, NEW y \in Strongs \union Weaks, CopyWeak(w, x, y)
    PROVE  SharedInv'
<1> USE PointersAssumption DEF SharedInv
<1>0. PICK b \in Blocks : b = ptr[x]
  BY DEF CopyWeak, SharedTypes
<1>1. /\ \A u \in Workers : step[u] = Idle
      /\ y \in Weaks /\ ptr[y] = NoBlock
      /\ step' = step /\ past' = past
      /\ ptr' = [ptr EXCEPT ![y] = b]
      /\ block' = [block EXCEPT ![b].weaks = block[b].weaks + 1]
  BY <1>0, Begins DEF CopyWeak
<1>2. block[b].live
  BY <1>0, StrongHeld, WeakHeld
<1>3. /\ block' \in [Blocks -> BlockTypes]
      /\ block'[b].strongs = block[b].strongs /\ block'[b].weaks = block[b].weaks + 1
      /\ block'[b].object = block[b].object /\ block'[b].live = block[b].live
      /\ \A c \in Blocks : c # b => block'[c] = block[c]
  <2>1. block[b].weaks + 1 \in Nat
    BY CountTypes
  <2> QED BY <1>1, <2>1, WeaksStored
<1>4. /\ ptr' \in [Strongs \union Weaks -> Blocks \union {NoBlock}]
      /\ \A c \in Blocks :
           /\ Cardinality(VarsAt(ptr', Weaks, c)) = Cardinality(VarsAt(ptr, Weaks, c))
                + IF c = b THEN 1 ELSE 0
           /\ Cardinality(VarsAt(ptr', Strongs, c)) = Cardinality(VarsAt(ptr, Strongs, c))
  BY <1>1, WeakPointed
<1>5. \A c \in Blocks : Releasing(c)' <=> Releasing(c)
  BY <1>1 DEF Releasing
<1>6. SharedTypes'
  BY <1>1, <1>3, <1>4 DEF SharedTypes, BlockTypes
<1>7. CountsExact'
  <2>1. ASSUME NEW c \in Blocks, c # b PROVE Exact(c)'
    BY <1>3, <1>4, <1>5, <2>1, ExactKept, CountTypes
  <2>2. Exact(b)'
    <3>1. Exact(b)
      BY DEF CountsExact
    <3> QED BY <1>3, <1>4, <1>5, <3>1, CountTypes DEF Exact
  <2> QED BY <2>1, <2>2 DEF CountsExact
<1>8. StepsApart'
  BY <1>1, ApartIdle DEF StepsApart
<1>9. WeakAlone'
  BY <1>1 DEF WeakAlone
<1>10. LiveWhileUsed'
  <2>1. ASSUME NEW c \in Blocks, c # b PROVE Lives(c)'
    BY <1>1, <1>3, <2>1, LivesKept
  <2>2. Lives(b)'
    BY <1>1, <1>2, <1>3, CountTypes DEF Lives, LiveWhileUsed
  <2> QED BY <2>1, <2>2 DEF LiveWhileUsed
<1> QED BY <1>6, <1>7, <1>8, <1>9, <1>10

\* reset(): the last strong variable goes, and its thread is left with the block.
LEMMA ResetKeeps ==
    ASSUME SharedInv, Serialized, NEW w \in Workers, NEW x \in Strongs, Reset(w, x)
    PROVE  SharedInv'
<1> USE PointersAssumption DEF SharedInv
<1>0. PICK b \in Blocks : b = ptr[x]
  BY DEF Reset, SharedTypes
<1>1. /\ \A u \in Workers : step[u].at \notin WeakSteps
      /\ step[w] = Idle /\ ptr[x] # NoBlock /\ past' = past
      /\ ptr' = [ptr EXCEPT ![x] = NoBlock]
      /\ block' = [block EXCEPT ![b].strongs = block[b].strongs - 1]
      /\ IF block[b].strongs = 1 THEN Continue(w, "destroy", b, NoBlock) ELSE Done(w)
  BY <1>0, Begins DEF Reset, Decrement
<1>2. /\ block[b].strongs > 0 /\ block[b].live /\ ~Releasing(b)
      /\ \A u \in Workers : step[u].block # b
  BY <1>0, <1>1, StrongHeld
<1>3. /\ block' \in [Blocks -> BlockTypes]
      /\ block'[b].strongs = block[b].strongs - 1 /\ block'[b].weaks = block[b].weaks
      /\ block'[b].object = block[b].object /\ block'[b].live = block[b].live
      /\ \A c \in Blocks : c # b => block'[c] = block[c]
  <2>1. block[b].strongs - 1 \in Nat
    BY <1>2, CountTypes
  <2> QED BY <1>1, <2>1, StrongsStored
<1>4. /\ ptr' \in [Strongs \union Weaks -> Blocks \union {NoBlock}]
      /\ \A c \in Blocks :
           /\ Cardinality(VarsAt(ptr', Strongs, c)) = Cardinality(VarsAt(ptr, Strongs, c))
                - IF c = b THEN 1 ELSE 0
           /\ Cardinality(VarsAt(ptr', Weaks, c)) = Cardinality(VarsAt(ptr, Weaks, c))
  BY <1>0, <1>1, StrongCleared
<1>5. /\ step' \in [Workers -> StepTypes]
      /\ \A u \in Workers : u # w => step'[u] = step[u]
      /\ \/ block[b].strongs = 1 /\ step'[w].at = "destroy" /\ step'[w].block = b
         \/ block[b].strongs # 1 /\ step'[w] = Idle
  <2>1. CASE block[b].strongs = 1
    BY <1>1, <2>1, Continues DEF PtrSteps
  <2>2. CASE block[b].strongs # 1
    BY <1>1, <2>2, Ends
  <2> QED BY <2>1, <2>2
<1>6. \A c \in Blocks : Releasing(c)' <=> Releasing(c)
  BY <1>1, <1>5 DEF Releasing, Idle
<1>7. SharedTypes'
  BY <1>1, <1>3, <1>4, <1>5 DEF SharedTypes, BlockTypes, StepTypes
<1>8. CountsExact'
  <2>1. ASSUME NEW c \in Blocks, c # b PROVE Exact(c)'
    BY <1>3, <1>4, <1>6, <2>1, ExactKept, CountTypes
  <2>2. Exact(b)'
    <3>1. Exact(b)
      BY DEF CountsExact
    <3> QED BY <1>2, <1>3, <1>4, <1>6, <3>1, CountTypes DEF Exact
  <2> QED BY <2>1, <2>2 DEF CountsExact
<1>9. StepsApart'
  <2>1. ASSUME NEW u \in Workers, u # w PROVE Apart(u)'
    <3>1. step[u].at # "idle" => step[u].block \in Blocks
      BY DEF StepsApart, Apart
    <3>2. step[u].at # "idle" =>
            \A v \in Workers : step'[v].block = step[u].block => step[v].block = step[u].block
      BY <1>2, <1>5, <3>1 DEF Idle
    <3> QED BY <1>1, <1>2, <1>3, <1>5, <2>1, <3>1, <3>2, ApartKept
  <2>2. Apart(w)'
    <3>1. CASE step'[w] = Idle
      BY <3>1, ApartIdle
    <3>2. CASE block[b].strongs = 1 /\ step'[w].at = "destroy" /\ step'[w].block = b
      BY <1>2, <1>3, <1>5, <3>2 DEF Apart
    <3> QED BY <1>5, <3>1, <3>2
  <2> QED BY <2>1, <2>2 DEF StepsApart
<1>10. WeakAlone'
  BY <1>1, <1>5 DEF WeakAlone, Idle, WeakSteps
<1>11. LiveWhileUsed'
  <2>1. ASSUME NEW c \in Blocks, c # b PROVE Lives(c)'
    <3>1. (\E u \in Workers : step'[u].block = c) <=> \E u \in Workers : step[u].block = c
      BY <1>1, <1>5, <2>1 DEF Idle
    <3> QED BY <1>1, <1>3, <2>1, <3>1, LivesKept
  <2>2. Lives(b)'
    <3>1. Lives(b)
      BY DEF LiveWhileUsed
    <3>2. block[b].strongs \in Nat /\ block'[b].strongs \in Nat
      BY <1>2, <1>3, CountTypes
    <3> QED BY <1>1, <1>2, <1>3, <1>5, <3>1, <3>2 DEF Lives
  <2> QED BY <2>1, <2>2 DEF LiveWhileUsed
<1> QED BY <1>7, <1>8, <1>9, <1>10, <1>11

\* A move between two variables of one kind leaves every count as it was.
LEMMA VarsMove ==
    ASSUME NEW S, IsFiniteSet(S), NEW p, NEW q, NEW x \in S, NEW y \in S, NEW b,
           p[x] # p[y], q[y] = p[x], q[x] = p[y], b # p[y],
           \A z \in S : z # x /\ z # y => q[z] = p[z]
    PROVE  Cardinality(VarsAt(q, S, b)) = Cardinality(VarsAt(p, S, b))
<1> DEFINE r == [z \in S |-> IF z = x THEN p[y] ELSE p[z]]
<1>1. /\ r[x] = p[y] /\ r[x] # p[x] /\ r[x] # b
      /\ \A z \in S : z # x => r[z] = p[z]
  OBVIOUS
<1>2. /\ q[y] # r[y] /\ r[y] # b /\ q[y] = p[x]
      /\ \A z \in S : z # y => q[z] = r[z]
  OBVIOUS
<1> HIDE DEF r
<1>3. Cardinality(VarsAt(r, S, b)) = Cardinality(VarsAt(p, S, b)) - IF b = p[x] THEN 1 ELSE 0
  BY <1>1, VarsClear
<1>4. Cardinality(VarsAt(q, S, b)) = Cardinality(VarsAt(r, S, b)) + IF b = q[y] THEN 1 ELSE 0
  <2>1. Cardinality(VarsAt(r, S, b)) \in Nat
    BY VarsCounted
  <2>2. CASE b = q[y]
    <3>1. Cardinality(VarsAt(q, S, b)) = Cardinality(VarsAt(r, S, b)) + 1
      BY <1>2, <2>2, VarsGain
    <3> QED BY ONLY <2>2, <3>1
  <2>3. CASE b # q[y]
    <3>1. VarsAt(q, S, b) = VarsAt(r, S, b)
      BY <1>2, <2>3, VarsKeep
    <3> QED BY ONLY <2>1, <2>3, <3>1
  <2> QED BY <2>2, <2>3
<1>5. Cardinality(VarsAt(p, S, b)) \in Nat
  BY VarsCounted
<1> QED BY ONLY <1>2, <1>3, <1>4, <1>5

LEMMA MoveKeeps ==
    ASSUME SharedInv, Serialized, NEW w \in Workers,
           NEW x \in Strongs \union Weaks, NEW y \in Strongs \union Weaks, MovePtr(w, x, y)
    PROVE  SharedInv'
<1> USE PointersAssumption DEF SharedInv
<1>1. /\ \A u \in Workers : step[u].at \notin WeakSteps
      /\ x \in Strongs <=> y \in Strongs
      /\ ptr[x] # NoBlock /\ ptr[y] = NoBlock
      /\ block' = block /\ step' = step /\ past' = past
  BY Begins DEF MovePtr
<1>2. /\ ptr' \in [Strongs \union Weaks -> Blocks \union {NoBlock}]
      /\ ptr'[y] = ptr[x] /\ ptr'[x] = ptr[y]
      /\ \A z \in Strongs \union Weaks : z # x /\ z # y => ptr'[z] = ptr[z]
  BY <1>1 DEF MovePtr, SharedTypes
<1> DEFINE q == ptr'
<1>3. /\ q[y] = ptr[x] /\ q[x] = ptr[y]
      /\ \A z \in Strongs : z # x /\ z # y => q[z] = ptr[z]
      /\ \A z \in Weaks : z # x /\ z # y => q[z] = ptr[z]
      /\ ptr[x] # ptr[y]
      /\ IsFiniteSet(Strongs) /\ IsFiniteSet(Weaks)
  BY <1>1, <1>2
<1>4. CASE x \in Strongs
  <2>1. y \in Strongs /\ \A z \in Weaks : z # x /\ z # y
    BY <1>1, <1>4
  <2>2. ASSUME NEW c \in Blocks
        PROVE  /\ Cardinality(VarsAt(q, Strongs, c)) = Cardinality(VarsAt(ptr, Strongs, c))
               /\ Cardinality(VarsAt(q, Weaks, c)) = Cardinality(VarsAt(ptr, Weaks, c))
    <3>1. c # ptr[y]
      BY <1>1
    <3> HIDE DEF q
    <3>2. Cardinality(VarsAt(q, Strongs, c)) = Cardinality(VarsAt(ptr, Strongs, c))
      BY ONLY <1>3, <1>4, <2>1, <3>1, VarsMove
    <3>3. VarsAt(q, Weaks, c) = VarsAt(ptr, Weaks, c)
      BY <1>3, <2>1, VarsKeep
    <3> QED BY <3>2, <3>3
  <2> QED BY <1>1, <1>2, <2>2
       DEF SharedTypes, CountsExact, Exact, Releasing, StepsApart, Apart, WeakSteps, WeakAlone,
           LiveWhileUsed, Lives
<1>5. CASE x \notin Strongs
  <2>1. x \in Weaks /\ y \in Weaks /\ \A z \in Strongs : z # x /\ z # y
    BY <1>1, <1>5
  <2>2. ASSUME NEW c \in Blocks
        PROVE  /\ Cardinality(VarsAt(q, Strongs, c)) = Cardinality(VarsAt(ptr, Strongs, c))
               /\ Cardinality(VarsAt(q, Weaks, c)) = Cardinality(VarsAt(ptr, Weaks, c))
    <3>1. c # ptr[y]
      BY <1>1
    <3> HIDE DEF q
    <3>2. Cardinality(VarsAt(q, Weaks, c)) = Cardinality(VarsAt(ptr, Weaks, c))
      BY ONLY <1>3, <2>1, <3>1, VarsMove
    <3>3. VarsAt(q, Strongs, c) = VarsAt(ptr, Strongs, c)
      BY <1>3, <2>1, VarsKeep
    <3> QED BY <3>2, <3>3
  <2> QED BY <1>1, <1>2, <2>2
       DEF SharedTypes, CountsExact, Exact, Releasing, StepsApart, Apart, WeakSteps, WeakAlone,
           LiveWhileUsed, Lives
<1> QED BY <1>4, <1>5

\* release(): the sole owner's variable is cleared, its count is not yet.
LEMMA ReleaseKeeps ==
    ASSUME SharedInv, Serialized, NEW w \in Workers, NEW x \in Strongs, ReleaseObject(w, x)
    PROVE  SharedInv'
<1> USE PointersAssumption DEF SharedInv
<1>0. PICK b \in Blocks : b = ptr[x]
  BY DEF ReleaseObject, SharedTypes
<1>1. /\ \A u \in Workers : step[u].at \notin WeakSteps
      /\ step[w] = Idle /\ ptr[x] # NoBlock /\ past' = past
      /\ ptr' = [ptr EXCEPT ![x] = NoBlock]
      /\ block[b].strongs = 1
      /\ block' = [block EXCEPT ![b].object = "none"]
      /\ Continue(w, "reset", b, NoBlock)
  BY <1>0, Begins DEF ReleaseObject
<1>2. /\ block[b].live /\ ~Releasing(b)
      /\ \A u \in Workers : step[u].block # b
  BY <1>0, <1>1, StrongHeld
<1>3. /\ block' \in [Blocks -> BlockTypes]
      /\ block'[b].strongs = block[b].strongs /\ block'[b].weaks = block[b].weaks
      /\ block'[b].object = "none" /\ block'[b].live = block[b].live
      /\ \A c \in Blocks : c # b => block'[c] = block[c]
  BY <1>1, ObjectStored
<1>4. /\ ptr' \in [Strongs \union Weaks -> Blocks \union {NoBlock}]
      /\ \A c \in Blocks :
           /\ Cardinality(VarsAt(ptr', Strongs, c)) = Cardinality(VarsAt(ptr, Strongs, c))
                - IF c = b THEN 1 ELSE 0
           /\ Cardinality(VarsAt(ptr', Weaks, c)) = Cardinality(VarsAt(ptr, Weaks, c))
  BY <1>0, <1>1, StrongCleared
<1>5. /\ step' \in [Workers -> StepTypes]
      /\ \A u \in Workers : u # w => step'[u] = step[u]
      /\ step'[w].at = "reset" /\ step'[w].block = b
  BY <1>1, Continues DEF PtrSteps
<1>6. /\ \A c \in Blocks : c # b => (Releasing(c)' <=> Releasing(c))
      /\ Releasing(b)'
  BY <1>1, <1>5 DEF Releasing, Idle
<1>7. SharedTypes'
  BY <1>1, <1>3, <1>4, <1>5 DEF SharedTypes, BlockTypes, StepTypes
<1>8. CountsExact'
  <2>1. ASSUME NEW c \in Blocks, c # b PROVE Exact(c)'
    BY <1>3, <1>4, <1>6, <2>1, ExactKept, CountTypes
  <2>2. Exact(b)'
    <3>1. Exact(b)
      BY DEF CountsExact
    <3> QED BY <1>2, <1>3, <1>4, <1>6, <3>1, CountTypes DEF Exact
  <2> QED BY <2>1, <2>2 DEF CountsExact
<1>9. StepsApart'
  <2>1. ASSUME NEW u \in Workers, u # w PROVE Apart(u)'
    <3>1. step[u].at # "idle" => step[u].block \in Blocks
      BY DEF StepsApart, Apart
    <3>2. step[u].at # "idle" =>
            \A v \in Workers : step'[v].block = step[u].block => step[v].block = step[u].block
      BY <1>2, <1>5, <3>1
    <3> QED BY <1>1, <1>2, <1>3, <1>5, <2>1, <3>1, <3>2, ApartKept
  <2>2. Apart(w)'
    BY <1>1, <1>2, <1>3, <1>5 DEF Apart
  <2> QED BY <2>1, <2>2 DEF StepsApart
<1>10. WeakAlone'
  BY <1>1, <1>5 DEF WeakAlone, WeakSteps
<1>11. LiveWhileUsed'
  <2>1. ASSUME NEW c \in Blocks, c # b PROVE Lives(c)'
    <3>1. (\E u \in Workers : step'[u].block = c) <=> \E u \in Workers : step[u].block = c
      BY <1>1, <1>5, <2>1 DEF Idle
    <3> QED BY <1>1, <1>3, <2>1, <3>1, LivesKept
  <2>2. Lives(b)'
    <3>1. Lives(b)
      BY DEF LiveWhileUsed
    <3> QED BY <1>1, <1>2, <1>3, <1>5, <3>1 DEF Lives
  <2> QED BY <2>1, <2>2 DEF LiveWhileUsed
<1> QED BY <1>7, <1>8, <1>9, <1>10, <1>11

\* The second half of release(): the count goes to zero.
LEMMA ResetReleasedKeeps ==
    ASSUME SharedInv, Serialized, NEW w \in Workers, ResetReleased(w)
    PROVE  SharedInv'
<1> USE PointersAssumption DEF SharedInv
<1>0. PICK b \in Blocks : b = step[w].block
  BY DEF ResetReleased, StepsApart, Apart
<1>1. /\ step[w].at = "reset" /\ block[b].strongs = 1
      /\ \A u \in Workers : step[u].block = b => u = w
      /\ Cardinality(VarsAt(ptr, Strongs, b)) = 0
      /\ ptr' = ptr /\ past' = past
      /\ block' = [block EXCEPT ![b].strongs = block[b].strongs - 1]
      /\ Continue(w, "destroy", b, NoBlock)
  BY <1>0, StepsBare DEF ResetReleased, Decrement, StepsApart, Apart
<1>2. \A u \in Workers : step[u].at \notin WeakSteps
  BY <1>1 DEF WeakAlone, WeakSteps, Idle
<1>3. /\ block' \in [Blocks -> BlockTypes]
      /\ block'[b].strongs = 0 /\ block'[b].weaks = block[b].weaks
      /\ block'[b].object = block[b].object /\ block'[b].live = block[b].live
      /\ \A c \in Blocks : c # b => block'[c] = block[c]
  <2>1. block' = [block EXCEPT ![b].strongs = 0]
    BY <1>1
  <2> QED BY <2>1, StrongsStored
<1>4. /\ step' \in [Workers -> StepTypes]
      /\ \A u \in Workers : u # w => step'[u] = step[u]
      /\ step'[w].at = "destroy" /\ step'[w].block = b
  BY <1>1, Continues DEF PtrSteps
<1>5. /\ \A c \in Blocks : c # b => (Releasing(c)' <=> Releasing(c))
      /\ ~Releasing(b)'
  BY <1>0, <1>1, <1>4 DEF Releasing
<1>6. SharedTypes'
  BY <1>1, <1>3, <1>4 DEF SharedTypes, BlockTypes, StepTypes
<1>7. CountsExact'
  <2>1. ASSUME NEW c \in Blocks, c # b PROVE Exact(c)'
    BY <1>1, <1>3, <1>5, <2>1, ExactKept
  <2>2. Exact(b)'
    <3>1. Exact(b)
      BY DEF CountsExact
    <3> QED BY <1>1, <1>3, <1>5, <3>1 DEF Exact
  <2> QED BY <2>1, <2>2 DEF CountsExact
<1>8. StepsApart'
  <2>1. ASSUME NEW u \in Workers, u # w PROVE Apart(u)'
    <3>1. step[u].at # "idle" => step[u].block \in Blocks /\ step[u].block # b
      BY <1>1, <2>1 DEF StepsApart, Apart
    <3>2. step[u].at # "idle" =>
            \A v \in Workers : step'[v].block = step[u].block => step[v].block = step[u].block
      BY <1>4, <3>1
    <3> QED BY <1>2, <1>3, <1>4, <2>1, <3>1, <3>2, ApartKept
  <2>2. Apart(w)'
    BY <1>1, <1>3, <1>4 DEF Apart
  <2> QED BY <2>1, <2>2 DEF StepsApart
<1>9. WeakAlone'
  BY <1>2, <1>4 DEF WeakAlone, WeakSteps
<1>10. LiveWhileUsed'
  <2>1. ASSUME NEW c \in Blocks, c # b PROVE Lives(c)'
    <3>1. (\E u \in Workers : step'[u].block = c) <=> \E u \in Workers : step[u].block = c
      BY <1>0, <1>4, <2>1
    <3> QED BY <1>1, <1>3, <2>1, <3>1, LivesKept
  <2>2. Lives(b)'
    <3>1. Lives(b)
      BY DEF LiveWhileUsed
    <3> QED BY <1>0, <1>1, <1>3, <1>4, <3>1 DEF Lives
  <2> QED BY <2>1, <2>2 DEF LiveWhileUsed
<1> QED BY <1>6, <1>7, <1>8, <1>9, <1>10

\* reset() destroys the object, and frees the block after one more look.
LEMMA DestroyKeeps ==
    ASSUME SharedInv, Serialized, NEW w \in Workers, DestroyObject(w)
    PROVE  SharedInv'
<1> USE PointersAssumption DEF SharedInv
<1>0. PICK b \in Blocks : b = step[w].block
  BY DEF DestroyObject, StepsApart, Apart
<1>1. /\ step[w].at = "destroy" /\ block[b].strongs = 0
      /\ \A u \in Workers : step[u].block = b => u = w
      /\ ptr' = ptr /\ past' = past
      /\ block' = [block EXCEPT ![b].object =
                       IF block[b].object = "owned" THEN "destroyed" ELSE block[b].object]
      /\ Continue(w, "free", b, NoBlock)
  BY <1>0 DEF DestroyObject, StepsApart, Apart
<1>2. \A u \in Workers : step[u].at \notin WeakSteps
  BY <1>1 DEF WeakAlone, WeakSteps, Idle
<1>3. /\ block' \in [Blocks -> BlockTypes]
      /\ block'[b].strongs = block[b].strongs /\ block'[b].weaks = block[b].weaks
      /\ block'[b].live = block[b].live
      /\ \A c \in Blocks : c # b => block'[c] = block[c]
  <2> DEFINE o == IF block[b].object = "owned" THEN "destroyed" ELSE block[b].object
  <2>1. o \in {"none", "owned", "destroyed"}
    BY DEF SharedTypes
  <2>2. block' = [block EXCEPT ![b].object = o]
    BY <1>1
  <2> HIDE DEF o
  <2> QED BY <2>1, <2>2, ObjectStored
<1>4. /\ step' \in [Workers -> StepTypes]
      /\ \A u \in Workers : u # w => step'[u] = step[u]
      /\ step'[w].at = "free" /\ step'[w].block = b
  BY <1>1, Continues DEF PtrSteps
<1>5. \A c \in Blocks : Releasing(c)' <=> Releasing(c)
  BY <1>1, <1>4 DEF Releasing
<1>6. SharedTypes'
  BY <1>1, <1>3, <1>4 DEF SharedTypes, BlockTypes, StepTypes
<1>7. CountsExact'
  <2>1. ASSUME NEW c \in Blocks PROVE Exact(c)'
    BY <1>1, <1>3, <1>5, <2>1, ExactKept
  <2> QED BY <2>1 DEF CountsExact
<1>8. StepsApart'
  <2>1. ASSUME NEW u \in Workers, u # w PROVE Apart(u)'
    <3>1. step[u].at # "idle" => step[u].block \in Blocks /\ step[u].block # b
      BY <1>1, <2>1 DEF StepsApart, Apart
    <3>2. step[u].at # "idle" =>
            \A v \in Workers : step'[v].block = step[u].block => step[v].block = step[u].block
      BY <1>4, <3>1
    <3> QED BY <1>2, <1>3, <1>4, <2>1, <3>1, <3>2, ApartKept
  <2>2. Apart(w)'
    BY <1>1, <1>3, <1>4 DEF Apart
  <2> QED BY <2>1, <2>2 DEF StepsApart
<1>9. WeakAlone'
  BY <1>2, <1>4 DEF WeakAlone, WeakSteps
<1>10. LiveWhileUsed'
  <2>1. ASSUME NEW c \in Blocks, c # b PROVE Lives(c)'
    <3>1. (\E u \in Workers : step'[u].block = c) <=> \E u \in Workers : step[u].block = c
      BY <1>0, <1>4, <2>1
    <3> QED BY <1>1, <1>3, <2>1, <3>1, LivesKept
  <2>2. Lives(b)'
    <3>1. Lives(b)
      BY DEF LiveWhileUsed
    <3> QED BY <1>0, <1>1, <1>3, <1>4, <3>1 DEF Lives
  <2> QED BY <2>1, <2>2 DEF LiveWhileUsed
<1> QED BY <1>6, <1>7, <1>8, <1>9, <1>10

LEMMA FreeKeeps ==
    ASSUME SharedInv, Serialized, NEW w \in Workers, FreeBlock(w)
    PROVE  SharedInv'
<1> USE PointersAssumption DEF SharedInv
<1>0. PICK b \in Blocks : b = step[w].block
  BY DEF FreeBlock, StepsApart, Apart
<1>1. /\ step[w].at = "free" /\ block[b].strongs = 0
      /\ \A u \in Workers : step[u].block = b => u = w
      /\ ptr' = ptr /\ past' = past
      /\ block' = [block EXCEPT ![b].live = block[b].live /\ block[b].weaks # 0]
      /\ Done(w)
  BY <1>0 DEF FreeBlock, StepsApart, Apart
<1>2. \A u \in Workers : step[u].at \notin WeakSteps
  BY <1>1 DEF WeakAlone, WeakSteps, Idle
<1>3. /\ block' \in [Blocks -> BlockTypes]
      /\ block'[b].strongs = block[b].strongs /\ block'[b].weaks = block[b].weaks
      /\ block'[b].live <=> block[b].live /\ block[b].weaks # 0
      /\ block'[b].object = block[b].object
      /\ \A c \in Blocks : c # b => block'[c] = block[c]
  <2> DEFINE l == block[b].live /\ block[b].weaks # 0
  <2>1. l \in BOOLEAN
    OBVIOUS
  <2>2. block' = [block EXCEPT ![b].live = l]
    BY <1>1
  <2> HIDE DEF l
  <2>3. /\ block' \in [Blocks -> BlockTypes]
        /\ block'[b].strongs = block[b].strongs /\ block'[b].weaks = block[b].weaks
        /\ block'[b].live = l
        /\ block'[b].object = block[b].object
        /\ \A c \in Blocks : c # b => block'[c] = block[c]
    BY <2>1, <2>2, LiveStored
  <2> QED BY <2>3 DEF l
<1>4. /\ step' \in [Workers -> StepTypes]
      /\ \A u \in Workers : u # w => step'[u] = step[u]
      /\ step'[w] = Idle
  BY <1>1, Ends
<1>5. \A c \in Blocks : Releasing(c)' <=> Releasing(c)
  BY <1>1, <1>4 DEF Releasing, Idle
<1>6. SharedTypes'
  BY <1>1, <1>3, <1>4 DEF SharedTypes, BlockTypes, StepTypes
<1>7. CountsExact'
  <2>1. ASSUME NEW c \in Blocks PROVE Exact(c)'
    BY <1>1, <1>3, <1>5, <2>1, ExactKept
  <2> QED BY <2>1 DEF CountsExact
<1>8. StepsApart'
  <2>1. ASSUME NEW u \in Workers, u # w PROVE Apart(u)'
    <3>1. step[u].at # "idle" => step[u].block \in Blocks /\ step[u].block # b
      BY <1>1, <2>1 DEF StepsApart, Apart
    <3>2. step[u].at # "idle" =>
            \A v \in Workers : step'[v].block = step[u].block => step[v].block = step[u].block
      BY <1>4, <3>1 DEF Idle
    <3> QED BY <1>2, <1>3, <1>4, <2>1, <3>1, <3>2, ApartKept
  <2> QED BY <1>4, <2>1, ApartIdle DEF StepsApart
<1>9. WeakAlone'
  BY <1>2, <1>4 DEF WeakAlone, WeakSteps, Idle
<1>10. LiveWhileUsed'
  <2>1. ASSUME NEW c \in Blocks, c # b PROVE Lives(c)'
    <3>1. (\E u \in Workers : step'[u].block = c) <=> \E u \in Workers : step[u].block = c
      BY <1>0, <1>4, <2>1 DEF Idle
    <3> QED BY <1>1, <1>3, <2>1, <3>1, LivesKept
  <2>2. Lives(b)'
    <3>1. Lives(b) /\ block[b].weaks \in Nat
      BY CountTypes DEF LiveWhileUsed
    <3>2. \A u \in Workers : step'[u].block # b
      BY <1>1, <1>4 DEF Idle
    <3> QED BY <1>0, <1>1, <1>3, <3>1, <3>2 DEF Lives
  <2> QED BY <2>1, <2>2 DEF LiveWhileUsed
<1> QED BY <1>6, <1>7, <1>8, <1>9, <1>10

\* WeakPtr::release(): alone, the last weak variable of a block looks whether it is
\* the last of all.
LEMMA DropWeakKeeps ==
    ASSUME SharedInv, Serialized, NEW w \in Workers, NEW x \in Weaks, DropWeak(w, x)
    PROVE  SharedInv'
<1> USE PointersAssumption DEF SharedInv
<1>0. PICK b \in Blocks : b = ptr[x]
  BY DEF DropWeak, SharedTypes
<1>1. /\ \A u \in Workers : step[u] = Idle
      /\ ptr[x] # NoBlock /\ past' = past
      /\ ptr' = [ptr EXCEPT ![x] = NoBlock]
      /\ block' = [block EXCEPT ![b].weaks = block[b].weaks - 1]
      /\ IF block[b].weaks = 1 THEN Continue(w, "unweak", b, NoBlock) ELSE Done(w)
  BY <1>0, Begins DEF DropWeak
<1>2. block[b].weaks > 0 /\ block[b].live
  BY <1>0, <1>1, WeakHeld
<1>3. /\ block' \in [Blocks -> BlockTypes]
      /\ block'[b].strongs = block[b].strongs /\ block'[b].weaks = block[b].weaks - 1
      /\ block'[b].object = block[b].object /\ block'[b].live = block[b].live
      /\ \A c \in Blocks : c # b => block'[c] = block[c]
  <2>1. block[b].weaks - 1 \in Nat
    BY <1>2, CountTypes
  <2> QED BY <1>1, <2>1, WeaksStored
<1>4. /\ ptr' \in [Strongs \union Weaks -> Blocks \union {NoBlock}]
      /\ \A c \in Blocks :
           /\ Cardinality(VarsAt(ptr', Weaks, c)) = Cardinality(VarsAt(ptr, Weaks, c))
                - IF c = b THEN 1 ELSE 0
           /\ Cardinality(VarsAt(ptr', Strongs, c)) = Cardinality(VarsAt(ptr, Strongs, c))
  BY <1>0, <1>1, WeakCleared
<1>5. /\ step' \in [Workers -> StepTypes]
      /\ \A u \in Workers : u # w => step'[u] = Idle
      /\ \/ block[b].weaks = 1 /\ step'[w].at = "unweak" /\ step'[w].block = b
         \/ block[b].weaks # 1 /\ step'[w] = Idle
  <2>1. CASE block[b].weaks = 1
    BY <1>1, <2>1, Continues DEF PtrSteps
  <2>2. CASE block[b].weaks # 1
    BY <1>1, <2>2, Ends
  <2> QED BY <2>1, <2>2
<1>6. \A c \in Blocks : Releasing(c)' <=> Releasing(c)
  BY <1>1, <1>5 DEF Releasing, Idle
<1>7. SharedTypes'
  BY <1>1, <1>3, <1>4, <1>5 DEF SharedTypes, BlockTypes, StepTypes
<1>8. CountsExact'
  <2>1. ASSUME NEW c \in Blocks, c # b PROVE Exact(c)'
    BY <1>3, <1>4, <1>6, <2>1, ExactKept, CountTypes
  <2>2. Exact(b)'
    <3>1. Exact(b)
      BY DEF CountsExact
    <3> QED BY <1>2, <1>3, <1>4, <1>6, <3>1, CountTypes DEF Exact
  <2> QED BY <2>1, <2>2 DEF CountsExact
<1>9. StepsApart'
  <2>1. Apart(w)'
    <3>1. CASE step'[w] = Idle
      BY <3>1, ApartIdle
    <3>2. CASE block[b].weaks = 1 /\ step'[w].at = "unweak" /\ step'[w].block = b
      BY <1>3, <3>2 DEF Apart
    <3> QED BY <1>5, <3>1, <3>2
  <2> QED BY <1>5, <2>1, ApartIdle DEF StepsApart
<1>10. WeakAlone'
  BY <1>5 DEF WeakAlone, Idle, WeakSteps
<1>11. LiveWhileUsed'
  <2>1. ASSUME NEW c \in Blocks, c # b PROVE Lives(c)'
    <3>1. (\E u \in Workers : step'[u].block = c) <=> \E u \in Workers : step[u].block = c
      BY <1>1, <1>5, <2>1 DEF Idle
    <3> QED BY <1>1, <1>3, <2>1, <3>1, LivesKept
  <2>2. Lives(b)'
    <3>1. Lives(b)
      BY DEF LiveWhileUsed
    <3>2. block[b].weaks \in Nat /\ block'[b].weaks \in Nat
      BY <1>2, <1>3, CountTypes
    <3> QED BY <1>1, <1>2, <1>3, <1>5, <3>1, <3>2 DEF Lives
  <2> QED BY <2>1, <2>2 DEF LiveWhileUsed
<1> QED BY <1>7, <1>8, <1>9, <1>10, <1>11

LEMMA FreeFromWeakKeeps ==
    ASSUME SharedInv, Serialized, NEW w \in Workers, FreeFromWeak(w)
    PROVE  SharedInv'
<1> USE PointersAssumption DEF SharedInv
<1>0. PICK b \in Blocks : b = step[w].block
  BY DEF FreeFromWeak, StepsApart, Apart
<1>1. /\ step[w].at = "unweak" /\ block[b].weaks = 0
      /\ \A u \in Workers : u # w => step[u] = Idle
      /\ ptr' = ptr /\ past' = past
      /\ block' = [block EXCEPT ![b].live = block[b].live /\ block[b].strongs # 0]
      /\ Done(w)
  BY <1>0 DEF FreeFromWeak, StepsApart, Apart, WeakAlone, WeakSteps
<1>2. /\ step' \in [Workers -> StepTypes]
      /\ \A u \in Workers : step'[u] = Idle
  BY <1>1, Ends
<1>3. /\ block' \in [Blocks -> BlockTypes]
      /\ block'[b].strongs = block[b].strongs /\ block'[b].weaks = block[b].weaks
      /\ block'[b].live <=> block[b].live /\ block[b].strongs # 0
      /\ block'[b].object = block[b].object
      /\ \A c \in Blocks : c # b => block'[c] = block[c]
  <2> DEFINE l == block[b].live /\ block[b].strongs # 0
  <2>1. l \in BOOLEAN
    OBVIOUS
  <2>2. block' = [block EXCEPT ![b].live = l]
    BY <1>1
  <2> HIDE DEF l
  <2>3. /\ block' \in [Blocks -> BlockTypes]
        /\ block'[b].strongs = block[b].strongs /\ block'[b].weaks = block[b].weaks
        /\ block'[b].live = l
        /\ block'[b].object = block[b].object
        /\ \A c \in Blocks : c # b => block'[c] = block[c]
    BY <2>1, <2>2, LiveStored
  <2> QED BY <2>3 DEF l
<1>4. \A c \in Blocks : Releasing(c)' <=> Releasing(c)
  BY <1>1, <1>2 DEF Releasing, Idle
<1>5. SharedTypes'
  BY <1>1, <1>2, <1>3 DEF SharedTypes, BlockTypes, StepTypes
<1>6. CountsExact'
  <2>1. ASSUME NEW c \in Blocks PROVE Exact(c)'
    BY <1>1, <1>3, <1>4, <2>1, ExactKept
  <2> QED BY <2>1 DEF CountsExact
<1>7. StepsApart'
  BY <1>2, ApartIdle DEF StepsApart
<1>8. WeakAlone'
  BY <1>2 DEF WeakAlone
<1>9. LiveWhileUsed'
  <2>1. ASSUME NEW c \in Blocks, c # b PROVE Lives(c)'
    <3>1. (\E u \in Workers : step'[u].block = c) <=> \E u \in Workers : step[u].block = c
      BY <1>0, <1>1, <1>2, <2>1 DEF Idle
    <3> QED BY <1>1, <1>3, <2>1, <3>1, LivesKept
  <2>2. Lives(b)'
    <3>1. Lives(b) /\ block[b].strongs \in Nat
      BY CountTypes DEF LiveWhileUsed
    <3>2. \A u \in Workers : step'[u].block # b
      BY <1>2 DEF Idle
    <3> QED BY <1>0, <1>1, <1>3, <3>1, <3>2 DEF Lives
  <2> QED BY <2>1, <2>2 DEF LiveWhileUsed
<1> QED BY <1>5, <1>6, <1>7, <1>8, <1>9

\* WeakPtr::lock(): between the test and the increment nobody drops the reference.
LEMMA LockKeeps ==
    ASSUME SharedInv, Serialized, NEW w \in Workers, NEW x \in Weaks, NEW y \in Strongs,
           LockWeak(w, x, y)
    PROVE  SharedInv'
<1> USE PointersAssumption DEF SharedInv
<1>0. PICK b \in Blocks : b = ptr[x]
  BY DEF LockWeak, SharedTypes
<1>1. /\ \A u \in Workers : step[u] = Idle
      /\ ptr[x] # NoBlock /\ ptr[y] = NoBlock /\ block[b].strongs > 0
      /\ block' = block /\ ptr' = ptr /\ past' = past
      /\ Continue(w, "promote", b, y)
  BY <1>0, Begins DEF LockWeak
<1>2. block[b].live
  BY <1>0, <1>1, WeakHeld
<1>3. /\ step' \in [Workers -> StepTypes]
      /\ \A u \in Workers : u # w => step'[u] = Idle
      /\ step'[w].at = "promote" /\ step'[w].block = b /\ step'[w].to = y
  BY <1>1, Continues DEF PtrSteps
<1>4. \A c \in Blocks : Releasing(c)' <=> Releasing(c)
  BY <1>1, <1>3 DEF Releasing, Idle
<1>5. SharedTypes'
  BY <1>1, <1>3 DEF SharedTypes, StepTypes
<1>6. CountsExact'
  <2>1. ASSUME NEW c \in Blocks PROVE Exact(c)'
    BY <1>1, <1>4, <2>1, ExactKept
  <2> QED BY <2>1 DEF CountsExact
<1>7. StepsApart'
  <2>1. Apart(w)'
    BY <1>1, <1>3 DEF Apart
  <2> QED BY <1>3, <2>1, ApartIdle DEF StepsApart
<1>8. WeakAlone'
  BY <1>3 DEF WeakAlone, Idle, WeakSteps
<1>9. LiveWhileUsed'
  <2>1. ASSUME NEW c \in Blocks, c # b PROVE Lives(c)'
    <3>1. (\E u \in Workers : step'[u].block = c) <=> \E u \in Workers : step[u].block = c
      BY <1>1, <1>3, <2>1 DEF Idle
    <3> QED BY <1>1, <2>1, <3>1, LivesKept
  <2>2. Lives(b)'
    <3>1. Lives(b)
      BY DEF LiveWhileUsed
    <3> QED BY <1>1, <1>2, <3>1 DEF Lives
  <2> QED BY <2>1, <2>2 DEF LiveWhileUsed
<1> QED BY <1>5, <1>6, <1>7, <1>8, <1>9

LEMMA PromoteKeeps ==
    ASSUME SharedInv, Serialized, NEW w \in Workers, Promote(w)
    PROVE  SharedInv'
<1> USE PointersAssumption DEF SharedInv
<1>0. PICK b \in Blocks, y \in Strongs : b = step[w].block /\ y = step[w].to
  BY DEF Promote, StepsApart, Apart
<1>1. /\ step[w].at = "promote" /\ block[b].strongs > 0 /\ ptr[y] = NoBlock
      /\ \A u \in Workers : u # w => step[u] = Idle
      /\ past' = past
      /\ ptr' = [ptr EXCEPT ![y] = b]
      /\ block' = [block EXCEPT ![b].strongs = block[b].strongs + 1]
      /\ Done(w)
  BY <1>0 DEF Promote, StepsApart, Apart, WeakAlone, WeakSteps
<1>2. /\ step' \in [Workers -> StepTypes]
      /\ \A u \in Workers : step'[u] = Idle
  BY <1>1, Ends
<1>3. /\ block' \in [Blocks -> BlockTypes]
      /\ block'[b].strongs = block[b].strongs + 1 /\ block'[b].weaks = block[b].weaks
      /\ block'[b].object = block[b].object /\ block'[b].live = block[b].live
      /\ \A c \in Blocks : c # b => block'[c] = block[c]
  <2>1. block[b].strongs + 1 \in Nat
    BY CountTypes
  <2> QED BY <1>1, <2>1, StrongsStored
<1>4. /\ ptr' \in [Strongs \union Weaks -> Blocks \union {NoBlock}]
      /\ \A c \in Blocks :
           /\ Cardinality(VarsAt(ptr', Strongs, c)) = Cardinality(VarsAt(ptr, Strongs, c))
                + IF c = b THEN 1 ELSE 0
           /\ Cardinality(VarsAt(ptr', Weaks, c)) = Cardinality(VarsAt(ptr, Weaks, c))
  BY <1>1, StrongPointed
<1>5. \A c \in Blocks : Releasing(c)' <=> Releasing(c)
  BY <1>1, <1>2 DEF Releasing, Idle
<1>6. SharedTypes'
  BY <1>1, <1>2, <1>3, <1>4 DEF SharedTypes, BlockTypes, StepTypes
<1>7. CountsExact'
  <2>1. ASSUME NEW c \in Blocks, c # b PROVE Exact(c)'
    BY <1>3, <1>4, <1>5, <2>1, ExactKept, CountTypes
  <2>2. Exact(b)'
    <3>1. Exact(b) /\ ~Releasing(b)
      BY <1>1 DEF CountsExact, Releasing, Idle
    <3> QED BY <1>3, <1>4, <1>5, <3>1, CountTypes DEF Exact
  <2> QED BY <2>1, <2>2 DEF CountsExact
<1>8. StepsApart'
  BY <1>2, ApartIdle DEF StepsApart
<1>9. WeakAlone'
  BY <1>2 DEF WeakAlone
<1>10. LiveWhileUsed'
  <2>1. ASSUME NEW c \in Blocks, c # b PROVE Lives(c)'
    <3>1. (\E u \in Workers : step'[u].block = c) <=> \E u \in Workers : step[u].block = c
      BY <1>0, <1>1, <1>2, <2>1 DEF Idle
    <3> QED BY <1>1, <1>3, <2>1, <3>1, LivesKept
  <2>2. Lives(b)'
    <3>1. Lives(b) /\ block[b].strongs \in Nat
      BY CountTypes DEF LiveWhileUsed
    <3> QED BY <1>0, <1>1, <1>3, <3>1 DEF Lives
  <2> QED BY <2>1, <2>2 DEF LiveWhileUsed
<1> QED BY <1>6, <1>7, <1>8, <1>9, <1>10

-----------------------------------------------------------------------------
LEMMA SharedInitInv == SharedInit => SharedInv
<1> SUFFICES ASSUME SharedInit PROVE SharedInv
  OBVIOUS
<1> USE PointersAssumption DEF SharedInit
<1>1. SharedTypes
  BY DEF SharedTypes, PtrSteps, Idle
<1>2. CountsExact
  <2> SUFFICES ASSUME NEW b \in Blocks PROVE Exact(b)
    BY DEF CountsExact
  <2>1. VarsAt(ptr, Strongs, b) = {} /\ VarsAt(ptr, Weaks, b) = {} /\ ~Releasing(b)
    BY DEF VarsAt, Releasing, Idle
  <2>2. Cardinality(VarsAt(ptr, Strongs, b)) = 0 /\ Cardinality(VarsAt(ptr, Weaks, b)) = 0
    BY <2>1, FS_EmptySet
  <2> QED BY <2>1, <2>2 DEF Exact
<1>3. StepsApart
  BY DEF StepsApart, Apart, Idle
<1>4. WeakAlone
  BY DEF WeakAlone
<1>5. LiveWhileUsed
  BY DEF LiveWhileUsed, Lives, Idle
<1> QED BY <1>1, <1>2, <1>3, <1>4, <1>5 DEF SharedInv

\* With both counts exact, a block that lives is one that somebody needs.
LEMMA SharedInvSound == SharedInv => BlocksSound
<1> SUFFICES ASSUME SharedInv PROVE BlocksSound
  OBVIOUS
<1> USE PointersAssumption
<1>1. ASSUME NEW x \in Strongs, ptr[x] # NoBlock
      PROVE  block[ptr[x]].live /\ block[ptr[x]].object # "destroyed"
  BY <1>1, StrongHeld DEF SharedInv, LiveWhileUsed, Lives
<1>2. ASSUME NEW x \in Weaks, ptr[x] # NoBlock
      PROVE  block[ptr[x]].live
  BY <1>2, WeakHeld
<1>3. ASSUME NEW w \in Workers, step[w].block # NoBlock
      PROVE  block[step[w].block].live
  BY <1>3 DEF SharedInv, SharedTypes, LiveWhileUsed, Lives
<1>4. ASSUME \A w \in Workers : step[w] = Idle, NEW b \in Blocks
      PROVE  block[b].live <=> \E x \in DOMAIN ptr : ptr[x] = b
  <2>0. DOMAIN ptr = Strongs \union Weaks
    BY DEF SharedInv, SharedTypes
  <2>1. ~Releasing(b) /\ \A w \in Workers : step[w].block # b
    BY <1>4, AllIdle
  <2>2. /\ block[b].strongs = Cardinality(VarsAt(ptr, Strongs, b))
        /\ block[b].weaks = Cardinality(VarsAt(ptr, Weaks, b))
    BY <2>1, CountTypes DEF SharedInv, CountsExact, Exact
  <2>3. block[b].live <=> block[b].strongs > 0 \/ block[b].weaks > 0
    BY <2>1 DEF SharedInv, LiveWhileUsed, Lives
  <2>4. /\ block[b].strongs > 0 <=> VarsAt(ptr, Strongs, b) # {}
        /\ block[b].weaks > 0 <=> VarsAt(ptr, Weaks, b) # {}
    BY <2>2, VarsCounted
  <2> QED BY <2>0, <2>3, <2>4 DEF VarsAt
<1> QED BY <1>1, <1>2, <1>3, <1>4 DEF BlocksSound, NoDanglingBlock, BlocksFreed

\* Strong copies, resets and releases on any number of threads, interleaved with
\* each other at every access to a count, and with operations on weak pointers
\* one at a time: no control block is used after it was freed, no SharedPtr has a
\* destroyed object, and none is lost (SharedPtr.h reset(), WeakPtr.h release()).
THEOREM SharedBlocksSound ==
    ASSUME Serialized
    PROVE  SharedSpec => []BlocksSound
<1>1. SharedInv /\ [SharedNext]_sharedVars => SharedInv'
  <2> SUFFICES ASSUME SharedInv, [SharedNext]_sharedVars PROVE SharedInv'
    OBVIOUS
  <2>1. CASE UNCHANGED sharedVars
    BY <2>1 DEF sharedVars, SharedInv, SharedTypes, CountsExact, Exact, Releasing, StepsApart,
                Apart, WeakAlone, LiveWhileUsed, Lives
  <2>2. CASE SharedNext
    <3>1. PICK w \in Workers :
            \/ \E x \in Strongs, b \in Blocks : New(w, x, b)
            \/ \E x, y \in Strongs \union Weaks :
                 CopyShared(w, x, y) \/ CopyWeak(w, x, y) \/ MovePtr(w, x, y)
            \/ \E x \in Strongs : Reset(w, x) \/ ReleaseObject(w, x)
            \/ \E x \in Weaks : DropWeak(w, x) \/ \E y \in Strongs : LockWeak(w, x, y)
            \/ ResetReleased(w) \/ DestroyObject(w) \/ FreeBlock(w)
            \/ FreeFromWeak(w) \/ Promote(w)
      BY <2>2 DEF SharedNext
    <3> QED
      BY <3>1, NewShared, CopySharedKeeps, CopyWeakKeeps, MoveKeeps, ResetKeeps, ReleaseKeeps,
         DropWeakKeeps, LockKeeps, ResetReleasedKeeps, DestroyKeeps, FreeKeeps,
         FreeFromWeakKeeps, PromoteKeeps
  <2> QED BY <2>1, <2>2
<1> QED
  BY <1>1, SharedInitInv, SharedInvSound, PTL DEF SharedSpec
-----------------------------------------------------------------------------
(***************************************************************************)
(* dll::RefPtr and dll::ViewPtr.                                           *)
(***************************************************************************)
\* Of the pointers f, that of x now points elsewhere.
Moved(f, g, x) ==
    /\ IsFiniteSet(DOMAIN f) /\ DOMAIN g = DOMAIN f /\ x \in DOMAIN f
    /\ \A y \in DOMAIN f \ {x} : g[y] = f[y]

\* What that adds to the count of one object it takes from that of the other.
LEMMA Repointed ==
    ASSUME NEW f, NEW g, NEW x, NEW n, Moved(f, g, x)
    PROVE  /\ Cardinality(Pointing(f, n)) \in Nat /\ Cardinality(Pointing(g, n)) \in Nat
           /\ f[x] # n /\ g[x] = n => Cardinality(Pointing(g, n)) = Cardinality(Pointing(f, n)) + 1
           /\ f[x] = n /\ g[x] # n => Cardinality(Pointing(f, n)) = Cardinality(Pointing(g, n)) + 1
           /\ (f[x] = n <=> g[x] = n) => Cardinality(Pointing(g, n)) = Cardinality(Pointing(f, n))
<1> USE DEF Moved
<1> DEFINE P == Pointing(f, n)
           Q == Pointing(g, n)
<1>1. P \subseteq DOMAIN f /\ Q \subseteq DOMAIN f
  BY DEF Pointing
<1>2. IsFiniteSet(P) /\ IsFiniteSet(Q)
  BY <1>1, FS_Subset
<1>3. Cardinality(P) \in Nat /\ Cardinality(Q) \in Nat
  BY <1>2, FS_CardinalityType
<1>4. ASSUME f[x] # n, g[x] = n
      PROVE  Cardinality(Q) = Cardinality(P) + 1
  <2>1. Q = P \union {x} /\ x \notin P
    BY <1>4 DEF Pointing
  <2> HIDE DEF P, Q
  <2> QED BY <1>2, <2>1, FS_AddElement
<1>5. ASSUME f[x] = n, g[x] # n
      PROVE  Cardinality(P) = Cardinality(Q) + 1
  <2>1. P = Q \union {x} /\ x \notin Q
    BY <1>5 DEF Pointing
  <2> HIDE DEF P, Q
  <2> QED BY <1>2, <2>1, FS_AddElement
<1>6. ASSUME f[x] = n <=> g[x] = n
      PROVE  Cardinality(Q) = Cardinality(P)
  <2>1. Q = P
    BY <1>6 DEF Pointing
  <2> HIDE DEF P, Q
  <2> QED BY <2>1
<1> QED BY <1>3, <1>4, <1>5, <1>6

\* A call in progress above those of s, and the calls left when one returns.
LEMMA PushedFrame ==
    ASSUME NEW s \in Seq(Frames), NEW at \in {"destroy", "destroy_view", "cleared"},
           NEW n \in Nodes
    PROVE  /\ Push(at, n, s) \in Seq(Frames)
           /\ Len(Push(at, n, s)) = Len(s) + 1
           /\ Push(at, n, s)[1] = [at |-> at, node |-> n]
           /\ \A i \in 1..Len(s) : Push(at, n, s)[i + 1] = s[i]
<1>1. <<[at |-> at, node |-> n]>> \in Seq(Frames)
  BY DEF Frames
<1> QED BY <1>1 DEF Push

LEMMA PoppedFrame ==
    ASSUME NEW s \in Seq(Frames), s # <<>>
    PROVE  /\ Tail(s) \in Seq(Frames) /\ Len(s) \in Nat \ {0}
           /\ Len(Tail(s)) = Len(s) - 1
           /\ \A i \in 1..Len(Tail(s)) : Tail(s)[i] = s[i + 1]
           /\ Head(s) = s[1] /\ Head(s) \in Frames
  OBVIOUS

\* The callback goes on: the innermost call keeps its object.
LEMMA SteppedFrame ==
    ASSUME NEW s \in Seq(Frames), s # <<>>, NEW at \in {"destroy", "destroy_view", "cleared"}
    PROVE  LET t == Push(at, Head(s).node, Tail(s))
           IN  /\ t \in Seq(Frames) /\ Len(t) = Len(s)
               /\ \A i \in 1..Len(s) : t[i].node = s[i].node
<1> DEFINE n == Head(s).node
           t == Push(at, n, Tail(s))
<1>1. n \in Nodes
  BY PoppedFrame DEF Frames
<1>2. /\ Tail(s) \in Seq(Frames) /\ Len(s) \in Nat \ {0}
      /\ Len(Tail(s)) = Len(s) - 1
      /\ \A i \in 1..Len(Tail(s)) : Tail(s)[i] = s[i + 1]
      /\ n = s[1].node
  BY PoppedFrame
<1>3. /\ t \in Seq(Frames)
      /\ Len(t) = Len(Tail(s)) + 1
      /\ t[1] = [at |-> at, node |-> n]
      /\ \A i \in 1..Len(Tail(s)) : t[i + 1] = Tail(s)[i]
  BY <1>1, <1>2, PushedFrame, ZenonT(30)
<1>4. ASSUME NEW i \in 1..Len(s)
      PROVE  t[i].node = s[i].node
  <2> HIDE DEF t, n
  <2>1. CASE i = 1
    BY <1>2, <1>3, <2>1
  <2>2. CASE i # 1
    <3>1. i - 1 \in 1..Len(Tail(s)) /\ (i - 1) + 1 = i
      BY <1>2, <2>2
    <3> QED BY <1>2, <1>3, <3>1
  <2> QED BY <2>1, <2>2
<1> QED
  <2> HIDE DEF t, n
  <2>1. t \in Seq(Frames) /\ Len(t) = Len(s) /\ \A i \in 1..Len(s) : t[i].node = s[i].node
    BY <1>2, <1>3, <1>4
  <2> QED BY <2>1 DEF t, n

\* Between calls nothing is being destroyed.
LEMMA NothingOnStack ==
    ASSUME stack = <<>>
    PROVE  \A n \in Nodes : ~OnStack(n)
  BY DEF OnStack

LEMMA RefInvInit ==
    ASSUME NEW rank, RefInit
    PROVE  RefInv(rank)
<1> USE NodesAssumption DEF RefInit
<1>1. RefTypes
  BY DEF RefTypes
<1>2. RefCounts
  <2>1. ASSUME NEW n \in Nodes
        PROVE  Pointing(held, n) = {} /\ Pointing(member, n) = {} /\ Pointing(viewed, n) = {}
               /\ seen # n
    BY DEF Pointing
  <2>2. ASSUME NEW n \in Nodes
        PROVE  /\ Cardinality(Pointing(held, n)) = 0 /\ Cardinality(Pointing(member, n)) = 0
               /\ Cardinality(Pointing(viewed, n)) = 0 /\ seen # n
    BY <2>1, FS_EmptySet
  <2> QED BY <2>2 DEF RefCounts
<1>3. PointersAllowed
  BY DEF PointersAllowed
<1>4. StackOrdered(rank)
  BY DEF StackOrdered
<1>5. BlocksNeeded
  BY NothingOnStack DEF BlocksNeeded
<1> QED BY <1>1, <1>2, <1>3, <1>4, <1>5 DEF RefInv

\* The three families of pointers, for Repointed.
LEMMA PointerTypes ==
    ASSUME RefTypes
    PROVE  /\ IsFiniteSet(Locals) /\ held \in [Locals -> Nodes \union {NoNode}]
           /\ IsFiniteSet(Nodes) /\ member \in [Nodes -> Nodes \union {NoNode}]
           /\ viewed \in [Nodes -> Nodes \union {NoNode}]
           /\ NoNode \in Nodes \union {NoNode} /\ NoNode \notin Nodes
  BY NodesAssumption DEF RefTypes

\* The counts are sums of natural numbers.
LEMMA PointersCounted ==
    ASSUME RefTypes, NEW n
    PROVE  /\ Cardinality(Pointing(held, n)) \in Nat
           /\ Cardinality(Pointing(member, n)) \in Nat
           /\ Cardinality(Pointing(viewed, n)) \in Nat
<1>1. Pointing(held, n) \subseteq Locals /\ Pointing(member, n) \subseteq Nodes
      /\ Pointing(viewed, n) \subseteq Nodes
  BY PointerTypes DEF Pointing
<1>2. IsFiniteSet(Pointing(held, n)) /\ IsFiniteSet(Pointing(member, n))
      /\ IsFiniteSet(Pointing(viewed, n))
  BY <1>1, PointerTypes, FS_Subset
<1> QED BY <1>2, FS_CardinalityType

\* Whatever a pointer points to is counted.
LEMMA TargetsCounted ==
    ASSUME RefTypes, RefCounts, NEW n \in Nodes
    PROVE  /\ \A r \in Locals : held[r] = n => refs[n] > 0
           /\ \A m \in Nodes : member[m] = n => refs[n] > 0
           /\ \A m \in Nodes : viewed[m] = n => views[n] > 0
           /\ seen = n => views[n] > 0
<1>1. /\ Pointing(held, n) # {} => Cardinality(Pointing(held, n)) > 0
      /\ Pointing(member, n) # {} => Cardinality(Pointing(member, n)) > 0
      /\ Pointing(viewed, n) # {} => Cardinality(Pointing(viewed, n)) > 0
  <2>1. Pointing(held, n) \subseteq Locals /\ Pointing(member, n) \subseteq Nodes
        /\ Pointing(viewed, n) \subseteq Nodes
    BY PointerTypes DEF Pointing
  <2>2. IsFiniteSet(Pointing(held, n)) /\ IsFiniteSet(Pointing(member, n))
        /\ IsFiniteSet(Pointing(viewed, n))
    BY <2>1, PointerTypes, FS_Subset
  <2> QED BY <2>2, PointersCounted, FS_EmptySet
<1>2. /\ \A r \in Locals : held[r] = n => Pointing(held, n) # {}
      /\ \A m \in Nodes : member[m] = n => Pointing(member, n) # {}
      /\ \A m \in Nodes : viewed[m] = n => Pointing(viewed, n) # {}
  BY PointerTypes DEF Pointing
<1>3. /\ refs[n] = Cardinality(Pointing(held, n)) + Cardinality(Pointing(member, n))
      /\ views[n] = Cardinality(Pointing(viewed, n)) + IF seen = n THEN 1 ELSE 0
  BY DEF RefCounts
<1> QED BY <1>1, <1>2, <1>3, PointersCounted

\* A new object of RefPtr(p, d).
LEMMA NewRefKeeps ==
    ASSUME NEW rank, RefInv(rank), NEW r \in Locals, NEW n \in Nodes, NewRef(r, n)
    PROVE  RefInv(rank)'
<1> USE DEF RefInv
<1>1. RefTypes'
  BY DEF RefTypes, NewRef
<1>2. refs[n] = 0 /\ views[n] = 0 /\ cb[n] # "live"
  BY NothingOnStack DEF NewRef, BlocksNeeded, RefTypes
<1>3. RefCounts'
  <2>1. ASSUME NEW k \in Nodes
        PROVE  /\ refs'[k] = Cardinality(Pointing(held', k)) + Cardinality(Pointing(member', k))
               /\ views'[k] = Cardinality(Pointing(viewed', k)) + IF seen' = k THEN 1 ELSE 0
    <3>1. held[r] = NoNode /\ held' = [held EXCEPT ![r] = n]
      BY DEF NewRef
    <3>a. Moved(held, held', r) /\ held'[r] = n /\ held[r] # k
      BY <3>1, PointerTypes DEF Moved
    <3>2. /\ k = n => Cardinality(Pointing(held', k)) = Cardinality(Pointing(held, k)) + 1
          /\ k # n => Cardinality(Pointing(held', k)) = Cardinality(Pointing(held, k))
      BY <3>a, Repointed
    <3>3. /\ refs[k] = Cardinality(Pointing(held, k)) + Cardinality(Pointing(member, k))
          /\ views[k] = Cardinality(Pointing(viewed, k)) + IF seen = k THEN 1 ELSE 0
      BY DEF RefCounts
    <3>4. /\ k = n => refs'[k] = refs[k] + 1
          /\ k # n => refs'[k] = refs[k]
          /\ member' = member /\ viewed' = viewed /\ seen' = seen /\ views' = views
      BY <1>2 DEF NewRef, RefTypes
    <3> QED BY <3>2, <3>3, <3>4, PointersCounted
  <2> QED BY <2>1 DEF RefCounts
<1>4. PointersAllowed'
  BY DEF PointersAllowed, NewRef
<1>5. StackOrdered(rank)'
  BY DEF StackOrdered, NewRef
<1>6. BlocksNeeded'
  BY <1>2, NothingOnStack DEF BlocksNeeded, NewRef, RefTypes, OnStack
<1> QED BY <1>1, <1>3, <1>4, <1>5, <1>6

\* A copy into a member, or of one.
LEMMA CopyRefKeeps ==
    ASSUME NEW rank, RefInv(rank), NEW r \in Locals, NEW n \in Nodes, CopyRef(r, n)
    PROVE  RefInv(rank)'
<1> USE DEF RefInv
<1> DEFINE Into == /\ held[r] # NoNode /\ member[n] = NoNode /\ <<n, held[r]>> \in MayOwn
                   /\ member' = [member EXCEPT ![n] = held[r]]
                   /\ refs' = [refs EXCEPT ![held[r]] = @ + 1]
                   /\ UNCHANGED held
           From == /\ held[r] = NoNode /\ member[n] # NoNode
                   /\ held' = [held EXCEPT ![r] = member[n]]
                   /\ refs' = [refs EXCEPT ![member[n]] = @ + 1]
                   /\ UNCHANGED member
<1>a. (Into \/ From) /\ stack = <<>> /\ UNCHANGED <<views, object, cb, seen, viewed, stack>>
  BY DEF CopyRef
<1> HIDE DEF Into, From
<1>b. PICK m \in Nodes :
        /\ refs' = [refs EXCEPT ![m] = @ + 1]
        /\ \/ Into /\ m = held[r]
           \/ From /\ m = member[n]
  BY <1>a DEF Into, From, RefTypes
<1>c. refs[m] > 0 /\ refs[m] \in Nat
  BY <1>b, TargetsCounted DEF RefTypes
<1>1. RefTypes'
  <2>1. refs' \in [Nodes -> Nat]
    BY <1>b DEF RefTypes
  <2>2. held' \in [Locals -> Nodes \union {NoNode}] /\ member' \in [Nodes -> Nodes \union {NoNode}]
    <3>1. CASE Into
      BY <3>1 DEF RefTypes, Into
    <3>2. CASE From
      BY <3>2 DEF RefTypes, From
    <3> QED BY <1>a, <3>1, <3>2
  <2> QED BY <1>a, <2>1, <2>2 DEF RefTypes
<1>2. RefCounts'
  <2>1. ASSUME NEW k \in Nodes
        PROVE  /\ refs'[k] = Cardinality(Pointing(held', k)) + Cardinality(Pointing(member', k))
               /\ views'[k] = Cardinality(Pointing(viewed', k)) + IF seen' = k THEN 1 ELSE 0
    <3>1. /\ refs[k] = Cardinality(Pointing(held, k)) + Cardinality(Pointing(member, k))
          /\ views[k] = Cardinality(Pointing(viewed, k)) + IF seen = k THEN 1 ELSE 0
      BY DEF RefCounts
    <3>2. /\ k = m => refs'[k] = refs[k] + 1
          /\ k # m => refs'[k] = refs[k]
      BY <1>b DEF RefTypes
    <3>3. \/ /\ held' = held
             /\ k = m => Cardinality(Pointing(member', k)) = Cardinality(Pointing(member, k)) + 1
             /\ k # m => Cardinality(Pointing(member', k)) = Cardinality(Pointing(member, k))
          \/ /\ member' = member
             /\ k = m => Cardinality(Pointing(held', k)) = Cardinality(Pointing(held, k)) + 1
             /\ k # m => Cardinality(Pointing(held', k)) = Cardinality(Pointing(held, k))
      <4>1. CASE Into /\ m = held[r]
        <5>1. Moved(member, member', n) /\ member'[n] = m /\ member[n] # k /\ held' = held
          BY <4>1, PointerTypes DEF Into, Moved
        <5> QED BY <5>1, Repointed
      <4>2. CASE From /\ m = member[n]
        <5>1. Moved(held, held', r) /\ held'[r] = m /\ held[r] # k /\ member' = member
          BY <4>2, PointerTypes DEF From, Moved
        <5> QED BY <5>1, Repointed
      <4> QED BY <1>b, <4>1, <4>2
    <3> QED BY <1>a, <3>1, <3>2, <3>3, PointersCounted
  <2> QED BY <2>1 DEF RefCounts
<1>3. PointersAllowed'
  BY <1>a DEF PointersAllowed, Into, From, RefTypes
<1>4. StackOrdered(rank)'
  BY <1>a DEF StackOrdered
<1>5. BlocksNeeded'
  BY <1>a, <1>b, <1>c DEF BlocksNeeded, RefTypes, OnStack
<1> QED BY <1>1, <1>2, <1>3, <1>4, <1>5

\* A view for the program or as a member: the block it counts in has an owner.
LEMMA NewViewKeeps ==
    ASSUME NEW rank, RefInv(rank), NEW r \in Locals, NEW n \in Nodes, NewView(r, n)
    PROVE  RefInv(rank)'
<1> USE DEF RefInv
<1> DEFINE m == held[r]
           Own == seen = NoNode /\ seen' = m /\ UNCHANGED viewed
           In == /\ viewed[n] = NoNode /\ <<n, m>> \in MayView
                 /\ viewed' = [viewed EXCEPT ![n] = m] /\ UNCHANGED seen
<1>a. /\ m \in Nodes /\ (Own \/ In) /\ stack = <<>>
      /\ views' = [views EXCEPT ![m] = @ + 1]
      /\ UNCHANGED <<refs, object, cb, held, member, stack>>
  BY DEF NewView, RefTypes
<1> HIDE DEF m
<1>b. refs[m] > 0
  BY <1>a, TargetsCounted DEF m
<1>1. RefTypes'
  <2>1. views' \in [Nodes -> Nat] /\ seen' \in Nodes \union {NoNode}
    BY <1>a DEF RefTypes
  <2>2. viewed' \in [Nodes -> Nodes \union {NoNode}]
    <3>1. CASE Own
      BY <3>1 DEF RefTypes
    <3>2. CASE In
      BY <1>a, <3>2 DEF RefTypes
    <3> QED BY <1>a, <3>1, <3>2
  <2> QED BY <1>a, <2>1, <2>2 DEF RefTypes
<1>2. RefCounts'
  <2>1. ASSUME NEW k \in Nodes
        PROVE  /\ refs'[k] = Cardinality(Pointing(held', k)) + Cardinality(Pointing(member', k))
               /\ views'[k] = Cardinality(Pointing(viewed', k)) + IF seen' = k THEN 1 ELSE 0
    <3>1. /\ refs[k] = Cardinality(Pointing(held, k)) + Cardinality(Pointing(member, k))
          /\ views[k] = Cardinality(Pointing(viewed, k)) + IF seen = k THEN 1 ELSE 0
      BY DEF RefCounts
    <3>2. /\ k = m => views'[k] = views[k] + 1
          /\ k # m => views'[k] = views[k]
      BY <1>a DEF RefTypes
    <3>3. \/ /\ viewed' = viewed /\ seen # k /\ seen' = m
          \/ /\ seen' = seen
             /\ k = m => Cardinality(Pointing(viewed', k)) = Cardinality(Pointing(viewed, k)) + 1
             /\ k # m => Cardinality(Pointing(viewed', k)) = Cardinality(Pointing(viewed, k))
      <4>1. CASE Own
        BY <4>1, PointerTypes
      <4>2. CASE In
        <5>1. Moved(viewed, viewed', n) /\ viewed'[n] = m /\ viewed[n] # k /\ seen' = seen
          BY <4>2, PointerTypes DEF Moved
        <5> QED BY <5>1, Repointed
      <4> QED BY <1>a, <4>1, <4>2
    <3> QED BY <1>a, <3>1, <3>2, <3>3, PointersCounted
  <2> QED BY <2>1 DEF RefCounts
<1>3. PointersAllowed'
  <2>1. CASE Own
    BY <1>a, <2>1 DEF PointersAllowed
  <2>2. CASE In
    BY <1>a, <2>2 DEF PointersAllowed, RefTypes
  <2> QED BY <1>a, <2>1, <2>2
<1>4. StackOrdered(rank)'
  BY <1>a DEF StackOrdered
<1>5. BlocksNeeded'
  BY <1>a, <1>b DEF BlocksNeeded, RefTypes, OnStack
<1> QED BY <1>1, <1>2, <1>3, <1>4, <1>5

LEMMA StackNodes ==
    ASSUME RefTypes
    PROVE  Len(stack) \in Nat /\ \A i \in 1..Len(stack) : stack[i].node \in Nodes
<1>1. stack \in Seq(Frames)
  BY DEF RefTypes
<1>2. Len(stack) \in Nat /\ \A i \in 1..Len(stack) : stack[i] \in Frames
  BY <1>1
<1> QED BY <1>2 DEF Frames

\* reset() of a RefPtr to m: at zero a call begins whose object outranks those
\* being destroyed, so it is none of them.
LEMMA Decremented ==
    ASSUME NEW rank, Ordered(rank), RefInv(rank), NEW m \in Nodes, refs[m] > 0,
           NEW s \in Seq(Frames), Len(s) = Len(stack),
           \A i \in 1..Len(stack) : s[i].node = stack[i].node,
           \A i \in 1..Len(stack) : rank[stack[i].node] < rank[m],
           NEW at \in {"destroy", "destroy_view", "cleared"},
           refs' = [refs EXCEPT ![m] = @ - 1],
           stack' = IF refs[m] = 1 THEN Push(at, m, s) ELSE s,
           UNCHANGED <<views, object, cb>>
    PROVE  /\ refs' \in [Nodes -> Nat] /\ stack' \in Seq(Frames)
           /\ StackOrdered(rank)' /\ BlocksNeeded'
<1> USE DEF RefInv
<1>0. Len(stack) \in Nat /\ \A i \in 1..Len(stack) : stack[i].node \in Nodes
  BY StackNodes
<1>1. refs' \in [Nodes -> Nat]
  BY DEF RefTypes
<1>2. /\ refs'[m] = refs[m] - 1
      /\ \A k \in Nodes \ {m} : refs'[k] = refs[k]
  BY DEF RefTypes
<1>3. \A i \in 1..Len(stack) : stack[i].node # m /\ refs[stack[i].node] = 0
  BY <1>0 DEF StackOrdered
<1>4. CASE refs[m] # 1
  <2>1. stack' = s /\ refs'[m] > 0
    BY <1>2, <1>4 DEF RefTypes
  <2>2. StackOrdered(rank)'
    BY <1>0, <1>2, <1>3, <2>1 DEF StackOrdered
  <2>3. \A k \in Nodes : OnStack(k)' <=> OnStack(k)
    BY <2>1 DEF OnStack
  <2>4. BlocksNeeded'
    BY <1>2, <2>1, <2>3 DEF BlocksNeeded
  <2> QED BY <1>1, <2>1, <2>2, <2>4
<1>5. CASE refs[m] = 1
  <2>1. /\ stack' \in Seq(Frames) /\ Len(stack') = Len(stack) + 1
        /\ stack'[1].node = m
        /\ \A i \in 1..Len(stack) : stack'[i + 1].node = stack[i].node
    <3>1. PICK t : t = Push(at, m, s)
      OBVIOUS
    <3>2. /\ t \in Seq(Frames) /\ Len(t) = Len(s) + 1 /\ t[1] = [at |-> at, node |-> m]
          /\ \A i \in 1..Len(s) : t[i + 1] = s[i]
      <4>1. /\ Push(at, m, s) \in Seq(Frames) /\ Len(Push(at, m, s)) = Len(s) + 1
            /\ Push(at, m, s)[1] = [at |-> at, node |-> m]
            /\ \A i \in 1..Len(s) : Push(at, m, s)[i + 1] = s[i]
        BY PushedFrame, SMTT(30)
      <4> QED BY <3>1, <4>1, ZenonT(30)
    <3>3. stack' = t
      BY <1>5, <3>1, Zenon
    <3>4. t[1].node = m /\ \A i \in 1..Len(stack) : t[i + 1].node = stack[i].node
      BY <3>2, SMTT(30)
    <3>5. Len(t) = Len(stack) + 1
      BY <3>2, Zenon
    <3> QED BY <3>2, <3>3, <3>4, <3>5, ZenonT(30)
  <2>2. ASSUME NEW i \in 1..Len(stack')
        PROVE  \/ i = 1 /\ stack'[i].node = m
               \/ i - 1 \in 1..Len(stack) /\ stack'[i].node = stack[i - 1].node
    <3>1. CASE i = 1
      BY <2>1, <3>1
    <3>2. CASE i # 1
      <4>1. i - 1 \in 1..Len(stack) /\ (i - 1) + 1 = i
        BY <1>0, <2>1, <3>2
      <4> QED BY <2>1, <4>1
    <3> QED BY <3>1, <3>2
  <2>3. StackOrdered(rank)'
    <3>1. ASSUME NEW i \in 1..Len(stack')
          PROVE  refs'[stack'[i].node] = 0
      <4>1. CASE stack'[i].node = m
        BY <1>2, <1>5, <4>1
      <4>2. CASE i - 1 \in 1..Len(stack) /\ stack'[i].node = stack[i - 1].node
        <5>1. stack[i - 1].node \in Nodes \ {m} /\ refs[stack[i - 1].node] = 0
          BY <1>0, <1>3, <4>2
        <5> QED BY <1>2, <4>2, <5>1
      <4> QED BY <2>2, <4>1, <4>2
    <3>2. ASSUME NEW i \in 1..Len(stack'), NEW j \in 1..Len(stack'), i < j
          PROVE  rank[stack'[i].node] > rank[stack'[j].node]
      <4>1. j - 1 \in 1..Len(stack) /\ stack'[j].node = stack[j - 1].node
        BY <2>2, <3>2
      <4>2. CASE i = 1
        BY <1>0, <2>1, <4>1, <4>2 DEF Ordered
      <4>3. CASE i # 1
        <5>1. i - 1 \in 1..Len(stack) /\ stack'[i].node = stack[i - 1].node /\ i - 1 < j - 1
          BY <2>2, <3>2, <4>3
        <5> QED BY <4>1, <5>1 DEF StackOrdered
      <4> QED BY <4>2, <4>3
    <3> QED BY <3>1, <3>2 DEF StackOrdered
  <2>4. \A k \in Nodes : OnStack(k)' <=> k = m \/ OnStack(k)
    <3>1. ASSUME NEW k \in Nodes, OnStack(k)
          PROVE  OnStack(k)'
      <4>1. PICK i \in 1..Len(stack) : stack[i].node = k
        BY <3>1 DEF OnStack
      <4>2. i + 1 \in 1..Len(stack') /\ stack'[i + 1].node = k
        BY <1>0, <2>1, <4>1
      <4> QED BY <4>2 DEF OnStack
    <3>2. OnStack(m)'
      BY <1>0, <2>1 DEF OnStack
    <3>3. ASSUME NEW k \in Nodes, OnStack(k)', k # m
          PROVE  OnStack(k)
      BY <2>2, <3>3 DEF OnStack
    <3> QED BY <3>1, <3>2, <3>3
  <2>5. BlocksNeeded'
    BY <1>2, <1>5, <2>4 DEF BlocksNeeded
  <2> QED BY <1>1, <2>1, <2>3, <2>5
<1> QED BY <1>4, <1>5

\* One of the program's RefPtrs is emptied.
LEMMA HeldCleared ==
    ASSUME RefTypes, RefCounts, NEW r \in Locals, held[r] \in Nodes,
           refs' = [refs EXCEPT ![held[r]] = @ - 1],
           Moved(held, held', r), held'[r] = NoNode,
           UNCHANGED <<views, seen, member, viewed>>
    PROVE  RefCounts'
<1>1. ASSUME NEW k \in Nodes
      PROVE  /\ refs'[k] = Cardinality(Pointing(held', k)) + Cardinality(Pointing(member', k))
             /\ views'[k] = Cardinality(Pointing(viewed', k)) + IF seen' = k THEN 1 ELSE 0
  <2>1. /\ refs[k] = Cardinality(Pointing(held, k)) + Cardinality(Pointing(member, k))
        /\ views[k] = Cardinality(Pointing(viewed, k)) + IF seen = k THEN 1 ELSE 0
    BY DEF RefCounts
  <2>2. /\ k = held[r] => refs'[k] = refs[k] - 1
        /\ k # held[r] => refs'[k] = refs[k]
    BY DEF RefTypes
  <2>3. Moved(held, held', r) /\ held'[r] # k
    BY PointerTypes
  <2>4. /\ k = held[r] => Cardinality(Pointing(held, k)) = Cardinality(Pointing(held', k)) + 1
        /\ k # held[r] => Cardinality(Pointing(held', k)) = Cardinality(Pointing(held, k))
        /\ Cardinality(Pointing(held', k)) \in Nat
    BY <2>3, Repointed, SMTT(30)
  <2>5. Cardinality(Pointing(member', k)) = Cardinality(Pointing(member, k))
        /\ views'[k] = Cardinality(Pointing(viewed', k)) + IF seen' = k THEN 1 ELSE 0
    BY <2>1
  <2>6. Cardinality(Pointing(member, k)) \in Nat
    BY PointersCounted
  <2> QED BY <2>1, <2>2, <2>4, <2>5, <2>6
<1> QED BY <1>1 DEF RefCounts

LEMMA DropRefKeeps ==
    ASSUME NEW rank, Ordered(rank), RefInv(rank), NEW r \in Locals, DropRef(r)
    PROVE  RefInv(rank)'
<1> USE DEF RefInv
<1> DEFINE m == held[r]
<1>1. /\ m \in Nodes /\ stack = <<>>
      /\ refs' = [refs EXCEPT ![m] = @ - 1]
      /\ stack' = IF refs[m] = 1 THEN Push("destroy", m, stack) ELSE stack
      /\ held' = [held EXCEPT ![r] = NoNode]
      /\ UNCHANGED <<views, object, cb, seen, member, viewed>>
  BY DEF DropRef, DecrementRef, RefTypes
<1>2. refs[m] > 0
  BY <1>1, TargetsCounted
<1>3. RefCounts'
  <2>1. Moved(held, held', r) /\ held'[r] = NoNode
    BY <1>1, PointerTypes DEF Moved
  <2> QED BY <1>1, <2>1, HeldCleared
<1> HIDE DEF m
<1>4. /\ stack \in Seq(Frames) /\ Len(stack) = Len(stack)
      /\ \A i \in 1..Len(stack) : stack[i].node = stack[i].node
      /\ \A i \in 1..Len(stack) : rank[stack[i].node] < rank[m]
  BY <1>1 DEF RefTypes
<1>5. /\ refs' \in [Nodes -> Nat] /\ stack' \in Seq(Frames)
      /\ StackOrdered(rank)' /\ BlocksNeeded'
  BY <1>1, <1>2, <1>4, Decremented
<1>6. RefTypes'
  BY <1>1, <1>5 DEF RefTypes
<1>7. PointersAllowed'
  BY <1>1 DEF PointersAllowed
<1> QED BY <1>3, <1>5, <1>6, <1>7

\* release(): as reset(), but the object lives on.
LEMMA TakeObjectKeeps ==
    ASSUME NEW rank, Ordered(rank), RefInv(rank), NEW r \in Locals, TakeObject(r)
    PROVE  RefInv(rank)'
<1> USE DEF RefInv
<1> DEFINE m == held[r]
<1>1. /\ m \in Nodes /\ stack = <<>> /\ refs[m] = 1
      /\ refs' = [refs EXCEPT ![m] = @ - 1]
      /\ stack' = IF refs[m] = 1 THEN Push("cleared", m, stack) ELSE stack
      /\ held' = [held EXCEPT ![r] = NoNode]
      /\ UNCHANGED <<views, object, cb, seen, member, viewed>>
  BY DEF TakeObject, RefTypes
<1>2. refs[m] > 0
  BY <1>1
<1>3. RefCounts'
  <2>1. Moved(held, held', r) /\ held'[r] = NoNode
    BY <1>1, PointerTypes DEF Moved
  <2> QED BY <1>1, <2>1, HeldCleared
<1> HIDE DEF m
<1>4. /\ stack \in Seq(Frames) /\ Len(stack) = Len(stack)
      /\ \A i \in 1..Len(stack) : stack[i].node = stack[i].node
      /\ \A i \in 1..Len(stack) : rank[stack[i].node] < rank[m]
  BY <1>1 DEF RefTypes
<1>5. /\ refs' \in [Nodes -> Nat] /\ stack' \in Seq(Frames)
      /\ StackOrdered(rank)' /\ BlocksNeeded'
  BY <1>1, <1>2, <1>4, Decremented
<1>6. RefTypes'
  BY <1>1, <1>5 DEF RefTypes
<1>7. PointersAllowed'
  BY <1>1 DEF PointersAllowed
<1> QED BY <1>3, <1>5, <1>6, <1>7

\* What the innermost object points to outranks everything being destroyed.
LEMMA AboveStack ==
    ASSUME NEW rank, Ordered(rank), RefTypes, StackOrdered(rank), stack # <<>>,
           NEW m \in Nodes, <<Head(stack).node, m>> \in MayOwn \union MayView
    PROVE  \A i \in 1..Len(stack) : rank[stack[i].node] < rank[m]
<1>1. Head(stack) = stack[1] /\ Len(stack) \in Nat \ {0}
  BY PoppedFrame DEF RefTypes
<1>2. rank[stack[1].node] < rank[m]
  BY <1>1 DEF Ordered
<1>3. ASSUME NEW i \in 1..Len(stack)
      PROVE  rank[stack[i].node] < rank[m]
  <2>1. stack[1].node \in Nodes /\ stack[i].node \in Nodes /\ 1 \in 1..Len(stack)
    BY <1>1, StackNodes
  <2>2. /\ rank[stack[1].node] \in Nat /\ rank[stack[i].node] \in Nat /\ rank[m] \in Nat
    BY <2>1 DEF Ordered
  <2>3. i = 1 \/ rank[stack[1].node] > rank[stack[i].node]
    BY <2>1 DEF StackOrdered
  <2> QED BY <1>2, <2>2, <2>3
<1> QED BY <1>3

\* The callback destroys the RefPtr member.
LEMMA DestroyRefMemberKeeps ==
    ASSUME NEW rank, Ordered(rank), RefInv(rank), DestroyRefMember
    PROVE  RefInv(rank)'
<1> USE DEF RefInv
<1> DEFINE n == Head(stack).node
           s == Push("destroy_view", n, Tail(stack))
           m == member[n]
<1>1. /\ stack # <<>> /\ member' = [member EXCEPT ![n] = NoNode]
      /\ IF m = NoNode THEN stack' = s /\ UNCHANGED refs
         ELSE refs' = [refs EXCEPT ![m] = @ - 1]
              /\ stack' = IF refs[m] = 1 THEN Push("destroy", m, s) ELSE s
      /\ UNCHANGED <<views, object, cb, held, seen, viewed>>
  BY DEF DestroyRefMember, DecrementRef, Pop
<1>2. n \in Nodes /\ Len(stack) \in Nat
  BY <1>1, PoppedFrame DEF RefTypes, Frames
<1>3. /\ s \in Seq(Frames) /\ Len(s) = Len(stack)
      /\ \A i \in 1..Len(stack) : s[i].node = stack[i].node
  BY <1>1, SteppedFrame DEF RefTypes
<1> HIDE DEF n, s
<1>4. m \in Nodes \union {NoNode} /\ member' \in [Nodes -> Nodes \union {NoNode}]
  BY <1>1, <1>2 DEF RefTypes
<1>5. PointersAllowed'
  BY <1>1, <1>2 DEF PointersAllowed, RefTypes
<1>6. CASE m = NoNode
  <2>1. member' = member /\ refs' = refs /\ stack' = s
    BY <1>1, <1>2, <1>6 DEF RefTypes
  <2>2. RefTypes'
    BY <1>1, <1>3, <2>1 DEF RefTypes
  <2>3. RefCounts'
    BY <1>1, <2>1 DEF RefCounts
  <2>4. StackOrdered(rank)'
    BY <1>3, <2>1 DEF StackOrdered
  <2>5. BlocksNeeded'
    BY <1>1, <1>3, <2>1 DEF BlocksNeeded, OnStack
  <2> QED BY <1>5, <2>2, <2>3, <2>4, <2>5
<1>7. CASE m # NoNode
  <2>1. /\ m \in Nodes /\ refs' = [refs EXCEPT ![m] = @ - 1]
        /\ stack' = IF refs[m] = 1 THEN Push("destroy", m, s) ELSE s
    BY <1>1, <1>4, <1>7
  <2>2. refs[m] > 0
    BY <1>2, <2>1, TargetsCounted
  <2>3. \A i \in 1..Len(stack) : rank[stack[i].node] < rank[m]
    <3>1. <<n, m>> \in MayOwn \union MayView
      BY <1>2, <1>7 DEF PointersAllowed
    <3> QED BY <1>1, <2>1, <3>1, AboveStack DEF n
  <2>4. RefCounts'
    <3>1. ASSUME NEW k \in Nodes
          PROVE  /\ refs'[k] = Cardinality(Pointing(held', k)) + Cardinality(Pointing(member', k))
                 /\ views'[k] = Cardinality(Pointing(viewed', k)) + IF seen' = k THEN 1 ELSE 0
      <4>1. /\ refs[k] = Cardinality(Pointing(held, k)) + Cardinality(Pointing(member, k))
            /\ views[k] = Cardinality(Pointing(viewed, k)) + IF seen = k THEN 1 ELSE 0
        BY DEF RefCounts
      <4>2. /\ k = m => refs'[k] = refs[k] - 1
            /\ k # m => refs'[k] = refs[k]
        BY <2>1 DEF RefTypes
      <4>3. Moved(member, member', n) /\ member'[n] # k
        BY <1>1, <1>2, PointerTypes DEF Moved
      <4>4. /\ k = m => Cardinality(Pointing(member, k)) = Cardinality(Pointing(member', k)) + 1
            /\ k # m => Cardinality(Pointing(member', k)) = Cardinality(Pointing(member, k))
            /\ Cardinality(Pointing(member', k)) \in Nat
        BY <4>3, Repointed, SMTT(30)
      <4> QED BY <1>1, <4>1, <4>2, <4>4, PointersCounted
    <3> QED BY <3>1 DEF RefCounts
  <2> HIDE DEF m
  <2>5. /\ refs' \in [Nodes -> Nat] /\ stack' \in Seq(Frames)
        /\ StackOrdered(rank)' /\ BlocksNeeded'
    BY <1>1, <1>3, <2>1, <2>2, <2>3, Decremented
  <2>6. RefTypes'
    BY <1>1, <1>4, <2>5 DEF RefTypes
  <2> QED BY <1>5, <2>4, <2>5, <2>6
<1> QED BY <1>6, <1>7

\* A view of m ends, and m is not being destroyed: its block is freed here exactly
\* when nothing else refers to it.
LEMMA ViewEnded ==
    ASSUME NEW rank, RefInv(rank), NEW m \in Nodes, views[m] > 0, ~OnStack(m),
           DecrementView(m), refs' = refs,
           Len(stack') = Len(stack),
           \A i \in 1..Len(stack) : stack'[i].node = stack[i].node,
           \A k \in Nodes : object'[k] = "none" => object[k] = "none"
    PROVE  StackOrdered(rank)' /\ BlocksNeeded'
<1> USE DEF RefInv
<1>1. /\ views'[m] = views[m] - 1 /\ views[m] \in Nat
      /\ \A k \in Nodes \ {m} : views'[k] = views[k]
  BY DEF DecrementView, RefTypes
<1>2. /\ cb'[m] = IF views[m] = 1 /\ refs[m] = 0 THEN "freed" ELSE cb[m]
      /\ \A k \in Nodes \ {m} : cb'[k] = cb[k]
  BY DEF DecrementView, FreesBlock, RefTypes
<1>3. StackOrdered(rank)'
  BY DEF StackOrdered
<1>4. \A k \in Nodes : OnStack(k)' <=> OnStack(k)
  BY DEF OnStack
<1>5. ASSUME NEW k \in Nodes
      PROVE  /\ cb'[k] = "live" <=> refs'[k] > 0 \/ views'[k] > 0 \/ OnStack(k)'
             /\ object'[k] = "none" => cb'[k] # "live"
  <2>1. /\ cb[k] = "live" <=> refs[k] > 0 \/ views[k] > 0 \/ OnStack(k)
        /\ object[k] = "none" => cb[k] # "live"
    BY DEF BlocksNeeded
  <2>2. refs[m] \in Nat
    BY DEF RefTypes
  <2>3. CASE k = m
    BY <1>1, <1>2, <1>4, <2>1, <2>2, <2>3
  <2>4. CASE k # m
    BY <1>1, <1>2, <1>4, <2>1, <2>4
  <2> QED BY <2>3, <2>4
<1>6. BlocksNeeded'
  BY <1>5 DEF BlocksNeeded
<1> QED BY <1>3, <1>6

LEMMA DecrementTypes ==
    ASSUME RefTypes, NEW m \in Nodes, views[m] > 0, DecrementView(m)
    PROVE  /\ views' \in [Nodes -> Nat] /\ cb' \in [Nodes -> {"none", "live", "freed"}]
           /\ views'[m] = views[m] - 1 /\ \A k \in Nodes \ {m} : views'[k] = views[k]
<1>1. views' \in [Nodes -> Nat] /\ views'[m] = views[m] - 1
      /\ \A k \in Nodes \ {m} : views'[k] = views[k]
  BY DEF DecrementView, RefTypes
<1>2. cb' \in [Nodes -> {"none", "live", "freed"}]
  BY DEF DecrementView, RefTypes
<1> QED BY <1>1, <1>2

\* The callback destroys the ViewPtr member, and with it the object.
LEMMA DestroyViewMemberKeeps ==
    ASSUME NEW rank, Ordered(rank), RefInv(rank), DestroyViewMember
    PROVE  RefInv(rank)'
<1> USE DEF RefInv
<1> DEFINE n == Head(stack).node
           s == Push("cleared", n, Tail(stack))
           m == viewed[n]
<1>1. /\ stack # <<>> /\ viewed' = [viewed EXCEPT ![n] = NoNode]
      /\ object' = [object EXCEPT ![n] = "destroyed"] /\ stack' = s
      /\ IF m = NoNode THEN UNCHANGED <<views, cb>> ELSE DecrementView(m)
      /\ UNCHANGED <<refs, held, seen, member>>
  BY DEF DestroyViewMember, Pop
<1>2. n \in Nodes
  BY <1>1, PoppedFrame DEF RefTypes, Frames
<1>3. /\ s \in Seq(Frames) /\ Len(s) = Len(stack)
      /\ \A i \in 1..Len(stack) : s[i].node = stack[i].node
  BY <1>1, SteppedFrame DEF RefTypes
<1> HIDE DEF n, s
<1>4. /\ m \in Nodes \union {NoNode} /\ viewed' \in [Nodes -> Nodes \union {NoNode}]
      /\ object' \in [Nodes -> {"none", "alive", "destroyed"}]
      /\ \A k \in Nodes : object'[k] = "none" => object[k] = "none"
  BY <1>1, <1>2 DEF RefTypes
<1>5. PointersAllowed'
  BY <1>1, <1>2 DEF PointersAllowed, RefTypes
<1>6. CASE m = NoNode
  <2>1. viewed' = viewed /\ views' = views /\ cb' = cb
    BY <1>1, <1>2, <1>6 DEF RefTypes
  <2>2. RefTypes'
    BY <1>1, <1>3, <1>4, <2>1 DEF RefTypes
  <2>3. RefCounts'
    BY <1>1, <2>1 DEF RefCounts
  <2>4. StackOrdered(rank)'
    BY <1>1, <1>3 DEF StackOrdered
  <2>5. BlocksNeeded'
    BY <1>1, <1>3, <1>4, <2>1 DEF BlocksNeeded, OnStack
  <2> QED BY <1>5, <2>2, <2>3, <2>4, <2>5
<1>7. CASE m # NoNode
  <2>1. m \in Nodes /\ DecrementView(m)
    BY <1>1, <1>4, <1>7
  <2>2. views[m] > 0
    BY <1>2, <2>1, TargetsCounted
  <2>3. ~OnStack(m)
    <3>1. <<n, m>> \in MayOwn \union MayView
      BY <1>2, <1>7 DEF PointersAllowed
    <3>2. \A i \in 1..Len(stack) : rank[stack[i].node] < rank[m]
      BY <1>1, <2>1, <3>1, AboveStack DEF n
    <3> QED BY <2>1, <3>2 DEF OnStack, Ordered
  <2>4. /\ views' \in [Nodes -> Nat] /\ cb' \in [Nodes -> {"none", "live", "freed"}]
        /\ views'[m] = views[m] - 1 /\ \A k \in Nodes \ {m} : views'[k] = views[k]
    BY <2>1, <2>2, DecrementTypes
  <2>5. RefTypes'
    BY <1>1, <1>3, <1>4, <2>4 DEF RefTypes
  <2>6. RefCounts'
    <3>1. ASSUME NEW k \in Nodes
          PROVE  /\ refs'[k] = Cardinality(Pointing(held', k)) + Cardinality(Pointing(member', k))
                 /\ views'[k] = Cardinality(Pointing(viewed', k)) + IF seen' = k THEN 1 ELSE 0
      <4>1. /\ refs[k] = Cardinality(Pointing(held, k)) + Cardinality(Pointing(member, k))
            /\ views[k] = Cardinality(Pointing(viewed, k)) + IF seen = k THEN 1 ELSE 0
        BY DEF RefCounts
      <4>2. Moved(viewed, viewed', n) /\ viewed'[n] # k
        BY <1>1, <1>2, PointerTypes DEF Moved
      <4>3. /\ k = m => Cardinality(Pointing(viewed, k)) = Cardinality(Pointing(viewed', k)) + 1
            /\ k # m => Cardinality(Pointing(viewed', k)) = Cardinality(Pointing(viewed, k))
            /\ Cardinality(Pointing(viewed', k)) \in Nat
        BY <4>2, Repointed, SMTT(30)
      <4> QED BY <1>1, <2>4, <4>1, <4>3
    <3> QED BY <3>1 DEF RefCounts
  <2>7. StackOrdered(rank)' /\ BlocksNeeded'
    BY <1>1, <1>3, <1>4, <2>1, <2>2, <2>3, ViewEnded
  <2> QED BY <1>5, <2>5, <2>6, <2>7
<1> QED BY <1>6, <1>7

\* The program's own view ends.
LEMMA DropViewKeeps ==
    ASSUME NEW rank, RefInv(rank), DropView
    PROVE  RefInv(rank)'
<1> USE DEF RefInv
<1>1. /\ seen \in Nodes /\ stack = <<>> /\ DecrementView(seen) /\ seen' = NoNode
      /\ UNCHANGED <<refs, object, held, member, viewed, stack>>
  BY DEF DropView, RefTypes
<1>2. views[seen] > 0
  BY <1>1, TargetsCounted
<1>3. ~OnStack(seen)
  BY <1>1, NothingOnStack
<1>4. /\ views' \in [Nodes -> Nat] /\ cb' \in [Nodes -> {"none", "live", "freed"}]
      /\ views'[seen] = views[seen] - 1 /\ \A k \in Nodes \ {seen} : views'[k] = views[k]
  BY <1>1, <1>2, DecrementTypes
<1>5. RefTypes'
  BY <1>1, <1>4 DEF RefTypes
<1>6. RefCounts'
  <2>1. ASSUME NEW k \in Nodes
        PROVE  /\ refs'[k] = Cardinality(Pointing(held', k)) + Cardinality(Pointing(member', k))
               /\ views'[k] = Cardinality(Pointing(viewed', k)) + IF seen' = k THEN 1 ELSE 0
    <3>1. /\ refs[k] = Cardinality(Pointing(held, k)) + Cardinality(Pointing(member, k))
          /\ views[k] = Cardinality(Pointing(viewed, k)) + IF seen = k THEN 1 ELSE 0
      BY DEF RefCounts
    <3> QED BY <1>1, <1>4, <3>1, PointersCounted, NodesAssumption
  <2> QED BY <2>1 DEF RefCounts
<1>7. PointersAllowed'
  BY <1>1 DEF PointersAllowed
<1>8. StackOrdered(rank)' /\ BlocksNeeded'
  BY <1>1, <1>2, <1>3, ViewEnded
<1> QED BY <1>5, <1>6, <1>7, <1>8

\* reset() comes back from the callback and frees the block nothing views.
LEMMA FreeRefBlockKeeps ==
    ASSUME NEW rank, Ordered(rank), RefInv(rank), FreeRefBlock
    PROVE  RefInv(rank)'
<1> USE DEF RefInv
<1>0. PICK n \in Nodes : n = Head(stack).node
  BY PoppedFrame DEF FreeRefBlock, RefTypes, Frames
<1>1. /\ stack # <<>> /\ stack' = Tail(stack)
      /\ cb' = IF views[n] = 0 THEN [cb EXCEPT ![n] = "freed"] ELSE cb
      /\ UNCHANGED <<refs, views, object, held, seen, member, viewed>>
  BY <1>0 DEF FreeRefBlock, Pop
<1>2. /\ stack' \in Seq(Frames) /\ Len(stack) \in Nat \ {0} /\ Len(stack') = Len(stack) - 1
      /\ \A i \in 1..Len(stack') : stack'[i] = stack[i + 1]
      /\ n = stack[1].node /\ n \in Nodes
  BY <1>0, <1>1, PoppedFrame DEF RefTypes
<1>3. RefTypes'
  BY <1>1, <1>2 DEF RefTypes
<1>4. RefCounts'
  BY <1>1 DEF RefCounts
<1>5. PointersAllowed'
  BY <1>1 DEF PointersAllowed
<1>6. StackOrdered(rank)'
  <2>1. \A i \in 1..Len(stack') : i + 1 \in 1..Len(stack)
    BY <1>2
  <2>2. \A i, j \in 1..Len(stack') : i < j => i + 1 < j + 1
    BY <1>2
  <2>3. \A i \in 1..Len(stack') : stack'[i].node = stack[i + 1].node
    BY <1>2
  <2> QED BY <1>1, <2>1, <2>2, <2>3 DEF StackOrdered
<1>7. refs[n] = 0 /\ OnStack(n)
  BY <1>2 DEF StackOrdered, OnStack
<1>8. ~OnStack(n)'
  <2>1. ASSUME NEW i \in 1..Len(stack'), stack'[i].node = n
        PROVE  FALSE
    <3>1. 1 \in 1..Len(stack) /\ i + 1 \in 1..Len(stack) /\ 1 < i + 1
      BY <1>2
    <3>2. rank[stack[1].node] > rank[stack[i + 1].node]
      BY <3>1 DEF StackOrdered
    <3>3. stack[i + 1].node = n
      BY <1>2, <2>1
    <3>4. rank[n] > rank[n] /\ rank[n] \in Nat
      BY <1>2, <3>2, <3>3 DEF Ordered
    <3> QED BY <3>4
  <2> QED BY <2>1 DEF OnStack
<1>9. \A k \in Nodes \ {n} : OnStack(k)' <=> OnStack(k)
  <2>1. ASSUME NEW k \in Nodes \ {n}, OnStack(k)
        PROVE  OnStack(k)'
    <3>1. PICK i \in 1..Len(stack) : stack[i].node = k
      BY <2>1 DEF OnStack
    <3>2. i - 1 \in 1..Len(stack') /\ (i - 1) + 1 = i
      BY <1>2, <3>1
    <3>3. stack'[i - 1].node = k
      BY <1>2, <3>1, <3>2
    <3> QED BY <3>2, <3>3 DEF OnStack
  <2>2. ASSUME NEW k \in Nodes \ {n}, OnStack(k)'
        PROVE  OnStack(k)
    <3>1. PICK i \in 1..Len(stack') : stack'[i].node = k
      BY <2>2 DEF OnStack
    <3>2. i + 1 \in 1..Len(stack) /\ stack[i + 1].node = k
      BY <1>2, <3>1
    <3> QED BY <3>2 DEF OnStack
  <2> QED BY <2>1, <2>2
<1>10. BlocksNeeded'
  <2>1. /\ cb'[n] = IF views[n] = 0 THEN "freed" ELSE cb[n]
        /\ \A k \in Nodes \ {n} : cb'[k] = cb[k]
    BY <1>1, <1>2 DEF RefTypes
  <2>2. views[n] \in Nat
    BY <1>2 DEF RefTypes
  <2>3. ASSUME NEW k \in Nodes
        PROVE  /\ cb'[k] = "live" <=> refs'[k] > 0 \/ views'[k] > 0 \/ OnStack(k)'
               /\ object'[k] = "none" => cb'[k] # "live"
    <3>1. /\ cb[k] = "live" <=> refs[k] > 0 \/ views[k] > 0 \/ OnStack(k)
          /\ object[k] = "none" => cb[k] # "live"
      BY DEF BlocksNeeded
    <3>2. CASE k = n
      BY <1>1, <1>7, <1>8, <2>1, <2>2, <3>1, <3>2
    <3>3. CASE k # n
      BY <1>1, <1>9, <2>1, <3>1, <3>3
    <3> QED BY <3>2, <3>3
  <2> QED BY <2>3 DEF BlocksNeeded
<1> QED BY <1>3, <1>4, <1>5, <1>6, <1>10

LEMMA RefInvStep ==
    ASSUME NEW rank, Ordered(rank), RefInv(rank), [RefNext]_refVars
    PROVE  RefInv(rank)'
<1>1. CASE UNCHANGED refVars
  BY <1>1 DEF refVars, RefInv, RefTypes, RefCounts, PointersAllowed, StackOrdered,
              BlocksNeeded, OnStack
<1>2. CASE RefNext
  <2>1. CASE \E r \in Locals, n \in Nodes : NewRef(r, n) \/ CopyRef(r, n) \/ NewView(r, n)
    BY <2>1, NewRefKeeps, CopyRefKeeps, NewViewKeeps
  <2>2. CASE \E r \in Locals : DropRef(r) \/ TakeObject(r)
    BY <2>2, DropRefKeeps, TakeObjectKeeps
  <2>3. CASE DropView \/ DestroyRefMember \/ DestroyViewMember \/ FreeRefBlock
    BY <2>3, DropViewKeeps, DestroyRefMemberKeeps, DestroyViewMemberKeeps, FreeRefBlockKeeps
  <2> QED BY <1>2, <2>1, <2>2, <2>3 DEF RefNext
<1> QED BY <1>1, <1>2

\* What the invariant says of reset() and of the blocks.
LEMMA RefInvSound ==
    ASSUME NEW rank, RefInv(rank)
    PROVE  RefBlocksSound
<1> USE DEF RefInv
<1>1. ASSUME NEW i \in 1..Len(stack)
      PROVE  cb[stack[i].node] = "live"
  BY <1>1, StackNodes DEF BlocksNeeded, OnStack
<1>2. ASSUME NEW n \in ({held[r] : r \in Locals} \union {seen} \union {member[m] : m \in Nodes}
                         \union {viewed[m] : m \in Nodes}) \ {NoNode}
      PROVE  cb[n] = "live"
  <2>1. n \in Nodes
    BY <1>2 DEF RefTypes
  <2>2. refs[n] > 0 \/ views[n] > 0
    BY <2>1, TargetsCounted
  <2> QED BY <2>1, <2>2 DEF BlocksNeeded
<1>3. RefBlocksFreed
  <2>1. ASSUME stack = <<>>, NEW n \in Nodes
        PROVE  cb[n] = "live" <=> refs[n] + views[n] > 0
    <3>1. cb[n] = "live" <=> refs[n] > 0 \/ views[n] > 0
      BY <2>1, NothingOnStack DEF BlocksNeeded
    <3>2. refs[n] \in Nat /\ views[n] \in Nat
      BY DEF RefTypes
    <3> QED BY <3>1, <3>2
  <2> QED BY <2>1 DEF RefBlocksFreed
<1>4. ResetKeepsItsBlock
  BY <1>1, <1>2 DEF ResetKeepsItsBlock
<1> QED BY <1>3, <1>4 DEF RefBlocksSound

\* As long as the pointers of an object never lead back to it, however deep the
\* destroy callbacks nest: RefPtr::reset() comes back to a block that is still
\* allocated, every RefPtr and ViewPtr has one, and a block is freed with its last
\* reference or view (RefPtr.h reset(), ViewPtr.h release()).
THEOREM RefBlocksStaySound ==
    ASSUME NoWayBack
    PROVE  RefSpec => []RefBlocksSound
<1>1. PICK rank : Ordered(rank)
  BY DEF NoWayBack
<1>2. RefInit => RefInv(rank)
  BY RefInvInit
<1>3. RefInv(rank) /\ [RefNext]_refVars => RefInv(rank)'
  BY <1>1, RefInvStep
<1>4. RefInv(rank) => RefBlocksSound
  BY RefInvSound
<1> QED BY <1>2, <1>3, <1>4, PTL DEF RefSpec

-----------------------------------------------------------------------------
(***************************************************************************)
(* Handles that own alone: the chains of cells they own.                   *)
(***************************************************************************)
\* Induction from the inner end of the chains.
LEMMA InwardInduction ==
    ASSUME HandlesTypes, NEW n \in Nat, Acyclic(n), NEW P, NoCell \in P,
           \A d \in Cells : inner[d] \in P => d \in P
    PROVE  Cells \subseteq P
<1>1. PICK rank \in [Cells -> 0..n] : Ranked(rank)
  BY DEF Acyclic
<1> DEFINE Q == {k \in Nat : \A d \in Cells : rank[d] < k => d \in P}
<1>2. 0 \in Q
  <2>1. \A d \in Cells : ~(rank[d] < 0)
    BY <1>1
  <2> QED BY <2>1
<1>3. ASSUME NEW k \in Nat, k \in Q
      PROVE  k + 1 \in Q
  <2>1. ASSUME NEW d \in Cells, rank[d] < k + 1
        PROVE  d \in P
    <3>1. CASE inner[d] = NoCell
      BY <3>1
    <3>2. CASE inner[d] # NoCell
      <4>1. inner[d] \in Cells /\ rank[inner[d]] < rank[d]
        BY <1>1, <3>2 DEF HandlesTypes, Ranked
      <4>2. rank[inner[d]] \in Nat /\ rank[d] \in Nat
        BY <1>1, <4>1
      <4>3. rank[inner[d]] < k
        BY <2>1, <4>1, <4>2
      <4> QED BY <1>3, <4>1, <4>3
    <3> QED BY <3>1, <3>2
  <2> QED BY <2>1
<1>4. Nat \subseteq Q
  <2> HIDE DEF Q
  <2> QED BY <1>2, <1>3, NumbersByInduction
<1>5. \A d \in Cells : rank[d] < n + 1
  BY <1>1
<1>6. n + 1 \in Q
  BY <1>4
<1> QED BY <1>5, <1>6

\* Chain() is what its definition says, when the cells form chains.
LEMMA ChainIsDefined ==
    ASSUME HandlesTypes, NEW n \in Nat, Acyclic(n)
    PROVE  /\ Chain(NoCell) = <<>>
           /\ \A d \in Cells : Chain(d) = <<d>> \o Chain(inner[d]) /\ Chain(d) \in Seq(Cells)
<1> DEFINE D == Cells \union {NoCell}
           S == [D -> Seq(Cells)]
           base == [d \in D |-> <<>>]
           Longer(f) == [d \in D |-> IF d = NoCell THEN <<>> ELSE <<d>> \o f[inner[d]]]
           longer == [p \in S \X (1..(n + 2)) |-> Longer(p[1])]
           Rec(f) == f = Longer(f)
<1>1. \A d \in Cells : d \in D /\ d # NoCell /\ inner[d] \in D
  BY HandlesAssumption DEF HandlesTypes
<1>2. base \in S /\ \A f \in S : Longer(f) \in S
  <2>1. base \in S
    OBVIOUS
  <2>2. ASSUME NEW f \in S
        PROVE  Longer(f) \in S
    <3>1. ASSUME NEW d \in D
          PROVE  (IF d = NoCell THEN <<>> ELSE <<d>> \o f[inner[d]]) \in Seq(Cells)
      <4>1. CASE d = NoCell
        BY <4>1
      <4>2. CASE d # NoCell
        <5>1. d \in Cells /\ f[inner[d]] \in Seq(Cells)
          BY <1>1, <4>2
        <5>2. <<d>> \o f[inner[d]] \in Seq(Cells)
          BY <5>1
        <5> QED BY <4>2, <5>2
      <4> QED BY <4>1, <4>2
    <3> QED BY <3>1
  <2> QED BY <2>1, <2>2
<1>3. longer \in [S \X (1..(n + 2)) -> S] /\ \A f \in S, i \in 1..(n + 2) : longer[<<f, i>>] = Longer(f)
  <2> HIDE DEF S, Longer
  <2> QED BY <1>2
<1> HIDE DEF longer
<1>4. PICK g : Loop(g, S, base, n + 2, longer)
  <2> HIDE DEF S, base
  <2>1. n + 2 \in Nat /\ base \in S
    BY <1>2
  <2> QED BY <1>3, <2>1, LoopExists
<1>5. /\ \A i \in 0..(n + 2) : g[i] \in S
      /\ g[0] = base
      /\ \A i \in 0..(n + 1) : g[i + 1] = Longer(g[i])
  <2>1. \A i \in 0..(n + 1) : i + 1 \in 1..(n + 2) /\ (i + 1) - 1 = i /\ i \in 0..(n + 2)
    OBVIOUS
  <2> HIDE DEF S, base, Longer
  <2> QED BY <1>3, <1>4, <2>1 DEF Loop
<1>6. PICK rank \in [Cells -> 0..n] : Ranked(rank)
  BY DEF Acyclic
\* The first k turns are enough for the cells of rank below k.
<1> DEFINE Enough(k) == \A d \in Cells : rank[d] < k => g[k][d] = g[k + 1][d]
           P == {k \in Nat : k <= n + 1 => Enough(k)}
<1>7. 0 \in P
  <2>1. \A d \in Cells : ~(rank[d] < 0)
    BY <1>6
  <2> QED BY <2>1
<1>8. ASSUME NEW k \in Nat, k \in P
      PROVE  k + 1 \in P
  <2>1. SUFFICES ASSUME k + 1 <= n + 1, NEW d \in Cells, rank[d] < k + 1
                 PROVE  g[k + 1][d] = g[(k + 1) + 1][d]
    OBVIOUS
  <2>2. k \in 0..(n + 1) /\ k + 1 \in 0..(n + 1) /\ k <= n + 1
    BY <2>1
  <2>3. g[k + 1] = Longer(g[k]) /\ g[(k + 1) + 1] = Longer(g[k + 1])
    BY <1>5, <2>2
  <2>4. g[k + 1][d] = <<d>> \o g[k][inner[d]] /\ g[(k + 1) + 1][d] = <<d>> \o g[k + 1][inner[d]]
    BY <1>1, <2>3
  <2>5. g[k][inner[d]] = g[k + 1][inner[d]]
    <3>1. CASE inner[d] = NoCell
      <4>1. \A f : Longer(f)[NoCell] = <<>>
        OBVIOUS
      <4>2. g[k + 1][NoCell] = <<>>
        BY <2>3, <4>1
      <4>3. g[k][NoCell] = <<>>
        <5>1. CASE k = 0
          BY <1>5, <5>1
        <5>2. CASE k # 0
          <6>1. k - 1 \in 0..(n + 1) /\ (k - 1) + 1 = k
            BY <2>2, <5>2
          <6>2. g[k] = Longer(g[k - 1])
            BY <1>5, <6>1
          <6> QED BY <4>1, <6>2
        <5> QED BY <5>1, <5>2
      <4> QED BY <3>1, <4>2, <4>3
    <3>2. CASE inner[d] # NoCell
      <4>1. inner[d] \in Cells /\ rank[inner[d]] < rank[d]
        BY <1>6, <3>2 DEF HandlesTypes, Ranked
      <4>2. rank[inner[d]] \in Nat /\ rank[d] \in Nat
        BY <1>6, <4>1
      <4>3. rank[inner[d]] < k
        BY <2>1, <4>1, <4>2
      <4>4. Enough(k)
        BY <1>8, <2>2
      <4> QED BY <4>1, <4>3, <4>4
    <3> QED BY <3>1, <3>2
  <2> QED BY <2>4, <2>5
<1>9. Enough(n + 1)
  <2>1. n + 1 \in Nat /\ n + 1 <= n + 1
    OBVIOUS
  <2> HIDE DEF Enough
  <2>2. Nat \subseteq P
    <3> HIDE DEF P
    <3> QED BY <1>7, <1>8, NumbersByInduction
  <2> QED BY <2>1, <2>2
<1>10. \E f : Rec(f)
  <2>1. PICK f : f = g[n + 1]
    OBVIOUS
  <2>2. f \in S /\ g[(n + 1) + 1] = Longer(f)
    <3>1. n + 1 \in 0..(n + 1) /\ n + 1 \in 0..(n + 2)
      OBVIOUS
    <3> HIDE DEF S, Longer
    <3> QED BY <1>5, <2>1, <3>1
  <2>3. ASSUME NEW d \in D
        PROVE  f[d] = Longer(f)[d]
    <3>1. CASE d \in Cells
      <4>1. rank[d] < n + 1
        BY <1>6, <3>1
      <4> QED BY <1>9, <2>1, <2>2, <3>1, <4>1
    <3>2. CASE d = NoCell
      <4>1. n \in 0..(n + 1)
        OBVIOUS
      <4>2. f = Longer(g[n])
        <5> HIDE DEF Longer
        <5> QED BY <1>5, <2>1, <4>1
      <4> QED BY <3>2, <4>2
    <3> QED BY <3>1, <3>2
  <2>4. DOMAIN f = D /\ DOMAIN Longer(f) = D
    BY <2>2
  <2>5. f = [d \in D |-> f[d]] /\ Longer(f) = [d \in D |-> Longer(f)[d]]
    BY <2>2
  <2>6. Rec(f)
    <3>1. [d \in D |-> f[d]] = [d \in D |-> Longer(f)[d]]
      <4> HIDE DEF Longer, D
      <4> QED BY <2>3
    <3> HIDE DEF Longer
    <3> QED BY <2>5, <3>1
  <2> QED BY <2>6
<1> DEFINE chain == CHOOSE f : Rec(f)
<1>11. Rec(chain)
  BY <1>10
<1>12. \A c : Chain(c) = chain[c]
  BY DEF Chain
<1> HIDE DEF chain
<1>13. chain[NoCell] = <<>> /\ \A d \in Cells : chain[d] = <<d>> \o chain[inner[d]]
  BY <1>1, <1>11
<1>14. \A d \in Cells : chain[d] \in Seq(Cells)
  <2> DEFINE T == {d \in D : chain[d] \in Seq(Cells)}
  <2>1. NoCell \in T
    <3>1. <<>> \in Seq(Cells)
      OBVIOUS
    <3> QED BY <1>13, <3>1
  <2>2. ASSUME NEW d \in Cells, inner[d] \in T
        PROVE  d \in T
    <3>1. chain[inner[d]] \in Seq(Cells)
      BY <2>2
    <3>2. <<d>> \o chain[inner[d]] \in Seq(Cells)
      BY <3>1
    <3> QED BY <1>13, <3>2
  <2>3. Cells \subseteq T
    <3> HIDE DEF T
    <3> QED BY <2>1, <2>2, InwardInduction
  <2> QED BY <2>3
<1> QED BY <1>12, <1>13, <1>14

\* The cells that destroying c destroys: c, what a cell of them holds, nothing else.
Reach(c, K) ==
    /\ K \subseteq Cells
    /\ c # NoCell => c \in K
    /\ \A e \in K : Live(e) /\ (inner[e] # NoCell => inner[e] \in K)
    /\ \A e \in K : e = c \/ \E f \in K : inner[f] = e

LEMMA ChainReach ==
    ASSUME HandlesInv, NEW c \in Cells \union {NoCell}, c # NoCell => Live(c)
    PROVE  Reach(c, CellsOf(c))
<1>1. PICK n \in Nat : HandlesTypes /\ Acyclic(n)
  BY DEF HandlesInv
<1>2. /\ Chain(NoCell) = <<>>
      /\ \A d \in Cells : Chain(d) = <<d>> \o Chain(inner[d]) /\ Chain(d) \in Seq(Cells)
  BY <1>1, ChainIsDefined
<1>3. CellsOf(NoCell) = {}
  BY <1>2 DEF CellsOf
<1>4. \A d \in Cells : inner[d] \in Cells \union {NoCell}
  BY <1>1 DEF HandlesTypes
<1>5. ASSUME NEW d \in Cells
      PROVE  CellsOf(d) = {d} \union CellsOf(inner[d])
  <2>1. Chain(inner[d]) \in Seq(Cells)
    <3>1. <<>> \in Seq(Cells)
      OBVIOUS
    <3> QED BY <1>2, <1>4, <3>1
  <2>2. PICK s \in Seq(Cells) : s = Chain(inner[d])
    BY <2>1
  <2>3. PICK t : t = <<d>> \o s
    OBVIOUS
  <2>4. Len(s) \in Nat /\ Len(t) = Len(s) + 1 /\ t[1] = d /\ \A i \in 1..Len(s) : t[i + 1] = s[i]
    BY <2>2, <2>3
  <2>5. {t[i] : i \in 1..Len(t)} = {d} \union {s[i] : i \in 1..Len(s)}
    <3>1. ASSUME NEW i \in 1..Len(t)
          PROVE  t[i] \in {d} \union {s[j] : j \in 1..Len(s)}
      <4>1. CASE i = 1
        BY <2>4, <4>1
      <4>2. CASE i # 1
        <5>1. i - 1 \in 1..Len(s) /\ (i - 1) + 1 = i
          BY <2>4, <4>2
        <5> QED BY <2>4, <5>1
      <4> QED BY <4>1, <4>2
    <3>2. 1 \in 1..Len(t) /\ \A i \in 1..Len(s) : i + 1 \in 1..Len(t)
      BY <2>4
    <3> QED BY <2>4, <3>1, <3>2
  <2>6. Chain(d) = t
    BY <1>2, <2>2, <2>3
  <2>7. CellsOf(d) = {t[i] : i \in 1..Len(t)} /\ CellsOf(inner[d]) = {s[i] : i \in 1..Len(s)}
    BY <2>2, <2>6 DEF CellsOf
  <2> QED BY <2>5, <2>7
<1> DEFINE Good(d) == d # NoCell /\ Live(d) => Reach(d, CellsOf(d))
           P == {d \in Cells \union {NoCell} : Good(d)}
<1>6. NoCell \in P
  OBVIOUS
<1>7. ASSUME NEW d \in Cells, inner[d] \in P
      PROVE  d \in P
  <2> SUFFICES ASSUME Live(d)
               PROVE  Reach(d, CellsOf(d))
    OBVIOUS
  <2>1. PICK e : e = inner[d]
    OBVIOUS
  <2>2. PICK K, L : K = CellsOf(d) /\ L = CellsOf(e) /\ K = {d} \union L
    BY <1>5, <2>1
  <2>3. CASE e = NoCell
    BY <1>3, <2>1, <2>2, <2>3 DEF Reach
  <2>4. CASE e # NoCell
    <3>1. e \in Cells /\ Live(e)
      <4>1. e \in Cells
        BY <1>4, <2>1, <2>4
      <4> QED BY <2>1, <4>1 DEF HandlesInv, OwnersInv, Owned
    <3>2. Reach(e, L)
      BY <1>7, <2>1, <2>2, <2>4, <3>1
    <3>3. Reach(d, K)
      BY <2>1, <2>2, <3>1, <3>2 DEF Reach
    <3> QED BY <2>2, <3>3
  <2> QED BY <2>3, <2>4
<1>8. Cells \subseteq P
  <2> HIDE DEF P
  <2> QED BY <1>1, <1>6, <1>7, InwardInduction
<1>9. CASE c = NoCell
  BY <1>3, <1>9 DEF Reach
<1>10. CASE c \in Cells
  <2>1. Good(c)
    BY <1>8, <1>10
  <2>2. c # NoCell
    BY <1>10, HandlesAssumption
  <2> QED BY <2>1, <2>2
<1> QED BY <1>9, <1>10

\* What a handle owns is destroyed with everything inside it.
LEMMA DestroyedCells ==
    ASSUME HandlesInv, NEW x \in HandleVars
    PROVE  \E K : Reach(root[x], K)
                  /\ Destroyed(root[x]) = [d \in Cells |-> IF d \in K THEN "freed" ELSE cells[d]]
<1>1. PICK c : c = root[x]
  OBVIOUS
<1>2. c \in Cells \union {NoCell}
  BY <1>1 DEF HandlesInv, HandlesTypes
<1>3. c # NoCell => Live(c)
  BY <1>1, <1>2 DEF HandlesInv, OwnersInv, Owned
<1>4. Reach(c, CellsOf(c))
  BY <1>2, <1>3, ChainReach
<1>5. PICK K : K = CellsOf(c)
  OBVIOUS
<1>6. \A d \in K : cells[d] = "live"
  BY <1>4, <1>5 DEF Reach, Live
<1>7. Destroyed(c) = [d \in Cells |-> IF d \in K THEN "freed" ELSE cells[d]]
  BY <1>5, <1>6 DEF Destroyed
<1> QED BY <1>1, <1>4, <1>5, <1>7

\* A handle gives up what it owns, and the others keep theirs, in whatever order.
LEMMA ReleaseKeepsInv ==
    ASSUME HandlesInv, NEW x \in HandleVars, NEW K, Reach(root[x], K),
           cells' = [d \in Cells |-> IF d \in K THEN "freed" ELSE cells[d]],
           inner' = inner, root' \in [HandleVars -> Cells \union {NoCell}],
           \A y, z \in HandleVars : root'[y] = root'[z] /\ root'[y] # NoCell => y = z,
           \A z \in HandleVars : root'[z] # NoCell => \E y \in HandleVars \ {x} : root'[z] = root[y],
           \A y \in HandleVars \ {x} : root[y] # NoCell => \E z \in HandleVars : root'[z] = root[y]
    PROVE  HandlesInv'
<1>1. HandlesTypes'
  BY DEF HandlesInv, HandlesTypes
<1>2. \A d \in Cells : cells'[d] = IF d \in K THEN "freed" ELSE cells[d]
  OBVIOUS
<1>3. \A d \in Cells : cells'[d] = "live" <=> cells[d] = "live" /\ d \notin K
  BY <1>2
<1>4. /\ \A c \in Cells : cells[c] = "live" <=> Owned(c)
      /\ \A y, z \in HandleVars : root[y] = root[z] /\ root[y] # NoCell => y = z
      /\ \A d, e \in Cells : cells[d] = "live" /\ cells[e] = "live" /\ inner[d] = inner[e]
                             /\ inner[d] # NoCell => d = e
      /\ \A y \in HandleVars, d \in Cells : cells[d] = "live" /\ root[y] = inner[d] => root[y] = NoCell
  BY DEF HandlesInv, OwnersInv, Live
<1>5. /\ K \subseteq Cells /\ (root[x] # NoCell => root[x] \in K)
      /\ \A e \in K : cells[e] = "live" /\ (inner[e] # NoCell => inner[e] \in K)
      /\ \A e \in K : e = root[x] \/ \E f \in K : inner[f] = e
  BY DEF Reach, Live
<1>6. NoCell \notin Cells
  BY HandlesAssumption
\* What another handle owns is not destroyed.
<1>7. ASSUME NEW y \in HandleVars \ {x}, root[y] # NoCell
      PROVE  root[y] \notin K
  <2>1. SUFFICES ASSUME root[y] \in K
                 PROVE  FALSE
    OBVIOUS
  <2>2. CASE root[y] = root[x]
    BY <1>4, <1>7, <2>2
  <2>3. CASE root[y] # root[x]
    <3>1. PICK f \in K : inner[f] = root[y]
      BY <1>5, <2>1, <2>3
    <3> QED BY <1>4, <1>5, <1>7, <3>1
  <2> QED BY <2>2, <2>3
<1>8. ASSUME NEW c \in Cells, cells'[c] = "live"
      PROVE  Owned(c)'
  <2>1. cells[c] = "live" /\ c \notin K
    BY <1>3, <1>8
  <2>2. Owned(c)
    BY <1>4, <2>1
  <2>3. CASE \E y \in HandleVars : root[y] = c
    <3>1. PICK y \in HandleVars : root[y] = c
      BY <2>3
    <3>2. y # x /\ root[y] # NoCell
      BY <1>5, <1>6, <2>1, <3>1
    <3>3. \E z \in HandleVars : root'[z] = c
      BY <3>1, <3>2
    <3> QED BY <3>3 DEF Owned
  <2>4. CASE \E d \in Cells : cells[d] = "live" /\ inner[d] = c
    <3>1. PICK d \in Cells : cells[d] = "live" /\ inner[d] = c
      BY <2>4
    <3>2. d \notin K
      BY <1>5, <1>6, <2>1, <3>1
    <3>3. cells'[d] = "live" /\ inner'[d] = c
      BY <1>3, <3>1, <3>2
    <3> QED BY <3>3 DEF Owned, Live
  <2> QED BY <2>2, <2>3, <2>4 DEF Owned, Live
<1>9. ASSUME NEW c \in Cells, Owned(c)'
      PROVE  cells'[c] = "live"
  <2>1. CASE \E z \in HandleVars : root'[z] = c
    <3>1. PICK z \in HandleVars : root'[z] = c
      BY <2>1
    <3>2. PICK y \in HandleVars \ {x} : root[y] = c
      BY <1>6, <3>1
    <3>3. cells[c] = "live" /\ c \notin K
      BY <1>4, <1>6, <1>7, <3>2 DEF Owned
    <3> QED BY <1>3, <3>3
  <2>2. CASE \E d \in Cells : cells'[d] = "live" /\ inner'[d] = c
    <3>1. PICK d \in Cells : cells'[d] = "live" /\ inner[d] = c
      BY <2>2
    <3>2. cells[d] = "live" /\ d \notin K
      BY <1>3, <3>1
    <3>3. cells[c] = "live"
      BY <1>4, <3>1, <3>2 DEF Owned, Live
    <3>4. c \notin K
      <4>1. c # root[x]
        BY <1>4, <1>6, <3>1, <3>2
      <4>2. ASSUME NEW f \in K, inner[f] = c
            PROVE  FALSE
        BY <1>4, <1>5, <1>6, <3>1, <3>2, <4>2
      <4> QED BY <1>5, <4>1, <4>2
    <3> QED BY <1>3, <3>3, <3>4
  <2> QED BY <1>9, <2>1, <2>2 DEF Owned, Live
<1>10. OwnersInv'
  <2>1. \A c \in Cells : cells'[c] = "live" <=> Owned(c)'
    BY <1>8, <1>9
  <2>2. \A d, e \in Cells : cells'[d] = "live" /\ cells'[e] = "live" /\ inner'[d] = inner'[e]
                            /\ inner'[d] # NoCell => d = e
    BY <1>3, <1>4
  <2>3. \A y \in HandleVars, d \in Cells :
            cells'[d] = "live" /\ root'[y] = inner'[d] => root'[y] = NoCell
    BY <1>3, <1>4
  <2> QED BY <2>1, <2>2, <2>3 DEF OwnersInv, Live
<1>11. NewInv'
  BY <1>2 DEF HandlesInv, NewInv, HandlesTypes
<1>12. (\E n \in Nat : Acyclic(n))'
  BY DEF HandlesInv, Acyclic, Ranked
<1> QED BY <1>1, <1>10, <1>11, <1>12 DEF HandlesInv

LEMMA ResetKeepsInv ==
    ASSUME HandlesInv, NEW x \in HandleVars, cells' = Destroyed(root[x]),
           root' = [root EXCEPT ![x] = NoCell], inner' = inner
    PROVE  HandlesInv'
<1>1. PICK K : Reach(root[x], K)
               /\ cells' = [d \in Cells |-> IF d \in K THEN "freed" ELSE cells[d]]
  BY DestroyedCells
<1>2. root \in [HandleVars -> Cells \union {NoCell}]
  BY DEF HandlesInv, HandlesTypes
<1>3. root' \in [HandleVars -> Cells \union {NoCell}]
  BY <1>2
<1>4. \A z \in HandleVars : root'[z] = IF z = x THEN NoCell ELSE root[z]
  BY <1>2
<1>5. \A y, z \in HandleVars : root'[y] = root'[z] /\ root'[y] # NoCell => y = z
  BY <1>4 DEF HandlesInv, OwnersInv
<1>6. /\ \A z \in HandleVars : root'[z] # NoCell => \E y \in HandleVars \ {x} : root'[z] = root[y]
      /\ \A y \in HandleVars \ {x} : root[y] # NoCell => \E z \in HandleVars : root'[z] = root[y]
  BY <1>4
<1> QED BY <1>1, <1>3, <1>5, <1>6, ReleaseKeepsInv

LEMMA MoveKeepsInv ==
    ASSUME HandlesInv, NEW x \in HandleVars, NEW y \in HandleVars, AssignMove(x, y)
    PROVE  HandlesInv'
<1>1. PICK K : Reach(root[x], K)
               /\ cells' = [d \in Cells |-> IF d \in K THEN "freed" ELSE cells[d]]
  BY DestroyedCells DEF AssignMove
<1>2. root \in [HandleVars -> Cells \union {NoCell}] /\ x # y
  BY DEF HandlesInv, HandlesTypes, AssignMove
<1>3. root' \in [HandleVars -> Cells \union {NoCell}] /\ inner' = inner
  BY <1>2 DEF AssignMove
<1>4. \A z \in HandleVars : root'[z] = IF z = x THEN root[y] ELSE IF z = y THEN NoCell ELSE root[z]
  BY <1>2 DEF AssignMove
<1>5. ASSUME NEW v \in HandleVars, NEW z \in HandleVars, root'[v] = root'[z], root'[v] # NoCell
      PROVE  v = z
  <2>1. \A p, q \in HandleVars : root[p] = root[q] /\ root[p] # NoCell => p = q
    BY DEF HandlesInv, OwnersInv
  <2> QED BY <1>2, <1>4, <1>5, <2>1
<1>6. \A z \in HandleVars : root'[z] # NoCell => \E v \in HandleVars \ {x} : root'[z] = root[v]
  BY <1>2, <1>4
<1>7. ASSUME NEW v \in HandleVars \ {x}, root[v] # NoCell
      PROVE  \E z \in HandleVars : root'[z] = root[v]
  <2>1. CASE v = y
    <3>1. root'[x] = root[v]
      BY <1>4, <2>1
    <3> QED BY <3>1
  <2>2. CASE v # y
    <3>1. root'[v] = root[v]
      BY <1>4, <2>2
    <3> QED BY <3>1
  <2> QED BY <2>1, <2>2
<1>8. \A v, z \in HandleVars : root'[v] = root'[z] /\ root'[v] # NoCell => v = z
  BY <1>5
<1>9. \A v \in HandleVars \ {x} : root[v] # NoCell => \E z \in HandleVars : root'[z] = root[v]
  BY <1>7
<1> QED BY <1>1, <1>3, <1>6, <1>8, <1>9, ReleaseKeepsInv

\* The handle inside a cell moves out of it, and the cell is destroyed.
LEMMA InnerKeepsInv ==
    ASSUME HandlesInv, NEW x \in HandleVars, AssignInner(x)
    PROVE  HandlesInv'
<1>1. PICK c, e : c = root[x] /\ e = inner[c]
  OBVIOUS
<1>2. HandlesTypes /\ NoCell \notin Cells
  BY HandlesAssumption DEF HandlesInv
<1>3. c \in Cells /\ e \in Cells
  BY <1>1, <1>2 DEF AssignInner, HandlesTypes
<1>4. /\ \A d \in Cells : cells[d] = "live" <=> Owned(d)
      /\ \A y, z \in HandleVars : root[y] = root[z] /\ root[y] # NoCell => y = z
      /\ \A d, f \in Cells : cells[d] = "live" /\ cells[f] = "live" /\ inner[d] = inner[f]
                             /\ inner[d] # NoCell => d = f
      /\ \A y \in HandleVars, d \in Cells : cells[d] = "live" /\ root[y] = inner[d] => root[y] = NoCell
  BY DEF HandlesInv, OwnersInv, Live
<1>5. cells[c] = "live" /\ cells[e] = "live" /\ c # e
  <2>1. cells[c] = "live"
    BY <1>1, <1>3, <1>4 DEF Owned
  <2>2. cells[e] = "live"
    BY <1>1, <1>3, <1>4, <2>1 DEF Owned, Live
  <2>3. c # e
    BY <1>1, <1>2, <1>3, <1>4, <2>1
  <2> QED BY <2>1, <2>2, <2>3
<1>6. /\ \A z \in HandleVars : root'[z] = IF z = x THEN e ELSE root[z]
      /\ \A d \in Cells : inner'[d] = IF d = c THEN NoCell ELSE inner[d]
      /\ \A d \in Cells : cells'[d] = IF d = c THEN "freed" ELSE cells[d]
  BY <1>1, <1>2, <1>3, <1>5 DEF AssignInner, HandlesTypes
<1>7. HandlesTypes'
  <2>1. cells' = [cells EXCEPT ![c] = "freed"]
    BY <1>1, <1>5 DEF AssignInner
  <2> QED BY <1>1, <1>2, <1>3, <2>1 DEF AssignInner, HandlesTypes
<1>8. ASSUME NEW d \in Cells, cells'[d] = "live"
      PROVE  Owned(d)'
  <2>1. d # c /\ Owned(d)
    BY <1>4, <1>6, <1>8
  <2>2. CASE \E y \in HandleVars : root[y] = d
    <3>1. PICK y \in HandleVars : root[y] = d
      BY <2>2
    <3>2. root'[y] = d
      BY <1>1, <1>6, <2>1, <3>1
    <3> QED BY <3>2 DEF Owned
  <2>3. CASE \E f \in Cells : cells[f] = "live" /\ inner[f] = d
    <3>1. PICK f \in Cells : cells[f] = "live" /\ inner[f] = d
      BY <2>3
    <3>2. CASE f = c
      <4>1. root'[x] = d
        BY <1>1, <1>6, <3>1, <3>2
      <4> QED BY <4>1 DEF Owned
    <3>3. CASE f # c
      <4>1. cells'[f] = "live" /\ inner'[f] = d
        BY <1>6, <3>1, <3>3
      <4> QED BY <4>1 DEF Owned, Live
    <3> QED BY <3>2, <3>3
  <2> QED BY <2>1, <2>2, <2>3 DEF Owned, Live
<1>9. ASSUME NEW d \in Cells, Owned(d)'
      PROVE  cells'[d] = "live"
  <2>1. CASE \E y \in HandleVars : root'[y] = d
    <3>1. PICK y \in HandleVars : root'[y] = d
      BY <2>1
    <3>2. CASE y = x
      BY <1>5, <1>6, <3>1, <3>2
    <3>3. CASE y # x
      <4>1. root[y] = d /\ cells[d] = "live"
        BY <1>4, <1>6, <3>1, <3>3 DEF Owned
      <4>2. d # c
        BY <1>1, <1>2, <1>4, <3>3, <4>1
      <4> QED BY <1>6, <4>1, <4>2
    <3> QED BY <3>2, <3>3
  <2>2. CASE \E f \in Cells : cells'[f] = "live" /\ inner'[f] = d
    <3>1. PICK f \in Cells : cells'[f] = "live" /\ inner'[f] = d
      BY <2>2
    <3>2. f # c /\ cells[f] = "live" /\ inner[f] = d
      BY <1>6, <3>1
    <3>3. cells[d] = "live"
      BY <1>4, <3>2 DEF Owned, Live
    <3>4. d # c
      BY <1>1, <1>2, <1>3, <1>4, <3>2
    <3> QED BY <1>6, <3>3, <3>4
  <2> QED BY <1>9, <2>1, <2>2 DEF Owned, Live
<1>10. OwnersInv'
  <2>1. ASSUME NEW y \in HandleVars, NEW z \in HandleVars, root'[y] = root'[z], root'[y] # NoCell
        PROVE  y = z
    BY <1>1, <1>2, <1>3, <1>4, <1>5, <1>6, <2>1
  <2>2. \A d, f \in Cells : cells'[d] = "live" /\ cells'[f] = "live" /\ inner'[d] = inner'[f]
                            /\ inner'[d] # NoCell => d = f
    BY <1>4, <1>6
  <2>3. ASSUME NEW y \in HandleVars, NEW d \in Cells, cells'[d] = "live", root'[y] = inner'[d]
        PROVE  root'[y] = NoCell
    <3>1. d # c /\ cells[d] = "live" /\ inner'[d] = inner[d]
      BY <1>6, <2>3
    <3>2. CASE y = x
      BY <1>1, <1>2, <1>3, <1>4, <1>5, <1>6, <2>3, <3>1, <3>2
    <3>3. CASE y # x
      BY <1>4, <1>6, <2>3, <3>1, <3>3
    <3> QED BY <3>2, <3>3
  <2>4. \A d \in Cells : cells'[d] = "live" <=> Owned(d)'
    BY <1>8, <1>9
  <2> QED BY <2>1, <2>2, <2>3, <2>4 DEF OwnersInv, Live
<1>11. NewInv'
  <2>1. ASSUME NEW d \in Cells, inner'[d] # NoCell
        PROVE  cells'[inner'[d]] # "new"
    <3>1. inner'[d] = inner[d] /\ inner[d] \in Cells /\ cells[inner[d]] # "new"
      BY <1>2, <1>6, <2>1 DEF HandlesInv, NewInv, HandlesTypes
    <3> QED BY <1>6, <3>1
  <2>2. \A d \in Cells : cells'[d] = "new" => inner'[d] = NoCell
    BY <1>6 DEF HandlesInv, NewInv
  <2> QED BY <2>1, <2>2 DEF NewInv
<1>12. PICK n \in Nat : Acyclic(n)
  BY DEF HandlesInv
<1>13. PICK rank \in [Cells -> 0..n] : Ranked(rank)
  BY <1>12 DEF Acyclic
<1>14. Ranked(rank)'
  <2>1. ASSUME NEW d \in Cells, inner'[d] # NoCell
        PROVE  rank[inner'[d]] < rank[d]
    <3>1. inner'[d] = inner[d]
      BY <1>6, <2>1
    <3> QED BY <1>13, <2>1, <3>1 DEF Ranked
  <2> QED BY <2>1 DEF Ranked
<1>15. (\E m \in Nat : Acyclic(m))'
  BY <1>13, <1>14 DEF Acyclic
<1> QED BY <1>7, <1>10, <1>11, <1>15 DEF HandlesInv

\* A handle for a new cell takes the one that is moved into it.
LEMMA MakeKeepsInv ==
    ASSUME HandlesInv, NEW x \in HandleVars, NEW y \in HandleVars, NEW c \in Cells,
           MakeHandle(x, y, c)
    PROVE  HandlesInv'
<1>1. PICK e : e = root[y]
  OBVIOUS
<1>2. HandlesTypes /\ NoCell \notin Cells /\ x # y /\ root[x] = NoCell /\ cells[c] = "new"
  BY HandlesAssumption DEF HandlesInv, MakeHandle
<1>3. e \in Cells \union {NoCell}
  BY <1>1, <1>2 DEF HandlesTypes
<1>4. /\ \A d \in Cells : cells[d] = "live" <=> Owned(d)
      /\ \A v, z \in HandleVars : root[v] = root[z] /\ root[v] # NoCell => v = z
      /\ \A d, f \in Cells : cells[d] = "live" /\ cells[f] = "live" /\ inner[d] = inner[f]
                             /\ inner[d] # NoCell => d = f
      /\ \A v \in HandleVars, d \in Cells : cells[d] = "live" /\ root[v] = inner[d] => root[v] = NoCell
  BY DEF HandlesInv, OwnersInv, Live
<1>5. \A v \in HandleVars : root[v] \in Cells => cells[root[v]] = "live"
  BY <1>4 DEF Owned
<1>6. /\ \A z \in HandleVars : root'[z] = IF z = x THEN c ELSE IF z = y THEN NoCell ELSE root[z]
      /\ \A d \in Cells : inner'[d] = IF d = c THEN e ELSE inner[d]
      /\ \A d \in Cells : cells'[d] = IF d = c THEN "live" ELSE cells[d]
  BY <1>1, <1>2 DEF MakeHandle, HandlesTypes
<1>7. HandlesTypes'
  BY <1>1, <1>2, <1>3 DEF MakeHandle, HandlesTypes
\* Nothing owned the new cell.
<1>8. /\ \A v \in HandleVars : root[v] # c
      /\ \A d \in Cells : inner[d] # c
      /\ e # c
  <2>1. \A d \in Cells : inner[d] # c
    BY <1>2 DEF HandlesInv, NewInv
  <2>2. \A v \in HandleVars : root[v] # c
    BY <1>2, <1>5
  <2> QED BY <1>1, <2>1, <2>2
<1>9. ASSUME NEW d \in Cells, cells'[d] = "live"
      PROVE  Owned(d)'
  <2>1. CASE d = c
    BY <1>6, <2>1 DEF Owned
  <2>2. CASE d # c
    <3>1. Owned(d)
      BY <1>4, <1>6, <1>9, <2>2
    <3>2. CASE \E v \in HandleVars : root[v] = d
      <4>1. PICK v \in HandleVars : root[v] = d
        BY <3>2
      <4>2. CASE v = y
        <5>1. cells'[c] = "live" /\ inner'[c] = d
          BY <1>1, <1>6, <4>1, <4>2
        <5> QED BY <5>1 DEF Owned, Live
      <4>3. CASE v # y
        <5>1. root'[v] = d
          BY <1>2, <1>6, <4>1, <4>3
        <5> QED BY <5>1 DEF Owned
      <4> QED BY <4>2, <4>3
    <3>3. CASE \E f \in Cells : cells[f] = "live" /\ inner[f] = d
      <4>1. PICK f \in Cells : cells[f] = "live" /\ inner[f] = d
        BY <3>3
      <4>2. cells'[f] = "live" /\ inner'[f] = d
        BY <1>2, <1>6, <4>1
      <4> QED BY <4>2 DEF Owned, Live
    <3> QED BY <3>1, <3>2, <3>3 DEF Owned, Live
  <2> QED BY <2>1, <2>2
<1>10. ASSUME NEW d \in Cells, Owned(d)'
       PROVE  cells'[d] = "live"
  <2>1. CASE \E v \in HandleVars : root'[v] = d
    <3>1. PICK v \in HandleVars : root'[v] = d
      BY <2>1
    <3> QED BY <1>2, <1>5, <1>6, <3>1
  <2>2. CASE \E f \in Cells : cells'[f] = "live" /\ inner'[f] = d
    <3>1. PICK f \in Cells : cells'[f] = "live" /\ inner'[f] = d
      BY <2>2
    <3>2. CASE f = c
      BY <1>1, <1>2, <1>5, <1>6, <3>1, <3>2
    <3>3. CASE f # c
      <4>1. cells[d] = "live"
        BY <1>4, <1>6, <3>1, <3>3 DEF Owned, Live
      <4> QED BY <1>6, <4>1
    <3> QED BY <3>2, <3>3
  <2> QED BY <1>10, <2>1, <2>2 DEF Owned, Live
<1>11. OwnersInv'
  <2>1. ASSUME NEW v \in HandleVars, NEW z \in HandleVars, root'[v] = root'[z], root'[v] # NoCell
        PROVE  v = z
    BY <1>4, <1>6, <1>8, <2>1
  <2>2. ASSUME NEW d \in Cells, NEW f \in Cells, cells'[d] = "live", cells'[f] = "live",
               inner'[d] = inner'[f], inner'[d] # NoCell
        PROVE  d = f
    <3>1. \A g \in Cells : g # c /\ cells'[g] = "live" => cells[g] = "live" /\ inner'[g] = inner[g]
      BY <1>6
    <3>2. \A g \in Cells : cells[g] = "live" /\ inner[g] = e => e = NoCell
      BY <1>1, <1>4
    <3>3. inner'[c] = e
      BY <1>6
    <3> QED BY <1>4, <2>2, <3>1, <3>2, <3>3
  <2>3. ASSUME NEW v \in HandleVars, NEW d \in Cells, cells'[d] = "live", root'[v] = inner'[d]
        PROVE  root'[v] = NoCell
    <3>1. CASE d = c
      <4>1. root'[v] = e
        BY <1>6, <2>3, <3>1
      <4>2. CASE v = x
        BY <1>6, <1>8, <4>1, <4>2
      <4>3. CASE v # x
        BY <1>1, <1>4, <1>6, <4>1, <4>3
      <4> QED BY <4>2, <4>3
    <3>2. CASE d # c
      <4>1. cells[d] = "live" /\ inner'[d] = inner[d]
        BY <1>6, <2>3, <3>2
      <4> QED BY <1>4, <1>6, <1>8, <2>3, <4>1
    <3> QED BY <3>1, <3>2
  <2>4. \A d \in Cells : cells'[d] = "live" <=> Owned(d)'
    BY <1>9, <1>10
  <2> QED BY <2>1, <2>2, <2>3, <2>4 DEF OwnersInv, Live
<1>12. NewInv'
  <2>1. ASSUME NEW d \in Cells, inner'[d] # NoCell
        PROVE  cells'[inner'[d]] # "new"
    <3>1. CASE d = c
      <4>1. inner'[d] = e /\ e \in Cells /\ cells[e] = "live"
        BY <1>1, <1>3, <1>5, <1>6, <2>1, <3>1
      <4> QED BY <1>6, <4>1
    <3>2. CASE d # c
      <4>1. inner'[d] = inner[d] /\ inner[d] \in Cells /\ cells[inner[d]] # "new"
        BY <1>2, <1>6, <2>1, <3>2 DEF HandlesInv, NewInv, HandlesTypes
      <4> QED BY <1>6, <4>1
    <3> QED BY <3>1, <3>2
  <2>2. \A d \in Cells : cells'[d] = "new" => inner'[d] = NoCell
    BY <1>6 DEF HandlesInv, NewInv
  <2> QED BY <2>1, <2>2 DEF NewInv
<1>13. PICK n \in Nat : Acyclic(n)
  BY DEF HandlesInv
<1>14. PICK rank \in [Cells -> 0..n] : Ranked(rank)
  BY <1>13 DEF Acyclic
\* The new cell is above all others.
<1>15. PICK high \in [Cells -> 0..(n + 1)] : \A d \in Cells : high[d] = IF d = c THEN n + 1 ELSE rank[d]
  <2>1. [d \in Cells |-> IF d = c THEN n + 1 ELSE rank[d]] \in [Cells -> 0..(n + 1)]
    BY <1>14
  <2> QED BY <2>1
<1>16. Ranked(high)'
  <2>1. ASSUME NEW d \in Cells, inner'[d] # NoCell
        PROVE  high[inner'[d]] < high[d]
    <3>1. CASE d = c
      <4>1. inner'[d] = e /\ e \in Cells /\ e # c
        BY <1>3, <1>6, <1>8, <2>1, <3>1
      <4>2. high[e] = rank[e] /\ rank[e] \in 0..n /\ high[d] = n + 1
        BY <1>14, <1>15, <3>1, <4>1
      <4> QED BY <4>1, <4>2
    <3>2. CASE d # c
      <4>1. inner'[d] = inner[d] /\ inner[d] \in Cells /\ inner[d] # c
        BY <1>2, <1>6, <1>8, <2>1, <3>2 DEF HandlesTypes
      <4>2. high[inner[d]] = rank[inner[d]] /\ high[d] = rank[d]
        BY <1>15, <3>2, <4>1
      <4>3. rank[inner[d]] < rank[d]
        BY <1>14, <2>1, <4>1 DEF Ranked
      <4> QED BY <4>1, <4>2, <4>3
    <3> QED BY <3>1, <3>2
  <2> QED BY <2>1 DEF Ranked
<1>17. (\E m \in Nat : Acyclic(m))'
  <2>1. n + 1 \in Nat
    OBVIOUS
  <2> QED BY <1>15, <1>16, <2>1 DEF Acyclic
<1> QED BY <1>7, <1>11, <1>12, <1>17 DEF HandlesInv

\* The cells of a clone, in their order: where each is, and what it holds.
LEMMA CloneWired ==
    ASSUME HandlesTypes, NEW n \in Nat, NEW fresh \in [1..n -> Cells],
           \A i, j \in 1..n : i # j => fresh[i] # fresh[j]
    PROVE  \E F, pos :
              /\ F \subseteq Cells /\ pos \in [F -> 1..n]
              /\ \A d \in Cells : d \in F <=> \E i \in 1..Len(fresh) : fresh[i] = d
              /\ \A i \in 1..n : fresh[i] \in F /\ pos[fresh[i]] = i
              /\ \A d \in F : fresh[pos[d]] = d
              /\ Wire(fresh) = [d \in Cells |-> IF d \notin F THEN inner[d]
                                               ELSE IF pos[d] = n THEN NoCell ELSE fresh[pos[d] + 1]]
              /\ First(fresh) = IF n = 0 THEN NoCell ELSE fresh[1]
<1>1. fresh \in Seq(Cells) /\ Len(fresh) = n
  BY FunctionIsSeq
<1>2. PICK F : F = {d \in Cells : \E i \in 1..n : fresh[i] = d}
  OBVIOUS
<1>3. PICK pos : pos = [d \in F |-> CHOOSE k \in 1..n : fresh[k] = d]
  OBVIOUS
<1>4. ASSUME NEW d \in F
      PROVE  /\ pos[d] \in 1..n /\ fresh[pos[d]] = d
             /\ \A i \in 1..n : fresh[i] = d => i = pos[d]
  <2>1. \E k \in 1..n : fresh[k] = d
    BY <1>2
  <2>2. pos[d] \in 1..n /\ fresh[pos[d]] = d
    BY <1>3, <2>1
  <2> QED BY <2>2
<1>5. \A i \in 1..n : fresh[i] \in F /\ pos[fresh[i]] = i
  BY <1>2, <1>4
<1>6. First(fresh) = IF n = 0 THEN NoCell ELSE fresh[1]
  BY <1>1 DEF First
<1>7. ASSUME NEW d \in Cells
      PROVE  Wire(fresh)[d] = IF d \notin F THEN inner[d]
                              ELSE IF pos[d] = n THEN NoCell ELSE fresh[pos[d] + 1]
  <2>1. d \in F <=> \E i \in 1..Len(fresh) : fresh[i] = d
    BY <1>1, <1>2
  <2>2. d \in F => (CHOOSE k \in 1..Len(fresh) : fresh[k] = d) = pos[d]
    BY <1>1, <1>3
  <2>3. Wire(fresh)[d] = IF d \in F THEN LET i == CHOOSE k \in 1..Len(fresh) : fresh[k] = d
                                         IN IF i = Len(fresh) THEN NoCell ELSE fresh[i + 1]
                         ELSE inner[d]
    BY <2>1 DEF Wire
  <2> QED BY <1>1, <2>2, <2>3
<1>8. Wire(fresh) = [d \in Cells |-> IF d \notin F THEN inner[d]
                                    ELSE IF pos[d] = n THEN NoCell ELSE fresh[pos[d] + 1]]
  <2>1. Wire(fresh) = [d \in Cells |-> Wire(fresh)[d]]
    BY DEF Wire
  <2>2. \E w : w = Wire(fresh) /\ w = [d \in Cells |-> w[d]]
    BY <2>1
  <2>3. PICK w : w = Wire(fresh) /\ w = [d \in Cells |-> w[d]]
    BY <2>2
  <2>4. \A d \in Cells : w[d] = IF d \notin F THEN inner[d]
                                ELSE IF pos[d] = n THEN NoCell ELSE fresh[pos[d] + 1]
    BY <1>7, <2>3
  <2>5. w = [d \in Cells |-> IF d \notin F THEN inner[d]
                             ELSE IF pos[d] = n THEN NoCell ELSE fresh[pos[d] + 1]]
    BY ONLY <2>3, <2>4
  <2> QED BY <2>3, <2>5
<1>9. pos \in [F -> 1..n] /\ F \subseteq Cells
  BY <1>2, <1>3, <1>4
<1>10. \A d \in Cells : d \in F <=> \E i \in 1..Len(fresh) : fresh[i] = d
  BY <1>1, <1>2
<1> QED BY <1>4, <1>5, <1>6, <1>8, <1>9, <1>10

\* A copy: the clone is new and in order, and what the handle had is destroyed.
LEMMA CopyKeepsInv ==
    ASSUME HandlesInv, NEW x \in HandleVars, NEW y \in HandleVars, NEW n \in Nat,
           NEW fresh \in [1..n -> Cells], AssignCopy(x, y, fresh)
    PROVE  HandlesInv'
<1>1. PICK K : Reach(root[x], K)
               /\ Destroyed(root[x]) = [d \in Cells |-> IF d \in K THEN "freed" ELSE cells[d]]
  BY DestroyedCells
<1>2. HandlesTypes /\ NoCell \notin Cells
  BY HandlesAssumption DEF HandlesInv
<1>3. Len(fresh) = n
  BY FunctionIsSeq
<1>4. /\ \A i, j \in 1..n : i # j => fresh[i] # fresh[j]
      /\ \A i \in 1..n : fresh[i] \in Cells /\ cells[fresh[i]] = "new"
  BY <1>3 DEF AssignCopy, IsClone
<1>5. PICK F, pos :
          /\ F \subseteq Cells /\ pos \in [F -> 1..n]
          /\ \A d \in Cells : d \in F <=> \E i \in 1..Len(fresh) : fresh[i] = d
          /\ \A i \in 1..n : fresh[i] \in F /\ pos[fresh[i]] = i
          /\ \A d \in F : fresh[pos[d]] = d
          /\ Wire(fresh) = [d \in Cells |-> IF d \notin F THEN inner[d]
                                           ELSE IF pos[d] = n THEN NoCell ELSE fresh[pos[d] + 1]]
          /\ First(fresh) = IF n = 0 THEN NoCell ELSE fresh[1]
  BY <1>2, <1>4, CloneWired
<1>6. \A d \in F : cells[d] = "new"
  BY <1>4, <1>5
<1>7. PICK head : head = First(fresh) /\ head = IF n = 0 THEN NoCell ELSE fresh[1]
  BY <1>5
<1>8. /\ \A z \in HandleVars : root'[z] = IF z = x THEN head ELSE root[z]
      /\ \A d \in Cells : inner'[d] = IF d \notin F THEN inner[d]
                                      ELSE IF pos[d] = n THEN NoCell ELSE fresh[pos[d] + 1]
      /\ \A d \in Cells : cells'[d] = IF d \in F THEN "live"
                                      ELSE IF d \in K THEN "freed" ELSE cells[d]
  <2>1. \A z \in HandleVars : root'[z] = IF z = x THEN head ELSE root[z]
    BY <1>2, <1>7 DEF AssignCopy, HandlesTypes
  <2>2. \A d \in Cells : inner'[d] = IF d \notin F THEN inner[d]
                                      ELSE IF pos[d] = n THEN NoCell ELSE fresh[pos[d] + 1]
    BY <1>5 DEF AssignCopy
  <2>3. cells' = [d \in Cells |-> IF \E i \in 1..Len(fresh) : fresh[i] = d THEN "live"
                                 ELSE IF d \in K THEN "freed" ELSE cells[d]]
    BY <1>1 DEF AssignCopy
  <2>4. \A d \in Cells : cells'[d] = IF d \in F THEN "live"
                                      ELSE IF d \in K THEN "freed" ELSE cells[d]
    BY <1>5, <2>3
  <2> QED BY <2>1, <2>2, <2>4
<1>9. \A d \in F : pos[d] # n => pos[d] + 1 \in 1..n /\ fresh[pos[d] + 1] \in F
                                /\ pos[fresh[pos[d] + 1]] = pos[d] + 1 /\ pos[d] \in 1..n
  <2>1. \A d \in F : pos[d] # n => pos[d] \in 1..n /\ pos[d] + 1 \in 1..n
    BY <1>5
  <2> QED BY <1>5, <2>1
<1>10. head \in F \union {NoCell} /\ (head # NoCell => pos[head] = 1)
  BY <1>5, <1>7
<1>11. HandlesTypes'
  <2>1. root' \in [HandleVars -> Cells \union {NoCell}]
    BY <1>2, <1>5, <1>7, <1>10 DEF AssignCopy, HandlesTypes
  <2>2. inner' = Wire(fresh)
    BY DEF AssignCopy
  <2>3. inner' \in [Cells -> Cells \union {NoCell}]
    BY <1>2, <1>5, <1>9, <2>2 DEF HandlesTypes
  <2>4. cells' \in [Cells -> {"new", "live", "freed"}]
    <3>1. cells' = [d \in Cells |-> IF \E i \in 1..Len(fresh) : fresh[i] = d THEN "live"
                                   ELSE IF d \in K THEN "freed" ELSE cells[d]]
      BY <1>1 DEF AssignCopy
    <3> QED BY <1>2, <3>1 DEF HandlesTypes
  <2> QED BY <2>1, <2>3, <2>4 DEF HandlesTypes
<1>12. /\ \A c \in Cells : cells[c] = "live" <=> Owned(c)
       /\ \A v, z \in HandleVars : root[v] = root[z] /\ root[v] # NoCell => v = z
       /\ \A d, e \in Cells : cells[d] = "live" /\ cells[e] = "live" /\ inner[d] = inner[e]
                              /\ inner[d] # NoCell => d = e
       /\ \A v \in HandleVars, d \in Cells : cells[d] = "live" /\ root[v] = inner[d] => root[v] = NoCell
  BY DEF HandlesInv, OwnersInv, Live
<1>13. /\ K \subseteq Cells /\ (root[x] # NoCell => root[x] \in K)
       /\ \A e \in K : cells[e] = "live" /\ (inner[e] # NoCell => inner[e] \in K)
       /\ \A e \in K : e = root[x] \/ \E f \in K : inner[f] = e
  BY <1>1 DEF Reach, Live
\* The old cells that stay, and what points to old cells.
<1>14. /\ \A d \in Cells \ F : cells'[d] = "live" <=> cells[d] = "live" /\ d \notin K
       /\ \A v \in HandleVars : root[v] \notin F
       /\ \A d \in Cells : inner[d] \notin F
  <2>1. \A v \in HandleVars : root[v] \notin F
    BY <1>5, <1>6, <1>12 DEF Owned
  <2>2. \A d \in Cells : inner[d] \notin F
    BY <1>2, <1>5, <1>6 DEF HandlesInv, NewInv
  <2> QED BY <1>8, <2>1, <2>2
<1>15. ASSUME NEW v \in HandleVars \ {x}, root[v] # NoCell
       PROVE  root[v] \notin K
  <2>1. SUFFICES ASSUME root[v] \in K
                 PROVE  FALSE
    OBVIOUS
  <2>2. CASE root[v] = root[x]
    BY <1>12, <1>15, <2>2
  <2>3. CASE root[v] # root[x]
    <3>1. PICK f \in K : inner[f] = root[v]
      BY <1>13, <2>1, <2>3
    <3> QED BY <1>12, <1>13, <1>15, <3>1
  <2> QED BY <2>2, <2>3
<1>16. ASSUME NEW c \in Cells, cells'[c] = "live"
       PROVE  Owned(c)'
  <2>1. CASE c \in F
    <3>1. CASE pos[c] = 1
      <4>1. n # 0 /\ fresh[1] = c
        BY <1>5, <2>1, <3>1
      <4>2. root'[x] = c
        BY <1>7, <1>8, <4>1
      <4> QED BY <4>2 DEF Owned
    <3>2. CASE pos[c] # 1
      <4>1. PICK i \in 1..n : i = pos[c] - 1 /\ i # n
        BY <1>5, <2>1, <3>2
      <4>2. fresh[i] \in F /\ pos[fresh[i]] = i /\ fresh[i + 1] = c
        BY <1>5, <2>1, <4>1
      <4>3. cells'[fresh[i]] = "live" /\ inner'[fresh[i]] = c /\ fresh[i] \in Cells
        BY <1>5, <1>8, <4>1, <4>2
      <4> QED BY <4>3 DEF Owned, Live
    <3> QED BY <3>1, <3>2
  <2>2. CASE c \notin F
    <3>1. cells[c] = "live" /\ c \notin K
      BY <1>14, <1>16, <2>2
    <3>2. Owned(c)
      BY <1>12, <3>1
    <3>3. CASE \E v \in HandleVars : root[v] = c
      <4>1. PICK v \in HandleVars : root[v] = c
        BY <3>3
      <4>2. v # x
        BY <1>2, <1>13, <3>1, <4>1
      <4>3. root'[v] = c
        BY <1>8, <4>1, <4>2
      <4> QED BY <4>3 DEF Owned
    <3>4. CASE \E d \in Cells : cells[d] = "live" /\ inner[d] = c
      <4>1. PICK d \in Cells : cells[d] = "live" /\ inner[d] = c
        BY <3>4
      <4>2. d \notin K /\ d \notin F
        BY <1>2, <1>6, <1>13, <3>1, <4>1
      <4>3. cells'[d] = "live" /\ inner'[d] = c
        BY <1>8, <4>1, <4>2
      <4> QED BY <4>3 DEF Owned, Live
    <3> QED BY <3>2, <3>3, <3>4 DEF Owned, Live
  <2> QED BY <2>1, <2>2
<1>17. ASSUME NEW c \in Cells, Owned(c)'
       PROVE  cells'[c] = "live"
  <2>1. CASE c \in F
    BY <1>8, <2>1
  <2>2. CASE c \notin F
    <3>1. CASE \E v \in HandleVars : root'[v] = c
      <4>1. PICK v \in HandleVars : root'[v] = c
        BY <3>1
      <4>2. v # x /\ root[v] = c
        BY <1>2, <1>8, <1>10, <2>2, <4>1
      <4>3. cells[c] = "live" /\ c \notin K
        BY <1>2, <1>12, <1>15, <4>2 DEF Owned
      <4> QED BY <1>14, <2>2, <4>3
    <3>2. CASE \E d \in Cells : cells'[d] = "live" /\ inner'[d] = c
      <4>1. PICK d \in Cells : cells'[d] = "live" /\ inner'[d] = c
        BY <3>2
      <4>2. d \notin F
        <5>1. d \in F => inner'[d] \in F \union {NoCell}
          BY <1>8, <1>9
        <5> QED BY <1>2, <2>2, <4>1, <5>1
      <4>3. cells[d] = "live" /\ d \notin K /\ inner[d] = c
        BY <1>8, <1>14, <4>1, <4>2
      <4>4. cells[c] = "live"
        BY <1>12, <4>3 DEF Owned, Live
      <4>5. c \notin K
        <5>1. c # root[x]
          BY <1>2, <1>12, <4>3
        <5>2. ASSUME NEW f \in K, inner[f] = c
              PROVE  FALSE
          BY <1>2, <1>12, <1>13, <4>3, <5>2
        <5> QED BY <1>13, <5>1, <5>2
      <4> QED BY <1>14, <2>2, <4>4, <4>5
    <3> QED BY <1>17, <3>1, <3>2 DEF Owned, Live
  <2> QED BY <2>1, <2>2
<1>18. \A d \in F : inner'[d] \in F \union {NoCell}
                   /\ (inner'[d] # NoCell => pos[inner'[d]] = pos[d] + 1)
  BY <1>5, <1>8, <1>9
<1>19. OwnersInv'
  <2>1. ASSUME NEW v \in HandleVars, NEW z \in HandleVars, root'[v] = root'[z], root'[v] # NoCell
        PROVE  v = z
    BY <1>8, <1>10, <1>12, <1>14, <2>1
  <2>2. ASSUME NEW d \in Cells, NEW e \in Cells, cells'[d] = "live", cells'[e] = "live",
               inner'[d] = inner'[e], inner'[d] # NoCell
        PROVE  d = e
    <3>1. \A f \in Cells \ F : inner'[f] \notin F
      BY <1>8, <1>14
    <3>2. CASE d \in F
      <4>1. e \in F
        BY <1>18, <2>2, <3>1, <3>2
      <4>2. pos[d] + 1 = pos[e] + 1
        BY <1>18, <2>2, <3>2, <4>1
      <4>3. pos[d] = pos[e]
        BY <1>5, <3>2, <4>1, <4>2
      <4> QED BY <1>5, <3>2, <4>1, <4>3
    <3>3. CASE d \notin F
      <4>1. e \notin F
        BY <1>18, <2>2, <3>1, <3>3
      <4> QED BY <1>8, <1>12, <1>14, <2>2, <3>3, <4>1
    <3> QED BY <3>2, <3>3
  <2>3. ASSUME NEW v \in HandleVars, NEW d \in Cells, cells'[d] = "live", root'[v] = inner'[d]
        PROVE  root'[v] = NoCell
    <3>1. CASE d \in F
      <4>1. CASE v = x
        <5>1. root'[v] = head
          BY <1>8, <4>1
        <5>2. head # NoCell => pos[head] = 1 /\ pos[head] = pos[d] + 1 /\ pos[d] \in 1..n
          BY <1>5, <1>10, <1>18, <2>3, <3>1, <5>1
        <5> QED BY <5>1, <5>2
      <4>2. CASE v # x
        BY <1>8, <1>14, <1>18, <2>3, <3>1, <4>2
      <4> QED BY <4>1, <4>2
    <3>2. CASE d \notin F
      <4>1. cells[d] = "live" /\ inner'[d] = inner[d]
        BY <1>8, <1>14, <2>3, <3>2
      <4> QED BY <1>8, <1>10, <1>12, <1>14, <2>3, <4>1
    <3> QED BY <3>1, <3>2
  <2>4. \A d \in Cells : cells'[d] = "live" <=> Owned(d)'
    BY <1>16, <1>17
  <2> QED BY <2>1, <2>2, <2>3, <2>4 DEF OwnersInv, Live
<1>20. NewInv'
  <2>1. ASSUME NEW d \in Cells, inner'[d] # NoCell
        PROVE  cells'[inner'[d]] # "new"
    <3>1. CASE d \in F
      <4>1. inner'[d] \in F
        BY <1>18, <2>1, <3>1
      <4> QED BY <1>5, <1>8, <4>1
    <3>2. CASE d \notin F
      <4>1. inner'[d] = inner[d] /\ inner[d] \in Cells /\ cells[inner[d]] # "new"
        BY <1>2, <1>8, <2>1, <3>2 DEF HandlesInv, NewInv, HandlesTypes
      <4> QED BY <1>8, <4>1
    <3> QED BY <3>1, <3>2
  <2>2. \A d \in Cells : cells'[d] = "new" => inner'[d] = NoCell
    BY <1>8 DEF HandlesInv, NewInv
  <2> QED BY <2>1, <2>2 DEF NewInv
<1>21. PICK m \in Nat : Acyclic(m)
  BY DEF HandlesInv
<1>22. PICK rank \in [Cells -> 0..m] : Ranked(rank)
  BY <1>21 DEF Acyclic
<1>23. PICK high \in [Cells -> 0..(m + n)] :
           \A d \in Cells : high[d] = IF d \in F THEN n - pos[d] ELSE rank[d]
  <2>1. \A d \in F : n - pos[d] \in 0..(m + n)
    BY <1>5
  <2>2. [d \in Cells |-> IF d \in F THEN n - pos[d] ELSE rank[d]] \in [Cells -> 0..(m + n)]
    BY <1>22, <2>1
  <2> QED BY <2>2
<1>24. Ranked(high)'
  <2>1. ASSUME NEW d \in Cells, inner'[d] # NoCell
        PROVE  high[inner'[d]] < high[d]
    <3>1. CASE d \in F
      <4>1. inner'[d] \in F /\ pos[inner'[d]] = pos[d] + 1 /\ pos[d] \in 1..n
        BY <1>5, <1>18, <2>1, <3>1
      <4>2. high[inner'[d]] = n - pos[inner'[d]] /\ high[d] = n - pos[d]
        BY <1>5, <1>23, <3>1, <4>1
      <4> QED BY <4>1, <4>2
    <3>2. CASE d \notin F
      <4>1. inner'[d] = inner[d] /\ inner[d] \in Cells \ F
        BY <1>2, <1>8, <1>14, <2>1, <3>2 DEF HandlesTypes
      <4>2. high[inner[d]] = rank[inner[d]] /\ high[d] = rank[d]
        BY <1>23, <3>2, <4>1
      <4>3. rank[inner[d]] < rank[d]
        BY <1>22, <2>1, <4>1 DEF Ranked
      <4> QED BY <4>1, <4>2, <4>3
    <3> QED BY <3>1, <3>2
  <2> QED BY <2>1 DEF Ranked
<1>25. (\E k \in Nat : Acyclic(k))'
  <2>1. m + n \in Nat
    BY <1>21
  <2> QED BY <1>23, <1>24, <2>1 DEF Acyclic
<1> QED BY <1>11, <1>19, <1>20, <1>25 DEF HandlesInv

LEMMA InitHandlesInv ==
    ASSUME HandlesInit
    PROVE  HandlesInv
<1> USE DEF HandlesInit
<1>1. HandlesTypes /\ NewInv
  BY DEF HandlesTypes, NewInv
<1>2. OwnersInv
  BY HandlesAssumption DEF OwnersInv, Owned, Live
<1>3. \E n \in Nat : Acyclic(n)
  <2>1. [c \in Cells |-> 0] \in [Cells -> 0..0]
    OBVIOUS
  <2>2. Acyclic(0)
    BY <2>1 DEF Acyclic, Ranked
  <2> QED BY <2>2
<1> QED BY <1>1, <1>2, <1>3 DEF HandlesInv

LEMMA NextHandlesInv ==
    ASSUME HandlesInv, [HandlesNext]_handleVars
    PROVE  HandlesInv'
<1>1. ASSUME NEW x \in HandleVars, NEW y \in HandleVars, NEW c \in Cells, MakeHandle(x, y, c)
      PROVE  HandlesInv'
  BY <1>1, MakeKeepsInv
<1>2. ASSUME NEW x \in HandleVars, NEW y \in HandleVars, MakeHandleFails(x, y)
      PROVE  HandlesInv'
  BY <1>2, ResetKeepsInv DEF MakeHandleFails
<1>3. ASSUME NEW x \in HandleVars, NEW y \in HandleVars, NEW fresh \in Fresh, AssignCopy(x, y, fresh)
      PROVE  HandlesInv'
  <2>1. PICK n \in Nat : fresh \in [1..n -> Cells]
    BY HandlesAssumption DEF Fresh
  <2> QED BY <1>3, <2>1, CopyKeepsInv
<1>4. ASSUME NEW x \in HandleVars, ResetHandle(x)
      PROVE  HandlesInv'
  BY <1>4, ResetKeepsInv DEF ResetHandle
<1>5. CASE UNCHANGED handleVars
  <2>1. HandlesTypes' /\ NewInv'
    BY <1>5 DEF handleVars, HandlesInv, HandlesTypes, NewInv
  <2>2. OwnersInv'
    BY <1>5 DEF handleVars, HandlesInv, OwnersInv, Owned, Live
  <2>3. (\E n \in Nat : Acyclic(n))'
    BY <1>5 DEF handleVars, HandlesInv, Acyclic, Ranked
  <2> QED BY <2>1, <2>2, <2>3 DEF HandlesInv
<1> QED BY <1>1, <1>2, <1>3, <1>4, <1>5, MoveKeepsInv, InnerKeepsInv DEF HandlesNext

\* In numbers: one owner, a handle or a cell, of what is live, and none of the rest.
LEMMA InvCellsOwned ==
    ASSUME HandlesInv
    PROVE  CellsOwnedOnce
<1> SUFFICES ASSUME NEW c \in Cells
             PROVE  /\ cells[c] # "twice"
                    /\ Cardinality({x \in HandleVars : root[x] = c})
                       + Cardinality({d \in Cells : cells[d] = "live" /\ inner[d] = c})
                         = IF cells[c] = "live" THEN 1 ELSE 0
  BY DEF CellsOwnedOnce
<1>1. cells[c] # "twice" /\ c # NoCell
  BY HandlesAssumption DEF HandlesInv, HandlesTypes
<1>2. PICK A, B : /\ A = {x \in HandleVars : root[x] = c}
                  /\ B = {d \in Cells : cells[d] = "live" /\ inner[d] = c}
  OBVIOUS
<1>3. cells[c] = "live" <=> (A # {} \/ B # {})
  BY <1>2 DEF HandlesInv, OwnersInv, Owned, Live
<1>4. A = {} \/ B = {}
  BY <1>1, <1>2 DEF HandlesInv, OwnersInv, Live
<1>5. (\A x, y \in A : x = y) /\ (\A d, e \in B : d = e)
  BY <1>1, <1>2 DEF HandlesInv, OwnersInv, Live
<1>6. ASSUME NEW S, \A a, b \in S : a = b
      PROVE  Cardinality(S) = IF S = {} THEN 0 ELSE 1
  <2>1. CASE S = {}
    BY <2>1, FS_EmptySet
  <2>2. CASE S # {}
    <3>1. PICK a : S = {a}
      BY <1>6, <2>2
    <3> QED BY <2>2, <3>1, FS_Singleton
  <2> QED BY <2>1, <2>2
<1>7. Cardinality(A) = (IF A = {} THEN 0 ELSE 1) /\ Cardinality(B) = (IF B = {} THEN 0 ELSE 1)
  BY <1>5, <1>6
<1>8. Cardinality(A) + Cardinality(B) = IF cells[c] = "live" THEN 1 ELSE 0
  BY <1>3, <1>4, <1>7
<1> QED BY <1>1, <1>2, <1>8

\* Whatever copies, moves, failed allocations and self assignments came before, for
\* every number of cells and handles and every length of a chain: a live cell has
\* one owner, a handle or a live cell, and none is freed twice or lost.
THEOREM CellsStayOwnedOnce == HandlesSpec => []CellsOwnedOnce
<1>1. HandlesInit => HandlesInv
  BY InitHandlesInv
<1>2. HandlesInv /\ [HandlesNext]_handleVars => HandlesInv'
  BY NextHandlesInv
<1>3. HandlesInv => CellsOwnedOnce
  BY InvCellsOwned
<1> QED BY <1>1, <1>2, <1>3, PTL DEF HandlesSpec
=============================================================================
