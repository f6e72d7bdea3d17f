------------------------- MODULE ReclamationProofs -------------------------
(***************************************************************************)
(* Reclamation.  First the epoch domain (RcuDomain), for every number of   *)
(* threads and objects, every batch size and every epoch bound; then the   *)
(* two-part retirement of dll::Object over it (DllObject): for every       *)
(* number of threads and images, readers keep an image and its index, and  *)
(* `reclaimed` is reported only of an image that nobody is inside.         *)
(* Last the counters that the advancement probe reads (AdvanceProbe): they *)
(* account for every call, for any number of writers.                      *)
(***************************************************************************)
EXTENDS DllObject, AdvanceProbe, FiniteSetTheorems, Induction, TLAPS

\* The build and the clients the invariant is about: a release store is visible
\* at once (the MSVC build, whose store_release is an exchange), and a thread
\* does not open a section inside another.
Sequential == StoreBuffering = FALSE /\ MaxDepth = 1

-----------------------------------------------------------------------------
\* Every step keeps the variables of RcuDomain in their types.
LEMMA TypeStep == TypeOK /\ [Next]_vars => TypeOK'
<1> SUFFICES ASSUME TypeOK, [Next]_vars PROVE TypeOK'
  OBVIOUS
<1> USE DEF vars, epochVars, readerVars, nodeVars, callVars, clientVars, Labels,
            Kinds, Classes, TypeOK
<1>1. CASE UNCHANGED vars
  BY <1>1 DEF EpochTypes, ReaderTypes, NodeTypes, CallTypes, ClientTypes
<1>2. ASSUME NEW t \in Threads, ReaderStep(t) PROVE TypeOK'
  <2>1. CASE RegisterThread(t)
    BY <2>1 DEF RegisterThread, EpochTypes, ReaderTypes, NodeTypes,
       CallTypes, ClientTypes
  <2>2. CASE EnterLoad(t)
    BY <2>2 DEF EnterLoad, EpochTypes, ReaderTypes, NodeTypes,
       CallTypes, ClientTypes
  <2>3. CASE EnterStore(t)
    <3>1. EpochTypes'
      BY <2>3, DepthAssumption DEF EpochTypes, EnterStore, StoreEpoch
    <3>2. ReaderTypes'
      BY <2>3, DepthAssumption DEF ReaderTypes, EnterStore, StoreEpoch
    <3>3. NodeTypes'
      BY <2>3, DepthAssumption DEF NodeTypes, EnterStore, StoreEpoch
    <3>4. CallTypes'
      BY <2>3, DepthAssumption DEF CallTypes, EnterStore, StoreEpoch
    <3>5. ClientTypes'
      BY <2>3, DepthAssumption DEF ClientTypes, EnterStore, StoreEpoch
    <3> QED BY <3>1, <3>2, <3>3, <3>4, <3>5
  <2>4. CASE Flush(t)
    BY <2>4 DEF Flush, EpochTypes, ReaderTypes, NodeTypes,
       CallTypes, ClientTypes
  <2>5. CASE LoadImage(t)
    <3>1. EpochTypes'
      BY <2>5 DEF EpochTypes, LoadImage
    <3>2. ReaderTypes'
      BY <2>5, DepthAssumption DEF ReaderTypes, ClientTypes, LoadImage
    <3>3. NodeTypes'
      BY <2>5 DEF NodeTypes, LoadImage
    <3>4. CallTypes'
      BY <2>5 DEF CallTypes, LoadImage
    <3>5. ClientTypes'
      BY <2>5 DEF ClientTypes, LoadImage
    <3> QED BY <3>1, <3>2, <3>3, <3>4, <3>5
  <2>6. CASE Exit(t)
    <3>1. EpochTypes'
      BY <2>6 DEF EpochTypes, Exit, StoreEpoch
    <3>2. ReaderTypes'
      BY <2>6, DepthAssumption DEF ReaderTypes, Exit, StoreEpoch
    <3>3. NodeTypes'
      BY <2>6 DEF NodeTypes, Exit, StoreEpoch
    <3>4. CallTypes'
      BY <2>6 DEF CallTypes, Exit, StoreEpoch
    <3>5. ClientTypes'
      BY <2>6 DEF ClientTypes, Exit, StoreEpoch
    <3> QED BY <3>1, <3>2, <3>3, <3>4, <3>5
  <2>7. CASE ThreadExit(t)
    <3>1. EpochTypes'
      BY <2>7 DEF EpochTypes, ThreadExit, StoreEpoch
    <3>2. ReaderTypes'
      BY <2>7 DEF ReaderTypes, ThreadExit, StoreEpoch
    <3>3. NodeTypes'
      BY <2>7 DEF NodeTypes, ThreadExit, StoreEpoch
    <3>4. CallTypes'
      BY <2>7 DEF CallTypes, ThreadExit, StoreEpoch
    <3>5. ClientTypes'
      BY <2>7 DEF ClientTypes, ThreadExit, StoreEpoch
    <3> QED BY <3>1, <3>2, <3>3, <3>4, <3>5
  <2> QED BY <1>2, <2>1, <2>2, <2>3, <2>4, <2>5, <2>6, <2>7 DEF ReaderStep
<1>3. ASSUME NEW t \in Threads, RetireStep(t) PROVE TypeOK'
  <2>1. ASSUME NEW o \in Objects \union {NoObject}, Swap(t, o) PROVE TypeOK'
    BY <2>1 DEF Swap, EpochTypes, ReaderTypes, NodeTypes,
       CallTypes, ClientTypes
  <2>2. ASSUME NEW c \in Classes, Retire(t, c) PROVE TypeOK'
    BY <2>2 DEF Retire, QueueNode, EpochTypes, ReaderTypes, NodeTypes,
       CallTypes, ClientTypes
  <2>3. CASE RetireFails(t)
    BY <2>3 DEF RetireFails, EpochTypes, ReaderTypes, NodeTypes,
       CallTypes, ClientTypes
  <2> QED BY <1>3, <2>1, <2>2, <2>3 DEF RetireStep
<1>4. ASSUME NEW t \in Threads, SyncCall(t) PROVE TypeOK'
  <2>1. ASSUME NEW k \in Kinds, SyncContended(t, k) PROVE TypeOK'
    <3>1. EpochTypes'
      BY <2>1 DEF EpochTypes, SyncContended, PublishBatch, MayCall
    <3>2. ReaderTypes'
      BY <2>1 DEF ReaderTypes, SyncContended, PublishBatch, MayCall
    <3>3. NodeTypes'
      BY <2>1 DEF NodeTypes, SyncContended, PublishBatch, MayCall
    <3>4. CallTypes'
      BY <2>1 DEF CallTypes, SyncContended, PublishBatch, MayCall
    <3>5. ClientTypes'
      BY <2>1 DEF ClientTypes, SyncContended, PublishBatch, MayCall
    <3> QED BY <3>1, <3>2, <3>3, <3>4, <3>5
  <2>2. CASE SyncGated(t)
    <3>1. EpochTypes'
      BY <2>2 DEF EpochTypes, SyncGated, PublishBatch, MayCall
    <3>2. ReaderTypes'
      BY <2>2 DEF ReaderTypes, SyncGated, PublishBatch, MayCall
    <3>3. NodeTypes'
      BY <2>2 DEF NodeTypes, SyncGated, PublishBatch, MayCall
    <3>4. CallTypes'
      BY <2>2 DEF CallTypes, SyncGated, PublishBatch, MayCall
    <3>5. ClientTypes'
      BY <2>2 DEF ClientTypes, SyncGated, PublishBatch, MayCall
    <3> QED BY <3>1, <3>2, <3>3, <3>4, <3>5
  <2>3. ASSUME NEW k \in Kinds, SyncAdvance(t, k) PROVE TypeOK'
    <3>1. EpochTypes'
      BY <2>3 DEF EpochTypes, SyncAdvance, Advance, PublishBatch, MayCall
    <3>2. ReaderTypes'
      BY <2>3 DEF ReaderTypes, SyncAdvance, Advance, PublishBatch, MayCall
    <3>3. NodeTypes'
      BY <2>3 DEF NodeTypes, SyncAdvance, Advance, PublishBatch, MayCall
    <3>4. CallTypes'
      BY <2>3 DEF CallTypes, EpochTypes, SyncAdvance, Advance
    <3>5. ClientTypes'
      BY <2>3 DEF ClientTypes, SyncAdvance, Advance, PublishBatch, MayCall
    <3> QED BY <3>1, <3>2, <3>3, <3>4, <3>5
  <2>4. ASSUME NEW k \in Kinds, BeginUntil(t, k) PROVE TypeOK'
    <3>1. EpochTypes'
      BY <2>4 DEF EpochTypes, BeginUntil, PublishBatch, MayCall
    <3>2. ReaderTypes'
      BY <2>4 DEF ReaderTypes, BeginUntil, PublishBatch, MayCall
    <3>3. NodeTypes'
      BY <2>4 DEF NodeTypes, BeginUntil, PublishBatch, MayCall
    <3>4. CallTypes'
      BY <2>4 DEF CallTypes, BeginUntil, PublishBatch, MayCall
    <3>5. ClientTypes'
      BY <2>4 DEF ClientTypes, BeginUntil, PublishBatch, MayCall
    <3> QED BY <3>1, <3>2, <3>3, <3>4, <3>5
  <2>5. CASE TryCollect(t)
    <3>1. EpochTypes'
      BY <2>5 DEF EpochTypes, TryCollect, PublishBatch, MayCall
    <3>2. ReaderTypes'
      BY <2>5 DEF ReaderTypes, TryCollect, PublishBatch, MayCall
    <3>3. NodeTypes'
      BY <2>5 DEF NodeTypes, TryCollect, PublishBatch, MayCall
    <3>4. CallTypes'
      BY <2>5 DEF CallTypes, EpochTypes, TryCollect
    <3>5. ClientTypes'
      BY <2>5 DEF ClientTypes, TryCollect, PublishBatch, MayCall
    <3> QED BY <3>1, <3>2, <3>3, <3>4, <3>5
  <2> QED BY <1>4, <2>1, <2>2, <2>3, <2>4, <2>5 DEF SyncCall
<1>5. ASSUME NEW t \in Threads, CallStep(t) PROVE TypeOK'
  <2>1. CASE PublishFull(t)
    BY <2>1 DEF PublishFull, PublishBatch, EpochTypes, ReaderTypes, NodeTypes,
       CallTypes, ClientTypes
  <2>2. CASE AwaitSync(t)
    BY <2>2 DEF AwaitSync, EpochTypes, ReaderTypes, NodeTypes,
       CallTypes, ClientTypes
  <2>3. CASE UntilContended(t)
    <3>1. EpochTypes'
      BY <2>3 DEF EpochTypes, UntilContended, PublishBatch, Return
    <3>2. ReaderTypes'
      BY <2>3 DEF ReaderTypes, UntilContended, PublishBatch, Return
    <3>3. NodeTypes'
      BY <2>3 DEF NodeTypes, UntilContended, PublishBatch, Return
    <3>4. CallTypes'
      BY <2>3 DEF CallTypes, UntilContended, PublishBatch, Return
    <3>5. ClientTypes'
      BY <2>3 DEF ClientTypes, UntilContended, PublishBatch, Return
    <3> QED BY <3>1, <3>2, <3>3, <3>4, <3>5
  <2>4. CASE UntilAdvance(t)
    <3>1. EpochTypes'
      BY <2>4 DEF EpochTypes, UntilAdvance, Advance, PublishBatch
    <3>2. ReaderTypes'
      BY <2>4 DEF ReaderTypes, UntilAdvance, Advance, PublishBatch
    <3>3. NodeTypes'
      BY <2>4 DEF NodeTypes, UntilAdvance, Advance, PublishBatch
    <3>4. CallTypes'
      BY <2>4 DEF CallTypes, EpochTypes, UntilAdvance, Advance
    <3>5. ClientTypes'
      BY <2>4 DEF ClientTypes, UntilAdvance, Advance, PublishBatch
    <3> QED BY <3>1, <3>2, <3>3, <3>4, <3>5
  <2>5. CASE LoadThreads(t)
    BY <2>5 DEF LoadThreads, EpochTypes, ReaderTypes, NodeTypes,
       CallTypes, ClientTypes
  <2>6. ASSUME NEW u \in Threads, ScanPassed(t, u) PROVE TypeOK'
    BY <2>6 DEF ScanPassed, EpochTypes, ReaderTypes, NodeTypes,
       CallTypes, ClientTypes
  <2>7. ASSUME NEW u \in Threads, ScanBlocked(t, u) PROVE TypeOK'
    <3>1. EpochTypes'
      BY <2>7 DEF EpochTypes, ScanBlocked
    <3>2. ReaderTypes'
      BY <2>7 DEF ReaderTypes, ScanBlocked
    <3>3. NodeTypes'
      BY <2>7 DEF NodeTypes, ScanBlocked
    <3>4. CallTypes'
      BY <2>7 DEF CallTypes, ScanBlocked
    <3>5. ClientTypes'
      BY <2>7 DEF ClientTypes, ScanBlocked
    <3> QED BY <3>1, <3>2, <3>3, <3>4, <3>5
  <2>8. ASSUME NEW u \in Threads, ScanMinimum(t, u) PROVE TypeOK'
    <3>1. EpochTypes'
      BY <2>8 DEF EpochTypes, ScanMinimum, Blocks
    <3>2. ReaderTypes'
      BY <2>8 DEF ReaderTypes, ScanMinimum, Blocks
    <3>3. NodeTypes'
      BY <2>8 DEF NodeTypes, ScanMinimum, Blocks
    <3>4. CallTypes'
      BY <2>8 DEF CallTypes, ReaderTypes, ScanMinimum, Blocks
    <3>5. ClientTypes'
      BY <2>8 DEF ClientTypes, ScanMinimum, Blocks
    <3> QED BY <3>1, <3>2, <3>3, <3>4, <3>5
  <2>9. CASE ScanDone(t)
    <3>1. EpochTypes'
      BY <2>9 DEF EpochTypes, ScanDone, Return, Collects
    <3>2. ReaderTypes'
      BY <2>9 DEF ReaderTypes, ScanDone, Return, Collects
    <3>3. NodeTypes'
      BY <2>9 DEF NodeTypes, ScanDone, Return, Collects
    <3>4. CallTypes'
      BY <2>9 DEF CallTypes, ScanDone, Return, Collects
    <3>5. ClientTypes'
      BY <2>9 DEF ClientTypes, ScanDone, Return, Collects
    <3> QED BY <3>1, <3>2, <3>3, <3>4, <3>5
  <2>10. CASE CollectLock(t)
    BY <2>10 DEF CollectLock, EpochTypes, ReaderTypes, NodeTypes,
       CallTypes, ClientTypes
  <2>11. CASE CollectSkip(t)
    BY <2>11 DEF CollectSkip, EpochTypes, ReaderTypes, NodeTypes,
       CallTypes, ClientTypes
  <2>12. CASE CollectMark(t)
    <3>1. EpochTypes'
      BY <2>12 DEF EpochTypes, CallTypes, CollectMark, NextClass
    <3>2. ReaderTypes'
      BY <2>12 DEF ReaderTypes, CollectMark, NextClass
    <3>3. NodeTypes'
      BY <2>12 DEF NodeTypes, CollectMark, NextClass
    <3>4. CallTypes'
      BY <2>12 DEF CallTypes, CollectMark, NextClass
    <3>5. ClientTypes'
      BY <2>12 DEF ClientTypes, CollectMark, NextClass
    <3> QED BY <3>1, <3>2, <3>3, <3>4, <3>5
  <2>13. ASSUME NEW o \in Objects, CollectReclaim(t, o) PROVE TypeOK'
    BY <2>13 DEF CollectReclaim, EpochTypes, ReaderTypes, NodeTypes,
       CallTypes, ClientTypes
  <2>14. CASE CollectDone(t)
    BY <2>14 DEF CollectDone, EpochTypes, ReaderTypes, NodeTypes,
       CallTypes, ClientTypes
  <2>15. CASE CollectEnd(t)
    BY <2>15 DEF CollectEnd, Return, EpochTypes, ReaderTypes, NodeTypes,
       CallTypes, ClientTypes
  <2> QED
    BY <1>5, <2>1, <2>2, <2>3, <2>4, <2>5, <2>6, <2>7, <2>8, <2>9, <2>10, <2>11,
       <2>12, <2>13, <2>14, <2>15 DEF CallStep
<1> QED BY <1>1, <1>2, <1>3, <1>4, <1>5 DEF Next, Step

\* Type correctness: no call of the domain leaves a variable outside its type;
\* in particular the candidate epoch of try_collect() never falls below zero.
THEOREM TypeCorrect == Spec => []TypeOK
<1>1. Init => TypeOK
  BY DepthAssumption DEF Init, TypeOK, Labels, Kinds, Classes, EpochTypes,
     ReaderTypes, NodeTypes, CallTypes, ClientTypes
<1> QED BY <1>1, TypeStep, PTL DEF Spec

-----------------------------------------------------------------------------
\* An advancement moves the global epoch up; whoever reads or records it does so
\* at or below the new value.
LEMMA EpochOrderStep ==
    ASSUME Sequential, TypeOK, EpochOrder, [Next]_vars
    PROVE  EpochOrder'
<1> USE DEF vars, epochVars, readerVars, nodeVars, callVars, clientVars, Labels,
            Kinds, Classes, TypeOK, Sequential, EpochOrder, EpochTypes, ReaderTypes,
            NodeTypes, CallTypes, ClientTypes
<1>1. CASE UNCHANGED vars
  BY <1>1
<1>2. ASSUME NEW t \in Threads, ReaderStep(t) PROVE EpochOrder'
  <2>1. CASE EnterLoad(t)
    BY <2>1 DEF EnterLoad
  <2>2. CASE EnterStore(t)
    BY <2>2 DEF EnterStore, StoreEpoch
  <2>3. CASE Flush(t)
    BY <2>3 DEF Flush, Drained
  <2>4. CASE Exit(t)
    BY <2>4 DEF Exit, StoreEpoch
  <2>5. CASE ThreadExit(t)
    BY <2>5 DEF ThreadExit, StoreEpoch
  <2>6. CASE \/ RegisterThread(t)
             \/ LoadImage(t)
    BY <2>6 DEF RegisterThread, LoadImage
  <2> QED BY <1>2, <2>1, <2>2, <2>3, <2>4, <2>5, <2>6 DEF ReaderStep
<1>3. ASSUME NEW t \in Threads, RetireStep(t) PROVE EpochOrder'
  <2>1. ASSUME NEW c \in Classes, Retire(t, c) PROVE EpochOrder'
    BY <2>1 DEF Retire, QueueNode
  <2>2. CASE \/ \E o \in Objects \union {NoObject} : Swap(t, o)
             \/ RetireFails(t)
    BY <2>2 DEF Swap, RetireFails
  <2> QED BY <1>3, <2>1, <2>2 DEF RetireStep
<1>4. ASSUME NEW t \in Threads, SyncCall(t) PROVE EpochOrder'
  <2>1. ASSUME NEW k \in {"sync", "eager"}, SyncAdvance(t, k) PROVE EpochOrder'
    BY <2>1 DEF SyncAdvance, PublishBatch, Advance
  <2>2. CASE TryCollect(t)
    BY <2>2 DEF TryCollect, PublishBatch
  <2>3. CASE \/ \E k \in {"sync", "eager"} : SyncContended(t, k)
             \/ SyncGated(t)
             \/ \E k \in {"until", "never"} : BeginUntil(t, k)
    BY <2>3 DEF SyncContended, PublishBatch, SyncGated, BeginUntil
  <2> QED BY <1>4, <2>1, <2>2, <2>3 DEF SyncCall
<1>5. ASSUME NEW t \in Threads, CallStep(t) PROVE EpochOrder'
  <2>1. CASE UntilContended(t)
    <3>1. CASE UNCHANGED callVars
      BY <2>1, <3>1 DEF UntilContended, PublishBatch
    <3>2. CASE Return(t)
      BY <2>1, <3>2 DEF UntilContended, PublishBatch, Return
    <3> QED BY <2>1, <3>1, <3>2 DEF UntilContended
  <2>2. CASE UntilAdvance(t)
    BY <2>2 DEF UntilAdvance, PublishBatch, Advance
  <2>3. ASSUME NEW u \in Threads, ScanMinimum(t, u) PROVE EpochOrder'
    BY <2>3 DEF ScanMinimum, Blocks
  <2>4. CASE ScanDone(t)
    BY <2>4 DEF ScanDone, Return
  <2>5. CASE CollectMark(t)
    BY <2>5 DEF CollectMark, NextClass
  <2>6. CASE CollectEnd(t)
    BY <2>6 DEF CollectEnd, Return
  <2>7. CASE \/ PublishFull(t)
             \/ AwaitSync(t)
             \/ LoadThreads(t)
             \/ \E u \in Threads : ScanPassed(t, u)
             \/ \E u \in Threads : ScanBlocked(t, u)
             \/ CollectLock(t)
             \/ CollectSkip(t)
             \/ \E o \in Objects : CollectReclaim(t, o)
             \/ CollectDone(t)
    BY <2>7 DEF PublishFull, PublishBatch, AwaitSync, LoadThreads, ScanPassed,
       Blocks, ScanBlocked, CollectLock, CollectSkip, NextClass, CollectReclaim,
       CollectDone
  <2> QED BY <1>5, <2>1, <2>2, <2>3, <2>4, <2>5, <2>6, <2>7 DEF CallStep
<1> QED BY <1>1, <1>2, <1>3, <1>4, <1>5 DEF Next, Step

\* A thread registers before it enters, so a section is never invisible to a scan.
LEMMA SectionsVisibleStep ==
    ASSUME Sequential, TypeOK, SectionsVisible, [Next]_vars
    PROVE  SectionsVisible'
<1> USE DEF vars, epochVars, readerVars, nodeVars, callVars, clientVars, Labels,
            Kinds, Classes, TypeOK, Sequential, SectionsVisible, EpochTypes, ReaderTypes,
            CallTypes
<1>1. CASE UNCHANGED vars
  BY <1>1
<1>2. ASSUME NEW t \in Threads, ReaderStep(t) PROVE SectionsVisible'
  <2>1. CASE RegisterThread(t)
    BY <2>1 DEF RegisterThread
  <2>2. CASE EnterLoad(t)
    BY <2>2 DEF EnterLoad
  <2>3. CASE EnterStore(t)
    BY <2>3 DEF EnterStore, StoreEpoch
  <2>4. CASE LoadImage(t)
    BY <2>4 DEF LoadImage
  <2>5. CASE Exit(t)
    BY <2>5 DEF Exit, StoreEpoch
  <2>6. CASE ThreadExit(t)
    BY <2>6 DEF ThreadExit, StoreEpoch
  <2>7. CASE Flush(t)
    BY <2>7 DEF Flush
  <2> QED BY <1>2, <2>1, <2>2, <2>3, <2>4, <2>5, <2>6, <2>7 DEF ReaderStep
<1>3. ASSUME NEW t \in Threads, RetireStep(t) PROVE SectionsVisible'
  BY <1>3 DEF RetireStep, Swap, Retire, QueueNode, RetireFails
<1>4. ASSUME NEW t \in Threads, SyncCall(t) PROVE SectionsVisible'
  BY <1>4 DEF SyncCall, SyncContended, SyncGated, SyncAdvance, Advance,
     BeginUntil, TryCollect
<1>5. ASSUME NEW t \in Threads, CallStep(t) PROVE SectionsVisible'
  BY <1>5 DEF CallStep, PublishFull, AwaitSync, UntilContended, Return,
     UntilAdvance, Advance, LoadThreads, ScanPassed, ScanBlocked, ScanMinimum,
     ScanDone, CollectLock, CollectSkip, CollectMark, CollectReclaim,
     CollectDone, CollectEnd
<1> QED BY <1>1, <1>2, <1>3, <1>4, <1>5 DEF Next, Step

\* An object is swapped out once and queued once.
LEMMA LifecycleStep ==
    ASSUME TypeOK, Lifecycle, [Next]_vars
    PROVE  Lifecycle'
<1> USE DEF vars, epochVars, readerVars, nodeVars, callVars, clientVars, Labels,
            Kinds, Classes, TypeOK, Lifecycle, EpochTypes, NodeTypes, ClientTypes
<1>1. CASE UNCHANGED vars
  BY <1>1
<1>2. ASSUME NEW t \in Threads, ReaderStep(t) PROVE Lifecycle'
  BY <1>2 DEF ReaderStep, RegisterThread, EnterLoad, EnterStore, Flush,
     LoadImage, Exit, ThreadExit
<1>3. ASSUME NEW t \in Threads, RetireStep(t) PROVE Lifecycle'
  <2>1. ASSUME NEW o \in Objects \union {NoObject}, Swap(t, o) PROVE Lifecycle'
    BY <2>1, ObjectsAssumption DEF Swap
  <2>2. ASSUME NEW c \in Classes, Retire(t, c) PROVE Lifecycle'
    BY <2>2 DEF Retire, QueueNode
  <2>3. CASE RetireFails(t)
    BY <2>3 DEF RetireFails
  <2> QED BY <1>3, <2>1, <2>2, <2>3 DEF RetireStep
<1>4. ASSUME NEW t \in Threads, SyncCall(t) PROVE Lifecycle'
  BY <1>4 DEF SyncCall, SyncContended, PublishBatch, SyncGated, SyncAdvance,
     BeginUntil, TryCollect
<1>5. ASSUME NEW t \in Threads, CallStep(t) PROVE Lifecycle'
  <2>1. ASSUME NEW o \in Objects, CollectReclaim(t, o) PROVE Lifecycle'
    BY <2>1 DEF CollectReclaim, Collectable
  <2>2. CASE \/ PublishFull(t)
             \/ AwaitSync(t)
             \/ UntilContended(t)
             \/ UntilAdvance(t)
             \/ LoadThreads(t)
             \/ \E u \in Threads : ScanPassed(t, u)
             \/ \E u \in Threads : ScanBlocked(t, u)
             \/ \E u \in Threads : ScanMinimum(t, u)
             \/ ScanDone(t)
             \/ CollectLock(t)
             \/ CollectSkip(t)
             \/ CollectMark(t)
             \/ CollectDone(t)
             \/ CollectEnd(t)
    BY <2>2 DEF PublishFull, PublishBatch, AwaitSync, UntilContended,
       UntilAdvance, LoadThreads, ScanPassed, ScanBlocked, ScanMinimum,
       ScanDone, CollectLock, CollectSkip, CollectMark, CollectDone, CollectEnd
  <2> QED BY <1>5, <2>1, <2>2 DEF CallStep
<1> QED BY <1>1, <1>2, <1>3, <1>4, <1>5 DEF Next, Step

\* Publishing moves a batch, and reclaiming unlinks before the callback.
LEMMA QueuedOnceStep ==
    ASSUME TypeOK, Lifecycle, QueuedOnce, [Next]_vars
    PROVE  QueuedOnce'
<1> USE DEF vars, epochVars, readerVars, nodeVars, callVars, clientVars, Labels,
            Kinds, Classes, TypeOK, Lifecycle, QueuedOnce, NodeTypes, ClientTypes
<1>1. CASE UNCHANGED vars
  BY <1>1
<1>2. ASSUME NEW t \in Threads, ReaderStep(t) PROVE QueuedOnce'
  BY <1>2 DEF ReaderStep, RegisterThread, EnterLoad, EnterStore, Flush,
     LoadImage, Exit, ThreadExit
<1>3. ASSUME NEW t \in Threads, RetireStep(t) PROVE QueuedOnce'
  <2>1. ASSUME NEW c \in Classes, Retire(t, c) PROVE QueuedOnce'
    BY <2>1 DEF Retire, QueueNode
  <2>2. CASE \/ \E o \in Objects \union {NoObject} : Swap(t, o)
             \/ RetireFails(t)
    BY <2>2 DEF Swap, RetireFails
  <2> QED BY <1>3, <2>1, <2>2 DEF RetireStep
<1>4. ASSUME NEW t \in Threads, SyncCall(t) PROVE QueuedOnce'
  BY <1>4 DEF SyncCall, SyncContended, PublishBatch, SyncGated, SyncAdvance,
     BeginUntil, TryCollect
<1>5. ASSUME NEW t \in Threads, CallStep(t) PROVE QueuedOnce'
  <2>1. ASSUME NEW o \in Objects, CollectReclaim(t, o) PROVE QueuedOnce'
    BY <2>1 DEF CollectReclaim, Collectable
  <2>2. CASE \/ PublishFull(t)
             \/ AwaitSync(t)
             \/ UntilContended(t)
             \/ UntilAdvance(t)
             \/ LoadThreads(t)
             \/ \E u \in Threads : ScanPassed(t, u)
             \/ \E u \in Threads : ScanBlocked(t, u)
             \/ \E u \in Threads : ScanMinimum(t, u)
             \/ ScanDone(t)
             \/ CollectLock(t)
             \/ CollectSkip(t)
             \/ CollectMark(t)
             \/ CollectDone(t)
             \/ CollectEnd(t)
    BY <2>2 DEF PublishFull, PublishBatch, AwaitSync, UntilContended,
       UntilAdvance, LoadThreads, ScanPassed, ScanBlocked, ScanMinimum,
       ScanDone, CollectLock, CollectSkip, CollectMark, CollectDone, CollectEnd
  <2> QED BY <1>5, <2>1, <2>2 DEF CallStep
<1> QED BY <1>1, <1>2, <1>3, <1>4, <1>5 DEF Next, Step

\* Only the holder of the writer lock moves a watermark.
LEMMA CallStateStep ==
    ASSUME TypeOK, CallState, [Next]_vars
    PROVE  CallState'
<1> USE DEF vars, epochVars, readerVars, nodeVars, callVars, clientVars, Labels,
            Kinds, Classes, TypeOK, CallState, EpochTypes, CallTypes, NextClass
<1>1. CASE UNCHANGED vars
  BY <1>1
<1>2. ASSUME NEW t \in Threads, ReaderStep(t) PROVE CallState'
  BY <1>2 DEF ReaderStep, RegisterThread, WriterLockFree, EnterLoad, EnterStore,
     Flush, LoadImage, Exit, ThreadExit
<1>3. ASSUME NEW t \in Threads, RetireStep(t) PROVE CallState'
  BY <1>3 DEF RetireStep, Swap, Retire, QueueNode, RetireFails
<1>4. ASSUME NEW t \in Threads, SyncCall(t) PROVE CallState'
  BY <1>4 DEF SyncCall, SyncContended, MayCall, SyncGated, SyncAdvance, Advance,
     BeginUntil, TryCollect
<1>5. ASSUME NEW t \in Threads, CallStep(t) PROVE CallState'
  <2>1. CASE ScanDone(t)
    BY <2>1 DEF ScanDone, Return, Collects
  <2>2. CASE CollectLock(t)
    BY <2>2, ThreadsAssumption DEF CollectLock, WriterLockFree
  <2>3. CASE CollectSkip(t)
    BY <2>3 DEF CollectSkip
  <2>4. CASE CollectMark(t)
    BY <2>4 DEF CollectMark
  <2>5. CASE CollectDone(t)
    BY <2>5 DEF CollectDone
  <2>6. CASE CollectEnd(t)
    BY <2>6, ThreadsAssumption DEF CollectEnd, Return
  <2>7. CASE \/ PublishFull(t)
             \/ AwaitSync(t)
             \/ UntilContended(t)
             \/ UntilAdvance(t)
             \/ LoadThreads(t)
             \/ \E u \in Threads : ScanPassed(t, u)
             \/ \E u \in Threads : ScanBlocked(t, u)
             \/ \E u \in Threads : ScanMinimum(t, u)
             \/ \E o \in Objects : CollectReclaim(t, o)
    BY <2>7 DEF PublishFull, AwaitSync, UntilContended, Return, UntilAdvance,
       Advance, LoadThreads, ScanPassed, ScanBlocked, ScanMinimum,
       CollectReclaim
  <2> QED BY <1>5, <2>1, <2>2, <2>3, <2>4, <2>5, <2>6, <2>7 DEF CallStep
<1> QED BY <1>1, <1>2, <1>3, <1>4, <1>5 DEF Next, Step

\* An advancement is taken only when `sync` is clear, and cleared by its owner.
LEMMA OneAdvancementStep ==
    ASSUME TypeOK, CallState, OneAdvancement, [Next]_vars
    PROVE  OneAdvancement'
<1> USE DEF vars, epochVars, readerVars, nodeVars, callVars, clientVars, Labels,
            Kinds, Classes, TypeOK, OneAdvancement, Owns, EpochTypes, CallTypes
<1>1. CASE UNCHANGED vars
  BY <1>1
<1>2. ASSUME NEW t \in Threads, ReaderStep(t) PROVE OneAdvancement'
  BY <1>2 DEF ReaderStep, RegisterThread, EnterLoad, EnterStore, Flush,
     LoadImage, Exit, ThreadExit
<1>3. ASSUME NEW t \in Threads, RetireStep(t) PROVE OneAdvancement'
  BY <1>3 DEF RetireStep, Swap, Retire, QueueNode, RetireFails
<1>4. ASSUME NEW t \in Threads, SyncCall(t) PROVE OneAdvancement'
  <2>1. ASSUME NEW k \in {"sync", "eager"}, SyncAdvance(t, k) PROVE OneAdvancement'
    <3>1. \A v \in Threads : ~Owns(v)
      BY <2>1 DEF SyncAdvance, Advance
    <3>2. \A v \in Threads : Owns(v)' => v = t
      BY <2>1, <3>1 DEF SyncAdvance, Advance
    <3>3. Owns(t)' /\ sync' = safe'[t] + 1
      BY <2>1 DEF SyncAdvance, Advance
    <3> QED BY <3>2, <3>3
  <2>2. CASE TryCollect(t)
    BY <2>2 DEF TryCollect, MayCall
  <2>3. CASE \/ \E k \in {"sync", "eager"} : SyncContended(t, k)
             \/ SyncGated(t)
             \/ \E k \in {"until", "never"} : BeginUntil(t, k)
    BY <2>3 DEF SyncContended, MayCall, SyncGated, BeginUntil
  <2> QED BY <1>4, <2>1, <2>2, <2>3 DEF SyncCall
<1>5. ASSUME NEW t \in Threads, CallStep(t) PROVE OneAdvancement'
  <2>1. CASE UntilAdvance(t)
    <3>1. \A v \in Threads : ~Owns(v)
      BY <2>1 DEF UntilAdvance, Advance
    <3>2. \A v \in Threads : Owns(v)' => v = t
      BY <2>1, <3>1 DEF UntilAdvance, Advance
    <3>3. Owns(t)' /\ sync' = safe'[t] + 1
      BY <2>1 DEF UntilAdvance, Advance, CallState
    <3> QED BY <3>2, <3>3
  <2>2. ASSUME NEW u \in Threads, ScanMinimum(t, u) PROVE OneAdvancement'
    BY <2>2 DEF ScanMinimum
  <2>3. CASE ScanDone(t)
    BY <2>3 DEF ScanDone, Return
  <2>4. CASE CollectEnd(t)
    BY <2>4 DEF CollectEnd, Return
  <2>5. CASE \/ PublishFull(t)
             \/ AwaitSync(t)
             \/ UntilContended(t)
             \/ LoadThreads(t)
             \/ \E u \in Threads : ScanPassed(t, u)
             \/ \E u \in Threads : ScanBlocked(t, u)
             \/ CollectLock(t)
             \/ CollectSkip(t)
             \/ CollectMark(t)
             \/ \E o \in Objects : CollectReclaim(t, o)
             \/ CollectDone(t)
    BY <2>5 DEF PublishFull, AwaitSync, UntilContended, Return, LoadThreads,
       ScanPassed, ScanBlocked, CollectLock, CollectSkip, CollectMark,
       CollectReclaim, CollectDone
  <2> QED BY <1>5, <2>1, <2>2, <2>3, <2>4, <2>5 DEF CallStep
<1> QED BY <1>1, <1>2, <1>3, <1>4, <1>5 DEF Next, Step

\* A reader met by a scan has left, or entered after what the scan targets; an
\* object loaded after the scan went by is retired at a later epoch.
LEMMA ReadersCoveredStep ==
    ASSUME Sequential, TypeOK, EpochOrder, SectionsVisible, Lifecycle,
       CallState, ReadersCovered, [Next]_vars
    PROVE  ReadersCovered'
<1> USE DEF vars, epochVars, readerVars, nodeVars, callVars, clientVars, Labels,
            Kinds, Classes, TypeOK, Sequential, ReadersCovered, Passed, Holds,
            EpochOrder, SectionsVisible, EpochTypes, ReaderTypes, NodeTypes, CallTypes,
            ClientTypes
<1>1. CASE UNCHANGED vars
  BY <1>1
<1>2. ASSUME NEW t \in Threads, ReaderStep(t) PROVE ReadersCovered'
  <2>1. CASE EnterStore(t)
    BY <2>1, ObjectsAssumption DEF EnterStore, StoreEpoch
  <2>2. CASE LoadImage(t)
    BY <2>2 DEF LoadImage, Lifecycle
  <2>3. CASE Exit(t)
    BY <2>3 DEF Exit, StoreEpoch
  <2>4. CASE \/ RegisterThread(t)
             \/ EnterLoad(t)
             \/ Flush(t)
             \/ ThreadExit(t)
    BY <2>4 DEF RegisterThread, EnterLoad, Flush, ThreadExit, StoreEpoch
  <2> QED BY <1>2, <2>1, <2>2, <2>3, <2>4 DEF ReaderStep
<1>3. ASSUME NEW t \in Threads, RetireStep(t) PROVE ReadersCovered'
  <2>1. ASSUME NEW c \in Classes, Retire(t, c) PROVE ReadersCovered'
    BY <2>1 DEF Retire, QueueNode, Lifecycle
  <2>2. CASE \/ \E o \in Objects \union {NoObject} : Swap(t, o)
             \/ RetireFails(t)
    BY <2>2 DEF Swap, RetireFails
  <2> QED BY <1>3, <2>1, <2>2 DEF RetireStep
<1>4. ASSUME NEW t \in Threads, SyncCall(t) PROVE ReadersCovered'
  <2>1. ASSUME NEW k \in {"sync", "eager"}, SyncContended(t, k) PROVE ReadersCovered'
    BY <2>1 DEF SyncContended, MayCall, PublishBatch
  <2>2. ASSUME NEW k \in {"sync", "eager"}, SyncAdvance(t, k) PROVE ReadersCovered'
    BY <2>2 DEF SyncAdvance, MayCall, PublishBatch, Advance
  <2>3. ASSUME NEW k \in {"until", "never"}, BeginUntil(t, k) PROVE ReadersCovered'
    BY <2>3 DEF BeginUntil, MayCall
  <2>4. CASE TryCollect(t)
    BY <2>4 DEF TryCollect, MayCall, PublishBatch
  <2>5. CASE SyncGated(t)
    BY <2>5 DEF SyncGated, MayCall, PublishBatch
  <2> QED BY <1>4, <2>1, <2>2, <2>3, <2>4, <2>5 DEF SyncCall
<1>5. ASSUME NEW t \in Threads, CallStep(t) PROVE ReadersCovered'
  <2>1. CASE UntilContended(t)
    <3>1. CASE UNCHANGED <<pc, callVars>>
      BY <2>1, <3>1 DEF UntilContended, PublishBatch
    <3>2. CASE Return(t)
      BY <2>1, <3>2 DEF UntilContended, PublishBatch, Return
    <3> QED BY <2>1, <3>1, <3>2 DEF UntilContended
  <2>2. CASE UntilAdvance(t)
    BY <2>2 DEF UntilAdvance, PublishBatch, Advance
  <2>3. CASE LoadThreads(t)
    BY <2>3 DEF LoadThreads
  <2>4. ASSUME NEW u \in Threads, ScanPassed(t, u) PROVE ReadersCovered'
    <3>1. ASSUME NEW o \in Objects, Holds(u, o), nodeEpoch[o] # 0
          PROVE  nodeEpoch[o] > safe[t]
      <4>1. own[u] <= nodeEpoch[o]
        BY <3>1
      <4>2. depth[u] > 0
        BY <3>1
      <4>3. own[u] # 0
        BY <4>2
      <4>4. epoch[u] = own[u] /\ ~Blocks(u, safe[t])
        BY <2>4 DEF ScanPassed
      <4> QED BY <4>1, <4>3, <4>4 DEF Blocks
    <3>2. UNCHANGED <<depth, refs, own, nodeEpoch, safe, pc, todo>>
      BY <2>4 DEF ScanPassed
    <3>3. \A v \in Threads, w \in Threads : Passed(v, w)' => Passed(v, w) \/ (v = t /\ w = u)
      BY <2>4 DEF ScanPassed
    <3> QED BY <3>1, <3>2, <3>3
  <2>5. ASSUME NEW u \in Threads, ScanBlocked(t, u) PROVE ReadersCovered'
    BY <2>5 DEF ScanBlocked, Blocks, CallState
  <2>6. ASSUME NEW u \in Threads, ScanMinimum(t, u) PROVE ReadersCovered'
    BY <2>6 DEF ScanMinimum, Blocks
  <2>7. CASE ScanDone(t)
    <3>1. CASE Return(t)
      BY <2>7, <3>1 DEF ScanDone, Return
    <3>2. CASE pc' = [pc EXCEPT ![t] = "finish"] /\ UNCHANGED <<kind, safe, scan>>
      <4>1. UNCHANGED <<depth, refs, own, nodeEpoch, safe>>
        BY <2>7, <3>2 DEF ScanDone
      <4>2. todo' = [todo EXCEPT ![t] = Collects(kind[t])]
        BY <2>7, <3>2 DEF ScanDone, Return
      <4>3. \A v \in Threads, w \in Threads : Passed(v, w)' => Passed(v, w)
        BY <2>7, <3>2, <4>2 DEF ScanDone
      <4> QED BY <4>1, <4>3
    <3> QED BY <2>7, <3>1, <3>2 DEF ScanDone
  <2>8. CASE CollectSkip(t)
    BY <2>8 DEF CollectSkip, NextClass
  <2>9. CASE CollectDone(t)
    BY <2>9 DEF CollectDone, NextClass
  <2>10. CASE CollectEnd(t)
    BY <2>10 DEF CollectEnd, Return
  <2>11. CASE \/ PublishFull(t)
             \/ AwaitSync(t)
             \/ CollectLock(t)
             \/ CollectMark(t)
             \/ \E o \in Objects : CollectReclaim(t, o)
    BY <2>11 DEF PublishFull, PublishBatch, AwaitSync, CollectLock, CollectMark,
       NextClass, CollectReclaim
  <2> QED BY <1>5, <2>1, <2>2, <2>3, <2>4, <2>5, <2>6, <2>7, <2>8, <2>9, <2>10,
     <2>11 DEF CallStep
<1> QED BY <1>1, <1>2, <1>3, <1>4, <1>5 DEF Next, Step

\* A watermark moves only to an epoch that a finished scan has targeted.
LEMMA WatermarkBehindReadersStep ==
    ASSUME Sequential, TypeOK, EpochOrder, SectionsVisible, Lifecycle,
       CallState, ReadersCovered, WatermarkBehindReaders, [Next]_vars
    PROVE  WatermarkBehindReaders'
<1> USE DEF vars, epochVars, readerVars, nodeVars, callVars, clientVars, Labels,
            Kinds, Classes, TypeOK, Sequential, WatermarkBehindReaders, Holds,
            EpochTypes, ReaderTypes, NodeTypes, CallTypes, ClientTypes
<1>1. CASE UNCHANGED vars
  BY <1>1
<1>2. ASSUME NEW t \in Threads, ReaderStep(t) PROVE WatermarkBehindReaders'
  <2>1. CASE EnterStore(t)
    BY <2>1, ObjectsAssumption DEF EnterStore, StoreEpoch, SectionsVisible
  <2>2. CASE LoadImage(t)
    BY <2>2 DEF LoadImage, Lifecycle
  <2>3. CASE Exit(t)
    BY <2>3 DEF Exit, StoreEpoch
  <2>4. CASE \/ RegisterThread(t)
             \/ EnterLoad(t)
             \/ Flush(t)
             \/ ThreadExit(t)
    BY <2>4 DEF RegisterThread, EnterLoad, Flush, ThreadExit, StoreEpoch
  <2> QED BY <1>2, <2>1, <2>2, <2>3, <2>4 DEF ReaderStep
<1>3. ASSUME NEW t \in Threads, RetireStep(t) PROVE WatermarkBehindReaders'
  <2>1. ASSUME NEW c \in Classes, Retire(t, c) PROVE WatermarkBehindReaders'
    BY <2>1 DEF Retire, QueueNode, EpochOrder, Lifecycle
  <2>2. CASE \/ \E o \in Objects \union {NoObject} : Swap(t, o)
             \/ RetireFails(t)
    BY <2>2 DEF Swap, RetireFails
  <2> QED BY <1>3, <2>1, <2>2 DEF RetireStep
<1>4. ASSUME NEW t \in Threads, SyncCall(t) PROVE WatermarkBehindReaders'
  BY <1>4 DEF SyncCall, SyncContended, PublishBatch, SyncGated, SyncAdvance,
     BeginUntil, TryCollect
<1>5. ASSUME NEW t \in Threads, CallStep(t) PROVE WatermarkBehindReaders'
  <2>1. CASE CollectMark(t)
    BY <2>1 DEF CollectMark, ReadersCovered, Passed, NextClass
  <2>2. CASE \/ PublishFull(t)
             \/ AwaitSync(t)
             \/ UntilContended(t)
             \/ UntilAdvance(t)
             \/ LoadThreads(t)
             \/ \E u \in Threads : ScanPassed(t, u)
             \/ \E u \in Threads : ScanBlocked(t, u)
             \/ \E u \in Threads : ScanMinimum(t, u)
             \/ ScanDone(t)
             \/ CollectLock(t)
             \/ CollectSkip(t)
             \/ \E o \in Objects : CollectReclaim(t, o)
             \/ CollectDone(t)
             \/ CollectEnd(t)
    BY <2>2 DEF PublishFull, PublishBatch, AwaitSync, UntilContended,
       UntilAdvance, LoadThreads, ScanPassed, ScanBlocked, ScanMinimum,
       ScanDone, CollectLock, CollectSkip, CollectReclaim, CollectDone,
       CollectEnd
  <2> QED BY <1>5, <2>1, <2>2 DEF CallStep
<1> QED BY <1>1, <1>2, <1>3, <1>4, <1>5 DEF Next, Step

\* A callback runs only for a node below the watermark just set.
LEMMA ReclaimedCoveredStep ==
    ASSUME TypeOK, Lifecycle, CallState, ReclaimedCovered, [Next]_vars
    PROVE  ReclaimedCovered'
<1> USE DEF vars, epochVars, readerVars, nodeVars, callVars, clientVars, Labels,
            Kinds, Classes, TypeOK, ReclaimedCovered, CallState, Lifecycle, NextClass,
            EpochTypes, NodeTypes, CallTypes, ClientTypes
<1>1. CASE UNCHANGED vars
  BY <1>1
<1>2. ASSUME NEW t \in Threads, ReaderStep(t) PROVE ReclaimedCovered'
  BY <1>2 DEF ReaderStep, RegisterThread, EnterLoad, EnterStore, Flush,
     LoadImage, Exit, ThreadExit
<1>3. ASSUME NEW t \in Threads, RetireStep(t) PROVE ReclaimedCovered'
  <2>1. ASSUME NEW c \in Classes, Retire(t, c) PROVE ReclaimedCovered'
    BY <2>1 DEF Retire, QueueNode
  <2>2. CASE \/ \E o \in Objects \union {NoObject} : Swap(t, o)
             \/ RetireFails(t)
    BY <2>2 DEF Swap, RetireFails
  <2> QED BY <1>3, <2>1, <2>2 DEF RetireStep
<1>4. ASSUME NEW t \in Threads, SyncCall(t) PROVE ReclaimedCovered'
  BY <1>4 DEF SyncCall, SyncContended, PublishBatch, SyncGated, SyncAdvance,
     BeginUntil, TryCollect
<1>5. ASSUME NEW t \in Threads, CallStep(t) PROVE ReclaimedCovered'
  <2>1. CASE CollectMark(t)
    BY <2>1 DEF CollectMark
  <2>2. ASSUME NEW o \in Objects, CollectReclaim(t, o) PROVE ReclaimedCovered'
    BY <2>2 DEF CollectReclaim, Collectable
  <2>3. CASE \/ PublishFull(t)
             \/ AwaitSync(t)
             \/ UntilContended(t)
             \/ UntilAdvance(t)
             \/ LoadThreads(t)
             \/ \E u \in Threads : ScanPassed(t, u)
             \/ \E u \in Threads : ScanBlocked(t, u)
             \/ \E u \in Threads : ScanMinimum(t, u)
             \/ ScanDone(t)
             \/ CollectLock(t)
             \/ CollectSkip(t)
             \/ CollectDone(t)
             \/ CollectEnd(t)
    BY <2>3 DEF PublishFull, PublishBatch, AwaitSync, UntilContended,
       UntilAdvance, LoadThreads, ScanPassed, ScanBlocked, ScanMinimum,
       ScanDone, CollectLock, CollectSkip, CollectDone, CollectEnd
  <2> QED BY <1>5, <2>1, <2>2, <2>3 DEF CallStep
<1> QED BY <1>1, <1>2, <1>3, <1>4, <1>5 DEF Next, Step

-----------------------------------------------------------------------------
\* The conjunction of the invariants above is inductive.
THEOREM Inductive == ASSUME Sequential PROVE Spec => []IInv
<1>1. Init => IInv
  <2> SUFFICES ASSUME Init PROVE IInv
    OBVIOUS
  <2> USE DEF Init, Sequential, Classes
  <2>1. TypeOK
    BY DepthAssumption DEF TypeOK, Labels, Kinds, EpochTypes, ReaderTypes, NodeTypes,
       CallTypes, ClientTypes
  <2>2. EpochOrder /\ SectionsVisible /\ Lifecycle /\ QueuedOnce
    BY DEF EpochOrder, SectionsVisible, Lifecycle, QueuedOnce
  <2>3. CallState /\ OneAdvancement
    BY ThreadsAssumption DEF CallState, OneAdvancement, Owns
  <2>4. ReadersCovered /\ WatermarkBehindReaders /\ ReclaimedCovered
    BY DEF ReadersCovered, WatermarkBehindReaders, ReclaimedCovered
  <2> QED BY <2>1, <2>2, <2>3, <2>4 DEF IInv
<1>2. IInv /\ [Next]_vars => IInv'
  <2> SUFFICES ASSUME IInv, [Next]_vars PROVE IInv'
    OBVIOUS
  <2>1. TypeOK'
    BY TypeStep DEF IInv
  <2>2. EpochOrder' /\ SectionsVisible' /\ Lifecycle' /\ QueuedOnce'
    BY EpochOrderStep, SectionsVisibleStep, LifecycleStep, QueuedOnceStep DEF IInv
  <2>3. CallState' /\ OneAdvancement'
    BY CallStateStep, OneAdvancementStep DEF IInv
  <2>4. ReadersCovered' /\ WatermarkBehindReaders' /\ ReclaimedCovered'
    BY ReadersCoveredStep, WatermarkBehindReadersStep, ReclaimedCoveredStep DEF IInv
  <2> QED BY <2>1, <2>2, <2>3, <2>4 DEF IInv
<1> QED BY <1>1, <1>2, PTL DEF Spec

\* No reader ever holds an object whose reclaim callback has run.
THEOREM ReadersAreSafe == ASSUME Sequential PROVE Spec => []NoUseAfterReclaim
<1>1. IInv => NoUseAfterReclaim
  <2> SUFFICES ASSUME IInv, NEW u \in Threads, NEW o \in Objects, Holds(u, o),
                      o \in reclaimed
               PROVE  FALSE
    BY DEF NoUseAfterReclaim
  <2>1. nodeEpoch[o] # 0 /\ nodeEpoch[o] <= completed[nodeCls[o]]
    BY DEF IInv, Lifecycle, ReclaimedCovered
  <2>2. nodeEpoch[o] > completed[nodeCls[o]]
    BY <2>1 DEF IInv, WatermarkBehindReaders
  <2> QED
    BY <2>1, <2>2 DEF IInv, TypeOK, EpochTypes, NodeTypes
<1> QED BY <1>1, Inductive, PTL

\* When a scan has succeeded, every reader of what it targets has left.
THEOREM GracePeriods == ASSUME Sequential PROVE Spec => []GracePeriodProven
<1>1. IInv => GracePeriodProven
  BY DEF IInv, ReadersCovered, Passed, GracePeriodProven
<1> QED BY <1>1, Inductive, PTL

\* The watermarks never move back.
THEOREM WatermarksMonotone == Spec => WatermarkMonotone
<1>1. TypeOK /\ [Next]_vars => [\A c \in Classes : completed'[c] >= completed[c]]_completed
  <2> SUFFICES ASSUME TypeOK, [Next]_vars, completed' # completed
               PROVE  \A c \in Classes : completed'[c] >= completed[c]
    OBVIOUS
  <2>1. PICK t \in Threads : CollectMark(t)
    <3> USE DEF vars, epochVars
    <3>1. ASSUME NEW t \in Threads, ReaderStep(t) PROVE UNCHANGED completed
      BY <3>1 DEF ReaderStep, RegisterThread, EnterLoad, EnterStore, Flush, LoadImage,
         Exit, ThreadExit
    <3>2. ASSUME NEW t \in Threads, RetireStep(t) PROVE UNCHANGED completed
      BY <3>2 DEF RetireStep, Swap, Retire, RetireFails
    <3>3. ASSUME NEW t \in Threads, SyncCall(t) PROVE UNCHANGED completed
      BY <3>3 DEF SyncCall, SyncContended, SyncGated, SyncAdvance, BeginUntil, TryCollect
    <3>4. ASSUME NEW t \in Threads, CallStep(t) PROVE CollectMark(t) \/ UNCHANGED completed
      BY <3>4 DEF CallStep, PublishFull, AwaitSync, UntilContended, UntilAdvance,
         LoadThreads, ScanPassed, ScanBlocked, ScanMinimum, ScanDone, CollectLock,
         CollectSkip, CollectReclaim, CollectDone, CollectEnd
    <3> QED BY <3>1, <3>2, <3>3, <3>4 DEF Next, Step
  <2> QED
    BY <2>1 DEF CollectMark, NextClass, Classes, TypeOK, EpochTypes, CallTypes
<1> QED BY <1>1, TypeCorrect, PTL DEF Spec, WatermarkMonotone

-----------------------------------------------------------------------------
\* The objects that the readers hold, as SafeReclamation sees them.
Held == {h \in Threads \X Objects : Holds(h[1], h[2])}

\* Loading the published pointer acquires the object.
LEMMA LoadAcquires ==
    ASSUME Sequential, IInv, NEW t \in Threads, LoadImage(t)
    PROVE  Reclamation!Acquire(t)
<1> USE DEF IInv, TypeOK, ReaderTypes, ClientTypes, Sequential
<1>1. depth[t] = 1 /\ refs[t][1] = NoObject /\ image \in Objects
  BY DEF LoadImage
<1>2. \A u \in Threads, o \in Objects :
         Holds(u, o)' <=> Holds(u, o) \/ (u = t /\ o = image)
  BY <1>1, ObjectsAssumption DEF LoadImage, Holds
<1>3. Held' = Held \union {<<t, image>>}
  BY <1>1, <1>2 DEF Held
<1> QED
  BY <1>1, <1>3, ObjectsAssumption DEF Reclamation!Acquire, Held, LoadImage, nodeVars, clientVars

\* Leaving the section lets go of it.
LEMMA ExitReleases ==
    ASSUME Sequential, IInv, NEW t \in Threads, Exit(t)
    PROVE  Reclamation!Release(t)
<1> USE DEF IInv, TypeOK, ReaderTypes, ClientTypes, Sequential
<1>1. depth[t] = 1 /\ depth'[t] = 0
  BY DEF Exit
<1>2. \A u \in Threads, o \in Objects : Holds(u, o)' <=> Holds(u, o) /\ u # t
  BY <1>1 DEF Exit, Holds
<1>3. Held' = {h \in Held : h[1] # t}
  BY <1>2 DEF Held
<1> QED
  BY <1>3 DEF Reclamation!Release, Held, Exit, nodeVars, clientVars

\* A callback runs for an object that is free for the taking.
LEMMA ReclaimFrees ==
    ASSUME IInv, NEW t \in Threads, NEW o \in Objects, CollectReclaim(t, o)
    PROVE  Reclamation!Free(o)
<1> USE DEF IInv
<1>1. o \in retired /\ nodeEpoch[o] # 0 /\ nodeEpoch[o] <= safe[t]
  BY DEF CollectReclaim, Collectable, Lifecycle
<1>2. o \notin fresh /\ o # image /\ o \notin reclaimed
  BY <1>1, ObjectsAssumption DEF Lifecycle, QueuedOnce
<1>3. \A u \in Threads : ~Holds(u, o)
  <2> SUFFICES ASSUME NEW u \in Threads, Holds(u, o) PROVE FALSE
    OBVIOUS
  <2>1. Passed(t, u)
    BY DEF CollectReclaim, CallState, Passed
  <2>2. nodeEpoch[o] > safe[t]
    BY <1>1, <2>1 DEF ReadersCovered
  <2> QED BY <1>1, <2>2 DEF TypeOK, NodeTypes, CallTypes
<1>4. \A u \in Threads, x \in Objects : Holds(u, x)' <=> Holds(u, x)
  BY DEF CollectReclaim, readerVars, Holds
<1>5. UNCHANGED Held
  BY <1>4 DEF Held
<1> QED
  BY <1>2, <1>3, <1>5 DEF Reclamation!Free, Held, CollectReclaim, clientVars

\* The domain implements SafeReclamation: a load of the pointer acquires, an
\* exit() releases, an exchange publishes, a callback frees, and no other step
\* of the domain is visible.
THEOREM Implements == ASSUME Sequential PROVE Spec => ImplementsReclamation
<1>1. Init => Reclamation!Init
  BY DEF Init, Reclamation!Init, Holds
<1>2. IInv /\ [Next]_vars => [Reclamation!Next]_(Reclamation!vars)
  <2> SUFFICES ASSUME IInv, [Next]_vars
               PROVE  Reclamation!Next \/ UNCHANGED Reclamation!vars
    OBVIOUS
  <2> DEFINE Invisible == UNCHANGED <<image, fresh, reclaimed, depth, refs>>
  <2>1. ASSUME Invisible PROVE UNCHANGED Reclamation!vars
    BY <2>1 DEF Reclamation!vars, Holds
  <2>2. CASE UNCHANGED vars
    BY <2>1, <2>2 DEF vars, readerVars, nodeVars, clientVars
  <2>3. ASSUME NEW t \in Threads, ReaderStep(t)
        PROVE  Reclamation!Next \/ UNCHANGED Reclamation!vars
    <3>1. CASE LoadImage(t)
      BY <3>1, LoadAcquires DEF Reclamation!Next
    <3>2. CASE Exit(t)
      BY <3>2, ExitReleases DEF Reclamation!Next
    <3>3. CASE EnterStore(t)
      <4>1. \A u \in Threads, o \in Objects : Holds(u, o)' <=> Holds(u, o)
        BY <3>3, ObjectsAssumption
           DEF EnterStore, Holds, IInv, SectionsVisible, TypeOK, ReaderTypes, Sequential
      <4>2. UNCHANGED <<image, fresh, reclaimed>>
        BY <3>3 DEF EnterStore, nodeVars, clientVars
      <4> QED BY <4>1, <4>2 DEF Reclamation!vars
    <3>4. CASE RegisterThread(t) \/ EnterLoad(t) \/ Flush(t) \/ ThreadExit(t)
      BY <2>1, <3>4 DEF RegisterThread, EnterLoad, Flush, ThreadExit, nodeVars, clientVars
    <3> QED BY <2>3, <3>1, <3>2, <3>3, <3>4 DEF ReaderStep
  <2>4. ASSUME NEW t \in Threads, RetireStep(t)
        PROVE  Reclamation!Next \/ UNCHANGED Reclamation!vars
    <3>1. ASSUME NEW o \in Objects \union {NoObject}, Swap(t, o)
          PROVE  Reclamation!Next
      <4>1. UNCHANGED <<reclaimed, depth, refs>>
        BY <3>1 DEF Swap, readerVars, nodeVars
      <4> QED
        BY <3>1, <4>1 DEF Swap, Reclamation!Next, Reclamation!Exchange, Holds
    <3>2. CASE RetireFails(t) \/ \E c \in Classes : Retire(t, c)
      BY <2>1, <3>2 DEF RetireFails, Retire, QueueNode, readerVars, nodeVars
    <3> QED BY <2>4, <3>1, <3>2 DEF RetireStep
  <2>5. ASSUME NEW t \in Threads, SyncCall(t) PROVE UNCHANGED Reclamation!vars
    BY <2>1, <2>5 DEF SyncCall, SyncContended, SyncGated, SyncAdvance, BeginUntil,
       TryCollect, PublishBatch, readerVars, nodeVars, clientVars
  <2>6. ASSUME NEW t \in Threads, CallStep(t)
        PROVE  Reclamation!Next \/ UNCHANGED Reclamation!vars
    <3>1. ASSUME NEW o \in Objects, CollectReclaim(t, o) PROVE Reclamation!Next
      BY <3>1, ReclaimFrees DEF Reclamation!Next
    <3>2. CASE ~\E o \in Objects : CollectReclaim(t, o)
      BY <2>1, <2>6, <3>2 DEF CallStep, PublishFull, AwaitSync, UntilContended,
         UntilAdvance, LoadThreads, ScanPassed, ScanBlocked, ScanMinimum, ScanDone,
         CollectLock, CollectSkip, CollectMark, CollectDone, CollectEnd, PublishBatch,
         readerVars, nodeVars, clientVars
    <3> QED BY <3>1, <3>2
  <2> QED BY <2>2, <2>3, <2>4, <2>5, <2>6 DEF Next, Step
<1> QED BY <1>1, <1>2, Inductive, PTL DEF Spec, ImplementsReclamation, Reclamation!Spec

-----------------------------------------------------------------------------
\* A step inside the domain, of a reader or of a synchronization.
DomainStep(t) == ReaderStep(t) \/ SyncCall(t) \/ CallStep(t)

-----------------------------------------------------------------------------
(***************************************************************************)
(* What a step of the domain does to the client's objects.                 *)
(***************************************************************************)

LEMMA DomainIsNext ==
    ASSUME NEW t \in Threads, DomainStep(t)
    PROVE  Next
BY DEF DomainStep, Next, Step

\* Nodes keep their epoch and class, lists only lose to the lists behind them,
\* and the watermarks only rise.
LEMMA DomainFrame ==
    ASSUME TypeOK, NEW t \in Threads, DomainStep(t)
    PROVE  /\ UNCHANGED <<nodeEpoch, nodeCls, image, fresh, unlinked>>
           /\ \A o \in retired' : o \in retired \/ \E v \in Threads : o \in batch[v]
           /\ \A v \in Threads : batch'[v] \subseteq batch[v]
           /\ \A v \in Threads \ {t} : pc'[v] = pc[v]
<1> USE DEF epochVars, readerVars, nodeVars, callVars, clientVars, TypeOK, NodeTypes, CallTypes
<1> DEFINE Goal == /\ UNCHANGED <<nodeEpoch, nodeCls, image, fresh, unlinked>>
                   /\ \A o \in retired' : o \in retired \/ \E v \in Threads : o \in batch[v]
                   /\ \A v \in Threads : batch'[v] \subseteq batch[v]
                   /\ \A v \in Threads \ {t} : pc'[v] = pc[v]
<1>1. CASE ReaderStep(t)
  BY <1>1 DEF ReaderStep, RegisterThread, EnterLoad, EnterStore, Flush, LoadImage, Exit,
              ThreadExit
<1>2. CASE SyncCall(t)
  <2>1. ASSUME NEW k \in {"sync", "eager"}, SyncContended(t, k) PROVE Goal
    BY <2>1 DEF SyncContended, PublishBatch
  <2>2. CASE SyncGated(t)
    BY <2>2 DEF SyncGated, PublishBatch
  <2>3. ASSUME NEW k \in {"sync", "eager"}, SyncAdvance(t, k) PROVE Goal
    BY <2>3 DEF SyncAdvance, PublishBatch, Advance
  <2>4. ASSUME NEW k \in {"until", "never"}, BeginUntil(t, k) PROVE Goal
    BY <2>4 DEF BeginUntil
  <2>5. CASE TryCollect(t)
    BY <2>5 DEF TryCollect, PublishBatch
  <2> QED BY <1>2, <2>1, <2>2, <2>3, <2>4, <2>5 DEF SyncCall
<1>3. CASE CallStep(t)
  <2>1. CASE PublishFull(t)
    BY <2>1 DEF PublishFull, PublishBatch
  <2>2. CASE UntilContended(t)
    BY <2>2 DEF UntilContended, PublishBatch, Return
  <2>3. CASE UntilAdvance(t)
    BY <2>3 DEF UntilAdvance, PublishBatch, Advance
  <2>4. ASSUME NEW o \in Objects, CollectReclaim(t, o) PROVE Goal
    BY <2>4 DEF CollectReclaim
  <2>5. ASSUME NEW u \in Threads, ScanPassed(t, u) \/ ScanBlocked(t, u) \/ ScanMinimum(t, u)
        PROVE  Goal
    BY <2>5 DEF ScanPassed, ScanBlocked, ScanMinimum
  <2>6. CASE ScanDone(t)
    BY <2>6 DEF ScanDone, Return
  <2>7. CASE AwaitSync(t) \/ LoadThreads(t) \/ CollectLock(t) \/ CollectSkip(t)
    BY <2>7 DEF AwaitSync, LoadThreads, CollectLock, CollectSkip
  <2>8. CASE CollectMark(t) \/ CollectDone(t) \/ CollectEnd(t)
    BY <2>8 DEF CollectMark, CollectDone, CollectEnd, Return
  <2> QED BY <1>3, <2>1, <2>2, <2>3, <2>4, <2>5, <2>6, <2>7, <2>8 DEF CallStep
<1> QED BY <1>1, <1>2, <1>3 DEF DomainStep

\* Watermarks only rise, and what is newly reclaimed was in the list and is below
\* the watermark of its class.
LEMMA DomainReclaims ==
    ASSUME TypeOK, CallState, NEW t \in Threads, DomainStep(t)
    PROVE  /\ \A c \in Classes : completed'[c] >= completed[c]
           /\ \A o \in reclaimed' \ reclaimed :
                 o \in retired /\ nodeEpoch[o] <= completed'[nodeCls[o]]
<1> USE DEF epochVars, readerVars, nodeVars, callVars, clientVars, TypeOK, NodeTypes, CallTypes,
            EpochTypes
<1> DEFINE Goal == /\ \A c \in Classes : completed'[c] >= completed[c]
                   /\ \A o \in reclaimed' \ reclaimed :
                         o \in retired /\ nodeEpoch[o] <= completed'[nodeCls[o]]
<1>1. CASE UNCHANGED <<completed, reclaimed>>
  BY <1>1
<1>2. CASE CollectMark(t)
  BY <1>2 DEF CollectMark, NextClass, Classes
<1>3. ASSUME NEW o \in Objects, CollectReclaim(t, o) PROVE Goal
  BY <1>3 DEF CollectReclaim, Collectable, CallState, NextClass, Classes
<1>4. CASE ReaderStep(t)
  BY <1>1, <1>4 DEF ReaderStep, RegisterThread, EnterLoad, EnterStore, Flush, LoadImage, Exit,
                    ThreadExit
<1>5. CASE SyncCall(t)
  BY <1>1, <1>5 DEF SyncCall, SyncContended, SyncGated, SyncAdvance, BeginUntil, TryCollect,
                    PublishBatch
<1>6. CASE CallStep(t)
  BY <1>1, <1>2, <1>3, <1>6 DEF CallStep, PublishFull, AwaitSync, UntilContended, UntilAdvance,
     LoadThreads, ScanPassed, ScanBlocked, ScanMinimum, ScanDone, CollectLock, CollectSkip,
     CollectDone, CollectEnd, PublishBatch
<1> QED BY <1>4, <1>5, <1>6 DEF DomainStep

-----------------------------------------------------------------------------
(***************************************************************************)
(* A reader that stays in its section keeps covering what it covers.       *)
(***************************************************************************)

\* Who is inside and with which epoch changes only by the thread's own steps.
LEMMA ReaderKept ==
    ASSUME Sequential, TypeOK, EpochOrder, SectionsVisible, NEW t \in Threads, DomainStep(t),
           NEW u \in Threads, depth[u] = 1, depth'[u] = 1
    PROVE  own'[u] = own[u] /\ u \in threads
<1> USE DEF epochVars, readerVars, nodeVars, callVars, clientVars, TypeOK, ReaderTypes,
            Sequential
<1>0. u \in threads
  BY DEF SectionsVisible
<1>1. CASE ReaderStep(t)
  <2>1. CASE EnterStore(t)
    BY <1>0, <2>1 DEF EnterStore, StoreEpoch
  <2>2. CASE Exit(t)
    BY <1>0, <2>2 DEF Exit, StoreEpoch
  <2>3. CASE ThreadExit(t)
    BY <1>0, <2>3 DEF ThreadExit, StoreEpoch
  <2>4. CASE RegisterThread(t) \/ EnterLoad(t) \/ Flush(t) \/ LoadImage(t)
    BY <1>0, <2>4 DEF RegisterThread, EnterLoad, Flush, LoadImage
  <2> QED BY <1>1, <2>1, <2>2, <2>3, <2>4 DEF ReaderStep
<1>2. CASE SyncCall(t)
  BY <1>0, <1>2 DEF SyncCall, SyncContended, SyncGated, SyncAdvance, BeginUntil, TryCollect
<1>3. CASE CallStep(t)
  BY <1>0, <1>3 DEF CallStep, PublishFull, AwaitSync, UntilContended, UntilAdvance,
     LoadThreads, ScanPassed, ScanBlocked, ScanMinimum, ScanDone, CollectLock, CollectSkip,
     CollectMark, CollectReclaim, CollectDone, CollectEnd
<1> QED BY <1>1, <1>2, <1>3 DEF DomainStep

\* A scan goes past a reader inside its section only when the reader's epoch, and
\* so what it covers, is above the scan's target.
LEMMA PassedKept ==
    ASSUME Sequential, TypeOK, EpochOrder, SectionsVisible, CallState,
           NEW t \in Threads, DomainStep(t),
           NEW u \in Threads, depth[u] = 1, depth'[u] = 1,
           NEW e \in Nat, own[u] <= e, \A v \in Threads : Passed(v, u) => e > safe[v],
           NEW v \in Threads, Passed(v, u)'
    PROVE  e > safe'[v]
<1> USE DEF epochVars, readerVars, nodeVars, callVars, clientVars, TypeOK, CallTypes, EpochTypes,
            ReaderTypes, Passed
<1>0. own'[u] = own[u] /\ u \in threads /\ own[u] \in Nat /\ own[u] # 0 /\ epoch[u] = own[u]
  BY SMTT(30), ReaderKept DEF SectionsVisible, EpochOrder
<1>1. CASE ReaderStep(t)
  <2>1. UNCHANGED <<scan, todo, safe>> /\ \A w \in Threads \ {t} : pc'[w] = pc[w]
    BY <1>1 DEF ReaderStep, RegisterThread, EnterLoad, EnterStore, Flush, LoadImage, Exit,
                ThreadExit
  <2>2. \/ pc'[t] = pc[t]
        \/ pc'[t] \notin {"scan", "finish", "collect", "reclaim"}
    BY <1>1 DEF ReaderStep, RegisterThread, EnterLoad, EnterStore, Flush, LoadImage, Exit,
                ThreadExit
  <2> QED BY <2>1, <2>2
<1>2. CASE SyncCall(t)
  <2>1. ASSUME NEW k \in {"sync", "eager"}, SyncContended(t, k) PROVE e > safe'[v]
    BY <2>1 DEF SyncContended
  <2>2. CASE SyncGated(t)
    BY <2>2 DEF SyncGated
  <2>3. ASSUME NEW k \in {"sync", "eager"}, SyncAdvance(t, k) PROVE e > safe'[v]
    BY <2>3 DEF SyncAdvance, Advance
  <2>4. ASSUME NEW k \in {"until", "never"}, BeginUntil(t, k) PROVE e > safe'[v]
    BY <2>4 DEF BeginUntil
  <2>5. CASE TryCollect(t)
    BY <2>5 DEF TryCollect
  <2> QED BY <1>2, <2>1, <2>2, <2>3, <2>4, <2>5 DEF SyncCall
<1>3. CASE CallStep(t)
  <2>1. CASE PublishFull(t) \/ AwaitSync(t)
    BY <2>1 DEF PublishFull, AwaitSync
  <2>2. CASE UntilContended(t)
    <3>1. CASE UNCHANGED <<pc, callVars>>
      BY <2>2, <3>1
    <3>2. CASE Return(t)
      BY <2>2, <3>2 DEF Return
    <3> QED BY <2>2, <3>1, <3>2 DEF UntilContended
  <2>3. CASE UntilAdvance(t)
    BY <2>3 DEF UntilAdvance, Advance
  <2>4. CASE LoadThreads(t)
    BY <1>0, <2>4 DEF LoadThreads
  <2>5. ASSUME NEW w \in Threads, ScanPassed(t, w) PROVE e > safe'[v]
    <3>1. UNCHANGED <<safe, pc, todo>> /\ pc[t] = "scan"
      BY <2>5 DEF ScanPassed
    <3>2. CASE Passed(v, u)
      BY <3>1, <3>2
    <3>3. CASE ~Passed(v, u)
      <4>1. v = t /\ w = u
        BY <2>5, <3>1, <3>3 DEF ScanPassed
      <4> QED BY <1>0, <2>5, <3>1, <4>1 DEF ScanPassed, Blocks
    <3> QED BY <3>2, <3>3
  <2>6. ASSUME NEW w \in Threads, ScanBlocked(t, w) PROVE e > safe'[v]
    BY <2>6 DEF ScanBlocked, CallState
  <2>7. ASSUME NEW w \in Threads, ScanMinimum(t, w) PROVE e > safe'[v]
    <3>1. /\ UNCHANGED <<pc, todo>> /\ pc[t] = "scan" /\ w \in scan[t]
          /\ scan' = [scan EXCEPT ![t] = scan[t] \ {w}]
          /\ \A x \in Threads \ {t} : safe'[x] = safe[x]
          /\ safe'[t] = IF Blocks(w, safe[t]) THEN epoch[w] - 1 ELSE safe[t]
      BY <2>7 DEF ScanMinimum
    <3>2. safe'[t] \in Nat /\ safe'[t] <= safe[t] /\ safe[v] \in Nat
      <4>1. epoch[w] \in Nat /\ safe[t] \in Nat /\ safe[v] \in Nat
        OBVIOUS
      <4>2. CASE Blocks(w, safe[t])
        <5>1. safe'[t] = epoch[w] - 1
          BY <3>1, <4>2
        <5>2. epoch[w] # 0 /\ epoch[w] <= safe[t]
          BY <4>2 DEF Blocks
        <5>3. epoch[w] - 1 \in Nat /\ epoch[w] - 1 <= safe[t]
          BY ONLY <4>1, <5>2
        <5> QED BY ONLY <4>1, <5>1, <5>3
      <4>3. CASE ~Blocks(w, safe[t])
        BY <3>1, <4>1, <4>3
      <4> QED BY <4>2, <4>3
    <3>3. CASE Passed(v, u)
      <4>1. e > safe[v]
        BY <3>3
      <4>2. CASE v = t
        BY SMTT(30), <3>2, <4>1, <4>2
      <4>3. CASE v # t
        BY <3>1, <4>1, <4>3
      <4> QED BY <4>2, <4>3
    <3>4. CASE ~Passed(v, u)
      <4>1. v = t /\ w = u
        BY <3>1, <3>4
      <4> QED BY <1>0, <3>1, <4>1 DEF Blocks
    <3> QED BY <3>3, <3>4
  <2>8. CASE ScanDone(t)
    <3>1. CASE Return(t)
      BY <2>8, <3>1 DEF ScanDone, Return
    <3>2. CASE pc' = [pc EXCEPT ![t] = "finish"] /\ UNCHANGED <<kind, safe, scan>>
      <4>1. scan[t] = {} /\ pc[t] = "scan" /\ \A w \in Threads \ {t} : todo'[w] = todo[w]
        BY <2>8, <3>2 DEF ScanDone, Return
      <4>2. Passed(v, u)
        BY <3>2, <4>1
      <4> QED BY <3>2, <4>2
    <3> QED BY <2>8, <3>1, <3>2 DEF ScanDone
  <2>9. CASE CollectSkip(t)
    BY <2>9 DEF CollectSkip, NextClass
  <2>10. CASE CollectDone(t)
    BY <2>10 DEF CollectDone, NextClass
  <2>11. CASE CollectEnd(t)
    BY <2>11 DEF CollectEnd, Return
  <2>12. CASE CollectLock(t) \/ CollectMark(t)
    BY <2>12 DEF CollectLock, CollectMark
  <2>13. ASSUME NEW o \in Objects, CollectReclaim(t, o) PROVE e > safe'[v]
    BY <2>13 DEF CollectReclaim
  <2> QED BY <1>3, <2>1, <2>2, <2>3, <2>4, <2>5, <2>6, <2>7, <2>8, <2>9, <2>10, <2>11, <2>12,
             <2>13 DEF CallStep
<1> QED BY <1>1, <1>2, <1>3 DEF DomainStep

LEMMA CoverKept ==
    ASSUME Sequential, TypeOK, EpochOrder, SectionsVisible, CallState,
           NEW t \in Threads, DomainStep(t),
           NEW u \in Threads, depth[u] = 1, depth'[u] = 1,
           NEW e \in Nat, NEW c \in Classes, Covers(u, e, c)
    PROVE  Covers(u, e, c)'
<1>1. own'[u] <= e
  BY ReaderKept DEF Covers
<1>2. \A v \in Threads : Passed(v, u)' => e > safe'[v]
  BY PassedKept DEF Covers
<1>3. e > completed'[c]
  <2>1. CASE UNCHANGED completed
    BY <2>1 DEF Covers
  <2>2. CASE CollectMark(t)
    BY <2>2 DEF CollectMark, Covers, Passed, NextClass, TypeOK, EpochTypes, CallTypes, Classes
  <2>3. completed' # completed => CollectMark(t)
    BY DEF DomainStep, ReaderStep, RegisterThread, EnterLoad, EnterStore, Flush, LoadImage,
       Exit, ThreadExit, SyncCall, SyncContended, SyncGated, SyncAdvance, BeginUntil, TryCollect,
       CallStep, PublishFull, AwaitSync, UntilContended, UntilAdvance, LoadThreads, ScanPassed,
       ScanBlocked, ScanMinimum, ScanDone, CollectLock, CollectSkip, CollectReclaim, CollectDone,
       CollectEnd, epochVars
  <2> QED BY <2>1, <2>2, <2>3
<1> QED BY <1>1, <1>2, <1>3 DEF Covers

-----------------------------------------------------------------------------
(***************************************************************************)
(* The steps of the Object that are steps of the domain, and the others.   *)
(***************************************************************************)

\* The steps of the Object inside a section or a synchronization.
InDomain(t) == SyncEager(t) \/ SyncImage(t) \/ Read(t) \/ DomainCall(t)

LEMMA InDomainStep ==
    ASSUME NEW t \in Threads, InDomain(t)
    PROVE  DomainStep(t) /\ UNCHANGED <<timeout, bounded, token, outcome>>
BY DEF InDomain, DomainStep, SyncEager, SyncImage, Read, DomainCall, SyncCall, objectVars,
       retireVars

\* They go on with the retirement without touching the image.
LEMMA InDomainSteps ==
    ASSUME RetireTypes, NEW t \in Threads, InDomain(t)
    PROVE  /\ \A u \in Threads \ {t} : step'[u] = step[u]
           /\ \/ step'[t] = step[t] /\ (step[t] = "index" => CallStep(t))
              \/ step[t] = "eager" /\ step'[t] = "image"
              \/ step[t] = "sync" /\ step'[t] = "outcome"
           /\ step' \in [Threads -> {"none", "index", "eager", "image", "sync", "outcome"}]
BY DEF InDomain, SyncEager, SyncImage, Read, DomainCall, GotoStep, RetireTypes, objectVars,
       retireVars

\* A step of the Object is one of these.
LEMMA ObjectCases ==
    ASSUME [ObjectNext]_allVars
    PROVE  \/ UNCHANGED allVars
           \/ \E t \in Threads :
                 \/ SetTimeout(t) \/ ForceUnload(t) \/ RetireIndex(t) \/ RetireImage(t)
                 \/ RecordOutcome(t) \/ InDomain(t)
                 \/ \E i \in Images \union {NoObject} : Publish(t, i)
                 \/ \E i \in Images : LockTimeout(t, i)
BY DEF ObjectNext, InDomain

\* Publishing is the domain's exchange.
LEMMA PublishIsNext ==
    ASSUME NEW t \in Threads, NEW i \in Images \union {NoObject}, Publish(t, i)
    PROVE  Next
<1>1. i \in Objects \union {NoObject}
  BY ImagesAssumption
<1> QED BY <1>1 DEF Publish, Next, Step, RetireStep

\* The parts of the domain's own invariant that no client step can disturb.
DomainInv == TypeOK /\ EpochOrder /\ SectionsVisible /\ CallState

LEMMA DomainInvNext == ASSUME Sequential, DomainInv, [Next]_vars PROVE DomainInv'
BY TypeStep, EpochOrderStep, SectionsVisibleStep, CallStateStep DEF DomainInv

\* Queueing a node of a thread that is outside the domain's calls.
LEMMA QueueKeepsDomain ==
    ASSUME Sequential, DomainInv, NEW t \in Threads, pc[t] = "idle",
           NEW o \in Objects, NEW c \in Classes,
           QueueNode(t, o, c) \/ UNCHANGED <<nodeVars, pc>>,
           UNCHANGED <<epochVars, lock, readerVars, callVars, clientVars>>
    PROVE  DomainInv'
<1> USE DEF DomainInv, vars, epochVars, readerVars, nodeVars, callVars, clientVars, QueueNode
<1>1. TypeOK'
  <2>1. NodeTypes' /\ pc' \in [Threads -> Labels]
    BY DEF TypeOK, EpochTypes, NodeTypes, CallTypes, Labels
  <2> QED BY <2>1 DEF TypeOK, EpochTypes, ReaderTypes, CallTypes, ClientTypes
<1>2. EpochOrder'
  BY DEF EpochOrder, TypeOK, EpochTypes, NodeTypes
<1>3. SectionsVisible'
  BY DEF SectionsVisible, TypeOK, CallTypes
<1>4. CallState'
  BY DEF CallState, TypeOK, CallTypes, NextClass
<1> QED BY <1>1, <1>2, <1>3, <1>4

LEMMA DomainInvStep ==
    ASSUME Sequential, DomainInv, ImageLifecycle, RetireProgress, [ObjectNext]_allVars
    PROVE  DomainInv'
<1>1. CASE UNCHANGED vars
  BY <1>1, DomainInvNext
<1>2. ASSUME NEW t \in Threads, InDomain(t) PROVE DomainInv'
  BY <1>2, InDomainStep, DomainIsNext, DomainInvNext
<1>3. ASSUME NEW t \in Threads, NEW i \in Images \union {NoObject}, Publish(t, i)
      PROVE  DomainInv'
  BY <1>3, PublishIsNext, DomainInvNext
<1>4. ASSUME NEW t \in Threads, RetireIndex(t) PROVE DomainInv'
  <2>1. IndexOf[unlinked[t]] \in Objects /\ pc[t] = "idle"
    BY <1>4, ImagesAssumption DEF RetireIndex, ImageLifecycle, RetireProgress
  <2> QED BY <1>4, <2>1, QueueKeepsDomain DEF RetireIndex, Classes
<1>5. ASSUME NEW t \in Threads, RetireImage(t) PROVE DomainInv'
  <2>1. unlinked[t] \in Objects
    BY <1>5, ImagesAssumption DEF RetireImage, ImageLifecycle, RetireProgress
  <2>2. QueueNode(t, unlinked[t], "batched") \/ UNCHANGED <<nodeVars, pc>>
    BY <1>5 DEF RetireImage
  <2> QED BY <1>5, <2>1, <2>2, QueueKeepsDomain DEF RetireImage, Classes
<1>6. ASSUME NEW t \in Threads,
             ForceUnload(t) \/ RecordOutcome(t) \/ \E i \in Images : LockTimeout(t, i)
      PROVE  DomainInv'
  <2> USE DEF DomainInv, epochVars, readerVars, nodeVars, callVars, TypeOK
  <2>1. UNCHANGED <<epochVars, lock, readerVars, nodeEpoch, pc, callVars>>
    BY <1>6 DEF ForceUnload, RecordOutcome, LockTimeout
  <2>2. NodeTypes' /\ ClientTypes'
    BY <1>6, ImagesAssumption DEF ForceUnload, RecordOutcome, LockTimeout, NodeTypes,
       ClientTypes, ImageLifecycle
  <2>3. TypeOK'
    BY <2>1, <2>2 DEF EpochTypes, ReaderTypes, CallTypes
  <2>4. EpochOrder' /\ SectionsVisible' /\ CallState'
    BY <2>1 DEF EpochOrder, SectionsVisible, CallState, NextClass
  <2> QED BY <2>3, <2>4
<1> QED
  BY <1>1, <1>2, <1>3, <1>4, <1>5, <1>6, ObjectCases DEF SetTimeout, allVars

LEMMA RetireTypesStep ==
    ASSUME DomainInv, RetireTypes, [ObjectNext]_allVars
    PROVE  RetireTypes'
<1> USE DEF RetireTypes
<1>1. CASE UNCHANGED allVars
  BY <1>1 DEF allVars, objectVars, retireVars
<1>2. ASSUME NEW t \in Threads, InDomain(t) PROVE RetireTypes'
  BY <1>2, InDomainStep, InDomainSteps
<1>3. ASSUME NEW t \in Threads, NEW i \in Images \union {NoObject}, Publish(t, i)
      PROVE  RetireTypes'
  BY <1>3 DEF Publish, GotoStep
<1>4. ASSUME NEW t \in Threads, RetireIndex(t) PROVE RetireTypes'
  BY <1>4 DEF RetireIndex, GotoStep
<1>5. ASSUME NEW t \in Threads, RetireImage(t) PROVE RetireTypes'
  <2>1. token' \in [Threads -> Nat]
    BY <1>5 DEF RetireImage, DomainInv, TypeOK, EpochTypes
  <2> QED BY <1>5, <2>1 DEF RetireImage, GotoStep
<1>6. ASSUME NEW t \in Threads, RecordOutcome(t) PROVE RetireTypes'
  BY <1>6 DEF RecordOutcome, Outcome, GotoStep, DomainInv, TypeOK, ClientTypes
<1>7. ASSUME NEW t \in Threads, SetTimeout(t) PROVE RetireTypes'
  BY <1>7, TimeoutsAssumption DEF SetTimeout, retireVars
<1>8. ASSUME NEW t \in Threads, ForceUnload(t) \/ \E i \in Images : LockTimeout(t, i)
      PROVE  RetireTypes'
  BY <1>8 DEF ForceUnload, LockTimeout, objectVars, retireVars
<1> QED BY <1>1, <1>2, <1>3, <1>4, <1>5, <1>6, <1>7, <1>8, ObjectCases

-----------------------------------------------------------------------------
(***************************************************************************)
(* Where an image is, and how far its retirement has come.                 *)
(***************************************************************************)

\* The domain frees nothing that was not queued.
LEMMA UnqueuedKept ==
    ASSUME DomainInv, ImageLifecycle, NEW t \in Threads, DomainStep(t), NEW o,
           nodeEpoch[o] = 0, o \notin reclaimed
    PROVE  nodeEpoch'[o] = 0 /\ o \notin reclaimed'
<1>1. UNCHANGED nodeEpoch /\ (o \in reclaimed' => o \in retired)
  BY DomainFrame, DomainReclaims DEF DomainInv
<1> QED BY <1>1 DEF ImageLifecycle

LEMMA UntouchedKept ==
    ASSUME DomainInv, ImageLifecycle, NEW t \in Threads, DomainStep(t), NEW i, Untouched(i)
    PROVE  Untouched(i)'
BY UnqueuedKept DEF Untouched

LEMMA CallStepBusy ==
    ASSUME NEW t \in Threads, CallStep(t)
    PROVE  pc[t] # "idle"
BY DEF CallStep, PublishFull, AwaitSync, UntilContended, UntilAdvance, LoadThreads, ScanPassed,
       ScanBlocked, ScanMinimum, ScanDone, CollectLock, CollectSkip, CollectMark,
       CollectReclaim, CollectDone, CollectEnd

\* What queueing a node does to the nodes.
LEMMA QueueEffect ==
    ASSUME TypeOK, NEW t \in Threads, NEW o \in Objects, NEW c \in Classes, QueueNode(t, o, c)
    PROVE  /\ nodeEpoch'[o] = global /\ global # 0 /\ nodeCls'[o] = c
           /\ \A p \in Objects \ {o} : nodeEpoch'[p] = nodeEpoch[p] /\ nodeCls'[p] = nodeCls[p]
           /\ batch'[t] = batch[t] \union {o}
           /\ \A u \in Threads \ {t} : batch'[u] = batch[u] /\ pc'[u] = pc[u]
           /\ UNCHANGED <<retired, reclaimed>>
BY DEF QueueNode, TypeOK, NodeTypes, CallTypes, EpochTypes

LEMMA ImageLifecycleStep ==
    ASSUME DomainInv, RetireTypes, ImageLifecycle, RetireProgress, [ObjectNext]_allVars
    PROVE  ImageLifecycle'
<1>0. TypeOK
  BY DEF DomainInv
<1>1. CASE UNCHANGED vars
  BY <1>1 DEF ImageLifecycle, Untouched, vars, nodeVars, clientVars
<1>2. ASSUME NEW t \in Threads, InDomain(t) PROVE ImageLifecycle'
  <2>1. DomainStep(t)
    BY <1>2, InDomainStep
  <2>2. /\ UNCHANGED <<nodeEpoch, image, fresh, unlinked>>
        /\ \A o \in retired' : o \in retired \/ \E v \in Threads : o \in batch[v]
        /\ \A v \in Threads : batch'[v] \subseteq batch[v]
    BY <1>0, <2>1, DomainFrame
  <2>3. \A i : Untouched(i) => Untouched(i)'
    BY <2>1, UntouchedKept
  <2> QED BY <2>2, <2>3 DEF ImageLifecycle
<1>3. ASSUME NEW t \in Threads, NEW i \in Images \union {NoObject}, Publish(t, i)
      PROVE  ImageLifecycle'
  <2>1. /\ unlinked[t] = NoObject /\ i \in fresh \union {NoObject}
        /\ unlinked' = [unlinked EXCEPT ![t] = image] /\ image' = i /\ fresh' = fresh \ {i}
        /\ UNCHANGED nodeVars
    BY <1>3 DEF Publish, Swap
  <2>2. unlinked'[t] = image /\ \A u \in Threads \ {t} : unlinked'[u] = unlinked[u]
    BY <1>0, <2>1 DEF TypeOK, ClientTypes
  <2>3. \A j : Untouched(j)' <=> Untouched(j)
    BY <2>1 DEF Untouched, nodeVars
  <2> QED BY <2>1, <2>2, <2>3 DEF ImageLifecycle, nodeVars
<1>4. ASSUME NEW t \in Threads, NEW i \in Images, LockTimeout(t, i) PROVE ImageLifecycle'
  BY <1>4 DEF LockTimeout, ImageLifecycle, Untouched, nodeVars
<1>5. ASSUME NEW t \in Threads, ForceUnload(t) PROVE ImageLifecycle'
  <2>1. /\ image \in Images \ fresh /\ image' = NoObject
        /\ reclaimed' = reclaimed \union {image, IndexOf[image]}
        /\ UNCHANGED <<fresh, unlinked, nodeEpoch, retired, batch>>
    BY <1>5 DEF ForceUnload, ImageLifecycle
  <2>2. ASSUME NEW i \in Images \intersect fresh PROVE Untouched(i)'
    BY <2>1, <2>2, ImagesAssumption DEF ImageLifecycle, Untouched
  <2>3. \A u \in Threads : unlinked[u] # NoObject
                             => unlinked[u] \in Images \ fresh /\ unlinked[u] # NoObject
    BY DEF ImageLifecycle
  <2> QED BY <2>1, <2>2, <2>3 DEF ImageLifecycle
<1>6. ASSUME NEW t \in Threads, RetireIndex(t) PROVE ImageLifecycle'
  <2> DEFINE x == IndexOf[unlinked[t]]
  <2>1. unlinked[t] \in Images \ fresh /\ unlinked[t] # image /\ x \in Objects
    BY <1>6, ImagesAssumption DEF RetireIndex, ImageLifecycle, RetireProgress
  <2>2. UNCHANGED <<image, fresh, unlinked>>
    BY <1>6 DEF RetireIndex, clientVars
  <2>3. CASE QueueNode(t, x, "eager")
    <3>1. \A i \in Images : i # unlinked[t] => (Untouched(i) => Untouched(i)')
      BY <1>0, <2>1, <2>3, QueueEffect, ImagesAssumption DEF Untouched, Classes
    <3>2. /\ \A o \in retired' : nodeEpoch'[o] # 0
          /\ \A u \in Threads : \A o \in batch'[u] : nodeEpoch'[o] # 0
      BY <1>0, <2>1, <2>3, QueueEffect DEF ImageLifecycle, Classes, TypeOK, NodeTypes
    <3> QED BY <2>1, <2>2, <3>1, <3>2 DEF ImageLifecycle
  <2>4. CASE UNCHANGED nodeVars
    BY <2>2, <2>4 DEF ImageLifecycle, Untouched, nodeVars
  <2> QED BY <1>6, <2>3, <2>4 DEF RetireIndex
<1>7. ASSUME NEW t \in Threads, RetireImage(t) PROVE ImageLifecycle'
  <2>1. unlinked[t] \in Images \ fresh /\ unlinked[t] # image /\ unlinked[t] \in Objects
    BY <1>7, ImagesAssumption DEF RetireImage, ImageLifecycle, RetireProgress
  <2>2. UNCHANGED <<image, fresh, unlinked>>
    BY <1>7 DEF RetireImage, clientVars
  <2>3. CASE QueueNode(t, unlinked[t], "batched")
    <3>1. \A i \in Images : i # unlinked[t] => (Untouched(i) => Untouched(i)')
      BY <1>0, <2>1, <2>3, QueueEffect, ImagesAssumption DEF Untouched, Classes
    <3>2. /\ \A o \in retired' : nodeEpoch'[o] # 0
          /\ \A u \in Threads : \A o \in batch'[u] : nodeEpoch'[o] # 0
      BY <1>0, <2>1, <2>3, QueueEffect DEF ImageLifecycle, Classes, TypeOK, NodeTypes
    <3> QED BY <2>1, <2>2, <3>1, <3>2 DEF ImageLifecycle
  <2>4. CASE UNCHANGED nodeVars
    BY <2>2, <2>4 DEF ImageLifecycle, Untouched, nodeVars
  <2> QED BY <1>7, <2>3, <2>4 DEF RetireImage
<1>8. ASSUME NEW t \in Threads, RecordOutcome(t) PROVE ImageLifecycle'
  <2>1. /\ unlinked' = [unlinked EXCEPT ![t] = NoObject]
        /\ UNCHANGED <<image, fresh, nodeVars>>
    BY <1>8 DEF RecordOutcome
  <2>2. unlinked'[t] = NoObject /\ \A u \in Threads \ {t} : unlinked'[u] = unlinked[u]
    BY <1>0, <2>1 DEF TypeOK, ClientTypes
  <2>3. \A j : Untouched(j)' <=> Untouched(j)
    BY <2>1 DEF Untouched, nodeVars
  <2> QED BY <2>1, <2>2, <2>3 DEF ImageLifecycle, nodeVars
<1> QED BY <1>1, <1>2, <1>3, <1>4, <1>5, <1>6, <1>7, <1>8, ObjectCases DEF SetTimeout, allVars

\* What RetireProgress says of one thread.
Progressed(t) ==
    /\ step[t] = "none" <=> unlinked[t] = NoObject
    /\ step[t] = "index" => pc[t] = "idle" /\ Untouched(unlinked[t])
    /\ step[t] \in {"eager", "image"} =>
        nodeEpoch[unlinked[t]] = 0 /\ unlinked[t] \notin reclaimed
    /\ token[t] # 0 =>
        /\ step[t] \in {"sync", "outcome"}
        /\ token[t] = nodeEpoch[unlinked[t]] /\ nodeCls[unlinked[t]] = "batched"

\* Queueing part of the image of t leaves the images of the others alone.
LEMMA QueueKeepsOthers ==
    ASSUME TypeOK, ImageLifecycle, NEW t \in Threads, unlinked[t] \in Images,
           NEW o \in {unlinked[t], IndexOf[unlinked[t]]}, NEW c \in Classes,
           QueueNode(t, o, c), UNCHANGED unlinked,
           NEW u \in Threads \ {t}, step'[u] = step[u], token'[u] = token[u],
           Progressed(u), RetireTypes
    PROVE  Progressed(u)'
<1>1. o \in Objects
  BY ImagesAssumption
<1>2. CASE unlinked[u] = NoObject
  BY <1>2 DEF Progressed, RetireTypes
<1>3. CASE unlinked[u] # NoObject
  <2>1. unlinked[u] \in Images /\ unlinked[u] # unlinked[t]
    BY <1>3 DEF ImageLifecycle
  <2>2. \A p \in {unlinked[u], IndexOf[unlinked[u]]} : p \in Objects \ {o}
    BY <2>1, ImagesAssumption
  <2>3. \A p \in {unlinked[u], IndexOf[unlinked[u]]} :
            nodeEpoch'[p] = nodeEpoch[p] /\ nodeCls'[p] = nodeCls[p]
    BY <1>1, <2>2, QueueEffect
  <2>4. pc'[u] = pc[u] /\ UNCHANGED reclaimed
    BY <1>1, QueueEffect
  <2> QED BY <2>3, <2>4 DEF Progressed, Untouched
<1> QED BY <1>2, <1>3

LEMMA RetireProgressStep ==
    ASSUME DomainInv, RetireTypes, ImageLifecycle, RetireProgress, [ObjectNext]_allVars
    PROVE  RetireProgress'
<1> SUFFICES ASSUME NEW u \in Threads PROVE Progressed(u)'
  BY DEF RetireProgress, Progressed
<1>0. TypeOK /\ Progressed(u)
  BY DEF DomainInv, RetireProgress, Progressed
<1>1. CASE UNCHANGED <<vars, retireVars>>
  BY <1>0, <1>1 DEF Progressed, Untouched, vars, retireVars, nodeVars, clientVars
<1>2. ASSUME NEW t \in Threads, InDomain(t) PROVE Progressed(u)'
  <2>1. DomainStep(t) /\ UNCHANGED token
    BY <1>2, InDomainStep
  <2>2. UNCHANGED <<nodeEpoch, nodeCls, unlinked>> /\ \A v \in Threads \ {t} : pc'[v] = pc[v]
    BY <1>0, <2>1, DomainFrame
  <2>3. Untouched(unlinked[u]) => Untouched(unlinked[u])'
    BY <2>1, <2>2, UntouchedKept DEF Untouched
  <2>4. nodeEpoch[unlinked[u]] = 0 /\ unlinked[u] \notin reclaimed => unlinked[u] \notin reclaimed'
    BY <2>1, UnqueuedKept
  <2>5. CASE u # t
    <3>1. step'[u] = step[u] /\ pc'[u] = pc[u]
      BY <1>2, <2>2, <2>5, InDomainSteps
    <3> QED BY <1>0, <2>1, <2>2, <2>3, <2>4, <3>1 DEF Progressed
  <2>6. CASE u = t
    <3>1. \/ step'[u] = step[u] /\ step[u] # "index"
          \/ step[u] = "eager" /\ step'[u] = "image"
          \/ step[u] = "sync" /\ step'[u] = "outcome"
      BY <1>0, <1>2, <2>6, InDomainSteps, CallStepBusy DEF Progressed
    <3> QED BY <1>0, <2>1, <2>2, <2>4, <3>1 DEF Progressed
  <2> QED BY <2>5, <2>6
<1>3. ASSUME NEW t \in Threads, NEW i \in Images \union {NoObject}, Publish(t, i)
      PROVE  Progressed(u)'
  <2>1. /\ pc[t] = "idle" /\ step[t] = "none"
        /\ unlinked' = [unlinked EXCEPT ![t] = image]
        /\ step' = [step EXCEPT ![t] = IF image = NoObject THEN "none" ELSE "index"]
        /\ UNCHANGED <<nodeVars, pc, token>>
    BY <1>3 DEF Publish, Swap, Free, GotoStep
  <2>2. CASE u # t
    BY <1>0, <2>1, <2>2 DEF Progressed, Untouched, nodeVars
  <2>3. CASE u = t
    <3>1. /\ unlinked'[t] = image
          /\ step'[t] = IF image = NoObject THEN "none" ELSE "index"
      BY <1>0, <2>1 DEF TypeOK, ClientTypes, RetireTypes
    <3>2. image # NoObject => Untouched(unlinked[t])'
      BY <2>1, <3>1 DEF ImageLifecycle, Untouched, nodeVars
    <3>3. token[t] = 0
      BY <1>0, <2>1, <2>3 DEF Progressed
    <3> QED BY <2>1, <2>3, <3>1, <3>2, <3>3 DEF Progressed
  <2> QED BY <2>2, <2>3
<1>4. ASSUME NEW t \in Threads, NEW i \in Images, LockTimeout(t, i) PROVE Progressed(u)'
  BY <1>0, <1>4 DEF LockTimeout, Progressed, Untouched, nodeVars, objectVars, retireVars
<1>5. ASSUME NEW t \in Threads, ForceUnload(t) PROVE Progressed(u)'
  <2>1. /\ image \in Images /\ reclaimed' = reclaimed \union {image, IndexOf[image]}
        /\ UNCHANGED <<unlinked, nodeEpoch, nodeCls, pc, step, token>>
    BY <1>5 DEF ForceUnload, ImageLifecycle, objectVars, retireVars
  <2>2. unlinked[u] # NoObject => unlinked[u] \in Images /\ unlinked[u] # image
    BY DEF ImageLifecycle
  <2>3. unlinked[u] # NoObject =>
            \A o \in {unlinked[u], IndexOf[unlinked[u]]} : o \in reclaimed' => o \in reclaimed
    BY <2>1, <2>2, ImagesAssumption
  <2> QED BY <1>0, <2>1, <2>3 DEF Progressed, Untouched
<1>6. ASSUME NEW t \in Threads, RetireIndex(t) PROVE Progressed(u)'
  <2> DEFINE x == IndexOf[unlinked[t]]
  <2>1. /\ step[t] = "index" /\ UNCHANGED <<unlinked, token>>
        /\ step' = [step EXCEPT ![t] = IF timeout THEN "image" ELSE "eager"]
    BY <1>6 DEF RetireIndex, GotoStep, clientVars
  <2>2. unlinked[t] \in Images /\ Untouched(unlinked[t]) /\ token[t] = 0 /\ unlinked[t] # NoObject
    BY <2>1 DEF ImageLifecycle, RetireProgress
  <2>3. x \in Objects /\ x # unlinked[t]
    BY <2>2, ImagesAssumption
  <2>4. CASE u # t
    <3>1. step'[u] = step[u]
      BY <2>1, <2>4 DEF RetireTypes
    <3>2. CASE QueueNode(t, x, "eager")
      BY <1>0, <2>1, <2>2, <2>4, <3>1, <3>2, QueueKeepsOthers DEF Classes
    <3>3. CASE UNCHANGED <<nodeVars, pc>>
      BY <1>0, <2>1, <3>1, <3>3 DEF Progressed, Untouched, nodeVars
    <3> QED BY <1>6, <3>2, <3>3 DEF RetireIndex
  <2>5. CASE u = t
    <3>1. step'[t] \in {"image", "eager"}
      BY <2>1 DEF RetireTypes
    <3>2. nodeEpoch'[unlinked[t]] = 0 /\ unlinked[t] \notin reclaimed'
      <4>1. CASE QueueNode(t, x, "eager")
        BY <1>0, <2>2, <2>3, <4>1, QueueEffect, ImagesAssumption DEF Untouched, Classes
      <4>2. CASE UNCHANGED nodeVars
        BY <2>2, <4>2 DEF Untouched, nodeVars
      <4> QED BY <1>6, <4>1, <4>2 DEF RetireIndex
    <3> QED BY <2>1, <2>2, <2>5, <3>1, <3>2 DEF Progressed
  <2> QED BY <2>4, <2>5
<1>7. ASSUME NEW t \in Threads, RetireImage(t) PROVE Progressed(u)'
  <2>1. /\ step[t] = "image" /\ UNCHANGED unlinked
        /\ step' = [step EXCEPT ![t] = "sync"]
    BY <1>7 DEF RetireImage, GotoStep, clientVars
  <2>2. unlinked[t] \in Images /\ token[t] = 0 /\ unlinked[t] # NoObject
    BY <2>1 DEF ImageLifecycle, RetireProgress
  <2>3. unlinked[t] \in Objects
    BY <2>2, ImagesAssumption
  <2>4. CASE u # t
    <3>1. step'[u] = step[u] /\ token'[u] = token[u]
      BY <1>7, <2>1, <2>4 DEF RetireImage, RetireTypes
    <3>2. CASE QueueNode(t, unlinked[t], "batched")
      BY <1>0, <2>1, <2>2, <2>4, <3>1, <3>2, QueueKeepsOthers DEF Classes
    <3>3. CASE UNCHANGED <<nodeVars, pc>>
      BY <1>0, <2>1, <3>1, <3>3 DEF Progressed, Untouched, nodeVars
    <3> QED BY <1>7, <3>2, <3>3 DEF RetireImage
  <2>5. CASE u = t
    <3>1. step'[t] = "sync"
      BY <2>1 DEF RetireTypes
    <3>2. \/ token'[t] = 0
          \/ token'[t] = nodeEpoch'[unlinked[t]] /\ nodeCls'[unlinked[t]] = "batched"
      <4>1. CASE QueueNode(t, unlinked[t], "batched") /\ token' = [token EXCEPT ![t] = global]
        BY <1>0, <2>3, <4>1, QueueEffect DEF RetireTypes, Classes
      <4>2. CASE UNCHANGED token
        BY <2>2, <4>2
      <4> QED BY <1>7, <4>1, <4>2 DEF RetireImage
    <3> QED BY <2>1, <2>2, <2>5, <3>1, <3>2 DEF Progressed
  <2> QED BY <2>4, <2>5
<1>8. ASSUME NEW t \in Threads, RecordOutcome(t) PROVE Progressed(u)'
  <2>1. /\ unlinked' = [unlinked EXCEPT ![t] = NoObject]
        /\ token' = [token EXCEPT ![t] = 0]
        /\ step' = [step EXCEPT ![t] = "none"]
        /\ UNCHANGED <<nodeVars, pc>>
    BY <1>8 DEF RecordOutcome, GotoStep
  <2>2. CASE u # t
    BY <1>0, <2>1, <2>2 DEF Progressed, Untouched, nodeVars
  <2>3. CASE u = t
    BY <1>0, <2>1, <2>3 DEF Progressed, TypeOK, ClientTypes, RetireTypes
  <2> QED BY <2>2, <2>3
<1> QED
  BY <1>1, <1>2, <1>3, <1>4, <1>5, <1>6, <1>7, <1>8, ObjectCases
  DEF SetTimeout, allVars, objectVars

-----------------------------------------------------------------------------
(***************************************************************************)
(* Watermarks, readers and the outcome.                                    *)
(***************************************************************************)

\* A node that is queued by retire_image() was not queued before, and is free of
\* every watermark.
LEMMA QueuedNode ==
    ASSUME DomainInv, RetireTypes, ImageLifecycle, RetireProgress, NEW t \in Threads,
           RetireIndex(t) \/ RetireImage(t)
    PROVE  \/ UNCHANGED <<nodeEpoch, nodeCls>>
           \/ \E o \in Objects, c \in Classes :
                 /\ nodeEpoch[o] = 0 /\ o \notin reclaimed
                 /\ nodeEpoch'[o] = global /\ global # 0 /\ nodeCls'[o] = c
                 /\ \A p \in Objects \ {o} :
                       nodeEpoch'[p] = nodeEpoch[p] /\ nodeCls'[p] = nodeCls[p]
<1>0. TypeOK /\ \A c \in {"eager", "batched"} : c \in Classes
  BY DEF DomainInv, Classes
<1>1. CASE RetireIndex(t)
  <2> DEFINE x == IndexOf[unlinked[t]]
  <2>1. /\ x \in Objects /\ nodeEpoch[x] = 0 /\ x \notin reclaimed
    BY <1>1, ImagesAssumption DEF RetireIndex, ImageLifecycle, RetireProgress, Untouched
  <2>2. CASE QueueNode(t, x, "eager")
    BY <1>0, <2>1, <2>2, QueueEffect
  <2> QED BY <1>1, <2>2 DEF RetireIndex, nodeVars
<1>2. CASE RetireImage(t)
  <2>1. /\ unlinked[t] \in Objects /\ nodeEpoch[unlinked[t]] = 0 /\ unlinked[t] \notin reclaimed
    BY <1>2, ImagesAssumption DEF RetireImage, ImageLifecycle, RetireProgress
  <2>2. CASE QueueNode(t, unlinked[t], "batched")
    BY <1>0, <2>1, <2>2, QueueEffect
  <2> QED BY <1>2, <2>2 DEF RetireImage, nodeVars
<1> QED BY <1>1, <1>2

\* ... and nothing else of the domain changes with it.
LEMMA QueueFrame ==
    ASSUME DomainInv, ImageLifecycle, RetireProgress, NEW t \in Threads,
           RetireIndex(t) \/ RetireImage(t)
    PROVE  /\ UNCHANGED <<reclaimed, completed, own, depth, refs, safe, scan, todo, outcome>>
           /\ \A v \in Threads \ {t} : pc'[v] = pc[v]
           /\ pc[t] = "idle" /\ pc'[t] \in {"idle", "publish"}
<1>1. pc[t] = "idle"
  BY DEF RetireIndex, RetireImage, RetireProgress
<1> QED
  BY <1>1 DEF RetireIndex, RetireImage, QueueNode, epochVars, readerVars, callVars, nodeVars,
     DomainInv, TypeOK, CallTypes

LEMMA WatermarkStep ==
    ASSUME DomainInv, RetireTypes, ImageLifecycle, RetireProgress, ReclaimedCovered,
           [ObjectNext]_allVars
    PROVE  ReclaimedCovered'
<1>0. TypeOK
  BY DEF DomainInv
<1>1. CASE UNCHANGED <<nodeEpoch, nodeCls, reclaimed, completed>>
  BY <1>1 DEF ReclaimedCovered
<1>2. ASSUME NEW t \in Threads, InDomain(t) PROVE ReclaimedCovered'
  <2>1. DomainStep(t)
    BY <1>2, InDomainStep
  <2>2. /\ UNCHANGED <<nodeEpoch, nodeCls>>
        /\ \A c \in Classes : completed'[c] >= completed[c]
        /\ \A o \in reclaimed' \ reclaimed : nodeEpoch[o] <= completed'[nodeCls[o]]
    BY <1>0, <2>1, DomainFrame, DomainReclaims DEF DomainInv
  <2>3. completed' \in [Classes -> Nat] /\ reclaimed' \subseteq Objects
    BY <2>1, DomainIsNext, TypeStep, <1>0 DEF TypeOK, EpochTypes, NodeTypes
  <2> QED BY <1>0, <2>2, <2>3 DEF ReclaimedCovered, TypeOK, EpochTypes, NodeTypes
<1>3. ASSUME NEW t \in Threads, RetireIndex(t) \/ RetireImage(t) PROVE ReclaimedCovered'
  <2>1. UNCHANGED <<reclaimed, completed>>
    BY <1>3, QueueFrame
  <2> QED BY <1>0, <1>3, <2>1, QueuedNode DEF ReclaimedCovered, TypeOK, NodeTypes
<1>4. ASSUME NEW t \in Threads, ForceUnload(t) PROVE ReclaimedCovered'
  <2>1. /\ image \in Images /\ Untouched(image)
        /\ reclaimed' = reclaimed \union {image, IndexOf[image]}
        /\ UNCHANGED <<nodeEpoch, nodeCls, completed>>
    BY <1>4 DEF ForceUnload, ImageLifecycle, epochVars
  <2>2. \A o \in {image, IndexOf[image]} : o \in Objects /\ nodeEpoch[o] = 0
    BY <2>1, ImagesAssumption DEF Untouched
  <2> QED BY <1>0, <2>1, <2>2 DEF ReclaimedCovered, TypeOK, NodeTypes, EpochTypes
<1>5. ASSUME NEW t \in Threads,
             \/ SetTimeout(t) \/ RecordOutcome(t)
             \/ \E i \in Images \union {NoObject} : Publish(t, i)
             \/ \E i \in Images : LockTimeout(t, i)
      PROVE  UNCHANGED <<nodeEpoch, nodeCls, reclaimed, completed>>
  BY <1>5 DEF SetTimeout, RecordOutcome, Publish, Swap, LockTimeout, vars, nodeVars, epochVars
<1> QED
  BY <1>1, <1>2, <1>3, <1>4, <1>5, ObjectCases DEF allVars, vars, nodeVars, epochVars

\* Sections that do not nest hold one object.
LEMMA HoldsOne ==
    ASSUME Sequential, TypeOK, NEW u \in Threads, NEW i
    PROVE  Holds(u, i) <=> depth[u] = 1 /\ refs[u][1] = i
<1>1. depth[u] \in 0..1
  BY DEF TypeOK, ReaderTypes, Sequential
<1> QED BY <1>1 DEF Holds

\* A reader gets hold of nothing but the published image.
LEMMA HoldsNew ==
    ASSUME Sequential, DomainInv, DomainInv', NEW t \in Threads, DomainStep(t),
           NEW u \in Threads, NEW i \in Objects, Holds(u, i)', ~Holds(u, i)
    PROVE  i = image
<1> USE DEF DomainInv, readerVars
<1>1. depth'[u] = 1 /\ refs'[u][1] = i
  <2>1. depth'[u] \in 0..1
    BY DEF TypeOK, ReaderTypes, Sequential
  <2> QED BY <2>1 DEF Holds
<1>2. ~(depth[u] = 1 /\ refs[u][1] = i)
  BY HoldsOne
<1>3. CASE UNCHANGED <<depth, refs>>
  BY <1>1, <1>2, <1>3
<1>4. CASE LoadImage(t)
  BY <1>1, <1>2, <1>4 DEF LoadImage, TypeOK, ReaderTypes, Sequential
<1>5. CASE EnterStore(t)
  BY <1>1, <1>2, <1>5, ObjectsAssumption DEF EnterStore, TypeOK, ReaderTypes, Sequential,
     SectionsVisible
<1>6. CASE Exit(t)
  BY <1>1, <1>2, <1>6, ObjectsAssumption DEF Exit, TypeOK, ReaderTypes, Sequential
<1>7. CASE RegisterThread(t) \/ EnterLoad(t) \/ Flush(t) \/ ThreadExit(t)
  BY <1>3, <1>7 DEF RegisterThread, EnterLoad, Flush, ThreadExit
<1>8. CASE SyncCall(t) \/ CallStep(t)
  BY <1>3, <1>8 DEF SyncCall, SyncContended, SyncGated, SyncAdvance, BeginUntil, TryCollect,
     CallStep, PublishFull, AwaitSync, UntilContended, UntilAdvance, LoadThreads, ScanPassed,
     ScanBlocked, ScanMinimum, ScanDone, CollectLock, CollectSkip, CollectMark, CollectReclaim,
     CollectDone, CollectEnd
<1> QED BY <1>4, <1>5, <1>6, <1>7, <1>8 DEF DomainStep, ReaderStep

\* What PartsCovered says of one part of an image.
PartCovered(u, o) ==
    /\ nodeEpoch[o] = 0 => o \notin reclaimed
    /\ nodeEpoch[o] # 0 => Covers(u, nodeEpoch[o], nodeCls[o])

LEMMA PartsCoveredStep ==
    ASSUME Sequential, DomainInv, DomainInv', RetireTypes, ImageLifecycle, RetireProgress,
           PartsCovered, [ObjectNext]_allVars
    PROVE  PartsCovered'
<1> SUFFICES ASSUME NEW u \in Threads, NEW i \in Images, Holds(u, i)',
                    NEW o \in {i, IndexOf[i]}
             PROVE  PartCovered(u, o)'
  BY DEF PartsCovered, PartCovered
<1>0. /\ TypeOK /\ i \in Objects /\ o \in Objects
      /\ nodeEpoch[o] \in Nat /\ nodeCls[o] \in Classes
  BY ImagesAssumption DEF DomainInv, TypeOK, NodeTypes
<1>1. Holds(u, i) => PartCovered(u, o)
  BY DEF PartsCovered, PartCovered
<1>2. CASE UNCHANGED <<depth, refs, nodeEpoch, nodeCls, reclaimed, own, pc, scan, todo, safe,
                       completed>>
  <2>1. Holds(u, i)
    BY <1>2 DEF Holds
  <2> QED BY <1>1, <1>2, <2>1 DEF PartCovered, Covers, Passed
<1>3. ASSUME NEW t \in Threads, InDomain(t) PROVE PartCovered(u, o)'
  <2>1. DomainStep(t) /\ UNCHANGED <<nodeEpoch, nodeCls, image>>
    BY <1>0, <1>3, InDomainStep, DomainFrame
  <2>2. CASE Holds(u, i)
    <3>1. depth[u] = 1
      BY <1>0, <2>2, HoldsOne
    <3>2. depth'[u] = 1
      BY DEF Holds, DomainInv, TypeOK, ReaderTypes, Sequential
    <3>3. CASE nodeEpoch[o] = 0
      BY <1>1, <2>1, <2>2, <3>3, UnqueuedKept DEF PartCovered
    <3>4. CASE nodeEpoch[o] # 0
      <4>1. Covers(u, nodeEpoch[o], nodeCls[o])
        BY <1>1, <2>2, <3>4 DEF PartCovered
      <4>2. ASSUME NEW e \in Nat, NEW c \in Classes, Covers(u, e, c) PROVE Covers(u, e, c)'
        BY <2>1, <3>1, <3>2, <4>2, CoverKept DEF DomainInv
      <4>3. Covers(u, nodeEpoch[o], nodeCls[o])'
        BY <1>0, <2>1, <4>1, <4>2 DEF Covers
      <4> QED BY <2>1, <3>4, <4>3 DEF PartCovered
    <3> QED BY <3>3, <3>4
  <2>3. CASE ~Holds(u, i)
    <3>1. i = image /\ i # NoObject
      BY <1>0, <2>1, <2>3, HoldsNew, ObjectsAssumption
    <3>2. nodeEpoch[o] = 0 /\ o \notin reclaimed
      BY <3>1 DEF ImageLifecycle, Untouched
    <3> QED BY <2>1, <3>2, UnqueuedKept DEF PartCovered
  <2> QED BY <2>2, <2>3
<1>4. ASSUME NEW t \in Threads, RetireIndex(t) \/ RetireImage(t) PROVE PartCovered(u, o)'
  <2>1. /\ UNCHANGED <<reclaimed, completed, own, depth, refs, safe, scan, todo>>
        /\ \A v \in Threads \ {t} : pc'[v] = pc[v]
        /\ pc[t] = "idle" /\ pc'[t] \in {"idle", "publish"}
    BY <1>4, QueueFrame
  <2>2. Holds(u, i)
    BY <2>1 DEF Holds
  <2>3. \A v \in Threads : Passed(v, u)' <=> Passed(v, u)
    BY <2>1 DEF Passed
  <2>4. \A e, c : Covers(u, e, c)' <=> Covers(u, e, c)
    BY <2>1, <2>3 DEF Covers
  <2>5. CASE nodeEpoch'[o] = nodeEpoch[o] /\ nodeCls'[o] = nodeCls[o]
    BY <1>1, <2>1, <2>2, <2>3, <2>5 DEF PartCovered, Covers
  <2>6. CASE nodeEpoch'[o] = global /\ global # 0
    <3>1. nodeCls'[o] \in Classes
      BY <1>0 DEF DomainInv, TypeOK, NodeTypes
    <3>2. /\ own[u] <= global
          /\ \A v \in Threads : global > safe[v]
          /\ \A c \in Classes : global > completed[c]
      BY DEF DomainInv, EpochOrder, TypeOK, EpochTypes, CallTypes
    <3> QED BY <2>1, <2>6, <3>1, <3>2 DEF PartCovered, Covers
  <2> QED BY <1>0, <1>4, <2>5, <2>6, QueuedNode
<1>5. ASSUME NEW t \in Threads, ForceUnload(t) PROVE FALSE
  <2>1. depth'[u] = 0
    BY <1>5 DEF ForceUnload, readerVars
  <2> QED BY <2>1 DEF Holds
<1>6. ASSUME NEW t \in Threads,
             \/ SetTimeout(t) \/ RecordOutcome(t)
             \/ \E j \in Images \union {NoObject} : Publish(t, j)
             \/ \E j \in Images : LockTimeout(t, j)
      PROVE  UNCHANGED <<depth, refs, nodeEpoch, nodeCls, reclaimed, own, pc, scan, todo, safe,
                         completed>>
  BY <1>6 DEF SetTimeout, RecordOutcome, Publish, Swap, LockTimeout, vars, nodeVars, epochVars,
     readerVars, callVars
<1>7. UNCHANGED allVars =>
        UNCHANGED <<depth, refs, nodeEpoch, nodeCls, reclaimed, own, pc, scan, todo, safe,
                    completed>>
  BY DEF allVars, vars, nodeVars, epochVars, readerVars, callVars
<1> QED BY <1>2, <1>3, <1>4, <1>5, <1>6, <1>7, ObjectCases

LEMMA OutcomeStep ==
    ASSUME DomainInv, RetireTypes, ImageLifecycle, RetireProgress, OutcomeCovered,
           [ObjectNext]_allVars
    PROVE  OutcomeCovered'
<1>0. TypeOK
  BY DEF DomainInv
<1>1. CASE UNCHANGED <<nodeEpoch, nodeCls, completed, outcome>>
  BY <1>1 DEF OutcomeCovered
<1>2. ASSUME NEW t \in Threads, InDomain(t) PROVE OutcomeCovered'
  <2>1. DomainStep(t) /\ UNCHANGED outcome
    BY <1>2, InDomainStep
  <2>2. UNCHANGED <<nodeEpoch, nodeCls>> /\ completed'["batched"] >= completed["batched"]
    BY <1>0, <2>1, DomainFrame, DomainReclaims DEF DomainInv, Classes
  <2>3. completed["batched"] \in Nat /\ completed'["batched"] \in Nat
    BY <2>1, DomainIsNext, TypeStep, <1>0 DEF TypeOK, EpochTypes, Classes
  <2>4. \A i \in Images : nodeEpoch[i] \in Nat
    BY <1>0, ImagesAssumption DEF TypeOK, NodeTypes
  <2> QED BY <2>1, <2>2, <2>3, <2>4 DEF OutcomeCovered
<1>3. ASSUME NEW t \in Threads, RetireIndex(t) \/ RetireImage(t) PROVE OutcomeCovered'
  <2>1. UNCHANGED <<completed, outcome>>
    BY <1>3, QueueFrame
  <2>2. \A i \in Images : nodeEpoch[i] # 0 =>
            nodeEpoch'[i] = nodeEpoch[i] /\ nodeCls'[i] = nodeCls[i]
    BY <1>3, QueuedNode, ImagesAssumption
  <2> QED BY <2>1, <2>2 DEF OutcomeCovered
<1>4. ASSUME NEW t \in Threads, RecordOutcome(t) PROVE OutcomeCovered'
  <2>1. /\ step[t] = "outcome" /\ outcome' = [image |-> unlinked[t], what |-> Outcome(t)]
        /\ UNCHANGED <<nodeEpoch, nodeCls, completed>>
    BY <1>4 DEF RecordOutcome, nodeVars, epochVars
  <2>2. unlinked[t] \in Images
    BY <2>1 DEF ImageLifecycle, RetireProgress
  <2>3. CASE Outcome(t) = "reclaimed"
    <3>1. token[t] # 0 /\ completed["batched"] >= token[t]
      BY <2>3 DEF Outcome
    <3>2. token[t] = nodeEpoch[unlinked[t]] /\ nodeCls[unlinked[t]] = "batched"
      BY <3>1 DEF RetireProgress
    <3> QED BY <2>1, <2>2, <3>1, <3>2 DEF OutcomeCovered, RetireTypes
  <2>4. CASE Outcome(t) # "reclaimed"
    BY <2>1, <2>4 DEF OutcomeCovered
  <2> QED BY <2>3, <2>4
<1>5. ASSUME NEW t \in Threads,
             \/ SetTimeout(t) \/ ForceUnload(t)
             \/ \E j \in Images \union {NoObject} : Publish(t, j)
             \/ \E j \in Images : LockTimeout(t, j)
      PROVE  UNCHANGED <<nodeEpoch, nodeCls, completed, outcome>>
  BY <1>5 DEF SetTimeout, ForceUnload, Publish, Swap, LockTimeout, vars, nodeVars, epochVars,
     objectVars
<1> QED
  BY <1>1, <1>2, <1>3, <1>4, <1>5, ObjectCases
  DEF allVars, vars, nodeVars, epochVars, objectVars

-----------------------------------------------------------------------------
(***************************************************************************)
(* Theorems.                                                               *)
(***************************************************************************)

LEMMA ObjectInvInit == ASSUME Sequential, ObjectInit PROVE ObjectInv
<1> USE DEF ObjectInit, Init, Sequential, Classes
<1>1. TypeOK
  BY DEF TypeOK, Labels, Kinds, EpochTypes, ReaderTypes, NodeTypes, CallTypes, ClientTypes
<1>2. EpochOrder /\ SectionsVisible /\ CallState /\ ReclaimedCovered
  BY ThreadsAssumption DEF EpochOrder, SectionsVisible, CallState, ReclaimedCovered
<1>3. RetireTypes
  BY TimeoutsAssumption DEF RetireTypes
<1>4. ImageLifecycle
  BY ImagesAssumption DEF ImageLifecycle, Untouched
<1>5. RetireProgress
  BY DEF RetireProgress
<1>6. PartsCovered
  BY DEF PartsCovered, Holds
<1>7. OutcomeCovered
  BY DEF OutcomeCovered
<1> QED BY <1>1, <1>2, <1>3, <1>4, <1>5, <1>6, <1>7 DEF ObjectInv

LEMMA ObjectInvStep ==
    ASSUME Sequential, ObjectInv, [ObjectNext]_allVars
    PROVE  ObjectInv'
<1>1. DomainInv
  BY DEF ObjectInv, DomainInv
<1>2. DomainInv'
  BY <1>1, DomainInvStep DEF ObjectInv
<1>3. RetireTypes' /\ ImageLifecycle' /\ RetireProgress'
  BY <1>1, RetireTypesStep, ImageLifecycleStep, RetireProgressStep DEF ObjectInv
<1>4. ReclaimedCovered' /\ PartsCovered' /\ OutcomeCovered'
  BY <1>1, <1>2, WatermarkStep, PartsCoveredStep, OutcomeStep DEF ObjectInv
<1> QED BY <1>2, <1>3, <1>4 DEF ObjectInv, DomainInv

\* The invariant of dll::Object over the domain holds in every state.
THEOREM ObjectInvariant == ASSUME Sequential PROVE ObjectSpec => []ObjectInv
<1>1. ObjectInit => ObjectInv
  BY ObjectInvInit
<1>2. ObjectInv /\ [ObjectNext]_allVars => ObjectInv'
  BY ObjectInvStep
<1> QED BY <1>1, <1>2, PTL DEF ObjectSpec

\* A reader finds the image and its index intact until it leaves its section,
\* although retire_image() hands them to the domain in two classes and two
\* synchronizations, either of which may find no memory or time out (Object.h).
THEOREM ReadersKeepImages ==
    ASSUME Sequential PROVE ObjectSpec => []ReadersKeepImageAndIndex
<1>1. ObjectInv => ReadersKeepImageAndIndex
  <2> SUFFICES ASSUME ObjectInv, NEW u \in Threads, NEW i \in Images, Holds(u, i),
                      NEW o \in {i, IndexOf[i]}, o \in reclaimed
               PROVE  FALSE
    BY DEF ReadersKeepImageAndIndex
  <2>1. nodeEpoch[o] # 0 /\ nodeEpoch[o] > completed[nodeCls[o]]
    BY DEF ObjectInv, PartsCovered, Covers
  <2>2. nodeEpoch[o] <= completed[nodeCls[o]]
    BY DEF ObjectInv, ReclaimedCovered
  <2>3. nodeEpoch[o] \in Nat /\ completed[nodeCls[o]] \in Nat
    BY ImagesAssumption DEF ObjectInv, TypeOK, NodeTypes, EpochTypes
  <2> QED BY <2>1, <2>2, <2>3
<1> QED BY <1>1, ObjectInvariant, PTL

\* last_reclaim says `reclaimed` only of an image that no reader is inside,
\* whichever thread's synchronization raised the watermark it is derived from.
THEOREM OutcomesAreProven == ASSUME Sequential PROVE ObjectSpec => []OutcomeProven
<1>1. ObjectInv => OutcomeProven
  <2> SUFFICES ASSUME ObjectInv, outcome.what = "reclaimed", NEW u \in Threads,
                      Holds(u, outcome.image)
               PROVE  FALSE
    BY DEF OutcomeProven
  <2> DEFINE i == outcome.image
  <2>1. /\ i \in Images /\ nodeEpoch[i] # 0 /\ nodeCls[i] = "batched"
        /\ nodeEpoch[i] <= completed["batched"]
    BY DEF ObjectInv, OutcomeCovered
  <2>2. nodeEpoch[i] > completed["batched"]
    BY <2>1 DEF ObjectInv, PartsCovered, Covers
  <2>3. nodeEpoch[i] \in Nat /\ completed["batched"] \in Nat
    BY <2>1, ImagesAssumption DEF ObjectInv, TypeOK, NodeTypes, EpochTypes, Classes
  <2> QED BY <2>1, <2>2, <2>3
<1> QED BY <1>1, ObjectInvariant, PTL

-----------------------------------------------------------------------------
(***************************************************************************)
(* The advancement statistics and the program that reads them              *)
(* (AdvanceProbe), for every number of writers, readers and calls.         *)
(***************************************************************************)
LEMMA MaxOfTwo ==
    ASSUME NEW a \in Int, NEW b \in Int
    PROVE  Max({a, b}) \in {a, b} /\ Max({a, b}) >= a /\ Max({a, b}) >= b
<1>1. \E x \in {a, b} : \A y \in {a, b} : x >= y
  OBVIOUS
<1>2. Max({a, b}) \in {a, b} /\ \A y \in {a, b} : Max({a, b}) >= y
  BY <1>1 DEF Max
<1> QED BY <1>2

LEMMA EpochsFinite == LastEpoch \in Nat /\ IsFiniteSet(Epochs)
<1>1. Cardinality(ProbeWriters) \in Nat /\ MaxProbeCalls \in Nat
  BY ProbeAssumption, FS_CardinalityType
<1>2. (MaxProbeCalls + 2) * Cardinality(ProbeWriters) \in Nat
  BY <1>1
<1>3. LastEpoch \in Nat
  BY <1>2 DEF LastEpoch
<1>4. IsFiniteSet(1..LastEpoch)
  BY <1>3, 1 \in Int, LastEpoch \in Int, FS_Interval
<1> QED BY <1>3, <1>4 DEF Epochs

LEMMA TallyType ==
    ASSUME NEW n \in [Epochs -> Nat]
    PROVE  Tally(n) \in Int
<1>1. n \in [Epochs -> Int]
  OBVIOUS
<1>2. Tally(n) = SumOver(n, Epochs)
  BY DEF Tally, SumOver, Epochs
<1>3. PICK h : Summed(h, n, Epochs)
  BY <1>1, EpochsFinite, SumIsLast
<1> QED BY <1>2, <1>3 DEF Summed

Pcs == InCall \union {"load", "loop", "unload", "done"}
Recs == [pc : Pcs, local : [Epochs -> Nat], calls : Nat, streak : Nat, loaded : BOOLEAN, call : ProbeCalls]
WritersTyped == writer \in [ProbeWriters -> Recs]

\* What a step of a writer leaves it with.
NextOf(w, p, l, n, s, d, c) ==
    /\ WritersTyped'
    /\ writer'[w].pc = p /\ writer'[w].local = l /\ writer'[w].calls = n /\ writer'[w].streak = s
    /\ writer'[w].loaded = d /\ My(w)' = c
    /\ \A x \in ProbeWriters : x # w => writer'[x] = writer[x]

LEMMA WriterFields ==
    ASSUME WritersTyped, NEW w \in ProbeWriters
    PROVE  /\ writer[w].pc \in Pcs /\ writer[w].local \in [Epochs -> Nat]
           /\ writer[w].calls \in Nat /\ writer[w].streak \in Nat /\ writer[w].loaded \in BOOLEAN
           /\ My(w) \in ProbeCalls
  BY DEF WritersTyped, Recs, My

LEMMA CallsTyped ==
    ASSUME NEW a \in BOOLEAN, NEW b \in Nat, NEW c \in Nat, NEW d \in Nat, NEW e \in BOOLEAN
    PROVE  CallOf(a, b, c, d, e) \in ProbeCalls
  BY DEF ProbeCalls, CallOf

LEMMA BumpTyped ==
    ASSUME NEW f \in [Epochs -> Nat], NEW x, NEW n \in Nat
    PROVE  [f EXCEPT ![x] = @ + n] \in [Epochs -> Nat]
<1>1. \A y \in Epochs : f[y] \in Nat /\ f[y] + n \in Nat
  OBVIOUS
<1> QED BY <1>1

LEMMA CallEdits ==
    ASSUME NEW c \in ProbeCalls
    PROVE  /\ \A n \in Nat, i \in Int : [c EXCEPT !.waiting = TRUE, !.since = n, !.sample = i] \in ProbeCalls
           /\ \A n \in Nat : [c EXCEPT !.observed = n] \in ProbeCalls
           /\ \A o, s \in Nat, j \in Int, b \in BOOLEAN :
                 [c EXCEPT !.observed = o, !.sample = j, !.since = s, !.waiting = b] \in ProbeCalls
           /\ \A n \in Nat, i \in Int : [c EXCEPT !.old = n, !.owner = TRUE, !.sample = i] \in ProbeCalls
<1>1. \A n \in Nat, i \in Int : [c EXCEPT !.waiting = TRUE, !.since = n, !.sample = i] \in ProbeCalls
  BY DEF ProbeCalls
<1>2. \A n \in Nat : [c EXCEPT !.observed = n] \in ProbeCalls
  BY DEF ProbeCalls
<1>3. \A o, s \in Nat, j \in Int, b \in BOOLEAN :
         [c EXCEPT !.observed = o, !.sample = j, !.since = s, !.waiting = b] \in ProbeCalls
  BY DEF ProbeCalls
<1>4. \A n \in Nat, i \in Int : [c EXCEPT !.old = n, !.owner = TRUE, !.sample = i] \in ProbeCalls
  BY DEF ProbeCalls
<1> QED BY <1>1, <1>2, <1>3, <1>4

LEMMA EnterStep ==
    ASSUME ProbeTypes, NEW w \in ProbeWriters, NEW n \in Nat, NEW last \in BOOLEAN, Call(w, n, last)
    PROVE  NextOf(w, "try", [writer[w].local EXCEPT ![domain.global] = @ + n], writer[w].calls + 1, writer[w].streak,
                  writer[w].loaded, CallOf(last, clock, CallDeadline, domain.global, FALSE))
<1> DEFINE c == CallOf(last, clock, CallDeadline, domain.global, FALSE)
           l == [writer[w].local EXCEPT ![domain.global] = @ + n]
           k == writer[w].calls + 1
<1>1. WritersTyped /\ clock \in Nat /\ domain.global \in Nat
  BY DEF ProbeTypes, WritersTyped, Recs, Pcs
<1>2. CallDeadline \in Nat
  BY <1>1, ProbeAssumption DEF CallDeadline
<1>3. c \in ProbeCalls /\ k \in Nat /\ l \in [Epochs -> Nat]
  <2>1. c \in ProbeCalls
    BY <1>1, <1>2, CallsTyped
  <2>2. writer[w].local \in [Epochs -> Nat] /\ writer[w].calls \in Nat
    BY <1>1, WriterFields
  <2>3. l \in [Epochs -> Nat]
    BY <2>2, BumpTyped
  <2>4. k \in Nat
    BY <2>2
  <2> QED BY <2>1, <2>3, <2>4
<1>4. writer' = [writer EXCEPT ![w].pc = "try", ![w].calls = k, ![w].local = l, ![w].call = c]
  BY <1>1 DEF Call, WritersTyped, Recs
<1>5. "try" \in Pcs
  BY DEF Pcs, InCall
<1> HIDE DEF c, l, k
<1>6. NextOf(w, "try", l, k, writer[w].streak, writer[w].loaded, c)
  BY <1>1, <1>3, <1>4, <1>5 DEF NextOf, WritersTyped, Recs, My
<1> QED BY <1>6 DEF c, l, k

\* Steps that only move a writer.
LEMMA MoveStep ==
    ASSUME WritersTyped, NEW w \in ProbeWriters, NEW p \in Pcs, writer' = [writer EXCEPT ![w].pc = p]
    PROVE  NextOf(w, p, writer[w].local, writer[w].calls, writer[w].streak, writer[w].loaded, My(w))
  BY DEF NextOf, WritersTyped, Recs, My

LEMMA LoadStep ==
    ASSUME WritersTyped, NEW w \in ProbeWriters, writer' = [writer EXCEPT ![w].pc = "loop", ![w].loaded = TRUE]
    PROVE  NextOf(w, "loop", writer[w].local, writer[w].calls, writer[w].streak, TRUE, My(w))
<1>1. "loop" \in Pcs
  BY DEF Pcs
<1> QED BY <1>1 DEF NextOf, WritersTyped, Recs, My

LEMMA ReportStep ==
    ASSUME WritersTyped, NEW w \in ProbeWriters, NEW elapsed \in BOOLEAN, Report(w, elapsed)
    PROVE  NextOf(w, IF My(w).last THEN "done" ELSE "loop", writer[w].local, writer[w].calls,
                  IF elapsed THEN writer[w].streak + 1 ELSE 0, writer[w].loaded, NoCall)
<1> DEFINE s == IF elapsed THEN writer[w].streak + 1 ELSE 0
           p == IF My(w).last THEN "done" ELSE "loop"
<1>1. s \in Nat /\ p \in Pcs
  BY WriterFields DEF Pcs
<1>2. NoCall \in ProbeCalls
  BY CallsTyped DEF NoCall
<1>3. writer' = [writer EXCEPT ![w].pc = p, ![w].streak = s, ![w].call = NoCall]
  BY DEF Report
<1> HIDE DEF s, p
<1>4. NextOf(w, p, writer[w].local, writer[w].calls, s, writer[w].loaded, NoCall)
  BY <1>1, <1>2, <1>3 DEF NextOf, WritersTyped, Recs, My
<1> QED BY <1>4 DEF s, p

LEMMA ZeroesTyped == Zeroes \in [Epochs -> Nat]
  BY DEF Zeroes, Epochs

LEMMA BeginStep ==
    ASSUME ProbeTypes, NEW w \in ProbeWriters, BeginAdvance(w)
    PROVE  NextOf(w, IF My(w).waiting THEN "note" ELSE "poll", Zeroes, writer[w].calls, writer[w].streak, writer[w].loaded,
                  [My(w) EXCEPT !.old = domain.global, !.owner = TRUE, !.sample = clock - My(w).since])
<1> DEFINE c == [My(w) EXCEPT !.old = domain.global, !.owner = TRUE, !.sample = clock - My(w).since]
           p == IF My(w).waiting THEN "note" ELSE "poll"
<1>1. WritersTyped /\ clock \in Nat /\ domain.global \in Nat
  BY DEF ProbeTypes, WritersTyped, Recs, Pcs
<1>2. clock - My(w).since \in Int
  BY <1>1, WriterFields DEF ProbeCalls
<1>3. c \in ProbeCalls /\ p \in Pcs
  BY <1>1, <1>2, WriterFields DEF ProbeCalls, Pcs, InCall
<1>4. writer' = [writer EXCEPT ![w].local = Zeroes, ![w].pc = p, ![w].call = c]
  BY DEF BeginAdvance, My
<1> HIDE DEF c, p
<1>5. NextOf(w, p, Zeroes, writer[w].calls, writer[w].streak, writer[w].loaded, c)
  BY <1>1, <1>3, <1>4, ZeroesTyped DEF NextOf, WritersTyped, Recs, My
<1> QED BY <1>5 DEF c, p

LEMMA LoseStep ==
    ASSUME WritersTyped, NEW w \in ProbeWriters, LoseAdvance(w)
    PROVE  NextOf(w, "lost", Zeroes, writer[w].calls, writer[w].streak, writer[w].loaded, My(w))
<1>1. "lost" \in Pcs
  BY DEF Pcs, InCall
<1>2. writer' = [writer EXCEPT ![w].local = Zeroes, ![w].pc = "lost"]
  BY DEF LoseAdvance
<1> QED BY <1>1, <1>2, ZeroesTyped DEF NextOf, WritersTyped, Recs, My

LEMMA LostStep ==
    ASSUME ProbeTypes, NEW w \in ProbeWriters, Lost(w)
    PROVE  \E since \in Nat :
              NextOf(w, IF Expired(w) THEN "note" ELSE "try", writer[w].local, writer[w].calls, writer[w].streak,
                     writer[w].loaded, [My(w) EXCEPT !.waiting = TRUE, !.since = since, !.sample = clock - since])
<1> DEFINE since == IF My(w).waiting THEN My(w).since ELSE clock
           c == [My(w) EXCEPT !.waiting = TRUE, !.since = since, !.sample = clock - since]
           p == IF Expired(w) THEN "note" ELSE "try"
<1>1. WritersTyped /\ clock \in Nat
  BY DEF ProbeTypes, WritersTyped, Recs, Pcs
<1>2. since \in Nat
  BY <1>1, WriterFields DEF ProbeCalls
<1>3. writer' = [writer EXCEPT ![w].pc = p, ![w].call = c]
  BY DEF Lost, My
<1> HIDE DEF since
<1>4. c \in ProbeCalls /\ p \in Pcs
  <2>1. My(w) \in ProbeCalls /\ clock - since \in Int
    BY <1>1, <1>2, WriterFields
  <2>2. c \in ProbeCalls
    BY <1>2, <2>1, CallEdits
  <2>3. p \in Pcs
    BY DEF Pcs, InCall
  <2> QED BY <2>2, <2>3
<1> HIDE DEF c, p
<1>5. NextOf(w, p, writer[w].local, writer[w].calls, writer[w].streak, writer[w].loaded, c)
  BY <1>1, <1>3, <1>4 DEF NextOf, WritersTyped, Recs, My
<1> QED BY <1>2, <1>5 DEF c, p

LEMMA NoteLoadStep ==
    ASSUME ProbeTypes, NEW w \in ProbeWriters, NoteLoad(w)
    PROVE  NextOf(w, "cas", writer[w].local, writer[w].calls, writer[w].streak,
                  writer[w].loaded, [My(w) EXCEPT !.observed = counters.max_wait])
<1> DEFINE c == [My(w) EXCEPT !.observed = counters.max_wait]
<1>1. WritersTyped /\ counters.max_wait \in Nat
  BY DEF ProbeTypes, WritersTyped, Recs, Pcs, Counts
<1>3. writer' = [writer EXCEPT ![w].pc = "cas", ![w].call = c]
  BY <1>1 DEF NoteLoad, My, WritersTyped, Recs
<1>4. c \in ProbeCalls /\ "cas" \in Pcs
  BY <1>1, WriterFields DEF ProbeCalls, Pcs, InCall
<1> HIDE DEF c
<1>5. NextOf(w, "cas", writer[w].local, writer[w].calls, writer[w].streak, writer[w].loaded, c)
  BY <1>1, <1>3, <1>4 DEF NextOf, WritersTyped, Recs, My
<1> QED BY <1>5 DEF c

LEMMA NoteCasStep ==
    ASSUME ProbeTypes, NEW w \in ProbeWriters, NoteCas(w)
    PROVE  \/ NextOf(w, "cas", writer[w].local, writer[w].calls, writer[w].streak,
                     writer[w].loaded, [My(w) EXCEPT !.observed = counters.max_wait])
           \/ NextOf(w, AfterNote(w), writer[w].local, writer[w].calls, writer[w].streak, writer[w].loaded,
                     [My(w) EXCEPT !.observed = 0, !.sample = 0, !.since = 0, !.waiting = FALSE])
<1> DEFINE again == My(w).sample > My(w).observed /\ counters.max_wait # My(w).observed
           c == IF again THEN [My(w) EXCEPT !.observed = counters.max_wait]
                ELSE [My(w) EXCEPT !.observed = 0, !.sample = 0, !.since = 0, !.waiting = FALSE]
           p == IF again THEN "cas" ELSE AfterNote(w)
<1>1. WritersTyped /\ counters.max_wait \in Nat
  BY DEF ProbeTypes, WritersTyped, Recs, Pcs, Counts
<1>3. writer' = [writer EXCEPT ![w].call = c, ![w].pc = p]
  BY <1>1 DEF NoteCas, My, WritersTyped, Recs
<1> HIDE DEF again
<1>4. c \in ProbeCalls /\ p \in Pcs
  <2>1. My(w) \in ProbeCalls
    BY <1>1, WriterFields
  <2> DEFINE c1 == [My(w) EXCEPT !.observed = counters.max_wait]
             c2 == [My(w) EXCEPT !.observed = 0, !.sample = 0, !.since = 0, !.waiting = FALSE]
  <2>4. c1 \in ProbeCalls
    BY <1>1, <2>1, CallEdits
  <2>5. c2 \in ProbeCalls
    <3>1. \A o, s \in Nat, j \in Int, b \in BOOLEAN :
             [My(w) EXCEPT !.observed = o, !.sample = j, !.since = s, !.waiting = b] \in ProbeCalls
      BY <2>1, CallEdits
    <3>2. 0 \in Nat /\ 0 \in Int /\ FALSE \in BOOLEAN
      OBVIOUS
    <3> QED BY <3>1, <3>2, Zenon
  <2>2. c \in ProbeCalls
    <3> HIDE DEF c1, c2
    <3>1. c = IF again THEN c1 ELSE c2
      BY DEF c1, c2
    <3> QED BY <2>4, <2>5, <3>1
  <2>3. p \in Pcs
    BY DEF Pcs, InCall, AfterNote
  <2> QED BY <2>2, <2>3
<1> HIDE DEF c, p
<1>5. NextOf(w, p, writer[w].local, writer[w].calls, writer[w].streak, writer[w].loaded, c)
  BY <1>1, <1>3, <1>4 DEF NextOf, WritersTyped, Recs, My
<1>6. CASE again
  BY <1>5, <1>6 DEF c, p
<1>7. CASE ~again
  BY <1>5, <1>7 DEF c, p
<1> QED BY <1>6, <1>7

LEMMA ReturnStep ==
    ASSUME WritersTyped, NEW w \in ProbeWriters, NEW proven \in BOOLEAN,
           writer' = [writer EXCEPT ![w].call = Live(w, proven), ![w].pc = "return"]
    PROVE  NextOf(w, "return", writer[w].local, writer[w].calls, writer[w].streak, writer[w].loaded, Live(w, proven))
<1> DEFINE c == Live(w, proven)
           p == "return"
<1>1. c \in ProbeCalls /\ p \in Pcs
  <2>1. My(w).last \in BOOLEAN /\ My(w).start \in Nat /\ My(w).token \in Nat
    BY WriterFields DEF ProbeCalls
  <2>2. c \in ProbeCalls
    BY <2>1, CallsTyped DEF Live
  <2> QED BY <2>2 DEF Pcs, InCall
<1>2. writer' = [writer EXCEPT ![w].call = c, ![w].pc = p]
  OBVIOUS
<1> HIDE DEF c, p
<1>3. NextOf(w, p, writer[w].local, writer[w].calls, writer[w].streak, writer[w].loaded, c)
  BY ONLY <1>1, <1>2, WritersTyped, w \in ProbeWriters DEF NextOf, WritersTyped, Recs, My
<1> QED BY <1>3 DEF c, p

\* What matters of a writer's step to the other invariants.
StepOf(w, p, l, n, d, last, start, until, owner, proven) ==
    /\ writer'[w].pc = p /\ writer'[w].local = l /\ writer'[w].calls = n /\ writer'[w].loaded = d
    /\ My(w)'.last = last /\ My(w)'.start = start /\ My(w)'.until = until
    /\ My(w)'.owner = owner /\ My(w)'.proven = proven
    /\ \A x \in ProbeWriters : x # w => writer'[x] = writer[x]

\* The steps that leave the caller's locals as they are.
LEMMA EditFields ==
    ASSUME NEW c \in ProbeCalls, NEW a, NEW b
    PROVE  /\ LET k == [c EXCEPT !.waiting = TRUE, !.since = a, !.sample = b]
              IN k.last = c.last /\ k.start = c.start /\ k.until = c.until /\ k.owner = c.owner /\ k.proven = c.proven
           /\ LET k == [c EXCEPT !.observed = a]
              IN k.last = c.last /\ k.start = c.start /\ k.until = c.until /\ k.owner = c.owner /\ k.proven = c.proven
           /\ LET k == [c EXCEPT !.observed = 0, !.sample = 0, !.since = 0, !.waiting = FALSE]
              IN k.last = c.last /\ k.start = c.start /\ k.until = c.until /\ k.owner = c.owner /\ k.proven = c.proven
           /\ LET k == [c EXCEPT !.old = a, !.owner = TRUE, !.sample = b]
              IN k.last = c.last /\ k.start = c.start /\ k.until = c.until /\ k.owner = TRUE /\ k.proven = c.proven
  BY DEF ProbeCalls

LEMMA CallViewed ==
    ASSUME ProbeTypes, NEW w \in ProbeWriters, NEW n \in Nat, NEW last \in BOOLEAN, Call(w, n, last)
    PROVE  StepOf(w, "try", [writer[w].local EXCEPT ![domain.global] = @ + n], writer[w].calls + 1, writer[w].loaded,
                  last, clock, CallDeadline, FALSE, FALSE)
<1> DEFINE c == CallOf(last, clock, CallDeadline, domain.global, FALSE)
<1>1. NextOf(w, "try", [writer[w].local EXCEPT ![domain.global] = @ + n], writer[w].calls + 1, writer[w].streak, writer[w].loaded, c)
  BY EnterStep
<1>2. c.last = last /\ c.start = clock /\ c.until = CallDeadline /\ c.owner = FALSE /\ c.proven = FALSE
  BY DEF CallOf
<1> HIDE DEF c
<1> QED BY <1>1, <1>2 DEF NextOf, StepOf

LEMMA MoveViewed ==
    ASSUME WritersTyped, NEW w \in ProbeWriters, NEW p \in Pcs, writer' = [writer EXCEPT ![w].pc = p]
    PROVE  StepOf(w, p, writer[w].local, writer[w].calls, writer[w].loaded,
                  My(w).last, My(w).start, My(w).until, My(w).owner, My(w).proven)
  BY MoveStep DEF NextOf, StepOf

LEMMA LoadViewed ==
    ASSUME WritersTyped, NEW w \in ProbeWriters, writer' = [writer EXCEPT ![w].pc = "loop", ![w].loaded = TRUE]
    PROVE  StepOf(w, "loop", writer[w].local, writer[w].calls, TRUE,
                  My(w).last, My(w).start, My(w).until, My(w).owner, My(w).proven)
  BY LoadStep DEF NextOf, StepOf

LEMMA ReportViewed ==
    ASSUME WritersTyped, NEW w \in ProbeWriters, NEW elapsed \in BOOLEAN, Report(w, elapsed)
    PROVE  StepOf(w, IF My(w).last THEN "done" ELSE "loop", writer[w].local, writer[w].calls, writer[w].loaded,
                  FALSE, 0, 0, FALSE, FALSE)
<1> DEFINE c == NoCall
<1>1. NextOf(w, IF My(w).last THEN "done" ELSE "loop", writer[w].local, writer[w].calls, IF elapsed THEN writer[w].streak + 1 ELSE 0, writer[w].loaded, c)
  BY ReportStep
<1>2. c.last = FALSE /\ c.start = 0 /\ c.until = 0 /\ c.owner = FALSE /\ c.proven = FALSE
  BY DEF NoCall, CallOf
<1> HIDE DEF c
<1> QED BY <1>1, <1>2 DEF NextOf, StepOf

LEMMA BeginViewed ==
    ASSUME ProbeTypes, NEW w \in ProbeWriters, BeginAdvance(w)
    PROVE  StepOf(w, IF My(w).waiting THEN "note" ELSE "poll", Zeroes, writer[w].calls, writer[w].loaded,
                  My(w).last, My(w).start, My(w).until, TRUE, My(w).proven)
<1> DEFINE c == [My(w) EXCEPT !.old = domain.global, !.owner = TRUE, !.sample = clock - My(w).since]
<1>0. My(w) \in ProbeCalls
  BY WriterFields DEF ProbeTypes, WritersTyped, Recs, Pcs
<1>1. NextOf(w, IF My(w).waiting THEN "note" ELSE "poll", Zeroes, writer[w].calls, writer[w].streak, writer[w].loaded, c)
  BY BeginStep
<1>2. c.last = My(w).last /\ c.start = My(w).start /\ c.until = My(w).until /\ c.owner = TRUE /\ c.proven = My(w).proven
  BY <1>0, EditFields
<1> HIDE DEF c
<1> QED BY <1>1, <1>2 DEF NextOf, StepOf

LEMMA LoseViewed ==
    ASSUME WritersTyped, NEW w \in ProbeWriters, LoseAdvance(w)
    PROVE  StepOf(w, "lost", Zeroes, writer[w].calls, writer[w].loaded,
                  My(w).last, My(w).start, My(w).until, My(w).owner, My(w).proven)
  BY LoseStep DEF NextOf, StepOf

LEMMA LostViewed ==
    ASSUME ProbeTypes, NEW w \in ProbeWriters, Lost(w)
    PROVE  StepOf(w, IF Expired(w) THEN "note" ELSE "try", writer[w].local, writer[w].calls, writer[w].loaded,
                  My(w).last, My(w).start, My(w).until, My(w).owner, My(w).proven)
<1>3. PICK since \in Nat :
         NextOf(w, IF Expired(w) THEN "note" ELSE "try", writer[w].local, writer[w].calls, writer[w].streak,
                writer[w].loaded, [My(w) EXCEPT !.waiting = TRUE, !.since = since, !.sample = clock - since])
  BY LostStep
<1> DEFINE c == [My(w) EXCEPT !.waiting = TRUE, !.since = since, !.sample = clock - since]
<1>0. My(w) \in ProbeCalls
  BY WriterFields DEF ProbeTypes, WritersTyped, Recs, Pcs
<1>1. NextOf(w, IF Expired(w) THEN "note" ELSE "try", writer[w].local, writer[w].calls, writer[w].streak, writer[w].loaded, c)
  BY <1>3
<1>2. c.last = My(w).last /\ c.start = My(w).start /\ c.until = My(w).until /\ c.owner = My(w).owner /\ c.proven = My(w).proven
  BY <1>0, EditFields
<1> HIDE DEF c
<1> QED BY <1>1, <1>2 DEF NextOf, StepOf

LEMMA NoteLoadViewed ==
    ASSUME ProbeTypes, NEW w \in ProbeWriters, NoteLoad(w)
    PROVE  StepOf(w, "cas", writer[w].local, writer[w].calls, writer[w].loaded,
                  My(w).last, My(w).start, My(w).until, My(w).owner, My(w).proven)
<1> DEFINE c == [My(w) EXCEPT !.observed = counters.max_wait]
<1>0. My(w) \in ProbeCalls
  BY WriterFields DEF ProbeTypes, WritersTyped, Recs, Pcs
<1>1. NextOf(w, "cas", writer[w].local, writer[w].calls, writer[w].streak, writer[w].loaded, c)
  BY NoteLoadStep
<1>2. c.last = My(w).last /\ c.start = My(w).start /\ c.until = My(w).until /\ c.owner = My(w).owner /\ c.proven = My(w).proven
  BY <1>0, EditFields
<1> HIDE DEF c
<1> QED BY <1>1, <1>2 DEF NextOf, StepOf

LEMMA NoteCasViewed ==
    ASSUME ProbeTypes, NEW w \in ProbeWriters, NoteCas(w)
    PROVE  \E p \in {"cas", AfterNote(w)} :
              StepOf(w, p, writer[w].local, writer[w].calls, writer[w].loaded,
                     My(w).last, My(w).start, My(w).until, My(w).owner, My(w).proven)
<1> DEFINE c1 == [My(w) EXCEPT !.observed = counters.max_wait]
           c2 == [My(w) EXCEPT !.observed = 0, !.sample = 0, !.since = 0, !.waiting = FALSE]
<1>0. My(w) \in ProbeCalls
  BY WriterFields DEF ProbeTypes, WritersTyped, Recs, Pcs
<1>1. \E p \in {"cas", AfterNote(w)}, c \in {c1, c2} :
         NextOf(w, p, writer[w].local, writer[w].calls, writer[w].streak, writer[w].loaded, c)
  BY NoteCasStep
<1>2. \A c \in {c1, c2} : /\ c.last = My(w).last /\ c.start = My(w).start /\ c.until = My(w).until
                          /\ c.owner = My(w).owner /\ c.proven = My(w).proven
  <2>1. /\ c1.last = My(w).last /\ c1.start = My(w).start /\ c1.until = My(w).until
        /\ c1.owner = My(w).owner /\ c1.proven = My(w).proven
    BY <1>0, EditFields
  <2>2. /\ c2.last = My(w).last /\ c2.start = My(w).start /\ c2.until = My(w).until
        /\ c2.owner = My(w).owner /\ c2.proven = My(w).proven
    BY <1>0, EditFields
  <2> HIDE DEF c1, c2
  <2> QED BY <2>1, <2>2
<1> HIDE DEF c1, c2
<1> QED BY <1>1, <1>2 DEF NextOf, StepOf

LEMMA ReturnViewed ==
    ASSUME WritersTyped, NEW w \in ProbeWriters, NEW proven \in BOOLEAN,
           writer' = [writer EXCEPT ![w].call = Live(w, proven), ![w].pc = "return"]
    PROVE  StepOf(w, "return", writer[w].local, writer[w].calls, writer[w].loaded,
                  My(w).last, My(w).start, 0, FALSE, proven)
<1> DEFINE c == Live(w, proven)
<1>1. NextOf(w, "return", writer[w].local, writer[w].calls, writer[w].streak, writer[w].loaded, c)
  BY ReturnStep
<1>2. c.last = My(w).last /\ c.start = My(w).start /\ c.until = 0 /\ c.owner = FALSE /\ c.proven = proven
  BY DEF Live, CallOf
<1> HIDE DEF c
<1> QED BY <1>1, <1>2 DEF NextOf, StepOf
\* worst_rc() of verdicts is the largest of them.
LEMMA WorstIsMax ==
    ASSUME NEW v \in Seq(0..3)
    PROVE  /\ worst_rc(v) \in 0..3
           /\ worst_rc(v) = Max({0} \union {v[i] : i \in DOMAIN v})
<1> DEFINE Worse(rc, x) == IF rc = 3 \/ x = 3 THEN 3
                           ELSE IF x = 2 /\ rc < 2 THEN 2
                           ELSE IF x = 1 /\ rc < 1 THEN 1
                           ELSE rc
           L == Len(v)
           S == 0..3
           st == [q \in S \X (1..L) |-> Worse(q[1], v[q[2]])]
<1>1. L \in Nat /\ DOMAIN v = 1..L /\ \A i \in 1..L : v[i] \in S
  <2>1. L \in Nat /\ DOMAIN v = 1..L
    BY LenProperties
  <2> QED BY <2>1, ElementOfSeq
<1>2. \A rc \in S, x \in S : Worse(rc, x) \in S /\ Worse(rc, x) = IF rc >= x THEN rc ELSE x
  OBVIOUS
<1>3. st \in [S \X (1..L) -> S] /\ \A rc \in S, i \in 1..L : st[<<rc, i>>] = Worse(rc, v[i])
  <2> HIDE DEF Worse, S, L
  <2> QED BY <1>1, <1>2
<1>4. 0 \in S
  OBVIOUS
<1> HIDE DEF st
<1>5. PICK g : Loop(g, S, 0, L, st)
  <2> HIDE DEF S, L
  <2> QED BY <1>1, <1>3, <1>4, LoopExists
<1> DEFINE body(h) == [n \in 0..Len(v) |-> IF n = 0 THEN 0 ELSE Worse(h[n - 1], v[n])]
<1>6. g = body(g)
  <2>1. g \in [0..L -> S] /\ g[0] = 0 /\ \A i \in 1..L : g[i] = st[<<g[i - 1], i>>]
    BY <1>5 DEF Loop
  <2>2. \A i \in 1..L : i - 1 \in 0..L /\ g[i] = Worse(g[i - 1], v[i])
    <3> HIDE DEF Worse, S
    <3>1. \A i \in 1..L : i - 1 \in 0..L
      BY <1>1
    <3> QED BY <1>3, <2>1, <3>1
  <2> HIDE DEF Worse
  <2> QED BY <1>1, <2>1, <2>2
<1> DEFINE u == CHOOSE h : h = body(h)
<1>7. u = body(u)
  <2> HIDE DEF body
  <2> QED BY <1>6
<1>8. worst_rc(v) = u[L]
  BY DEF worst_rc
<1> HIDE DEF u
<1>9. u[0] = 0 /\ \A i \in 1..L : u[i] = Worse(u[i - 1], v[i])
  <2> HIDE DEF Worse
  <2> QED BY <1>1, <1>7
<1> HIDE DEF body, Worse
<1> DEFINE Good(n) == /\ u[n] \in S
                      /\ \A i \in 1..n : v[i] <= u[n]
                      /\ u[n] = 0 \/ \E i \in 1..n : v[i] = u[n]
           P == {n \in Nat : n <= L => Good(n)}
<1>10. 0 \in P
  BY <1>9
<1>11. ASSUME NEW n \in Nat, n \in P
       PROVE  n + 1 \in P
  <2>1. SUFFICES ASSUME n + 1 <= L
                 PROVE  Good(n + 1)
    OBVIOUS
  <2>2. n <= L /\ n + 1 \in 1..L /\ (n + 1) - 1 = n
    BY <1>1, <2>1
  <2>3. Good(n)
    BY <1>11, <2>2
  <2>4. u[n + 1] = Worse(u[n], v[n + 1])
    BY <1>9, <2>2
  <2>5. u[n + 1] \in S /\ u[n + 1] = IF u[n] >= v[n + 1] THEN u[n] ELSE v[n + 1]
    BY <1>1, <1>2, <2>2, <2>3, <2>4
  <2>6. \A i \in 1..(n + 1) : i \in 1..n \/ i = n + 1
    OBVIOUS
  <2>7. \A i \in 1..n : v[i] \in S
    BY <1>1, <2>2
  <2>8. \A i \in 1..(n + 1) : v[i] <= u[n + 1]
    BY <1>1, <2>2, <2>3, <2>5, <2>6, <2>7
  <2>9. u[n + 1] = 0 \/ \E i \in 1..(n + 1) : v[i] = u[n + 1]
    <3>1. \A i \in 1..n : i \in 1..(n + 1)
      OBVIOUS
    <3>2. n + 1 \in 1..(n + 1)
      OBVIOUS
    <3> QED BY <2>3, <2>5, <3>1, <3>2
  <2> QED BY <2>5, <2>8, <2>9
<1>12. L \in P
  <2> HIDE DEF P
  <2> QED BY <1>1, <1>10, <1>11, NumbersByInduction
<1>13. Good(L)
  BY <1>1, <1>12
<1> DEFINE M == {0} \union {v[i] : i \in DOMAIN v}
<1>14. u[L] \in M /\ \A y \in M : u[L] >= y /\ y \in Int
  BY <1>1, <1>13
<1>15. \A x \in M : (\A y \in M : x >= y) => x = u[L]
  <2> HIDE DEF M
  <2>1. u[L] \in Int
    BY <1>14
  <2> QED BY <1>14, <2>1
<1>16. Max(M) = u[L]
  <2> HIDE DEF M
  <2> QED BY <1>14, <1>15 DEF Max
<1> QED BY <1>8, <1>13, <1>16

-----------------------------------------------------------------------------
\* The types of a step that changes the variables of a writer's loop.
DomainRecs == [global : Nat, sync : Nat, completed : Nat, retired : [Epochs -> Nat]]
ReportRecs == [ok : Nat, timeouts : Nat, max_streak : Nat, failed : BOOLEAN]
Results == [capped : BOOLEAN, totals : Counts, drained : BOOLEAN, backlog : Int, verdict : 0..3]

LEMMA WriterTypes ==
    ASSUME ProbeTypes, OnlyWriter, WritersTyped', domain' \in DomainRecs, counters' \in Counts,
           reports' \in [ProbeWriters -> ReportRecs], noted' \in Nat
    PROVE  ProbeTypes'
  BY DEF ProbeTypes, OnlyWriter, WritersTyped, Recs, Pcs, DomainRecs, ReportRecs

LEMMA MainTypes ==
    ASSUME ProbeTypes, OnlyMain, domain' \in DomainRecs, counters' = counters, running' \in BOOLEAN,
           result' \in Results, stage' \in {"parent", "window", "join", "drain", "judge", "done"}
    PROVE  ProbeTypes'
  BY DEF ProbeTypes, OnlyMain, DomainRecs, Results

LEMMA ProbeTypesInit == ProbeInit => ProbeTypes
<1> SUFFICES ASSUME ProbeInit PROVE ProbeTypes
  OBVIOUS
<1>1. NoCall \in ProbeCalls /\ NoCounts \in Counts /\ NoReport \in ReportRecs
  BY CallsTyped DEF NoCall, NoCounts, Counts, NoReport, ReportRecs
<1>2. NoResult \in Results
  BY <1>1 DEF NoResult, Results
<1>3. WritersTyped
  <2> DEFINE r == [pc |-> CASE mode = "raw" -> "loop" [] mode = "reload" -> "load" [] OTHER -> "done",
                   local |-> Zeroes, calls |-> 0, streak |-> 0, loaded |-> FALSE, call |-> NoCall]
  <2>1. r \in Recs
    <3> DEFINE p == CASE mode = "raw" -> "loop" [] mode = "reload" -> "load" [] OTHER -> "done"
    <3>1. p \in Pcs
      BY DEF ProbeInit, Pcs
    <3> HIDE DEF p
    <3>2. [pc |-> p, local |-> Zeroes, calls |-> 0, streak |-> 0, loaded |-> FALSE, call |-> NoCall] \in Recs
      BY <1>1, <3>1, ZeroesTyped DEF Recs
    <3> QED BY <3>2 DEF p
  <2>2. writer = [w \in ProbeWriters |-> r]
    BY DEF ProbeInit
  <2> HIDE DEF r
  <2> QED BY <2>1, <2>2 DEF WritersTyped
<1>4. domain \in DomainRecs
  BY ZeroesTyped DEF ProbeInit, DomainRecs
<1>5. parent \in [verdicts : Seq(0..3), rc : Nat]
  BY DEF ProbeInit
<1> QED BY <1>1, <1>2, <1>3, <1>4, <1>5
        DEF ProbeInit, ProbeTypes, WritersTyped, Recs, Pcs, DomainRecs, ReportRecs, Results, reset_stats

LEMMA ProbeTypesStep ==
    ASSUME ProbeTypes, [ProbeNext]_probeVars
    PROVE  ProbeTypes'
<1>1. /\ WritersTyped /\ domain \in DomainRecs /\ counters \in Counts
      /\ reports \in [ProbeWriters -> ReportRecs] /\ noted \in Nat /\ result \in Results
      /\ clock \in Nat
  BY DEF ProbeTypes, WritersTyped, Recs, Pcs, DomainRecs, ReportRecs, Results
<1>2. CASE UNCHANGED probeVars
  BY <1>2 DEF ProbeTypes, probeVars
<1>3. CASE RunChild
  <2>1. PICK line \in {print_result_line(v) : v \in 0..3} \union {NoLine} :
           LET r == parse_result_line(line)
               all == Append(parent.verdicts, r.verdict)
           IN parent' = IF r.got THEN [verdicts |-> all, rc |-> worst_rc(all)] ELSE [parent EXCEPT !.rc = 64]
    BY <1>3 DEF RunChild
  <2>2. parse_result_line(line).verdict \in 0..3
    BY DEF parse_result_line, print_result_line, NoLine
  <2>3. parent' \in [verdicts : Seq(0..3), rc : Nat]
    <3> DEFINE all == Append(parent.verdicts, parse_result_line(line).verdict)
    <3>1. parent \in [verdicts : Seq(0..3), rc : Nat]
      BY DEF ProbeTypes
    <3>2. all \in Seq(0..3)
      BY <2>2, <3>1
    <3>3. worst_rc(all) \in Nat
      <4>1. worst_rc(all) \in 0..3
        BY <3>2, WorstIsMax
      <4> QED BY <4>1
    <3> HIDE DEF all
    <3>4. parent' = [verdicts |-> all, rc |-> worst_rc(all)] \/ parent' = [parent EXCEPT !.rc = 64]
      BY <2>1 DEF all
    <3> QED BY <3>1, <3>2, <3>3, <3>4
  <2> QED BY <1>3, <2>3 DEF ProbeTypes, RunChild
<1>4. CASE Tick
  BY <1>4 DEF ProbeTypes, Tick
<1>5. ASSUME NEW r \in ProbeReaders, ReaderEnter(r) \/ ReaderExit(r)
      PROVE  ProbeTypes'
  <2>1. inside' \in [ProbeReaders -> Nat]
    BY <1>1, <1>5 DEF ProbeTypes, ReaderEnter, ReaderExit, DomainRecs
  <2> QED BY <1>5, <2>1 DEF ProbeTypes, ReaderEnter, ReaderExit
<1>6. CASE Sample \/ WindowEnds
  <2>1. result' \in Results
    BY <1>1, <1>6 DEF Sample, WindowEnds, Results
  <2> QED BY <1>1, <1>6, <2>1, MainTypes DEF Sample, WindowEnds
<1>7. CASE Join
  <2>1. result' \in Results
    BY <1>1, <1>7 DEF Join, Results, stats
  <2> QED BY <1>1, <1>7, <2>1, MainTypes DEF Join, ProbeTypes
<1>8. CASE Drain
  <2> DEFINE proven == domain.sync = 0 /\ readers_passed(domain.global)
             left == IF proven THEN Collected(domain.retired, domain.global) ELSE domain.retired
  <2>1. left \in [Epochs -> Nat]
    BY <1>1 DEF Collected, Epochs, DomainRecs
  <2>2. Tally(left) \in Int
    BY <2>1, TallyType
  <2>3. /\ domain' = IF proven THEN [domain EXCEPT !.global = @ + 1, !.completed = domain.global, !.retired = left]
                     ELSE domain
        /\ result' = [result EXCEPT !.drained = proven, !.backlog = Tally(left)]
    BY <1>8 DEF Drain
  <2>4. proven \in BOOLEAN
    BY DEF readers_passed
  <2> HIDE DEF left, proven
  <2>5. domain' \in DomainRecs
    <3>1. domain.global + 1 \in Nat /\ domain.global \in Nat
      BY <1>1 DEF DomainRecs
    <3> QED BY <1>1, <2>1, <2>3, <3>1 DEF DomainRecs
  <2>6. result' \in Results
    BY <1>1, <2>2, <2>3, <2>4 DEF Results
  <2> QED BY <1>8, <2>5, <2>6, MainTypes DEF Drain, ProbeTypes
<1>9. CASE Judge
  <2>1. Verdict \in 0..3
    BY DEF Verdict
  <2>2. result' \in Results
    BY <1>1, <1>9, <2>1 DEF Judge, Results
  <2> QED BY <1>1, <1>9, <2>2, MainTypes DEF Judge, ProbeTypes
<1>10. ASSUME NEW w \in ProbeWriters, RawCall(w) \/ ReloadCall(w) \/ Unload(w)
       PROVE  ProbeTypes'
  <2>1. /\ OnlyWriter /\ UNCHANGED <<domain, counters, reports, noted>>
        /\ \E n \in Nat, last \in BOOLEAN : Call(w, n, last)
    BY <1>10 DEF RawCall, ReloadCall, Unload
  <2>2. WritersTyped'
    BY <2>1, EnterStep DEF NextOf
  <2> QED BY <1>1, <2>1, <2>2, WriterTypes
<1>11. ASSUME NEW w \in ProbeWriters, ReloadLoad(w)
       PROVE  ProbeTypes'
  <2>1. WritersTyped'
    <3>1. "done" \in Pcs
      BY DEF Pcs
    <3> QED BY <1>1, <1>11, <3>1, LoadStep, MoveStep DEF NextOf, ReloadLoad
  <2>2. reports' \in [ProbeWriters -> ReportRecs]
    BY <1>1, <1>11 DEF ReloadLoad, ReportRecs
  <2> QED BY <1>1, <1>11, <2>1, <2>2, WriterTypes DEF ReloadLoad
<1>12. ASSUME NEW w \in ProbeWriters, ReloadFails(w)
       PROVE  ProbeTypes'
  <2>1. WritersTyped'
    <3>1. "unload" \in Pcs
      BY DEF Pcs
    <3> QED BY <1>1, <1>12, <3>1, MoveStep DEF NextOf, ReloadFails
  <2>2. reports' \in [ProbeWriters -> ReportRecs]
    BY <1>1, <1>12 DEF ReloadFails, ReportRecs
  <2> QED BY <1>1, <1>12, <2>1, <2>2, WriterTypes DEF ReloadFails
<1>13. ASSUME NEW w \in ProbeWriters, LoopEnds(w)
       PROVE  ProbeTypes'
  <2>1. WritersTyped'
    <3> DEFINE p == IF mode = "raw" THEN "done" ELSE "unload"
    <3>1. p \in Pcs
      BY DEF Pcs
    <3>2. writer' = [writer EXCEPT ![w].pc = p]
      BY <1>13 DEF LoopEnds
    <3> HIDE DEF p
    <3> QED BY <1>1, <3>1, <3>2, MoveStep DEF NextOf
  <2> QED BY <1>1, <1>13, <2>1, WriterTypes DEF LoopEnds
<1>14. ASSUME NEW w \in ProbeWriters, RawReturned(w) \/ ReloadReturned(w)
       PROVE  ProbeTypes'
  <2>1. /\ OnlyWriter /\ UNCHANGED <<domain, counters, noted>>
        /\ \E elapsed \in BOOLEAN : Report(w, elapsed)
    BY <1>14 DEF RawReturned, ReloadReturned
  <2>2. PICK elapsed \in BOOLEAN : Report(w, elapsed)
    BY <2>1
  <2>3. WritersTyped'
    BY <1>1, <2>2, ReportStep DEF NextOf
  <2>4. reports' \in [ProbeWriters -> ReportRecs]
    <3> DEFINE streak == IF elapsed THEN writer[w].streak + 1 ELSE 0
               a == reports[w].ok + IF elapsed THEN 0 ELSE 1
               b == reports[w].timeouts + IF elapsed THEN 1 ELSE 0
               m == Max({reports[w].max_streak, streak})
    <3>1. a \in Nat /\ b \in Nat
      BY <1>1 DEF ReportRecs
    <3>2. streak \in Nat /\ reports[w].max_streak \in Nat
      BY <1>1, WriterFields DEF ReportRecs
    <3>3. m \in Nat
      <4> HIDE DEF streak
      <4>0. streak \in Int /\ reports[w].max_streak \in Int
        BY <3>2
      <4>1. m \in {reports[w].max_streak, streak}
        BY <4>0, MaxOfTwo
      <4> QED BY <3>2, <4>1
    <3>4. reports' = reports \/ reports' = [reports EXCEPT ![w].ok = a, ![w].timeouts = b, ![w].max_streak = m]
      BY <2>2 DEF Report
    <3> HIDE DEF a, b, m
    <3> QED BY <1>1, <3>1, <3>3, <3>4 DEF ReportRecs
  <2> QED BY <1>1, <2>1, <2>3, <2>4, WriterTypes
<1>15. ASSUME NEW w \in ProbeWriters, BeginAdvance(w) \/ LoseAdvance(w)
       PROVE  ProbeTypes'
  <2>1. WritersTyped'
    BY <1>1, <1>15, BeginStep, LoseStep DEF NextOf
  <2>2. Published(w) \in [Epochs -> Nat]
    <3>1. writer[w].local \in [Epochs -> Nat] /\ domain.retired \in [Epochs -> Nat]
      BY <1>1, WriterFields DEF DomainRecs
    <3>2. \A e \in Epochs : domain.retired[e] + writer[w].local[e] \in Nat
      BY <3>1
    <3> QED BY <3>2 DEF Published, Epochs
  <2>3. domain' \in DomainRecs
    <3>1. domain.global \in Nat /\ domain.global + 1 \in Nat
      BY <1>1 DEF DomainRecs
    <3> QED BY <1>1, <1>15, <2>2, <3>1 DEF BeginAdvance, LoseAdvance, DomainRecs
  <2>4. counters' \in Counts
    <3>1. counters.attempts + 1 \in Nat /\ counters.contentions + 1 \in Nat
      BY <1>1 DEF Counts
    <3> QED BY <1>1, <1>15, <3>1 DEF BeginAdvance, LoseAdvance, Counts
  <2> QED BY <1>1, <1>15, <2>1, <2>3, <2>4, WriterTypes DEF BeginAdvance, LoseAdvance
<1>16. ASSUME NEW w \in ProbeWriters, Lost(w)
       PROVE  ProbeTypes'
  <2>1. WritersTyped'
    BY <1>16, LostStep DEF NextOf
  <2>2. counters' \in Counts
    <3> DEFINE more == IF Expired(w) THEN 1 ELSE 0
    <3>1. more \in Nat /\ counters' = [counters EXCEPT !.retries = @ + 1, !.timeouts = @ + more]
      BY <1>16 DEF Lost
    <3> HIDE DEF more
    <3>2. counters.retries + 1 \in Nat /\ counters.timeouts + more \in Nat
      BY <1>1, <3>1 DEF Counts
    <3> QED BY <1>1, <3>1, <3>2 DEF Counts
  <2> QED BY <1>1, <1>16, <2>1, <2>2, WriterTypes DEF Lost
<1>17. ASSUME NEW w \in ProbeWriters, NoteLoad(w)
       PROVE  ProbeTypes'
  BY <1>1, <1>17, NoteLoadStep, WriterTypes DEF NextOf, NoteLoad
<1>18. ASSUME NEW w \in ProbeWriters, NoteCas(w)
       PROVE  ProbeTypes'
  <2>1. WritersTyped'
    BY <1>18, NoteCasStep DEF NextOf
  <2>2. My(w).sample \in Int /\ My(w).observed \in Nat
    BY <1>1, WriterFields DEF ProbeCalls
  <2>3. counters' \in Counts
    <3>1. counters' = counters \/ (My(w).sample > My(w).observed /\ counters' = [counters EXCEPT !.max_wait = My(w).sample])
      BY <1>18 DEF NoteCas
    <3>2. My(w).sample > My(w).observed => My(w).sample \in Nat
      BY <2>2
    <3> QED BY <1>1, <3>1, <3>2 DEF Counts
  <2>4. noted' \in Nat
    <3>1. noted' = noted \/ noted' = Max({noted, My(w).sample})
      BY <1>18 DEF NoteCas
    <3>2. /\ Max({noted, My(w).sample}) \in {noted, My(w).sample}
          /\ Max({noted, My(w).sample}) >= noted
      <4>1. noted \in Int
        BY <1>1
      <4> QED BY <2>2, <4>1, MaxOfTwo
    <3> QED BY <1>1, <2>2, <3>1, <3>2
  <2> QED BY <1>1, <1>18, <2>1, <2>3, <2>4, WriterTypes DEF NoteCas
<1>19. ASSUME NEW w \in ProbeWriters, Proven(w) \/ GraceTimeout(w)
       PROVE  ProbeTypes'
  <2>1. WritersTyped'
    <3>1. \E proven \in BOOLEAN : writer' = [writer EXCEPT ![w].call = Live(w, proven), ![w].pc = "return"]
      BY <1>19 DEF Proven, GraceTimeout
    <3> QED BY <1>1, <3>1, ReturnStep DEF NextOf
  <2>2. domain' \in DomainRecs
    <3>1. My(w).old \in Nat /\ domain.completed \in Nat
      BY <1>1, WriterFields DEF ProbeCalls, DomainRecs
    <3>2. Max({domain.completed, My(w).old}) \in Nat
      <4>0. domain.completed \in Int /\ My(w).old \in Int
        BY <3>1
      <4>1. Max({domain.completed, My(w).old}) \in {domain.completed, My(w).old}
        BY <4>0, MaxOfTwo
      <4> QED BY <3>1, <4>1
    <3>3. Collected(domain.retired, My(w).old) \in [Epochs -> Nat]
      BY <1>1 DEF Collected, Epochs, DomainRecs
    <3> DEFINE m == Max({domain.completed, My(w).old})
               k == Collected(domain.retired, My(w).old)
    <3>4. domain' = [domain EXCEPT !.sync = 0, !.completed = m, !.retired = k] \/ domain' = [domain EXCEPT !.sync = 0]
      BY <1>19 DEF Proven, GraceTimeout
    <3>5. m \in Nat /\ k \in [Epochs -> Nat]
      BY <3>2, <3>3
    <3> HIDE DEF m, k
    <3>6. domain \in DomainRecs /\ 0 \in Nat
      BY <1>1
    <3>7. CASE domain' = [domain EXCEPT !.sync = 0]
      BY ONLY <3>6, <3>7 DEF DomainRecs
    <3>8. CASE domain' = [domain EXCEPT !.sync = 0, !.completed = m, !.retired = k]
      BY ONLY <3>5, <3>6, <3>8 DEF DomainRecs
    <3> QED BY <3>4, <3>7, <3>8
  <2>3. counters' \in Counts
    <3>1. counters.grace + 1 \in Nat
      BY <1>1 DEF Counts
    <3> QED BY <1>1, <1>19, <3>1 DEF Proven, GraceTimeout, Counts
  <2> QED BY <1>1, <1>19, <2>1, <2>2, <2>3, WriterTypes DEF Proven, GraceTimeout
<1> QED BY <1>2, <1>3, <1>4, <1>5, <1>6, <1>7, <1>8, <1>9, <1>10, <1>11, <1>12, <1>13, <1>14, <1>15, <1>16,
           <1>17, <1>18, <1>19 DEF ProbeNext

-----------------------------------------------------------------------------
\* What the step of one writer must show for each invariant.
OthersStay(w) == \A x \in ProbeWriters : x # w => writer'[x] = writer[x]

LEMMA StagesByWriter ==
    ASSUME StagesInv, ProbeTypes, NEW w \in ProbeWriters, OnlyWriter, OthersStay(w), ~At(w, "done"),
           mode = "raw" => ~At(w, "load")' /\ ~At(w, "unload")' /\ ~writer'[w].loaded /\ ~My(w)'.last,
           mode = "reload" => /\ At(w, "load")' => ~writer'[w].loaded
                              /\ At(w, "load")' \/ At(w, "done")' \/ writer'[w].loaded
    PROVE  StagesInv'
<1>1. \A x \in ProbeWriters : x # w => writer'[x] = writer[x] /\ My(x)' = My(x) /\ (At(x, "done")' <=> At(x, "done"))
                                     /\ (At(x, "load")' <=> At(x, "load")) /\ (At(x, "unload")' <=> At(x, "unload"))
  BY DEF OthersStay, My, At
<1>2. mode' = mode /\ stage' = stage /\ running' = running /\ mode # "parent"
  BY DEF OnlyWriter, StagesInv
<1>3. running' => stage' = "window"
  BY <1>2 DEF StagesInv
<1>4. stage' \notin {"drain", "judge", "done"}
  BY <1>2 DEF StagesInv
<1>5. mode' = "raw" => \A x \in ProbeWriters :
         ~At(x, "load")' /\ ~At(x, "unload")' /\ ~writer'[x].loaded /\ ~My(x)'.last
  BY <1>1, <1>2 DEF StagesInv
<1>6. mode' = "reload" => \A x \in ProbeWriters :
         (At(x, "load")' => ~writer'[x].loaded) /\ (At(x, "load")' \/ At(x, "done")' \/ writer'[x].loaded)
  BY <1>1, <1>2 DEF StagesInv
<1> QED BY <1>2, <1>3, <1>4, <1>5, <1>6 DEF StagesInv

LEMMA DeadlinesByWriter ==
    ASSUME DeadlinesInv, NEW w \in ProbeWriters, OnlyWriter, OthersStay(w),
           mode = "reload" =>
              /\ writer'[w].pc \in InCall \ {"return"} => My(w)'.until = My(w)'.start + DeadlineTicks
              /\ writer'[w].pc \in {"note", "cas"} /\ ~My(w)'.owner => clock >= My(w)'.until
              /\ At(w, "return")' /\ ~My(w)'.proven => clock - My(w)'.start >= DeadlineTicks
    PROVE  DeadlinesInv'
  BY DEF DeadlinesInv, OnlyWriter, OthersStay, At, My, Expired, InCall

LEMMA HandshakeByWriter ==
    ASSUME HandshakeInv, ProbeTypes, NEW w \in ProbeWriters, OthersStay(w),
           \/ domain'.sync = domain.sync /\ (My(w)'.owner <=> My(w).owner)
           \/ domain.sync = 0 /\ domain'.sync # 0 /\ My(w)'.owner
           \/ My(w).owner /\ domain'.sync = 0 /\ ~My(w)'.owner,
           My(w)'.owner => writer'[w].pc \in {"note", "cas", "poll"},
           At(w, "poll")' => My(w)'.owner,
           My(w)'.proven => At(w, "return")'
    PROVE  HandshakeInv'
<1>1. \A x \in ProbeWriters : x # w => My(x)' = My(x) /\ writer'[x].pc = writer[x].pc
  BY DEF OthersStay, My
<1>2. domain'.sync # 0 <=> \E x \in ProbeWriters : My(x)'.owner
  BY <1>1 DEF HandshakeInv
<1>3. \A x, y \in ProbeWriters : My(x)'.owner /\ My(y)'.owner => x = y
  BY <1>1 DEF HandshakeInv
<1>4. \A x \in ProbeWriters : /\ My(x)'.owner => writer'[x].pc \in {"note", "cas", "poll"}
                              /\ At(x, "poll")' => My(x)'.owner
                              /\ My(x)'.proven => At(x, "return")'
  BY <1>1 DEF HandshakeInv, At
<1> QED BY <1>2, <1>3, <1>4 DEF HandshakeInv

LEMMA NodesByWriter ==
    ASSUME NodesInv, ProbeTypes, StagesInv, NEW w \in ProbeWriters, OnlyWriter, OthersStay(w), ~At(w, "done"),
           domain'.global \in Nat, domain'.global >= domain.global,
           \A e \in Epochs : e > domain'.global => domain'.retired[e] = 0 /\ writer'[w].local[e] = 0,
           ~At(w, "try")' => writer'[w].local = Zeroes
    PROVE  NodesInv'
<1>1. domain.global \in Nat
  BY DEF ProbeTypes
<1>2. stage' \notin {"judge", "done"}
  BY DEF StagesInv, OnlyWriter
<1>3. \A x \in ProbeWriters : ~At(x, "try")' => writer'[x].local = Zeroes
  BY DEF NodesInv, OthersStay, At
<1>4. \A e \in Epochs : e \in Int
  BY EpochsFinite DEF Epochs
<1>5. ASSUME NEW e \in Epochs, e > domain'.global, NEW x \in ProbeWriters
      PROVE  writer'[x].local[e] = 0
  <2>1. e > domain.global
    BY <1>1, <1>4, <1>5
  <2> QED BY <1>5, <2>1 DEF NodesInv, OthersStay
<1> QED BY <1>1, <1>2, <1>3, <1>5 DEF NodesInv

LEMMA CallsByWriter ==
    ASSUME CallsInv, NEW w \in ProbeWriters, OthersStay(w),
           writer'[w].calls <= MaxProbeCalls + 1,
           \/ At(w, "done")'
           \/ writer'[w].pc \in InCall /\ My(w)'.last
           \/ writer'[w].calls <= MaxProbeCalls
    PROVE  CallsInv'
  BY DEF CallsInv, OthersStay, At, My

LocalInv == StagesInv /\ DeadlinesInv /\ HandshakeInv /\ NodesInv /\ CallsInv

LEMMA MoreTypes ==
    ASSUME ProbeTypes
    PROVE  /\ WritersTyped /\ clock \in Nat /\ domain.global \in Nat /\ domain.sync \in Nat
           /\ domain.retired \in [Epochs -> Nat] /\ MaxProbeCalls \in Nat /\ DeadlineTicks \in Nat
           /\ \A w \in ProbeWriters :
                 /\ writer[w].pc \in Pcs /\ writer[w].local \in [Epochs -> Nat] /\ writer[w].calls \in Nat
                 /\ writer[w].loaded \in BOOLEAN
                 /\ My(w).last \in BOOLEAN /\ My(w).start \in Nat /\ My(w).until \in Nat
                 /\ My(w).owner \in BOOLEAN /\ My(w).proven \in BOOLEAN
           /\ \A e \in Epochs : e \in Nat
<1>1. WritersTyped
  BY DEF ProbeTypes, WritersTyped, Recs, Pcs
<1>2. \A w \in ProbeWriters : My(w) \in ProbeCalls
  BY <1>1, WriterFields
<1>3. \A w \in ProbeWriters :
         /\ My(w).last \in BOOLEAN /\ My(w).start \in Nat /\ My(w).until \in Nat
         /\ My(w).owner \in BOOLEAN /\ My(w).proven \in BOOLEAN
  BY <1>2 DEF ProbeCalls
<1>4. \A e \in Epochs : e \in Nat
  BY EpochsFinite DEF Epochs
<1>5. MaxProbeCalls \in Nat /\ DeadlineTicks \in Nat
  BY ProbeAssumption
<1> QED BY <1>1, <1>3, <1>4, <1>5, WriterFields DEF ProbeTypes

-----------------------------------------------------------------------------
\* The steps of a writer, one after another.
LEMMA CallKeeps ==
    ASSUME ProbeTypes, LocalInv, NEW w \in ProbeWriters,
           \/ RawCall(w)
           \/ ReloadCall(w)
           \/ Unload(w)
    PROVE  LocalInv'
<1>1. PICK n \in Nat, last \in BOOLEAN : Call(w, n, last) /\ (last <=> At(w, "unload"))
  BY DEF RawCall, ReloadCall, Unload, At
<1>2. /\ OnlyWriter /\ UNCHANGED domain
      /\ writer[w].pc \in {"loop", "unload"}
      /\ At(w, "loop") => writer[w].calls + 1 <= MaxProbeCalls
  <2>1. writer[w].calls \in Nat /\ MaxProbeCalls \in Nat
    BY MoreTypes
  <2>2. At(w, "loop") => writer[w].calls + 1 <= MaxProbeCalls
    <3>1. At(w, "unload") \/ writer[w].calls < MaxProbeCalls \/ writer[w].calls + 1 < MaxProbeCalls
      BY DEF RawCall, ReloadCall, Unload
    <3> QED BY <2>1, <3>1 DEF At
  <2> QED BY <2>2 DEF RawCall, ReloadCall, Unload, At
<1>3. StepOf(w, "try", [writer[w].local EXCEPT ![domain.global] = @ + n], writer[w].calls + 1, writer[w].loaded,
             last, clock, CallDeadline, FALSE, FALSE)
  BY <1>1, CallViewed
<1> DEFINE l == [writer[w].local EXCEPT ![domain.global] = @ + n]
<1>4. \A e \in Epochs : e > domain.global => l[e] = writer[w].local[e]
  BY MoreTypes
<1> HIDE DEF l
<1>5. /\ OthersStay(w) /\ At(w, "try")' /\ writer'[w].pc = "try" /\ writer'[w].local = l
      /\ writer'[w].calls = writer[w].calls + 1 /\ writer'[w].loaded = writer[w].loaded
      /\ My(w)'.last = last /\ My(w)'.start = clock /\ My(w)'.until = CallDeadline
      /\ ~My(w)'.owner /\ ~My(w)'.proven
  BY <1>3 DEF StepOf, OthersStay, At, l
<1>6. ~At(w, "done") /\ ~At(w, "load") /\ ~My(w).owner
  BY <1>2 DEF At, LocalInv, HandshakeInv
<1>7. StagesInv'
  BY <1>1, <1>2, <1>5, <1>6, StagesByWriter DEF LocalInv, StagesInv, At
<1>8. DeadlinesInv'
  BY <1>2, <1>5, DeadlinesByWriter DEF LocalInv, At, InCall, CallDeadline
<1>9. HandshakeInv'
  BY <1>2, <1>5, <1>6, HandshakeByWriter DEF LocalInv, At
<1>10. NodesInv'
  <2>1. domain'.global \in Nat /\ domain'.global >= domain.global
    BY <1>2, MoreTypes
  <2>2. \A e \in Epochs : e > domain'.global => domain'.retired[e] = 0 /\ writer'[w].local[e] = 0
    BY <1>2, <1>4, <1>5 DEF LocalInv, NodesInv
  <2> QED BY <1>2, <1>5, <1>6, <2>1, <2>2, NodesByWriter DEF LocalInv
<1>11. CallsInv'
  <2>1. writer[w].calls \in Nat /\ MaxProbeCalls \in Nat
    BY MoreTypes
  <2>2. writer[w].calls <= MaxProbeCalls
    BY <1>2 DEF LocalInv, CallsInv, At, InCall
  <2>3. writer[w].calls + 1 <= MaxProbeCalls + 1
    BY <2>1, <2>2
  <2>4. last \/ writer[w].calls + 1 <= MaxProbeCalls
    BY <1>1, <1>2 DEF At
  <2> QED BY <1>5, <2>3, <2>4, CallsByWriter DEF LocalInv, InCall
<1> QED BY <1>7, <1>8, <1>9, <1>10, <1>11 DEF LocalInv

\* The steps that move a writer and leave its call and the domain alone.
LEMMA MoveKeeps ==
    ASSUME ProbeTypes, LocalInv, NEW w \in ProbeWriters, NEW p, NEW d \in BOOLEAN,
           StepOf(w, p, writer[w].local, writer[w].calls, d,
                  My(w).last, My(w).start, My(w).until, My(w).owner, My(w).proven),
           OnlyWriter, UNCHANGED domain,
           ~At(w, "done"), ~At(w, "try") \/ writer[w].local = Zeroes,
           p = "poll" => My(w).owner,
           My(w).owner => p \in {"note", "cas", "poll"},
           My(w).proven => p = "return",
           mode = "raw" => p # "load" /\ p # "unload" /\ ~d,
           mode = "reload" => p # "load" /\ (p = "done" \/ d),
           mode = "reload" =>
              /\ p \in InCall \ {"return"} => writer[w].pc \in InCall \ {"return"}
              /\ p \in {"note", "cas"} /\ ~My(w).owner => clock >= My(w).until
              /\ p = "return" /\ ~My(w).proven => clock - My(w).start >= DeadlineTicks,
           writer[w].pc \in InCall => p \in InCall
    PROVE  LocalInv'
<1>5. /\ OthersStay(w) /\ writer'[w].pc = p /\ writer'[w].local = writer[w].local
      /\ writer'[w].calls = writer[w].calls /\ writer'[w].loaded = d
      /\ (My(w)'.last = My(w).last) /\ My(w)'.start = My(w).start /\ My(w)'.until = My(w).until
      /\ (My(w)'.owner = My(w).owner) /\ (My(w)'.proven = My(w).proven)
  BY DEF StepOf, OthersStay
<1>6. \A q : At(w, q)' <=> p = q
  BY <1>5 DEF At
<1>7. StagesInv'
  <2>1. mode = "raw" => ~At(w, "load")' /\ ~At(w, "unload")' /\ ~writer'[w].loaded /\ ~My(w)'.last
    BY <1>5, <1>6 DEF LocalInv, StagesInv
  <2>2. mode = "reload" => /\ At(w, "load")' => ~writer'[w].loaded
                           /\ At(w, "load")' \/ At(w, "done")' \/ writer'[w].loaded
    BY <1>5, <1>6
  <2> QED BY <1>5, <2>1, <2>2, StagesByWriter DEF LocalInv
<1>8. DeadlinesInv'
  <2>1. mode = "reload" =>
              /\ writer'[w].pc \in InCall \ {"return"} => My(w)'.until = My(w)'.start + DeadlineTicks
              /\ writer'[w].pc \in {"note", "cas"} /\ ~My(w)'.owner => clock >= My(w)'.until
              /\ At(w, "return")' /\ ~My(w)'.proven => clock - My(w)'.start >= DeadlineTicks
    BY <1>5, <1>6 DEF LocalInv, DeadlinesInv
  <2> QED BY <1>5, <2>1, DeadlinesByWriter DEF LocalInv
<1>9. HandshakeInv'
  <2>1. domain'.sync = domain.sync /\ (My(w)'.owner <=> My(w).owner)
    BY <1>5
  <2> QED BY <1>5, <1>6, <2>1, HandshakeByWriter DEF LocalInv
<1>10. NodesInv'
  <2>1. domain'.global \in Nat /\ domain'.global >= domain.global
    BY MoreTypes
  <2>2. \A e \in Epochs : e > domain'.global => domain'.retired[e] = 0 /\ writer'[w].local[e] = 0
    BY <1>5 DEF LocalInv, NodesInv
  <2>3. ~At(w, "try")' => writer'[w].local = Zeroes
    BY <1>5, <1>6 DEF LocalInv, NodesInv
  <2> QED BY <1>5, <2>1, <2>2, <2>3, NodesByWriter DEF LocalInv
<1>11. CallsInv'
  <2>1. \/ At(w, "done")'
        \/ writer'[w].pc \in InCall /\ My(w)'.last
        \/ writer'[w].calls <= MaxProbeCalls
    BY <1>5, <1>6 DEF LocalInv, CallsInv
  <2>2. writer'[w].calls <= MaxProbeCalls + 1
    BY <1>5 DEF LocalInv, CallsInv
  <2> QED BY <1>5, <2>1, <2>2, CallsByWriter DEF LocalInv
<1> QED BY <1>7, <1>8, <1>9, <1>10, <1>11 DEF LocalInv

LEMMA LoopKeeps ==
    ASSUME ProbeTypes, LocalInv, NEW w \in ProbeWriters,
           ReloadLoad(w) \/ ReloadFails(w) \/ LoopEnds(w)
    PROVE  LocalInv'
<1>0. writer[w].pc \in {"load", "loop"} /\ ~At(w, "done") /\ ~At(w, "try") /\ OnlyWriter /\ UNCHANGED domain
  BY DEF ReloadLoad, ReloadFails, LoopEnds, At
<1>1. /\ ~My(w).owner /\ ~My(w).proven /\ writer[w].local = Zeroes /\ mode # "parent"
      /\ mode = "raw" => ~At(w, "load") /\ ~writer[w].loaded
      /\ mode = "reload" => At(w, "load") \/ writer[w].loaded
      /\ writer[w].pc \notin InCall
  BY <1>0 DEF LocalInv, HandshakeInv, NodesInv, StagesInv, At, InCall
<1>2. WritersTyped /\ writer[w].loaded \in BOOLEAN
  BY MoreTypes
<1>3. \E p \in {"loop", "done", "unload"}, d \in BOOLEAN :
         /\ StepOf(w, p, writer[w].local, writer[w].calls, d,
                   My(w).last, My(w).start, My(w).until, My(w).owner, My(w).proven)
         /\ mode = "raw" => p # "unload" /\ ~d
         /\ mode = "reload" => p = "done" \/ d
  <2>1. CASE ReloadLoad(w)
    <3>1. mode # "raw"
      BY <1>1, <2>1 DEF ReloadLoad
    <3>2. CASE writer' = [writer EXCEPT ![w].pc = "loop", ![w].loaded = TRUE]
      BY <1>2, <3>1, <3>2, LoadViewed
    <3>3. CASE writer' = [writer EXCEPT ![w].pc = "done"]
      <4>1. "done" \in Pcs
        BY DEF Pcs
      <4> QED BY <1>2, <3>1, <3>3, <4>1, MoveViewed
    <3> QED BY <2>1, <3>2, <3>3 DEF ReloadLoad
  <2>2. CASE ReloadFails(w)
    <3>1. mode = "reload" /\ writer[w].loaded
      BY <1>1, <2>2 DEF ReloadFails, At
    <3>2. "unload" \in Pcs
      BY DEF Pcs
    <3> QED BY <1>2, <2>2, <3>1, <3>2, MoveViewed DEF ReloadFails
  <2>3. CASE LoopEnds(w)
    <3>1. mode = "reload" => writer[w].loaded
      BY <1>1, <2>3 DEF LoopEnds, At
    <3>2. CASE mode = "raw"
      <4>1. "done" \in Pcs
        BY DEF Pcs
      <4> QED BY <1>1, <1>2, <2>3, <3>2, <4>1, MoveViewed DEF LoopEnds
    <3>3. CASE mode # "raw"
      <4>1. "unload" \in Pcs
        BY DEF Pcs
      <4> QED BY <1>2, <2>3, <3>1, <3>3, <4>1, MoveViewed DEF LoopEnds
    <3> QED BY <3>2, <3>3
  <2> QED BY <2>1, <2>2, <2>3
<1>4. PICK p \in {"loop", "done", "unload"}, d \in BOOLEAN :
         /\ StepOf(w, p, writer[w].local, writer[w].calls, d,
                   My(w).last, My(w).start, My(w).until, My(w).owner, My(w).proven)
         /\ mode = "raw" => p # "unload" /\ ~d
         /\ mode = "reload" => p = "done" \/ d
  BY <1>3
<1>5. p \notin InCall /\ p # "load"
  BY DEF InCall
<1> QED BY <1>0, <1>1, <1>4, <1>5, MoveKeeps DEF InCall

LEMMA NoteKeeps ==
    ASSUME ProbeTypes, LocalInv, NEW w \in ProbeWriters,
           Lost(w) \/ NoteLoad(w) \/ NoteCas(w)
    PROVE  LocalInv'
<1>0. writer[w].pc \in {"lost", "note", "cas"} /\ ~At(w, "done") /\ ~At(w, "try") /\ OnlyWriter /\ UNCHANGED domain
  BY DEF Lost, NoteLoad, NoteCas, At
<1>1. /\ ~My(w).proven /\ mode # "parent" /\ (At(w, "lost") => ~My(w).owner)
      /\ mode = "raw" => ~writer[w].loaded
      /\ mode = "reload" => writer[w].loaded
      /\ writer[w].pc \in InCall \ {"return"}
      /\ writer[w].loaded \in BOOLEAN
  BY <1>0, MoreTypes DEF LocalInv, HandshakeInv, NodesInv, StagesInv, At, InCall
<1>2. /\ clock \in Nat /\ My(w).until \in Nat /\ My(w).start \in Nat /\ DeadlineTicks \in Nat
      /\ mode = "reload" => My(w).until = My(w).start + DeadlineTicks
      /\ mode = "reload" /\ ~My(w).owner /\ ~At(w, "lost") => clock >= My(w).until
  BY <1>0, <1>1, MoreTypes DEF LocalInv, DeadlinesInv, Expired, At
<1>3. \E p \in {"note", "try", "cas", "poll", "return"} :
         /\ StepOf(w, p, writer[w].local, writer[w].calls, writer[w].loaded,
                   My(w).last, My(w).start, My(w).until, My(w).owner, My(w).proven)
         /\ My(w).owner => p \in {"note", "cas", "poll"}
         /\ p = "poll" => My(w).owner
         /\ mode = "reload" /\ ~My(w).owner /\ p # "try" => clock >= My(w).until
  <2>1. CASE Lost(w)
    <3>1. ~My(w).owner
      BY <1>1, <2>1 DEF Lost
    <3> QED BY <2>1, <3>1, LostViewed DEF Expired
  <2>2. CASE NoteLoad(w)
    <3>1. ~At(w, "lost")
      BY <2>2 DEF NoteLoad, At
    <3> QED BY <1>2, <2>2, <3>1, NoteLoadViewed
  <2>3. CASE NoteCas(w)
    <3>1. ~At(w, "lost")
      BY <2>3 DEF NoteCas, At
    <3> QED BY <1>2, <2>3, <3>1, NoteCasViewed DEF AfterNote
  <2> QED BY <2>1, <2>2, <2>3
<1>4. PICK p \in {"note", "try", "cas", "poll", "return"} :
         /\ StepOf(w, p, writer[w].local, writer[w].calls, writer[w].loaded,
                   My(w).last, My(w).start, My(w).until, My(w).owner, My(w).proven)
         /\ My(w).owner => p \in {"note", "cas", "poll"}
         /\ p = "poll" => My(w).owner
         /\ mode = "reload" /\ ~My(w).owner /\ p # "try" => clock >= My(w).until
  BY <1>3
<1>5. p \in InCall /\ p \notin {"load", "unload", "done"}
  BY DEF InCall
<1>6. mode = "reload" =>
              /\ p \in {"note", "cas"} /\ ~My(w).owner => clock >= My(w).until
              /\ p = "return" /\ ~My(w).proven => clock - My(w).start >= DeadlineTicks
  BY <1>2, <1>4
<1> QED BY <1>0, <1>1, <1>4, <1>5, <1>6, MoveKeeps

LEMMA ReportKeeps ==
    ASSUME ProbeTypes, LocalInv, NEW w \in ProbeWriters,
           RawReturned(w) \/ ReloadReturned(w)
    PROVE  LocalInv'
<1>0. At(w, "return") /\ ~At(w, "done") /\ OnlyWriter /\ UNCHANGED domain /\ mode \in {"raw", "reload"}
  BY DEF RawReturned, ReloadReturned, At
<1>1. \E elapsed \in BOOLEAN : Report(w, elapsed)
  BY DEF RawReturned, ReloadReturned
<1>2. StepOf(w, IF My(w).last THEN "done" ELSE "loop", writer[w].local, writer[w].calls, writer[w].loaded,
             FALSE, 0, 0, FALSE, FALSE)
  BY <1>1, MoreTypes, ReportViewed
<1> DEFINE p == IF My(w).last THEN "done" ELSE "loop"
<1>3. p \in {"done", "loop"} /\ (p = "loop" <=> ~My(w).last) /\ p \notin InCall
  BY DEF InCall
<1> HIDE DEF p
<1>4. /\ OthersStay(w) /\ writer'[w].pc = p /\ writer'[w].local = writer[w].local
      /\ writer'[w].calls = writer[w].calls /\ writer'[w].loaded = writer[w].loaded
      /\ ~My(w)'.last /\ ~My(w)'.owner /\ ~My(w)'.proven
  BY <1>2 DEF StepOf, OthersStay, p
<1>5. \A q : At(w, q)' <=> p = q
  BY <1>4 DEF At
<1>6. ~My(w).owner /\ writer[w].local = Zeroes
  BY <1>0 DEF LocalInv, HandshakeInv, NodesInv, At
<1>7. StagesInv'
  <2>1. mode = "raw" => ~At(w, "load")' /\ ~At(w, "unload")' /\ ~writer'[w].loaded /\ ~My(w)'.last
    BY <1>3, <1>4, <1>5 DEF LocalInv, StagesInv
  <2>2. mode = "reload" => /\ At(w, "load")' => ~writer'[w].loaded
                           /\ At(w, "load")' \/ At(w, "done")' \/ writer'[w].loaded
    BY <1>0, <1>3, <1>4, <1>5 DEF LocalInv, StagesInv, At
  <2> QED BY <1>0, <1>4, <2>1, <2>2, StagesByWriter DEF LocalInv
<1>8. DeadlinesInv'
  BY <1>0, <1>3, <1>4, <1>5, DeadlinesByWriter DEF LocalInv, InCall
<1>9. HandshakeInv'
  <2>1. domain'.sync = domain.sync /\ (My(w)'.owner <=> My(w).owner)
    BY <1>0, <1>4, <1>6
  <2> QED BY <1>3, <1>4, <1>5, <2>1, HandshakeByWriter DEF LocalInv
<1>10. NodesInv'
  <2>1. domain'.global \in Nat /\ domain'.global >= domain.global
    BY <1>0, MoreTypes
  <2>2. \A e \in Epochs : e > domain'.global => domain'.retired[e] = 0 /\ writer'[w].local[e] = 0
    BY <1>0, <1>4 DEF LocalInv, NodesInv
  <2> QED BY <1>0, <1>4, <1>6, <2>1, <2>2, NodesByWriter DEF LocalInv
<1>11. CallsInv'
  <2>1. p = "done" \/ writer[w].calls <= MaxProbeCalls
    BY <1>0, <1>3 DEF LocalInv, CallsInv
  <2>2. writer[w].calls <= MaxProbeCalls + 1
    BY DEF LocalInv, CallsInv
  <2> QED BY <1>4, <1>5, <2>1, <2>2, CallsByWriter DEF LocalInv
<1> QED BY <1>7, <1>8, <1>9, <1>10, <1>11 DEF LocalInv

LEMMA AdvanceKeeps ==
    ASSUME ProbeTypes, LocalInv, NEW w \in ProbeWriters,
           BeginAdvance(w) \/ LoseAdvance(w)
    PROVE  LocalInv'
<1>0. At(w, "try") /\ writer[w].pc = "try" /\ ~At(w, "done") /\ ~At(w, "load") /\ OnlyWriter
  BY DEF BeginAdvance, LoseAdvance, At
<1>a. /\ domain'.retired = Published(w)
      /\ domain'.global = IF BeginAdvance(w) THEN domain.global + 1 ELSE domain.global
      /\ IF BeginAdvance(w) THEN domain.sync = 0 /\ domain'.sync = domain.global + 1 ELSE domain'.sync = domain.sync
  <2>1. domain \in DomainRecs
    BY DEF ProbeTypes, DomainRecs
  <2>2. CASE BeginAdvance(w)
    BY <2>1, <2>2 DEF BeginAdvance, DomainRecs
  <2>3. CASE LoseAdvance(w) /\ ~BeginAdvance(w)
    BY <2>1, <2>3 DEF LoseAdvance, DomainRecs
  <2> QED BY <2>2, <2>3
<1>b. domain.global \in Nat
  BY MoreTypes
<1>1. PICK p \in {"note", "poll", "lost"}, owner \in BOOLEAN :
         /\ StepOf(w, p, Zeroes, writer[w].calls, writer[w].loaded,
                   My(w).last, My(w).start, My(w).until, owner, My(w).proven)
         /\ IF BeginAdvance(w) THEN p # "lost" /\ owner ELSE p = "lost" /\ owner = My(w).owner
  <2>1. CASE BeginAdvance(w)
    BY <2>1, BeginViewed
  <2>2. CASE LoseAdvance(w) /\ ~BeginAdvance(w)
    BY <2>2, LoseViewed, MoreTypes
  <2> QED BY <2>1, <2>2
<1>2. p \in InCall \ {"return"} /\ p \notin {"load", "unload", "done", "try", "return"}
  BY DEF InCall
<1>4. /\ OthersStay(w) /\ writer'[w].pc = p /\ writer'[w].local = Zeroes
      /\ writer'[w].calls = writer[w].calls /\ writer'[w].loaded = writer[w].loaded
      /\ (My(w)'.last = My(w).last) /\ My(w)'.start = My(w).start /\ My(w)'.until = My(w).until
      /\ (My(w)'.owner = owner) /\ (My(w)'.proven = My(w).proven)
  BY <1>1 DEF StepOf, OthersStay
<1>5. \A q : At(w, q)' <=> p = q
  BY <1>4 DEF At
<1>6. ~My(w).owner /\ ~My(w).proven
  BY <1>0 DEF LocalInv, HandshakeInv, At
<1>7. StagesInv'
  <2>1. mode = "raw" => ~At(w, "load")' /\ ~At(w, "unload")' /\ ~writer'[w].loaded /\ ~My(w)'.last
    BY <1>2, <1>4, <1>5 DEF LocalInv, StagesInv
  <2>2. mode = "reload" => /\ At(w, "load")' => ~writer'[w].loaded
                           /\ At(w, "load")' \/ At(w, "done")' \/ writer'[w].loaded
    BY <1>0, <1>2, <1>4, <1>5 DEF LocalInv, StagesInv
  <2> QED BY <1>0, <1>4, <2>1, <2>2, StagesByWriter DEF LocalInv
<1>8. DeadlinesInv'
  <2>1. writer[w].pc \in InCall \ {"return"}
    BY <1>0 DEF InCall
  <2>2. writer'[w].pc \in {"note", "cas"} => My(w)'.owner
    BY <1>1, <1>4
  <2>3. mode = "reload" => My(w)'.until = My(w)'.start + DeadlineTicks
    BY <1>4, <2>1 DEF LocalInv, DeadlinesInv
  <2> QED BY <1>0, <1>2, <1>4, <1>5, <2>2, <2>3, DeadlinesByWriter DEF LocalInv
<1>9. HandshakeInv'
  <2>1. \/ domain'.sync = domain.sync /\ (My(w)'.owner <=> My(w).owner)
        \/ domain.sync = 0 /\ domain'.sync # 0 /\ My(w)'.owner
    BY <1>a, <1>b, <1>1, <1>4
  <2>2. My(w)'.owner => writer'[w].pc \in {"note", "cas", "poll"}
    BY <1>1, <1>4, <1>6
  <2>3. At(w, "poll")' => My(w)'.owner
    BY <1>1, <1>4, <1>5
  <2>4. ~My(w)'.proven
    BY <1>4, <1>6
  <2> QED BY <1>4, <2>1, <2>2, <2>3, <2>4, HandshakeByWriter DEF LocalInv
<1>10. NodesInv'
  <2>1. domain'.global \in Nat /\ domain'.global >= domain.global
    BY <1>a, <1>b
  <2>2. ASSUME NEW e \in Epochs, e > domain'.global
        PROVE  domain'.retired[e] = 0 /\ writer'[w].local[e] = 0
    <3>1. e > domain.global
      BY <1>b, <2>1, <2>2, MoreTypes
    <3>2. domain.retired[e] = 0 /\ writer[w].local[e] = 0
      BY <3>1 DEF LocalInv, NodesInv
    <3> QED BY <1>a, <1>4, <3>2 DEF Published, Zeroes, Epochs
  <2> QED BY <1>0, <1>4, <2>1, <2>2, NodesByWriter DEF LocalInv
<1>11. CallsInv'
  <2>1. writer[w].pc \in InCall
    BY <1>0 DEF InCall
  <2>2. My(w).last \/ writer[w].calls <= MaxProbeCalls
    BY <1>0, <2>1 DEF LocalInv, CallsInv
  <2>3. writer[w].calls <= MaxProbeCalls + 1
    BY DEF LocalInv, CallsInv
  <2> QED BY <1>2, <1>4, <1>5, <2>2, <2>3, CallsByWriter DEF LocalInv
<1> QED BY <1>7, <1>8, <1>9, <1>10, <1>11 DEF LocalInv

LEMMA ReturnKeeps ==
    ASSUME ProbeTypes, LocalInv, NEW w \in ProbeWriters,
           Proven(w) \/ GraceTimeout(w)
    PROVE  LocalInv'
<1>0. At(w, "poll") /\ writer[w].pc = "poll" /\ ~At(w, "done") /\ ~At(w, "try") /\ OnlyWriter
  BY DEF Proven, GraceTimeout, At
<1>1. PICK proven \in BOOLEAN :
         /\ writer' = [writer EXCEPT ![w].call = Live(w, proven), ![w].pc = "return"]
         /\ ~proven => Expired(w)
  BY DEF Proven, GraceTimeout
<1>2. /\ domain'.global = domain.global /\ domain'.sync = 0
      /\ \A e \in Epochs : domain.retired[e] = 0 => domain'.retired[e] = 0
  <2>1. domain \in DomainRecs
    BY DEF ProbeTypes, DomainRecs
  <2>2. CASE Proven(w)
    <3>1. domain' = [domain EXCEPT !.sync = 0, !.completed = Max({@, My(w).old}), !.retired = Collected(@, My(w).old)]
      BY <2>2 DEF Proven
    <3>2. domain'.global = domain.global /\ domain'.sync = 0 /\ domain'.retired = Collected(domain.retired, My(w).old)
      BY <2>1, <3>1 DEF DomainRecs
    <3> QED BY <3>2 DEF Collected, Epochs
  <2>3. CASE GraceTimeout(w)
    BY <2>1, <2>3 DEF GraceTimeout, DomainRecs
  <2> QED BY <2>2, <2>3
<1>3. StepOf(w, "return", writer[w].local, writer[w].calls, writer[w].loaded,
             My(w).last, My(w).start, 0, FALSE, proven)
  BY <1>1, ReturnViewed, MoreTypes
<1>4. /\ OthersStay(w) /\ writer'[w].pc = "return" /\ writer'[w].local = writer[w].local
      /\ writer'[w].calls = writer[w].calls /\ writer'[w].loaded = writer[w].loaded
      /\ (My(w)'.last = My(w).last) /\ My(w)'.start = My(w).start /\ ~My(w)'.owner /\ (My(w)'.proven = proven)
  BY <1>3 DEF StepOf, OthersStay
<1>5. \A q : At(w, q)' <=> "return" = q
  BY <1>4 DEF At
<1>6. My(w).owner /\ writer[w].local = Zeroes
  BY <1>0 DEF LocalInv, HandshakeInv, NodesInv, At
<1>7. StagesInv'
  <2>1. mode = "raw" => ~At(w, "load")' /\ ~At(w, "unload")' /\ ~writer'[w].loaded /\ ~My(w)'.last
    BY <1>4, <1>5 DEF LocalInv, StagesInv
  <2>2. mode = "reload" => /\ At(w, "load")' => ~writer'[w].loaded
                           /\ At(w, "load")' \/ At(w, "done")' \/ writer'[w].loaded
    BY <1>0, <1>4, <1>5 DEF LocalInv, StagesInv, At
  <2> QED BY <1>0, <1>4, <2>1, <2>2, StagesByWriter DEF LocalInv
<1>8. DeadlinesInv'
  <2>1. mode = "reload" => My(w).until = My(w).start + DeadlineTicks
    BY <1>0 DEF LocalInv, DeadlinesInv, InCall
  <2>2. mode = "reload" /\ ~proven => clock - My(w).start >= DeadlineTicks
    BY <1>1, <2>1, MoreTypes DEF Expired
  <2> QED BY <1>0, <1>4, <1>5, <2>2, DeadlinesByWriter DEF LocalInv, InCall
<1>9. HandshakeInv'
  BY <1>2, <1>4, <1>5, <1>6, HandshakeByWriter DEF LocalInv
<1>10. NodesInv'
  <2>1. domain'.global \in Nat /\ domain'.global >= domain.global
    BY <1>2, MoreTypes
  <2>2. \A e \in Epochs : e > domain'.global => domain'.retired[e] = 0 /\ writer'[w].local[e] = 0
    BY <1>2, <1>4 DEF LocalInv, NodesInv
  <2> QED BY <1>0, <1>4, <1>6, <2>1, <2>2, NodesByWriter DEF LocalInv
<1>11. CallsInv'
  <2>1. My(w).last \/ writer[w].calls <= MaxProbeCalls
    BY <1>0 DEF LocalInv, CallsInv, InCall
  <2>2. writer[w].calls <= MaxProbeCalls + 1
    BY DEF LocalInv, CallsInv
  <2> QED BY <1>4, <1>5, <2>1, <2>2, CallsByWriter DEF LocalInv, InCall
<1> QED BY <1>7, <1>8, <1>9, <1>10, <1>11 DEF LocalInv

-----------------------------------------------------------------------------
\* The steps of the other threads.
LEMMA SumOfZeroes ==
    ASSUME NEW n \in [Epochs -> Nat], \A e \in Epochs : n[e] = 0
    PROVE  Tally(n) = 0
<1>1. n \in [Epochs -> Int] /\ \A e \in Epochs : n[e] = IF e \in {} THEN 1 ELSE 0
  OBVIOUS
<1>2. SumOver(n, Epochs) = Cardinality({e \in Epochs : e \in {}})
  BY <1>1, EpochsFinite, SumCounts
<1>3. {e \in Epochs : e \in {}} = {}
  OBVIOUS
<1>4. SumOver(n, Epochs) = 0
  BY <1>2, <1>3, FS_EmptySet
<1> QED BY <1>4 DEF Tally, SumOver, Epochs

LEMMA DrainWorks ==
    ASSUME ProbeTypes, LocalInv, Drain
    PROVE  /\ result'.drained /\ result'.backlog = 0 /\ result'.totals = result.totals
           /\ domain'.sync = 0 /\ domain'.global = domain.global + 1
           /\ \A e \in Epochs : domain'.retired[e] = 0
<1> DEFINE left == Collected(domain.retired, domain.global)
<1>1. \A w \in ProbeWriters : At(w, "done") /\ ~My(w).owner
  BY DEF Drain, LocalInv, StagesInv, HandshakeInv, At
<1>2. domain.sync = 0
  BY <1>1 DEF LocalInv, HandshakeInv
<1>3. readers_passed(domain.global)
  BY DEF Drain, LocalInv, StagesInv, readers_passed
<1>4. /\ domain' = [domain EXCEPT !.global = @ + 1, !.completed = domain.global, !.retired = left]
      /\ result' = [result EXCEPT !.drained = TRUE, !.backlog = Tally(left)]
  BY <1>2, <1>3 DEF Drain
<1>5. left \in [Epochs -> Nat] /\ \A e \in Epochs : left[e] = 0
  <2>1. \A e \in Epochs : e > domain.global => domain.retired[e] = 0
    BY DEF LocalInv, NodesInv
  <2>2. domain.global \in Nat /\ domain.retired \in [Epochs -> Nat] /\ \A e \in Epochs : e \in Nat
    BY MoreTypes
  <2>3. \A e \in Epochs : left[e] = 0
    BY <2>1, <2>2 DEF Collected, Epochs
  <2>4. left = [e \in Epochs |-> IF e <= domain.global THEN 0 ELSE domain.retired[e]]
    BY DEF Collected, Epochs
  <2> HIDE DEF left
  <2> QED BY <2>2, <2>3, <2>4
<1> HIDE DEF left
<1>6. Tally(left) = 0
  BY <1>5, SumOfZeroes
<1>7. domain \in DomainRecs /\ result \in Results
  BY DEF ProbeTypes, DomainRecs, Results
<1> QED BY <1>2, <1>4, <1>5, <1>6, <1>7 DEF DomainRecs, Results

LEMMA OthersKeep ==
    ASSUME ProbeTypes, LocalInv,
           \/ UNCHANGED probeVars \/ RunChild \/ Tick \/ Sample \/ WindowEnds \/ Join \/ Drain \/ Judge
           \/ \E r \in ProbeReaders : ReaderEnter(r) \/ ReaderExit(r)
    PROVE  LocalInv'
<1>1. mode' = mode /\ writer' = writer
  BY DEF probeVars, RunChild, Tick, Sample, WindowEnds, Join, Drain, Judge, ReaderEnter, ReaderExit, OnlyMain
<1>2. \A w \in ProbeWriters : My(w)' = My(w) /\ \A p : At(w, p)' <=> At(w, p)
  BY <1>1 DEF My, At
<1>3. CallsInv'
  BY <1>1, <1>2 DEF LocalInv, CallsInv
<1>4. DeadlinesInv'
  <2>1. clock' \in Nat /\ clock' >= clock
    <3>1. clock' = clock \/ clock' = clock + 1
      BY DEF probeVars, RunChild, Tick, Sample, WindowEnds, Join, Drain, Judge, ReaderEnter, ReaderExit, OnlyMain
    <3> QED BY <3>1, MoreTypes
  <2>2. ASSUME mode = "reload", NEW w \in ProbeWriters
        PROVE  /\ writer[w].pc \in {"note", "cas"} /\ ~My(w).owner => clock' >= My(w).until
               /\ At(w, "return") /\ ~My(w).proven => clock' - My(w).start >= DeadlineTicks
    <3>1. My(w).until \in Nat /\ My(w).start \in Nat /\ DeadlineTicks \in Nat /\ clock \in Nat
      BY MoreTypes
    <3> QED BY <2>1, <2>2, <3>1 DEF LocalInv, DeadlinesInv, Expired
  <2> QED BY <1>1, <1>2, <2>2 DEF LocalInv, DeadlinesInv, Expired
<1>5. CASE Drain
  <2>1. /\ result'.drained /\ result'.backlog = 0 /\ result'.totals = result.totals
        /\ domain'.sync = 0 /\ domain'.global = domain.global + 1
        /\ \A e \in Epochs : domain'.retired[e] = 0
    BY <1>5, DrainWorks
  <2>2. \A w \in ProbeWriters : At(w, "done") /\ ~My(w).owner /\ writer[w].local = Zeroes
    BY <1>5 DEF Drain, LocalInv, StagesInv, HandshakeInv, NodesInv, At
  <2>3. StagesInv'
    BY <1>1, <1>2, <1>5, <2>1 DEF Drain, OnlyMain, LocalInv, StagesInv
  <2>4. HandshakeInv'
    BY <1>1, <1>2, <2>1, <2>2 DEF LocalInv, HandshakeInv
  <2>5. NodesInv'
    <3>1. domain'.global >= 1
      BY <2>1, MoreTypes
    <3>2. \A w \in ProbeWriters, e \in Epochs : writer[w].local[e] = 0
      BY <2>2 DEF Zeroes, Epochs
    <3> QED BY <1>1, <1>2, <2>1, <2>2, <3>1, <3>2 DEF NodesInv
  <2> QED BY <1>3, <1>4, <2>3, <2>4, <2>5 DEF LocalInv
<1>6. CASE ~Drain
  <2>1. UNCHANGED domain
    BY <1>6 DEF probeVars, RunChild, Tick, Sample, WindowEnds, Join, Judge, ReaderEnter, ReaderExit, OnlyMain
  <2>2. HandshakeInv'
    BY <1>1, <1>2, <2>1 DEF LocalInv, HandshakeInv
  <2>3. stage' \in {"judge", "done"} => stage \in {"judge", "done"} /\ result'.drained = result.drained /\ result'.backlog = result.backlog
    <3>1. result \in Results
      BY DEF ProbeTypes, Results
    <3> QED BY <1>6, <3>1 DEF probeVars, RunChild, Tick, Sample, WindowEnds, Join, Judge, ReaderEnter, ReaderExit,
               OnlyMain, Results
  <2>4. NodesInv'
    BY <1>1, <1>2, <2>1, <2>3 DEF LocalInv, NodesInv
  <2>5. running' => stage' = "window"
    BY <1>6 DEF LocalInv, StagesInv, probeVars, RunChild, Tick, Sample, WindowEnds, Join, Judge, ReaderEnter,
                ReaderExit, OnlyMain
  <2>6. ASSUME stage' \in {"drain", "judge", "done"}
        PROVE  /\ \A w \in ProbeWriters : At(w, "done")'
               /\ \A r \in ProbeReaders : inside'[r] = 0
               /\ result'.totals = counters'
    <3>1. CASE Join
      <4>1. result \in Results
        BY DEF ProbeTypes, Results
      <4> QED BY <1>2, <3>1, <4>1 DEF Join, OnlyMain, stats, Results
    <3>2. CASE \E r \in ProbeReaders : ReaderEnter(r) \/ ReaderExit(r)
      <4>1. inside \in [ProbeReaders -> Nat]
        BY DEF ProbeTypes
      <4> QED BY <1>2, <2>6, <3>2, <4>1 DEF ReaderEnter, ReaderExit, LocalInv, StagesInv
    <3>3. CASE Judge
      <4>1. result \in Results
        BY DEF ProbeTypes, Results
      <4> QED BY <1>2, <3>3, <4>1 DEF Judge, OnlyMain, Results, LocalInv, StagesInv
    <3>4. CASE UNCHANGED probeVars \/ RunChild \/ Tick \/ Sample \/ WindowEnds
      BY <1>2, <2>6, <3>4 DEF probeVars, RunChild, Tick, Sample, WindowEnds, OnlyMain, LocalInv, StagesInv
    <3> QED BY <1>6, <3>1, <3>2, <3>3, <3>4
  <2>7. StagesInv'
    BY <1>1, <1>2, <2>5, <2>6 DEF LocalInv, StagesInv
  <2> QED BY <1>3, <1>4, <2>2, <2>4, <2>7 DEF LocalInv
<1> QED BY <1>5, <1>6

LEMMA LocalInit == ProbeInit => LocalInv
<1> SUFFICES ASSUME ProbeInit PROVE LocalInv
  OBVIOUS
<1>1. \A w \in ProbeWriters :
         /\ writer[w].local = Zeroes /\ writer[w].calls = 0 /\ writer[w].loaded = FALSE /\ My(w) = NoCall
         /\ writer[w].pc = CASE mode = "raw" -> "loop" [] mode = "reload" -> "load" [] OTHER -> "done"
  BY DEF ProbeInit, My
<1>2. NoCall.last = FALSE /\ NoCall.owner = FALSE /\ NoCall.proven = FALSE
  BY DEF NoCall, CallOf
<1>3. \A w \in ProbeWriters :
         /\ ~My(w).owner /\ ~My(w).proven /\ ~My(w).last
         /\ mode = "raw" => writer[w].pc = "loop"
         /\ mode = "reload" => writer[w].pc = "load"
         /\ mode = "parent" => writer[w].pc = "done"
  BY <1>1, <1>2
<1>4. mode \in {"raw", "reload", "parent"} /\ stage \in {"parent", "window"} /\ domain.global = 1 /\ domain.sync = 0
      /\ domain.retired = Zeroes /\ (running => stage = "window")
  BY DEF ProbeInit
<1>5. StagesInv
  BY <1>1, <1>3, <1>4 DEF StagesInv, At
<1>6. DeadlinesInv
  BY <1>3, <1>4 DEF DeadlinesInv, At, InCall
<1>7. HandshakeInv
  BY <1>3, <1>4 DEF HandshakeInv, At
<1>8. NodesInv
  <2>1. \A e \in Epochs : Zeroes[e] = 0
    BY DEF Zeroes, Epochs
  <2>2. stage \notin {"judge", "done"} /\ domain.global >= 1
    BY <1>4
  <2> QED BY <1>1, <1>4, <2>1, <2>2 DEF NodesInv
<1>9. CallsInv
  <2>1. MaxProbeCalls \in Nat
    BY ProbeAssumption
  <2> QED BY <1>1, <2>1 DEF CallsInv
<1> QED BY <1>5, <1>6, <1>7, <1>8, <1>9 DEF LocalInv

-----------------------------------------------------------------------------
\* The counters.
LEMMA TotalChanged ==
    ASSUME NEW f \in [ProbeWriters -> Int], NEW g \in [ProbeWriters -> Int], NEW w \in ProbeWriters,
           \A x \in ProbeWriters : x # w => g[x] = f[x]
    PROVE  Total(f) \in Int /\ Total(g) \in Int /\ Total(g) = Total(f) + (g[w] - f[w])
<1>1. IsFiniteSet(ProbeWriters)
  BY ProbeAssumption
<1>2. Total(f) = SumOver(f, ProbeWriters) /\ Total(g) = SumOver(g, ProbeWriters)
  BY DEF Total, SumOver
<1> QED BY <1>1, <1>2, SumChanged

LEMMA TotalType ==
    ASSUME NEW f \in [ProbeWriters -> Int]
    PROVE  Total(f) \in Int
<1>1. IsFiniteSet(ProbeWriters)
  BY ProbeAssumption
<1>2. PICK h : Summed(h, f, ProbeWriters)
  BY <1>1, SumIsLast
<1> QED BY <1>2 DEF Total, SumOver, Summed

SharesTyped ==
    \A w \in ProbeWriters :
        /\ EndsOf(w) \in Int /\ TimeoutsOf(w) \in Int /\ One(At(w, "lost")) \in Int /\ BegunOf(w) \in Int
        /\ reports[w].ok \in Nat /\ reports[w].timeouts \in Nat

LEMMA ShareTypes == ProbeTypes => SharesTyped
<1> SUFFICES ASSUME ProbeTypes PROVE SharesTyped
  OBVIOUS
<1>1. \A w \in ProbeWriters : reports[w].ok \in Nat /\ reports[w].timeouts \in Nat /\ writer[w].calls \in Nat
  BY MoreTypes DEF ProbeTypes
<1> QED BY <1>1 DEF SharesTyped, EndsOf, TimeoutsOf, One, BegunOf

LEMMA ShareTypesNext == ProbeTypes' => SharesTyped'
  BY ShareTypes, PTL

\* How the counters and the shares of the writer that moves must change.
Balanced(w) ==
    LET c == counters
        d == counters'
    IN /\ EndsOf(w)' - EndsOf(w) = ((d.attempts - d.contentions) + d.timeouts) - ((c.attempts - c.contentions) + c.timeouts)
       /\ One(At(w, "lost"))' - One(At(w, "lost")) = (d.contentions - d.retries) - (c.contentions - c.retries)
       /\ IF mode = "raw" THEN TimeoutsOf(w)' - TimeoutsOf(w) = (d.timeouts + d.grace) - (c.timeouts + c.grace)
          ELSE TimeoutsOf(w)' - TimeoutsOf(w) <= (d.timeouts + d.grace) - (c.timeouts + c.grace)

LEMMA CountersByWriter ==
    ASSUME ProbeTypes, ProbeTypes', CountersInv, NEW w \in ProbeWriters, OnlyWriter, OthersStay(w),
           \A x \in ProbeWriters : x # w => reports'[x] = reports[x],
           Balanced(w)
    PROVE  CountersInv'
<1> DEFINE F == [x \in ProbeWriters |-> EndsOf(x)]
           G == [x \in ProbeWriters |-> TimeoutsOf(x)]
           H == [x \in ProbeWriters |-> One(At(x, "lost"))]
<1>1. /\ F \in [ProbeWriters -> Int] /\ G \in [ProbeWriters -> Int] /\ H \in [ProbeWriters -> Int]
      /\ F' \in [ProbeWriters -> Int] /\ G' \in [ProbeWriters -> Int] /\ H' \in [ProbeWriters -> Int]
  <2>1. \A x \in ProbeWriters : EndsOf(x) \in Int /\ TimeoutsOf(x) \in Int /\ One(At(x, "lost")) \in Int
    BY ShareTypes DEF SharesTyped
  <2>2. \A x \in ProbeWriters : EndsOf(x)' \in Int /\ TimeoutsOf(x)' \in Int /\ One(At(x, "lost"))' \in Int
    BY ShareTypesNext DEF SharesTyped
  <2> QED BY <2>1, <2>2
<1>2. \A x \in ProbeWriters : x # w => /\ EndsOf(x)' = EndsOf(x) /\ TimeoutsOf(x)' = TimeoutsOf(x)
                                      /\ One(At(x, "lost"))' = One(At(x, "lost"))
  BY DEF OthersStay, EndsOf, TimeoutsOf, One, At, My
<1>3. \A x \in ProbeWriters : x # w => F'[x] = F[x] /\ G'[x] = G[x] /\ H'[x] = H[x]
  BY <1>2
<1>4. /\ F[w] = EndsOf(w) /\ F'[w] = EndsOf(w)' /\ G[w] = TimeoutsOf(w) /\ G'[w] = TimeoutsOf(w)'
      /\ H[w] = One(At(w, "lost")) /\ H'[w] = One(At(w, "lost"))'
  OBVIOUS
<1>5. /\ F[w] \in Int /\ F'[w] \in Int /\ G[w] \in Int /\ G'[w] \in Int /\ H[w] \in Int /\ H'[w] \in Int
  BY <1>1
<1> DEFINE c == counters
           d == counters'
<1>6. /\ Total(F) = (c.attempts - c.contentions) + c.timeouts
      /\ c.contentions = c.retries + Total(H)
      /\ IF mode = "raw" THEN Total(G) = c.timeouts + c.grace ELSE Total(G) <= c.timeouts + c.grace
  BY DEF CountersInv
<1>7. /\ F'[w] - F[w] = ((d.attempts - d.contentions) + d.timeouts) - ((c.attempts - c.contentions) + c.timeouts)
      /\ H'[w] - H[w] = (d.contentions - d.retries) - (c.contentions - c.retries)
      /\ IF mode = "raw" THEN G'[w] - G[w] = (d.timeouts + d.grace) - (c.timeouts + c.grace)
         ELSE G'[w] - G[w] <= (d.timeouts + d.grace) - (c.timeouts + c.grace)
  BY <1>4 DEF Balanced
<1>8. /\ c.attempts \in Nat /\ c.contentions \in Nat /\ c.retries \in Nat /\ c.timeouts \in Nat /\ c.grace \in Nat
      /\ d.attempts \in Nat /\ d.contentions \in Nat /\ d.retries \in Nat /\ d.timeouts \in Nat /\ d.grace \in Nat
  <2>1. c \in Counts /\ d \in Counts
    BY DEF ProbeTypes
  <2> QED BY <2>1 DEF Counts
<1>9. Total(F)' = Total(F') /\ Total(G)' = Total(G') /\ Total(H)' = Total(H')
  OBVIOUS
<1> HIDE DEF F, G, H
<1>10. /\ Total(F) \in Int /\ Total(F') = Total(F) + (F'[w] - F[w])
       /\ Total(G) \in Int /\ Total(G') = Total(G) + (G'[w] - G[w])
       /\ Total(H) \in Int /\ Total(H') = Total(H) + (H'[w] - H[w])
  BY <1>1, <1>3, TotalChanged
<1>11. Total(F') = (d.attempts - d.contentions) + d.timeouts
  BY <1>5, <1>6, <1>7, <1>8, <1>10
<1>12. d.contentions = d.retries + Total(H')
  BY <1>5, <1>6, <1>7, <1>8, <1>10
<1>13. IF mode = "raw" THEN Total(G') = d.timeouts + d.grace ELSE Total(G') <= d.timeouts + d.grace
  BY <1>5, <1>6, <1>7, <1>8, <1>10
<1>14. mode' = mode
  BY DEF OnlyWriter
<1> QED BY <1>9, <1>11, <1>12, <1>13, <1>14 DEF CountersInv, F, G, H

LEMMA MoreCounts ==
    ASSUME ProbeTypes
    PROVE  /\ counters \in Counts
           /\ counters.attempts \in Nat /\ counters.contentions \in Nat /\ counters.retries \in Nat
           /\ counters.timeouts \in Nat /\ counters.grace \in Nat /\ counters.max_wait \in Nat
           /\ \A w \in ProbeWriters : reports[w].ok \in Nat /\ reports[w].timeouts \in Nat
<1>1. counters \in Counts
  BY DEF ProbeTypes
<1> QED BY <1>1, ShareTypes DEF Counts, SharesTyped

\* A step that leaves the counters and the reports alone, between two places that count the same.
LEMMA StillBalanced ==
    ASSUME ProbeTypes, NEW w \in ProbeWriters, UNCHANGED counters, UNCHANGED mode,
           reports'[w].ok = reports[w].ok, reports'[w].timeouts = reports[w].timeouts,
           EndsOf(w)' = EndsOf(w), TimeoutsOf(w)' = TimeoutsOf(w), ~At(w, "lost"), ~At(w, "lost")'
    PROVE  Balanced(w)
<1>1. EndsOf(w) \in Int /\ TimeoutsOf(w) \in Int
  BY ShareTypes DEF SharesTyped
<1>2. One(At(w, "lost"))' = 0 /\ One(At(w, "lost")) = 0
  BY DEF One
<1> QED BY <1>1, <1>2, MoreCounts DEF Balanced

LEMMA CallBalanced ==
    ASSUME ProbeTypes, LocalInv, NEW w \in ProbeWriters, RawCall(w) \/ ReloadCall(w) \/ Unload(w)
    PROVE  Balanced(w)
<1>1. PICK n \in Nat, last \in BOOLEAN : Call(w, n, last)
  BY DEF RawCall, ReloadCall, Unload
<1>2. /\ OnlyWriter /\ UNCHANGED <<counters, reports>>
      /\ writer[w].pc \in {"loop", "unload"}
  BY DEF RawCall, ReloadCall, Unload, At
<1>3. StepOf(w, "try", [writer[w].local EXCEPT ![domain.global] = @ + n], writer[w].calls + 1, writer[w].loaded,
             last, clock, CallDeadline, FALSE, FALSE)
  BY <1>1, CallViewed
<1>4. writer'[w].pc = "try"
  BY <1>3 DEF StepOf
<1>5. EndsOf(w)' = EndsOf(w) /\ TimeoutsOf(w)' = TimeoutsOf(w)
  BY <1>2, <1>4 DEF EndsOf, TimeoutsOf, One, At
<1> QED BY <1>2, <1>4, <1>5, StillBalanced DEF OnlyWriter, At

LEMMA LoopBalanced ==
    ASSUME ProbeTypes, LocalInv, NEW w \in ProbeWriters, ReloadLoad(w) \/ ReloadFails(w) \/ LoopEnds(w)
    PROVE  Balanced(w)
<1>1. /\ OnlyWriter /\ UNCHANGED counters
      /\ writer[w].pc \in {"load", "loop"}
  BY DEF ReloadLoad, ReloadFails, LoopEnds, At
<1>2. reports'[w].ok = reports[w].ok /\ reports'[w].timeouts = reports[w].timeouts
  <2>1. reports \in [ProbeWriters -> ReportRecs]
    BY DEF ProbeTypes, ReportRecs
  <2>2. reports' = reports \/ reports' = [reports EXCEPT ![w].failed = TRUE]
    BY DEF ReloadLoad, ReloadFails, LoopEnds
  <2> QED BY <2>1, <2>2 DEF ReportRecs
<1>3. /\ writer'[w].pc \in {"loop", "done", "unload"}
      /\ writer'[w].pc = "done" => ~writer'[w].loaded
  <2>1. WritersTyped
    BY MoreTypes
  <2>2. CASE ReloadLoad(w)
    <3>1. ~writer[w].loaded
      <4>1. mode \in {"raw", "reload", "parent"} /\ At(w, "load") /\ ~At(w, "done")
        BY <2>2 DEF ReloadLoad, ProbeTypes, At
      <4>2. mode = "reload"
        BY <4>1 DEF LocalInv, StagesInv
      <4> QED BY <4>1, <4>2 DEF LocalInv, StagesInv
    <3> QED BY <2>1, <2>2, <3>1 DEF ReloadLoad, WritersTyped, Recs
  <2>3. CASE ReloadFails(w)
    BY <2>1, <2>3 DEF ReloadFails, WritersTyped, Recs
  <2>4. CASE LoopEnds(w)
    <3>1. mode = "raw" => ~writer[w].loaded
      BY DEF LocalInv, StagesInv
    <3> QED BY <2>1, <2>4, <3>1 DEF LoopEnds, WritersTyped, Recs
  <2> QED BY <2>2, <2>3, <2>4
<1>4. EndsOf(w)' = EndsOf(w) /\ TimeoutsOf(w)' = TimeoutsOf(w)
  BY <1>1, <1>2, <1>3 DEF EndsOf, TimeoutsOf, One, At
<1> QED BY <1>1, <1>2, <1>3, <1>4, StillBalanced DEF OnlyWriter, At

LEMMA AdvanceBalanced ==
    ASSUME ProbeTypes, LocalInv, NEW w \in ProbeWriters, BeginAdvance(w) \/ LoseAdvance(w)
    PROVE  Balanced(w)
<1>1. OnlyWriter /\ UNCHANGED reports /\ writer[w].pc = "try"
  BY DEF BeginAdvance, LoseAdvance, At
<1>2. /\ EndsOf(w) = reports[w].ok + reports[w].timeouts /\ TimeoutsOf(w) = reports[w].timeouts
      /\ One(At(w, "lost")) = 0
  <2>1. reports[w].ok \in Nat /\ reports[w].timeouts \in Nat
    BY MoreCounts
  <2> QED BY <1>1, <2>1 DEF EndsOf, TimeoutsOf, One, At
<1>3. CASE BeginAdvance(w)
  <2>1. StepOf(w, IF My(w).waiting THEN "note" ELSE "poll", Zeroes, writer[w].calls, writer[w].loaded,
               My(w).last, My(w).start, My(w).until, TRUE, My(w).proven)
    BY <1>3, BeginViewed
  <2>2. writer'[w].pc \in {"note", "poll"} /\ My(w)'.owner
    BY <2>1 DEF StepOf
  <2>3. /\ EndsOf(w)' = reports[w].ok + reports[w].timeouts + 1 /\ TimeoutsOf(w)' = reports[w].timeouts + 0
        /\ One(At(w, "lost"))' = 0
    BY <1>1, <2>2 DEF EndsOf, TimeoutsOf, One, At
  <2>4. /\ counters'.attempts = counters.attempts + 1 /\ counters'.contentions = counters.contentions
        /\ counters'.retries = counters.retries /\ counters'.timeouts = counters.timeouts
        /\ counters'.grace = counters.grace
    BY <1>3, MoreCounts DEF BeginAdvance, Counts
  <2> QED BY <1>2, <2>3, <2>4, MoreCounts DEF Balanced
<1>4. CASE LoseAdvance(w)
  <2>1. StepOf(w, "lost", Zeroes, writer[w].calls, writer[w].loaded,
               My(w).last, My(w).start, My(w).until, My(w).owner, My(w).proven)
    BY <1>4, LoseViewed, MoreTypes
  <2>2. writer'[w].pc = "lost"
    BY <2>1 DEF StepOf
  <2>3. /\ EndsOf(w)' = reports[w].ok + reports[w].timeouts + 0 /\ TimeoutsOf(w)' = reports[w].timeouts + 0
        /\ One(At(w, "lost"))' = 1
    BY <1>1, <2>2 DEF EndsOf, TimeoutsOf, One, At
  <2>4. /\ counters'.attempts = counters.attempts + 1 /\ counters'.contentions = counters.contentions + 1
        /\ counters'.retries = counters.retries /\ counters'.timeouts = counters.timeouts
        /\ counters'.grace = counters.grace
    BY <1>4, MoreCounts DEF LoseAdvance, Counts
  <2> QED BY <1>2, <2>3, <2>4, MoreCounts DEF Balanced
<1> QED BY <1>3, <1>4

LEMMA LostBalanced ==
    ASSUME ProbeTypes, LocalInv, NEW w \in ProbeWriters, Lost(w)
    PROVE  Balanced(w)
<1>1. OnlyWriter /\ UNCHANGED reports /\ writer[w].pc = "lost"
  BY DEF Lost, At
<1>0. ~My(w).owner
  BY <1>1 DEF LocalInv, HandshakeInv
<1> DEFINE more == IF Expired(w) THEN 1 ELSE 0
<1>2. /\ EndsOf(w) = reports[w].ok + reports[w].timeouts /\ TimeoutsOf(w) = reports[w].timeouts
      /\ One(At(w, "lost")) = 1
  <2>1. reports[w].ok \in Nat /\ reports[w].timeouts \in Nat
    BY MoreCounts
  <2> QED BY <1>1, <2>1 DEF EndsOf, TimeoutsOf, One, At
<1>3. StepOf(w, IF Expired(w) THEN "note" ELSE "try", writer[w].local, writer[w].calls, writer[w].loaded,
             My(w).last, My(w).start, My(w).until, My(w).owner, My(w).proven)
  BY LostViewed
<1>4. writer'[w].pc = (IF Expired(w) THEN "note" ELSE "try") /\ ~My(w)'.owner
  BY <1>0, <1>3 DEF StepOf
<1>5. /\ EndsOf(w)' = reports[w].ok + reports[w].timeouts + more /\ TimeoutsOf(w)' = reports[w].timeouts + more
      /\ One(At(w, "lost"))' = 0
  BY <1>1, <1>4 DEF EndsOf, TimeoutsOf, One, At
<1>6. counters' = [counters EXCEPT !.retries = @ + 1, !.timeouts = @ + more]
  BY DEF Lost
<1>7. more \in Nat
  OBVIOUS
<1> HIDE DEF more
<1>8. /\ counters'.attempts = counters.attempts /\ counters'.contentions = counters.contentions
      /\ counters'.retries = counters.retries + 1 /\ counters'.timeouts = counters.timeouts + more
      /\ counters'.grace = counters.grace
  BY <1>6, MoreCounts DEF Counts
<1> QED BY <1>2, <1>5, <1>7, <1>8, MoreCounts DEF Balanced

LEMMA NoteBalanced ==
    ASSUME ProbeTypes, LocalInv, NEW w \in ProbeWriters, NoteLoad(w) \/ NoteCas(w)
    PROVE  Balanced(w)
<1>1. OnlyWriter /\ UNCHANGED reports /\ writer[w].pc \in {"note", "cas"}
  BY DEF NoteLoad, NoteCas, At
<1>2. ~My(w).proven
  BY <1>1 DEF LocalInv, HandshakeInv, At
<1>3. \E p \in {"cas", AfterNote(w)} :
              StepOf(w, p, writer[w].local, writer[w].calls, writer[w].loaded,
                     My(w).last, My(w).start, My(w).until, My(w).owner, My(w).proven)
  BY NoteLoadViewed, NoteCasViewed
<1>4. /\ writer'[w].pc \in {"cas", AfterNote(w)} /\ (My(w)'.owner = My(w).owner) /\ ~My(w)'.proven
  BY <1>2, <1>3 DEF StepOf
<1>5. /\ reports[w].ok \in Nat /\ reports[w].timeouts \in Nat
  BY MoreCounts
<1>6. EndsOf(w)' = EndsOf(w)
  BY <1>1, <1>4 DEF EndsOf, One, At, AfterNote
<1>7. TimeoutsOf(w)' = TimeoutsOf(w)
  BY <1>1, <1>2, <1>4 DEF TimeoutsOf, One, At, AfterNote
<1>8. ~At(w, "lost") /\ ~At(w, "lost")'
  BY <1>1, <1>4 DEF At, AfterNote
<1>9. /\ counters'.attempts = counters.attempts /\ counters'.contentions = counters.contentions
      /\ counters'.retries = counters.retries /\ counters'.timeouts = counters.timeouts
      /\ counters'.grace = counters.grace
  <2>1. counters' = counters \/ counters' = [counters EXCEPT !.max_wait = My(w).sample]
    BY DEF NoteLoad, NoteCas
  <2> QED BY <2>1, MoreCounts DEF Counts
<1>10. EndsOf(w) \in Int /\ TimeoutsOf(w) \in Int
  BY ShareTypes DEF SharesTyped
<1>11. One(At(w, "lost"))' = 0 /\ One(At(w, "lost")) = 0
  BY <1>8 DEF One
<1> QED BY <1>6, <1>7, <1>9, <1>10, <1>11, MoreCounts DEF Balanced

LEMMA ReturnBalanced ==
    ASSUME ProbeTypes, LocalInv, NEW w \in ProbeWriters, Proven(w) \/ GraceTimeout(w)
    PROVE  Balanced(w)
<1>1. OnlyWriter /\ UNCHANGED reports /\ writer[w].pc = "poll"
  BY DEF Proven, GraceTimeout, At
<1>2. /\ EndsOf(w) = reports[w].ok + reports[w].timeouts + 1 /\ TimeoutsOf(w) = reports[w].timeouts
      /\ One(At(w, "lost")) = 0
  <2>1. reports[w].ok \in Nat /\ reports[w].timeouts \in Nat
    BY MoreCounts
  <2> QED BY <1>1, <2>1 DEF EndsOf, TimeoutsOf, One, At
<1>3. PICK proven \in BOOLEAN :
         /\ writer' = [writer EXCEPT ![w].call = Live(w, proven), ![w].pc = "return"]
         /\ counters' = IF proven THEN counters ELSE [counters EXCEPT !.grace = @ + 1]
  BY DEF Proven, GraceTimeout
<1>4. StepOf(w, "return", writer[w].local, writer[w].calls, writer[w].loaded,
             My(w).last, My(w).start, 0, FALSE, proven)
  BY <1>3, ReturnViewed, MoreTypes
<1>5. writer'[w].pc = "return" /\ (My(w)'.proven = proven)
  BY <1>4 DEF StepOf
<1> DEFINE more == IF proven THEN 0 ELSE 1
<1>6. /\ EndsOf(w)' = reports[w].ok + reports[w].timeouts + 1 /\ TimeoutsOf(w)' = reports[w].timeouts + more
      /\ One(At(w, "lost"))' = 0
  BY <1>1, <1>5 DEF EndsOf, TimeoutsOf, One, At
<1>7. /\ counters'.attempts = counters.attempts /\ counters'.contentions = counters.contentions
      /\ counters'.retries = counters.retries /\ counters'.timeouts = counters.timeouts
      /\ counters'.grace = counters.grace + more
  BY <1>3, MoreCounts DEF Counts
<1>8. more \in Nat
  OBVIOUS
<1> HIDE DEF more
<1> QED BY <1>2, <1>6, <1>7, <1>8, MoreCounts DEF Balanced

LEMMA ReportBalanced ==
    ASSUME ProbeTypes, LocalInv, NEW w \in ProbeWriters, RawReturned(w) \/ ReloadReturned(w)
    PROVE  Balanced(w)
<1>1. OnlyWriter /\ UNCHANGED counters /\ writer[w].pc = "return"
  BY DEF RawReturned, ReloadReturned, At
<1>2. PICK elapsed \in BOOLEAN : /\ Report(w, elapsed)
                                 /\ elapsed => ~My(w).proven
                                 /\ mode = "raw" => (elapsed <=> ~My(w).proven) /\ ~My(w).last
  <2>1. mode = "raw" => ~My(w).last
    BY DEF LocalInv, StagesInv
  <2> QED BY <2>1 DEF RawReturned, ReloadReturned
<1> DEFINE more == IF My(w).proven THEN 0 ELSE 1
<1>3. /\ EndsOf(w) = reports[w].ok + reports[w].timeouts + 1 /\ TimeoutsOf(w) = reports[w].timeouts + more
      /\ One(At(w, "lost")) = 0
  BY <1>1 DEF EndsOf, TimeoutsOf, One, At
<1>4. StepOf(w, IF My(w).last THEN "done" ELSE "loop", writer[w].local, writer[w].calls, writer[w].loaded,
             FALSE, 0, 0, FALSE, FALSE)
  BY <1>2, ReportViewed, MoreTypes
<1>5. /\ writer'[w].pc = (IF My(w).last THEN "done" ELSE "loop") /\ writer'[w].loaded = writer[w].loaded
      /\ ~My(w)'.owner /\ ~My(w)'.proven
  BY <1>4 DEF StepOf
<1>6. My(w).last => writer[w].loaded
  BY <1>1 DEF LocalInv, StagesInv, At, ProbeTypes
<1>7. EndsOf(w)' = reports'[w].ok + reports'[w].timeouts + (IF My(w).last THEN 1 ELSE 0)
  BY <1>5, <1>6 DEF EndsOf, One, At
<1>8. TimeoutsOf(w)' = reports'[w].timeouts + 0 /\ One(At(w, "lost"))' = 0
  BY <1>5 DEF TimeoutsOf, One, At
<1>9. /\ reports'[w].ok = IF My(w).last \/ elapsed THEN reports[w].ok ELSE reports[w].ok + 1
      /\ reports'[w].timeouts = IF My(w).last \/ ~elapsed THEN reports[w].timeouts ELSE reports[w].timeouts + 1
  <2>1. reports \in [ProbeWriters -> ReportRecs]
    BY DEF ProbeTypes, ReportRecs
  <2>2. reports[w].ok \in Nat /\ reports[w].timeouts \in Nat
    BY MoreCounts
  <2>3. CASE My(w).last
    BY <1>2, <2>3 DEF Report
  <2>4. CASE ~My(w).last
    <3> DEFINE a == IF elapsed THEN 0 ELSE 1
               b == IF elapsed THEN 1 ELSE 0
    <3>1. \E m : reports' = [reports EXCEPT ![w].ok = @ + a, ![w].timeouts = @ + b, ![w].max_streak = m]
      BY <1>2, <2>4 DEF Report
    <3> HIDE DEF a, b
    <3>2. reports'[w].ok = reports[w].ok + a /\ reports'[w].timeouts = reports[w].timeouts + b
      BY <2>1, <3>1 DEF ReportRecs
    <3> QED BY <2>2, <2>4, <3>2 DEF a, b
  <2> QED BY <2>3, <2>4
<1>10. reports[w].ok \in Nat /\ reports[w].timeouts \in Nat
  BY MoreCounts
<1>11. EndsOf(w)' = EndsOf(w)
  BY <1>3, <1>7, <1>9, <1>10
<1>12. IF mode = "raw" THEN TimeoutsOf(w)' = TimeoutsOf(w) ELSE TimeoutsOf(w)' <= TimeoutsOf(w)
  BY <1>2, <1>3, <1>8, <1>9, <1>10
<1>13. /\ EndsOf(w) \in Int /\ TimeoutsOf(w) \in Int
  BY ShareTypes DEF SharesTyped
<1>14. TimeoutsOf(w)' \in Int
  BY <1>8, <1>9, <1>10
<1> QED BY <1>1, <1>3, <1>8, <1>11, <1>12, <1>13, <1>14, MoreCounts DEF Balanced

LEMMA TotalOfZeroes ==
    ASSUME NEW f \in [ProbeWriters -> Int], \A w \in ProbeWriters : f[w] = 0
    PROVE  Total(f) = 0
<1>1. IsFiniteSet(ProbeWriters)
  BY ProbeAssumption
<1>2. \A w \in ProbeWriters : f[w] = IF w \in {} THEN 1 ELSE 0
  OBVIOUS
<1>3. SumOver(f, ProbeWriters) = Cardinality({w \in ProbeWriters : w \in {}})
  BY <1>1, <1>2, SumCounts
<1>4. {w \in ProbeWriters : w \in {}} = {}
  OBVIOUS
<1>5. SumOver(f, ProbeWriters) = 0
  BY <1>3, <1>4, FS_EmptySet
<1> QED BY <1>5 DEF Total, SumOver

WriterStep(w) ==
    \/ RawCall(w) \/ ReloadLoad(w) \/ ReloadCall(w) \/ ReloadFails(w) \/ LoopEnds(w) \/ Unload(w)
    \/ RawReturned(w) \/ ReloadReturned(w)
    \/ BeginAdvance(w) \/ LoseAdvance(w) \/ Lost(w) \/ NoteLoad(w) \/ NoteCas(w)
    \/ Proven(w) \/ GraceTimeout(w)

\* A writer touches its own entries only.
LEMMA WriterStepAlone ==
    ASSUME ProbeTypes, NEW w \in ProbeWriters, WriterStep(w)
    PROVE  /\ OnlyWriter /\ OthersStay(w)
           /\ \A x \in ProbeWriters : x # w => reports'[x] = reports[x]
<1>1. OnlyWriter
  BY DEF WriterStep, RawCall, ReloadLoad, ReloadCall, ReloadFails, LoopEnds, Unload, RawReturned, ReloadReturned,
         BeginAdvance, LoseAdvance, Lost, NoteLoad, NoteCas, Proven, GraceTimeout
<1>2. writer \in [ProbeWriters -> Recs] /\ reports \in [ProbeWriters -> ReportRecs]
  BY MoreTypes DEF WritersTyped, ProbeTypes, ReportRecs
<1>3. \E r : writer' = [writer EXCEPT ![w] = r]
  BY DEF WriterStep, RawCall, ReloadLoad, ReloadCall, ReloadFails, LoopEnds, Unload, RawReturned, ReloadReturned,
         BeginAdvance, LoseAdvance, Lost, NoteLoad, NoteCas, Proven, GraceTimeout, Call, Report
<1>4. reports' = reports \/ \E r : reports' = [reports EXCEPT ![w] = r]
  BY DEF WriterStep, RawCall, ReloadLoad, ReloadCall, ReloadFails, LoopEnds, Unload, RawReturned, ReloadReturned,
         BeginAdvance, LoseAdvance, Lost, NoteLoad, NoteCas, Proven, GraceTimeout, Call, Report
<1> QED BY <1>1, <1>2, <1>3, <1>4 DEF OthersStay

LEMMA OtherStep ==
    ASSUME [ProbeNext]_probeVars, ~\E w \in ProbeWriters : WriterStep(w)
    PROVE  /\ mode' = mode /\ writer' = writer /\ reports' = reports /\ counters' = counters /\ noted' = noted
           /\ \/ UNCHANGED probeVars \/ RunChild \/ Tick \/ Sample \/ WindowEnds \/ Join \/ Drain \/ Judge
              \/ \E r \in ProbeReaders : ReaderEnter(r) \/ ReaderExit(r)
<1>1. \/ UNCHANGED probeVars \/ RunChild \/ Tick \/ Sample \/ WindowEnds \/ Join \/ Drain \/ Judge
      \/ \E r \in ProbeReaders : ReaderEnter(r) \/ ReaderExit(r)
  BY DEF ProbeNext, WriterStep
<1> QED BY <1>1 DEF probeVars, RunChild, Tick, Sample, WindowEnds, Join, Drain, Judge, ReaderEnter, ReaderExit, OnlyMain

LEMMA StatsInit == ProbeInit => ProbeTypes /\ CountersInv /\ EpochsInv /\ MaxWaitKept /\ ExitCodeIsWorst
<1> SUFFICES ASSUME ProbeInit
             PROVE  ProbeTypes /\ CountersInv /\ EpochsInv /\ MaxWaitKept /\ ExitCodeIsWorst
  OBVIOUS
<1>1. ProbeTypes
  BY ProbeTypesInit
<1>2. \A w \in ProbeWriters :
         /\ EndsOf(w) = 0 /\ TimeoutsOf(w) = 0 /\ One(At(w, "lost")) = 0 /\ BegunOf(w) = 0
  <2>1. \A w \in ProbeWriters :
           /\ writer[w].calls = 0 /\ writer[w].loaded = FALSE /\ writer[w].pc \in {"loop", "load", "done"}
           /\ reports[w].ok = 0 /\ reports[w].timeouts = 0
    BY DEF ProbeInit, NoReport
  <2> QED BY <2>1 DEF EndsOf, TimeoutsOf, One, At, BegunOf
<1>3. ASSUME NEW f \in [ProbeWriters -> Int], \A w \in ProbeWriters : f[w] = 0
      PROVE  Total(f) = 0
  BY <1>3, TotalOfZeroes
<1>4. /\ counters.attempts = 0 /\ counters.contentions = 0 /\ counters.retries = 0
      /\ counters.timeouts = 0 /\ counters.grace = 0 /\ counters.max_wait = 0
  BY DEF ProbeInit, reset_stats, NoCounts
<1>5. CountersInv
  <2> DEFINE F == [w \in ProbeWriters |-> EndsOf(w)]
             G == [w \in ProbeWriters |-> TimeoutsOf(w)]
             H == [w \in ProbeWriters |-> One(At(w, "lost"))]
  <2>1. Total(F) = 0 /\ Total(G) = 0 /\ Total(H) = 0
    <3>1. /\ F \in [ProbeWriters -> Int] /\ \A w \in ProbeWriters : F[w] = 0
          /\ G \in [ProbeWriters -> Int] /\ \A w \in ProbeWriters : G[w] = 0
          /\ H \in [ProbeWriters -> Int] /\ \A w \in ProbeWriters : H[w] = 0
      BY <1>2
    <3> HIDE DEF F, G, H
    <3> QED BY <1>3, <3>1
  <2> QED BY <1>4, <2>1 DEF CountersInv
<1>6. EpochsInv
  <2> DEFINE B == [w \in ProbeWriters |-> BegunOf(w)]
  <2>1. Total(B) = 0
    <3>1. B \in [ProbeWriters -> Int] /\ \A w \in ProbeWriters : B[w] = 0
      BY <1>2
    <3> HIDE DEF B
    <3> QED BY <1>3, <3>1
  <2>2. domain.global = 1 /\ stage \notin {"judge", "done"}
    BY DEF ProbeInit
  <2>3. LastEpoch >= 1
    <3>1. Cardinality(ProbeWriters) \in Nat /\ MaxProbeCalls \in Nat
      BY ProbeAssumption, FS_CardinalityType
    <3>2. (MaxProbeCalls + 2) * Cardinality(ProbeWriters) \in Nat
      BY <3>1
    <3> QED BY <3>2 DEF LastEpoch
  <2> QED BY <2>1, <2>2, <2>3 DEF EpochsInv, One
<1>7. MaxWaitKept
  BY <1>4 DEF ProbeInit, MaxWaitKept
<1>8. ExitCodeIsWorst
  <2>1. parent.rc = 0 /\ parent.verdicts = <<>>
    BY DEF ProbeInit
  <2>2. parent.verdicts \in Seq(0..3)
    BY <2>1
  <2>3. {0} \union {parent.verdicts[i] : i \in DOMAIN parent.verdicts} = {0}
    BY <2>1
  <2>4. Max({0}) = 0
    <3>1. \E x \in {0} : \A y \in {0} : x >= y
      OBVIOUS
    <3> QED BY <3>1 DEF Max
  <2> QED BY <2>1, <2>3, <2>4 DEF ExitCodeIsWorst
<1> QED BY <1>1, <1>5, <1>6, <1>7, <1>8

LEMMA CountersStep ==
    ASSUME ProbeTypes, ProbeTypes', LocalInv, CountersInv, [ProbeNext]_probeVars
    PROVE  CountersInv'
<1>1. CASE \E w \in ProbeWriters : WriterStep(w)
  <2>1. PICK w \in ProbeWriters : WriterStep(w)
    BY <1>1
  <2>2. OnlyWriter /\ OthersStay(w) /\ \A x \in ProbeWriters : x # w => reports'[x] = reports[x]
    BY <2>1, WriterStepAlone
  <2>3. Balanced(w)
    BY <2>1, CallBalanced, LoopBalanced, AdvanceBalanced, LostBalanced, NoteBalanced, ReturnBalanced, ReportBalanced
       DEF WriterStep
  <2> QED BY <2>2, <2>3, CountersByWriter
<1>2. CASE ~\E w \in ProbeWriters : WriterStep(w)
  <2>1. mode' = mode /\ writer' = writer /\ reports' = reports /\ counters' = counters
    BY <1>2, OtherStep
  <2> DEFINE F == [w \in ProbeWriters |-> EndsOf(w)]
             G == [w \in ProbeWriters |-> TimeoutsOf(w)]
             H == [w \in ProbeWriters |-> One(At(w, "lost"))]
  <2>2. F' = F /\ G' = G /\ H' = H
    BY <2>1 DEF EndsOf, TimeoutsOf, One, At, My
  <2>3. Total(F)' = Total(F') /\ Total(G)' = Total(G') /\ Total(H)' = Total(H')
    OBVIOUS
  <2> HIDE DEF F, G, H
  <2> QED BY <2>1, <2>2, <2>3 DEF CountersInv, F, G, H
<1> QED BY <1>1, <1>2

\* What a step makes of the maximum that a writer has read.
LEMMA ObservedStep ==
    ASSUME ProbeTypes, NEW w \in ProbeWriters, WriterStep(w)
    PROVE  My(w)'.observed \in {0, My(w).observed, counters.max_wait}
<1>1. WritersTyped /\ My(w) \in ProbeCalls
  BY MoreTypes, WriterFields
<1>2. CASE RawCall(w) \/ ReloadCall(w) \/ Unload(w)
  <2>1. PICK n \in Nat, last \in BOOLEAN : Call(w, n, last)
    BY <1>2 DEF RawCall, ReloadCall, Unload
  <2>2. My(w)' = CallOf(last, clock, CallDeadline, domain.global, FALSE)
    BY <2>1, EnterStep DEF NextOf
  <2> QED BY <2>2 DEF CallOf
<1>3. CASE ReloadLoad(w) \/ ReloadFails(w) \/ LoopEnds(w) \/ LoseAdvance(w)
  <2>1. My(w)' = My(w)
    BY <1>1, <1>3 DEF ReloadLoad, ReloadFails, LoopEnds, LoseAdvance, WritersTyped, Recs, My
  <2> QED BY <2>1
<1>4. CASE RawReturned(w) \/ ReloadReturned(w)
  <2>1. \E elapsed \in BOOLEAN : Report(w, elapsed)
    BY <1>4 DEF RawReturned, ReloadReturned
  <2>2. My(w)' = NoCall
    BY <1>1, <2>1, ReportStep DEF NextOf
  <2> QED BY <2>2 DEF NoCall, CallOf
<1>5. CASE BeginAdvance(w)
  <2>1. My(w)' = [My(w) EXCEPT !.old = domain.global, !.owner = TRUE, !.sample = clock - My(w).since]
    BY <1>5, BeginStep DEF NextOf
  <2> QED BY <1>1, <2>1 DEF ProbeCalls
<1>6. CASE Lost(w)
  <2>1. \E since : My(w)' = [My(w) EXCEPT !.waiting = TRUE, !.since = since, !.sample = clock - since]
    BY <1>6, LostStep DEF NextOf
  <2> QED BY <1>1, <2>1 DEF ProbeCalls
<1>7. CASE NoteLoad(w)
  <2>1. My(w)' = [My(w) EXCEPT !.observed = counters.max_wait]
    BY <1>7, NoteLoadStep DEF NextOf
  <2> QED BY <1>1, <2>1 DEF ProbeCalls
<1>8. CASE NoteCas(w)
  <2> DEFINE c == [My(w) EXCEPT !.observed = counters.max_wait]
             d == [My(w) EXCEPT !.observed = 0, !.sample = 0, !.since = 0, !.waiting = FALSE]
  <2>1. My(w)' = c \/ My(w)' = d
    BY <1>8, NoteCasStep DEF NextOf
  <2>2. c.observed = counters.max_wait /\ d.observed = 0
    BY <1>1 DEF ProbeCalls
  <2> HIDE DEF c, d
  <2> QED BY <2>1, <2>2
<1>9. CASE Proven(w) \/ GraceTimeout(w)
  <2>1. \E proven \in BOOLEAN : writer' = [writer EXCEPT ![w].call = Live(w, proven), ![w].pc = "return"]
    BY <1>9 DEF Proven, GraceTimeout
  <2>2. \E proven \in BOOLEAN : My(w)' = Live(w, proven)
    BY <1>1, <2>1, ReturnStep DEF NextOf
  <2> QED BY <2>2 DEF Live, CallOf
<1> QED BY <1>2, <1>3, <1>4, <1>5, <1>6, <1>7, <1>8, <1>9 DEF WriterStep

\* The maximum grows, and only over what its writer has read.
LEMMA MaximumStep ==
    ASSUME ProbeTypes, NEW w \in ProbeWriters, WriterStep(w)
    PROVE  \/ counters'.max_wait = counters.max_wait
           \/ /\ NoteCas(w) /\ My(w).sample > My(w).observed /\ counters.max_wait = My(w).observed
              /\ counters'.max_wait = My(w).sample
<1>1. counters \in Counts
  BY MoreCounts
<1>2. CASE NoteCas(w)
  BY <1>1, <1>2 DEF NoteCas, Counts
<1>3. CASE BeginAdvance(w) \/ LoseAdvance(w) \/ Lost(w) \/ GraceTimeout(w)
  BY <1>1, <1>3 DEF BeginAdvance, LoseAdvance, Lost, GraceTimeout, Counts
<1>4. CASE RawCall(w) \/ ReloadLoad(w) \/ ReloadCall(w) \/ ReloadFails(w) \/ LoopEnds(w) \/ Unload(w)
           \/ RawReturned(w) \/ ReloadReturned(w) \/ NoteLoad(w) \/ Proven(w)
  BY <1>4 DEF RawCall, ReloadLoad, ReloadCall, ReloadFails, LoopEnds, Unload, RawReturned, ReloadReturned,
              NoteLoad, Proven
<1> QED BY <1>2, <1>3, <1>4 DEF WriterStep

LEMMA WaitsStep ==
    ASSUME ProbeTypes, ProbeTypes', ObservedInv, MaxWaitKept, [ProbeNext]_probeVars
    PROVE  ObservedInv' /\ MaxWaitKept'
<1>1. CASE \E w \in ProbeWriters : WriterStep(w)
  <2>1. PICK w \in ProbeWriters : WriterStep(w)
    BY <1>1
  <2>2. WritersTyped /\ My(w) \in ProbeCalls
    BY MoreTypes, WriterFields
  <2>3. My(w).sample \in Int /\ My(w).observed \in Nat
    BY <2>2 DEF ProbeCalls
  <2>4. counters.max_wait \in Nat /\ noted \in Nat /\ \A x \in ProbeWriters : My(x).observed \in Nat
    <3>1. \A x \in ProbeWriters : My(x) \in ProbeCalls
      BY MoreTypes, WriterFields
    <3> QED BY <3>1, MoreCounts DEF ProbeTypes, ProbeCalls
  <2>5. counters'.max_wait \in Nat /\ counters'.max_wait >= counters.max_wait
    BY <2>1, <2>3, <2>4, MaximumStep
  <2>6. ObservedInv'
    <3>1. \A x \in ProbeWriters : x # w => My(x)' = My(x)
      BY <2>1, WriterStepAlone DEF OthersStay, My
    <3>2. My(w)'.observed \in {0, My(w).observed, counters.max_wait}
      BY <2>1, ObservedStep
    <3> QED BY <2>4, <2>5, <3>1, <3>2 DEF ObservedInv
  <2>7. CASE ~NoteCas(w)
    <3>1. noted' = noted
      BY <2>1, <2>7 DEF WriterStep, RawCall, ReloadLoad, ReloadCall, ReloadFails, LoopEnds, Unload, RawReturned,
             ReloadReturned, BeginAdvance, LoseAdvance, Lost, NoteLoad, Proven, GraceTimeout
    <3> QED BY <2>4, <2>5, <2>6, <3>1 DEF MaxWaitKept
  <2>8. CASE NoteCas(w)
    <3> DEFINE larger == My(w).sample > My(w).observed
               same == counters.max_wait = My(w).observed
    <3>1. noted' = IF larger /\ ~same THEN noted ELSE Max({noted, My(w).sample})
      BY <2>8 DEF NoteCas
    <3>2. larger /\ same => counters'.max_wait = My(w).sample
      <4>1. counters \in Counts
        BY MoreCounts
      <4> QED BY <2>8, <4>1 DEF NoteCas, Counts
    <3>3. Max({noted, My(w).sample}) \in {noted, My(w).sample}
      <4>1. noted \in Int /\ My(w).sample \in Int
        BY <2>3, <2>4
      <4> QED BY <4>1, MaxOfTwo
    <3>4. My(w).observed <= counters.max_wait
      BY DEF ObservedInv
    <3>5. noted <= counters.max_wait
      BY <2>4 DEF MaxWaitKept
    <3>6. noted' <= counters'.max_wait
      BY <2>3, <2>4, <2>5, <3>1, <3>2, <3>3, <3>4, <3>5
    <3>7. noted' \in Nat
      BY DEF ProbeTypes
    <3> QED BY <2>5, <2>6, <3>6, <3>7 DEF MaxWaitKept
  <2> QED BY <2>7, <2>8
<1>2. CASE ~\E w \in ProbeWriters : WriterStep(w)
  BY <1>2, OtherStep DEF ObservedInv, MaxWaitKept, My
<1> QED BY <1>1, <1>2

LEMMA ExitCodeStep ==
    ASSUME ProbeTypes, ExitCodeIsWorst, [ProbeNext]_probeVars
    PROVE  ExitCodeIsWorst'
<1>1. parent' = parent \/ RunChild
  <2>1. CASE \E w \in ProbeWriters : WriterStep(w)
    BY <2>1, WriterStepAlone DEF OnlyWriter
  <2>2. CASE ~\E w \in ProbeWriters : WriterStep(w)
    BY <2>2, OtherStep DEF probeVars, Tick, Sample, WindowEnds, Join, Drain, Judge, ReaderEnter, ReaderExit, OnlyMain
  <2> QED BY <2>1, <2>2
<1>2. CASE parent' = parent
  BY <1>2 DEF ExitCodeIsWorst
<1>3. CASE RunChild
  <2>1. PICK line \in {print_result_line(v) : v \in 0..3} \union {NoLine} :
           LET r == parse_result_line(line)
               all == Append(parent.verdicts, r.verdict)
           IN parent' = IF r.got THEN [verdicts |-> all, rc |-> worst_rc(all)] ELSE [parent EXCEPT !.rc = 64]
    BY <1>3 DEF RunChild
  <2>2. parse_result_line(line).verdict \in 0..3
    BY DEF parse_result_line, print_result_line, NoLine
  <2> DEFINE all == Append(parent.verdicts, parse_result_line(line).verdict)
  <2>3. parent \in [verdicts : Seq(0..3), rc : Nat]
    BY DEF ProbeTypes
  <2>4. all \in Seq(0..3)
    BY <2>2, <2>3
  <2>5. parent' = [verdicts |-> all, rc |-> worst_rc(all)] \/ parent' = [parent EXCEPT !.rc = 64]
    BY <2>1
  <2> HIDE DEF all
  <2>6. worst_rc(all) = Max({0} \union {all[i] : i \in DOMAIN all})
    BY <2>4, WorstIsMax
  <2>7. CASE parent' = [verdicts |-> all, rc |-> worst_rc(all)]
    <3>1. parent'.rc = worst_rc(all) /\ parent'.verdicts = all
      BY <2>7
    <3> QED BY <2>6, <3>1 DEF ExitCodeIsWorst
  <2>8. CASE parent' = [parent EXCEPT !.rc = 64]
    BY <2>3, <2>8 DEF ExitCodeIsWorst
  <2> QED BY <2>5, <2>7, <2>8
<1> QED BY <1>1, <1>2, <1>3

LEMMA LocalStep ==
    ASSUME ProbeTypes, LocalInv, [ProbeNext]_probeVars
    PROVE  LocalInv'
<1>1. CASE \E w \in ProbeWriters : WriterStep(w)
  <2>1. PICK w \in ProbeWriters : WriterStep(w)
    BY <1>1
  <2> QED BY <2>1, CallKeeps, LoopKeeps, NoteKeeps, ReportKeeps, AdvanceKeeps, ReturnKeeps DEF WriterStep
<1>2. CASE ~\E w \in ProbeWriters : WriterStep(w)
  BY <1>2, OtherStep, OthersKeep
<1> QED BY <1>1, <1>2

\* An advancement begins with a call that has not begun one.
LEMMA BegunStep ==
    ASSUME ProbeTypes, LocalInv, NEW w \in ProbeWriters, WriterStep(w)
    PROVE  /\ domain'.global \in Int
           /\ BegunOf(w)' - BegunOf(w) >= domain'.global - domain.global
<1>0. domain \in DomainRecs /\ writer[w].calls \in Nat /\ domain.global \in Nat
  BY MoreTypes DEF ProbeTypes, DomainRecs
<1>1. CASE RawCall(w) \/ ReloadCall(w) \/ Unload(w)
  <2>1. PICK n \in Nat, last \in BOOLEAN : Call(w, n, last)
    BY <1>1 DEF RawCall, ReloadCall, Unload
  <2>2. UNCHANGED domain /\ writer[w].pc \in {"loop", "unload"}
    BY <1>1 DEF RawCall, ReloadCall, Unload, At
  <2>3. writer'[w].pc = "try" /\ writer'[w].calls = writer[w].calls + 1
    BY <2>1, CallViewed DEF StepOf
  <2> QED BY <1>0, <2>2, <2>3 DEF BegunOf, One
<1>2. CASE ReloadLoad(w) \/ ReloadFails(w) \/ LoopEnds(w)
  <2>1. UNCHANGED domain /\ writer[w].pc \in {"load", "loop"}
    BY <1>2 DEF ReloadLoad, ReloadFails, LoopEnds, At
  <2>2. writer'[w].pc \in {"done", "loop", "unload"} /\ writer'[w].calls = writer[w].calls
    BY <1>2, MoreTypes DEF ReloadLoad, ReloadFails, LoopEnds, WritersTyped, Recs
  <2> QED BY <1>0, <2>1, <2>2 DEF BegunOf, One
<1>3. CASE RawReturned(w) \/ ReloadReturned(w)
  <2>1. UNCHANGED domain /\ writer[w].pc = "return"
    BY <1>3 DEF RawReturned, ReloadReturned, At
  <2>2. \E elapsed \in BOOLEAN : Report(w, elapsed)
    BY <1>3 DEF RawReturned, ReloadReturned
  <2>3. writer'[w].pc \in {"done", "loop"} /\ writer'[w].calls = writer[w].calls
    BY <2>2, ReportViewed, MoreTypes DEF StepOf
  <2> QED BY <1>0, <2>1, <2>3 DEF BegunOf, One
<1>4. CASE BeginAdvance(w)
  <2>1. writer[w].pc = "try" /\ domain'.global = domain.global + 1
    BY <1>0, <1>4 DEF BeginAdvance, At, DomainRecs
  <2>2. writer'[w].pc \in {"note", "poll"} /\ writer'[w].calls = writer[w].calls
    BY <1>4, BeginViewed DEF StepOf
  <2> QED BY <1>0, <2>1, <2>2 DEF BegunOf, One
<1>5. CASE LoseAdvance(w)
  <2>1. writer[w].pc = "try" /\ domain'.global = domain.global
    BY <1>0, <1>5 DEF LoseAdvance, At, DomainRecs
  <2>2. writer'[w].pc = "lost" /\ writer'[w].calls = writer[w].calls
    BY <1>5, LoseViewed, MoreTypes DEF StepOf
  <2> QED BY <1>0, <2>1, <2>2 DEF BegunOf, One
<1>6. CASE Lost(w)
  <2>1. writer[w].pc = "lost" /\ domain' = domain
    BY <1>6 DEF Lost, At
  <2>2. writer'[w].pc \in {"note", "try"} /\ writer'[w].calls = writer[w].calls
    BY <1>6, LostViewed DEF StepOf
  <2> QED BY <1>0, <2>1, <2>2 DEF BegunOf, One
<1>7. CASE NoteLoad(w) \/ NoteCas(w)
  <2>1. writer[w].pc \in {"note", "cas"} /\ domain' = domain
    BY <1>7 DEF NoteLoad, NoteCas, At
  <2>2. writer'[w].pc \in {"cas", AfterNote(w)} /\ writer'[w].calls = writer[w].calls
    BY <1>7, NoteLoadViewed, NoteCasViewed DEF StepOf
  <2> QED BY <1>0, <2>1, <2>2 DEF BegunOf, One, AfterNote
<1>8. CASE Proven(w) \/ GraceTimeout(w)
  <2>1. writer[w].pc = "poll" /\ domain'.global = domain.global
    BY <1>0, <1>8 DEF Proven, GraceTimeout, At, DomainRecs
  <2>2. \E proven \in BOOLEAN : writer' = [writer EXCEPT ![w].call = Live(w, proven), ![w].pc = "return"]
    BY <1>8 DEF Proven, GraceTimeout
  <2>3. writer'[w].pc = "return" /\ writer'[w].calls = writer[w].calls
    BY <2>2, ReturnViewed, MoreTypes DEF StepOf
  <2> QED BY <1>0, <2>1, <2>3 DEF BegunOf, One
<1> QED BY <1>1, <1>2, <1>3, <1>4, <1>5, <1>6, <1>7, <1>8 DEF WriterStep

\* The table of epochs is long enough for as many advancements as there are calls.
LEMMA EpochsEnough ==
    ASSUME ProbeTypes, CallsInv, domain.global <= 1 + Total([w \in ProbeWriters |-> BegunOf(w)]) + 1
    PROVE  domain.global <= LastEpoch
<1> DEFINE B == [w \in ProbeWriters |-> BegunOf(w)]
           N == Cardinality(ProbeWriters)
<1>1. IsFiniteSet(ProbeWriters) /\ N \in Nat /\ MaxProbeCalls \in Nat
  BY ProbeAssumption, FS_CardinalityType
<1>2. B \in [ProbeWriters -> Int]
  BY ShareTypes DEF SharesTyped
<1>3. \A w \in ProbeWriters : B[w] <= MaxProbeCalls + 1
  <2>1. \A w \in ProbeWriters : writer[w].calls \in Nat /\ writer[w].calls <= MaxProbeCalls + 1
    BY MoreTypes DEF CallsInv
  <2> QED BY <1>1, <2>1 DEF BegunOf, One
<1>4. Total(B) = SumOver(B, ProbeWriters)
  BY DEF Total, SumOver
<1>5. Total(B) \in Int
  BY <1>2, TotalType
<1>6. Total(B) <= (MaxProbeCalls + 1) * N
  <2> HIDE DEF B
  <2>1. MaxProbeCalls + 1 \in Nat
    BY <1>1
  <2> QED BY <1>1, <1>2, <1>3, <1>4, <2>1, SumBounded
<1> HIDE DEF N
<1>7. (MaxProbeCalls + 2) * N = (MaxProbeCalls + 1) * N + N /\ (MaxProbeCalls + 1) * N \in Int
  BY <1>1
<1>8. LastEpoch = (MaxProbeCalls + 2) * N + 2
  BY DEF LastEpoch, N
<1> HIDE DEF B
<1>9. domain.global \in Nat /\ domain.global <= 1 + Total(B) + 1
  BY MoreTypes DEF B
<1> QED BY <1>1, <1>5, <1>6, <1>7, <1>8, <1>9

FewEpochs == domain.global <= 1 + Total([w \in ProbeWriters |-> BegunOf(w)]) + 1
TableHolds == domain.global <= LastEpoch

LEMMA EpochsEnoughNext == ProbeTypes' /\ CallsInv' /\ FewEpochs' => TableHolds'
<1>1. ProbeTypes /\ CallsInv /\ FewEpochs => TableHolds
  BY EpochsEnough DEF FewEpochs, TableHolds
<1> QED BY <1>1, PTL

LEMMA EpochsStep ==
    ASSUME ProbeTypes, ProbeTypes', LocalInv, LocalInv', EpochsInv, [ProbeNext]_probeVars
    PROVE  EpochsInv'
<1> DEFINE B == [w \in ProbeWriters |-> BegunOf(w)]
           late == One(stage \in {"judge", "done"})
<1>1. B \in [ProbeWriters -> Int] /\ B' \in [ProbeWriters -> Int]
  BY ShareTypes, ShareTypesNext DEF SharesTyped
<1>2. Total(B) \in Int /\ Total(B)' = Total(B') /\ domain.global \in Nat /\ domain'.global \in Nat
  BY <1>1, TotalType, MoreTypes DEF ProbeTypes
<1>3. domain.global <= 1 + Total(B) + late
  BY DEF EpochsInv
<1>4. domain'.global <= 1 + Total(B)' + late'
  <2>1. CASE \E w \in ProbeWriters : WriterStep(w)
    <3>1. PICK w \in ProbeWriters : WriterStep(w)
      BY <2>1
    <3>2. \A x \in ProbeWriters : x # w => B'[x] = B[x]
      BY <3>1, WriterStepAlone DEF OthersStay, BegunOf
    <3>3. B'[w] - B[w] >= domain'.global - domain.global /\ B[w] \in Int /\ B'[w] \in Int
      BY <1>1, <3>1, BegunStep
    <3>4. stage' = stage
      BY <3>1, WriterStepAlone DEF OnlyWriter
    <3>5. late' = late /\ late \in {0, 1}
      BY <3>4 DEF One
    <3> HIDE DEF B, late
    <3>6. Total(B') = Total(B) + (B'[w] - B[w])
      BY <1>1, <3>2, TotalChanged
    <3> QED BY <1>2, <1>3, <3>3, <3>5, <3>6
  <2>2. CASE ~\E w \in ProbeWriters : WriterStep(w)
    <3>1. writer' = writer
      BY <2>2, OtherStep
    <3>2. B' = B
      BY <3>1 DEF BegunOf
    <3>3. domain'.global - domain.global <= late' - late
      <4>1. CASE Drain
        BY <1>2, <4>1, DrainWorks DEF Drain, One
      <4>2. CASE ~Drain
        <5>1. domain'.global = domain.global
          BY <2>2, <4>2, OtherStep DEF probeVars, RunChild, Tick, Sample, WindowEnds, Join, Judge, ReaderEnter,
             ReaderExit, OnlyMain
        <5>2. stage \in {"judge", "done"} => stage' \in {"judge", "done"}
          BY <2>2, <4>2, OtherStep DEF probeVars, RunChild, Tick, Sample, WindowEnds, Join, Judge, ReaderEnter,
             ReaderExit, OnlyMain
        <5> QED BY <1>2, <5>1, <5>2 DEF One
      <4> QED BY <4>1, <4>2
    <3>4. late \in {0, 1} /\ late' \in {0, 1}
      BY DEF One
    <3> HIDE DEF B, late
    <3> QED BY <1>2, <1>3, <3>2, <3>3, <3>4
  <2> QED BY <2>1, <2>2
<1>5. domain'.global <= 1 + Total(B)' + 1
  <2>1. late' \in {0, 1}
    BY DEF One
  <2>2. Total(B)' \in Int
    BY <1>1, TotalType
  <2> HIDE DEF B, late
  <2> QED BY <1>2, <1>4, <2>1, <2>2
<1>6. domain'.global <= LastEpoch
  BY <1>5, EpochsEnoughNext DEF LocalInv, FewEpochs, TableHolds
<1> QED BY <1>4, <1>6 DEF EpochsInv

LEMMA ObservedInit == ProbeInit => ObservedInv
<1> SUFFICES ASSUME ProbeInit PROVE ObservedInv
  OBVIOUS
<1>1. counters.max_wait = 0 /\ \A w \in ProbeWriters : My(w) = NoCall
  BY DEF ProbeInit, reset_stats, NoCounts, My
<1>2. NoCall.observed = 0
  BY DEF NoCall, CallOf
<1> QED BY <1>1, <1>2 DEF ObservedInv

LEMMA ProbeInductive == ProbeSpec => []ProbeInv
<1>1. ProbeInit => ProbeInv
  BY StatsInit, LocalInit, ObservedInit DEF ProbeInv, LocalInv
<1>2. ProbeInv /\ [ProbeNext]_probeVars => ProbeInv'
  <2> SUFFICES ASSUME ProbeInv, [ProbeNext]_probeVars
               PROVE  ProbeInv'
    OBVIOUS
  <2>1. ProbeTypes /\ LocalInv /\ CountersInv /\ EpochsInv /\ ObservedInv /\ MaxWaitKept /\ ExitCodeIsWorst
    BY DEF ProbeInv, LocalInv
  <2>2. ProbeTypes'
    BY <2>1, ProbeTypesStep
  <2>3. LocalInv'
    BY <2>1, LocalStep
  <2>4. CountersInv'
    BY <2>1, <2>2, CountersStep
  <2>5. EpochsInv'
    BY <2>1, <2>2, <2>3, EpochsStep
  <2>6. ObservedInv' /\ MaxWaitKept'
    BY <2>1, <2>2, WaitsStep
  <2>7. ExitCodeIsWorst'
    BY <2>1, ExitCodeStep
  <2> QED BY <2>2, <2>3, <2>4, <2>5, <2>6, <2>7 DEF ProbeInv, LocalInv
<1> QED BY <1>1, <1>2, PTL DEF ProbeSpec

\* When the threads have ended the shares are what the reports say.
LEMMA SharesAtTheEnd == ProbeInv => ReportsMatchCounters
<1> SUFFICES ASSUME ProbeInv, stage \in {"drain", "judge", "done"}
             PROVE  LET c == result.totals
                        sum == Total([w \in ProbeWriters |-> reports[w].ok + reports[w].timeouts])
                        unloads == Cardinality({w \in ProbeWriters : writer[w].loaded})
                        timeouts == Total([w \in ProbeWriters |-> reports[w].timeouts])
                    IN /\ sum + unloads = (c.attempts - c.contentions) + c.timeouts
                       /\ c.contentions = c.retries
                       /\ IF mode = "raw" THEN timeouts = c.timeouts + c.grace ELSE timeouts <= c.timeouts + c.grace
  BY DEF ReportsMatchCounters
<1>1. ProbeTypes /\ CountersInv /\ StagesInv
  BY DEF ProbeInv
<1>2. result.totals = counters /\ \A w \in ProbeWriters : writer[w].pc = "done"
  BY <1>1 DEF StagesInv, At
<1> DEFINE F == [w \in ProbeWriters |-> EndsOf(w)]
           G == [w \in ProbeWriters |-> TimeoutsOf(w)]
           H == [w \in ProbeWriters |-> One(At(w, "lost"))]
           sum == [w \in ProbeWriters |-> reports[w].ok + reports[w].timeouts]
           late == [w \in ProbeWriters |-> reports[w].timeouts]
           load == [w \in ProbeWriters |-> One(writer[w].loaded)]
           C == {w \in ProbeWriters : writer[w].loaded}
<1>3. /\ Total(F) = (counters.attempts - counters.contentions) + counters.timeouts
      /\ counters.contentions = counters.retries + Total(H)
      /\ IF mode = "raw" THEN Total(G) = counters.timeouts + counters.grace ELSE Total(G) <= counters.timeouts + counters.grace
  BY <1>1 DEF CountersInv
<1>4. \A w \in ProbeWriters : reports[w].ok \in Nat /\ reports[w].timeouts \in Nat
  BY <1>1, MoreCounts
<1>5. /\ sum \in [ProbeWriters -> Int] /\ load \in [ProbeWriters -> Int] /\ F \in [ProbeWriters -> Int]
      /\ H \in [ProbeWriters -> Int]
  BY <1>1, <1>4, ShareTypes DEF SharesTyped, One
<1>6. \A w \in ProbeWriters : F[w] = sum[w] + load[w] /\ H[w] = 0
  BY <1>2, <1>4 DEF EndsOf, One, At
<1>7. G = late
  BY <1>2, <1>4 DEF TimeoutsOf, One, At
<1>8. \A w \in ProbeWriters : load[w] = IF w \in C THEN 1 ELSE 0
  BY DEF One
<1>9. {w \in ProbeWriters : w \in C} = C
  OBVIOUS
<1>10. IsFiniteSet(ProbeWriters)
  BY ProbeAssumption
<1>11. counters.contentions \in Nat /\ counters.retries \in Nat
  BY <1>1, MoreCounts
<1> HIDE DEF F, G, H, sum, late, load, C
<1>12. Total(F) = Total(sum) + Total(load)
  <2>1. SumOver(F, ProbeWriters) = SumOver(sum, ProbeWriters) + SumOver(load, ProbeWriters)
    BY <1>5, <1>6, <1>10, SumsAdded
  <2> QED BY <2>1 DEF Total, SumOver
<1>13. Total(load) = Cardinality(C)
  <2>1. SumOver(load, ProbeWriters) = Cardinality(C)
    BY <1>5, <1>8, <1>9, <1>10, SumCounts
  <2> QED BY <2>1 DEF Total, SumOver
<1>14. Total(H) = 0
  BY <1>5, <1>6, TotalOfZeroes
<1>15. Total(sum) + Cardinality(C) = (counters.attempts - counters.contentions) + counters.timeouts
  BY <1>3, <1>12, <1>13
<1>16. counters.contentions = counters.retries
  BY <1>3, <1>11, <1>14
<1>17. IF mode = "raw" THEN Total(late) = counters.timeouts + counters.grace ELSE Total(late) <= counters.timeouts + counters.grace
  BY <1>3, <1>7
<1> QED BY <1>2, <1>15, <1>16, <1>17 DEF sum, late, C

\* "the Domain counters are what distinguish the two failure modes" (advance_probe.cpp:25):
\* whatever the number of writers and calls, the counters account for every call of
\* synchronize_until() once, no longer wait was lost to a shorter one, and the exit code
\* of the parent is that of its worst child.
THEOREM StatisticsStayTrue == ProbeSpec => []StatisticsTrue
<1>1. ProbeInv => StatisticsTrue
  BY SharesAtTheEnd DEF ProbeInv, StatisticsTrue
<1> QED BY <1>1, ProbeInductive, PTL

\* "Safe: defer, never leak" (advance_probe.cpp:49): after the drain no node is left, in
\* the domain or in the batch of a writer.
THEOREM DrainTakesAll == ProbeSpec => []DrainLeavesNothing
<1>1. ProbeInv => DrainLeavesNothing
  BY DEF ProbeInv, DrainLeavesNothing, NodesInv, StagesInv, At
<1> QED BY <1>1, ProbeInductive, PTL

\* "a configured timeout is never reused as an absolute instant" (Object.h:166): a reload
\* that gives up has waited for the whole of its own timeout.
THEOREM ReloadsWait == ProbeSpec => []ReloadsWaitTheirOwnTime
<1>1. ProbeInv => ReloadsWaitTheirOwnTime
  BY DEF ProbeInv, ReloadsWaitTheirOwnTime, DeadlinesInv, WaitBoundIsPerCall, At
<1> QED BY <1>1, ProbeInductive, PTL
=============================================================================
