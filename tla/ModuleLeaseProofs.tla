------------------------- MODULE ModuleLeaseProofs -------------------------
(***************************************************************************)
(* The lease protocol of ModuleLease, proved for any finite set of         *)
(* handles and on every platform: the count is exact, so that a count of   *)
(* zero seen while draining means that no lease is granted, and none is    *)
(* granted afterwards.                                                     *)
(***************************************************************************)
EXTENDS ModuleLease, FiniteSetTheorems, TLAPS

\* The groups of variables that the actions leave alone.
USE DEF counts, osVars, loaderVars

-----------------------------------------------------------------------------
\* What dlclose() and FreeLibrary() do: with the last reference the image goes.
LEMMA DropResult ==
    ASSUME osRefs \in Nat, DropReference
    PROVE  /\ osRefs' \in Nat /\ mapped' \in BOOLEAN
           /\ mapped' <=> mapped /\ osRefs > 1
           /\ mapped' => osRefs' = osRefs - 1
<1>1. osRefs' \in Nat /\ (osRefs > 1 => osRefs' = osRefs - 1)
  BY DEF DropReference
<1>2. mapped' = (mapped /\ osRefs > 1)
  BY Zenon DEF DropReference
<1>3. mapped' \in BOOLEAN /\ (mapped' <=> mapped /\ osRefs > 1)
  BY <1>2, Zenon
<1> QED
  BY <1>1, <1>3

\* Every step keeps every variable in its type; the count stays a natural
\* number because a handle that decrements it is counted.
LEMMA TypeStep == TypeOK /\ CountExact /\ [Next]_vars => TypeOK'
<1> USE DEF TypeOK, States, Labels
<1> SUFFICES ASSUME TypeOK, CountExact, [Next]_vars PROVE TypeOK'
  OBVIOUS
<1>0. ASSUME NEW h \in Handles, pc[h] \in {"undo", "held", "drop"}
      PROVE  leases - 1 \in Nat
  <2>1. h \in Counted
    BY <1>0 DEF Counted
  <2>2. IsFiniteSet(Counted)
    BY HandlesAssumption, FS_Subset DEF Counted
  <2>3. Cardinality(Counted) # 0 /\ Cardinality(Counted) \in Nat
    BY <2>1, <2>2, FS_EmptySet, FS_CardinalityType
  <2> QED
    BY <2>3 DEF CountExact
<1>1. CASE UNCHANGED vars
  BY <1>1 DEF vars
<1>2. CASE Activate \/ Unregister \/ CloseLibrary
  <2>1. CASE Activate \/ Unregister
    BY <2>1 DEF Activate, Unregister, BeginUnload, WaitForIdle, Busy, MarkUnloaded
  <2>2. CASE CloseLibrary
    <3>1. osRefs' \in Nat /\ mapped' \in BOOLEAN
      BY <2>2, DropResult DEF CloseLibrary
    <3>2. opened' \in BOOLEAN
      BY <2>2 DEF CloseLibrary
    <3> QED
      BY <2>2, <3>1, <3>2 DEF CloseLibrary
  <2> QED
    BY <1>2, <2>1, <2>2
<1>3. ASSUME NEW h \in Handles, Continue(h) PROVE TypeOK'
  <2>1. CASE Increment(h)
    BY <2>1 DEF Increment, Goto
  <2>2. CASE Recheck(h)
    BY <2>2 DEF Recheck, Goto
  <2>3. CASE Undo(h)
    BY <2>3, <1>0 DEF Undo, Goto
  <2>4. CASE PinOpen(h) \/ PinStore(h) \/ PinFails(h) \/ PinWindows(h)
    <3>1. CASE PinOpen(h) \/ PinWindows(h)
      <4>1. osRefs' \in Nat /\ mapped' = mapped
        BY <3>1 DEF PinOpen, PinWindows, AddReference
      <4> QED
        BY <3>1, <4>1 DEF PinOpen, PinWindows, Goto
    <3>2. CASE PinStore(h) \/ PinFails(h)
      <4>1. pinState' \in BOOLEAN
        BY <3>2 DEF PinStore, PinFails
      <4> QED
        BY <3>2, <4>1 DEF PinStore, PinFails, Goto
    <3> QED
      BY <2>4, <3>1, <3>2
  <2>5. CASE UnpinLoad(h) \/ UnpinClose(h) \/ UnpinClear(h) \/ UnpinWindows(h)
    <3>1. CASE UnpinLoad(h)
      BY <3>1 DEF UnpinLoad, Goto
    <3>2. CASE UnpinClose(h) \/ UnpinWindows(h)
      <4>1. osRefs' \in Nat /\ mapped' \in BOOLEAN
        BY <3>2, DropResult DEF UnpinClose, UnpinWindows
      <4> QED
        BY <3>2, <4>1 DEF UnpinClose, UnpinWindows, Goto
    <3>3. CASE UnpinClear(h)
      <4>1. pinState' \in BOOLEAN
        BY <3>3 DEF UnpinClear
      <4> QED
        BY <3>3, <4>1 DEF UnpinClear, Goto
    <3> QED
      BY <2>5, <3>1, <3>2, <3>3
  <2>6. CASE DropLease(h)
    BY <2>6, <1>0 DEF DropLease, Decrement, Goto
  <2> QED
    BY <1>3, <2>1, <2>2, <2>3, <2>4, <2>5, <2>6 DEF Continue
<1>4. ASSUME NEW h \in Handles, Call(h) PROVE TypeOK'
  <2>1. CASE TryAcquire(h)
    BY <2>1 DEF TryAcquire, Goto
  <2>2. CASE Release(h)
    BY <2>2, <1>0 DEF Release, Decrement, Goto
  <2>3. CASE Destroy(h) \/ DestroyUnleased(h)
    BY <2>3 DEF Destroy, DestroyUnleased, Goto
  <2>4. CASE \E g \in Handles : Adopt(h, g) \/ Move(h, g)
    BY <2>4 DEF Adopt, Move, Goto
  <2> QED
    BY <1>4, <2>1, <2>2, <2>3, <2>4 DEF Call
<1> QED
  BY <1>1, <1>2, <1>3, <1>4 DEF Next

-----------------------------------------------------------------------------
\* A step that changes neither the count nor the counted handles keeps the
\* count exact.
LEMMA CountKept ==
    ASSUME CountExact, leases' = leases, Counted' = Counted
    PROVE  CountExact'
BY DEF CountExact

\* A counted handle that leaves the count takes one away from it.
LEMMA CountLeaves ==
    ASSUME CountExact, NEW h \in Handles, h \in Counted,
           leases' = leases - 1, Counted' = Counted \ {h}
    PROVE  CountExact'
<1>1. IsFiniteSet(Counted)
  BY HandlesAssumption, FS_Subset DEF Counted
<1>2. Cardinality(Counted \ {h}) = Cardinality(Counted) - 1
  BY <1>1, FS_RemoveElement
<1> QED
  BY <1>2 DEF CountExact

\* fetch_add() and fetch_sub() move the count with the handles they count.
LEMMA CountStep == TypeOK /\ CountExact /\ [Next]_vars => CountExact'
<1> USE DEF TypeOK, Labels
<1> SUFFICES ASSUME TypeOK, CountExact, [Next]_vars PROVE CountExact'
  OBVIOUS
<1>1. CASE UNCHANGED vars
  BY <1>1, CountKept DEF vars, Counted
<1>2. CASE Activate \/ Unregister \/ CloseLibrary
  <2>1. leases' = leases /\ Counted' = Counted
    BY <1>2 DEF Activate, Unregister, BeginUnload, WaitForIdle, Busy, MarkUnloaded,
                CloseLibrary, Counted
  <2> QED
    BY <2>1, CountKept
<1>3. ASSUME NEW h \in Handles, Continue(h) PROVE CountExact'
  <2>1. CASE Increment(h)
    <3>1. h \notin Counted /\ Counted' = Counted \union {h} /\ leases' = leases + 1
      BY <2>1 DEF Increment, Goto, Counted
    <3>2. IsFiniteSet(Counted)
      BY HandlesAssumption, FS_Subset DEF Counted
    <3>3. Cardinality(Counted \union {h}) = Cardinality(Counted) + 1
      BY <3>1, <3>2, FS_AddElement
    <3> QED
      BY <3>1, <3>3 DEF CountExact
  <2>2. CASE Undo(h)
    <3>1. h \in Counted /\ Counted' = Counted \ {h} /\ leases' = leases - 1
      BY <2>2 DEF Undo, Goto, Counted
    <3> QED
      BY <3>1, CountLeaves
  <2>3. CASE DropLease(h)
    <3>1. h \in Counted /\ Counted' = Counted \ {h} /\ leases' = leases - 1
      BY <2>3 DEF DropLease, Decrement, Goto, Counted
    <3> QED
      BY <3>1, CountLeaves
  <2>4. CASE Recheck(h) \/ PinOpen(h) \/ PinStore(h) \/ PinFails(h) \/ PinWindows(h)
    <3>1. leases' = leases /\ Counted' = Counted
      BY <2>4 DEF Recheck, PinOpen, PinStore, PinFails, PinWindows, Goto, Counted
    <3> QED
      BY <3>1, CountKept
  <2>5. CASE UnpinLoad(h) \/ UnpinClose(h) \/ UnpinClear(h) \/ UnpinWindows(h)
    <3>1. leases' = leases /\ Counted' = Counted
      BY <2>5 DEF UnpinLoad, UnpinClose, UnpinClear, UnpinWindows, Goto, Counted
    <3> QED
      BY <3>1, CountKept
  <2> QED
    BY <1>3, <2>1, <2>2, <2>3, <2>4, <2>5 DEF Continue
<1>4. ASSUME NEW h \in Handles, Call(h) PROVE CountExact'
  <2>1. CASE TryAcquire(h) \/ Destroy(h) \/ DestroyUnleased(h)
    <3>1. leases' = leases /\ Counted' = Counted
      BY <2>1 DEF TryAcquire, Destroy, DestroyUnleased, Goto, Counted
    <3> QED
      BY <3>1, CountKept
  <2>2. CASE Release(h)
    <3>1. h \in Counted /\ Counted' = Counted \ {h} /\ leases' = leases - 1
      BY <2>2 DEF Release, Decrement, Goto, Counted
    <3> QED
      BY <3>1, CountLeaves
  <2>3. ASSUME NEW g \in Handles, Adopt(h, g) PROVE CountExact'
    <3>1. leases' = leases /\ Counted' = Counted
      BY <2>3 DEF Adopt, Goto, Counted
    <3> QED
      BY <3>1, CountKept
  <2>4. ASSUME NEW g \in Handles, Move(h, g) PROVE CountExact'
    <3>1. h \in Counted /\ g \notin Counted /\ g # h /\ leases' = leases
      BY <2>4 DEF Move, Counted
    <3>2. Counted' = (Counted \ {h}) \union {g}
      BY <2>4 DEF Move, Counted
    <3>3. IsFiniteSet(Counted)
      BY HandlesAssumption, FS_Subset DEF Counted
    <3>4. IsFiniteSet(Counted \ {h}) /\ Cardinality(Counted \ {h}) = Cardinality(Counted) - 1
      BY <3>1, <3>3, FS_RemoveElement
    <3>5. g \notin Counted \ {h}
      BY <3>1
    <3>6. Cardinality((Counted \ {h}) \union {g}) = Cardinality(Counted \ {h}) + 1
      BY <3>4, <3>5, FS_AddElement
    <3> QED
      BY <3>1, <3>2, <3>4, <3>6 DEF CountExact
  <2> QED
    BY <1>4, <2>1, <2>2, <2>3, <2>4 DEF Call
<1> QED
  BY <1>1, <1>2, <1>3, <1>4 DEF Next

-----------------------------------------------------------------------------
\* While nothing is counted nothing is granted.
LEMMA ZeroMeansFree == ASSUME CountExact, leases = 0 PROVE Leased = {}
<1>1. IsFiniteSet(Counted)
  BY HandlesAssumption, FS_Subset DEF Counted
<1>2. Counted = {}
  BY <1>1, FS_EmptySet DEF CountExact
<1> QED
  BY <1>2 DEF Counted, Leased

\* The unloader and the state stay in step, and no lease is granted from the
\* moment the unloader has seen a count of zero.
LEMMA UnloaderStep ==
    TypeOK /\ CountExact /\ UnloaderState /\ [Next]_vars => UnloaderState'
<1> USE DEF TypeOK, Labels, States
<1> SUFFICES ASSUME TypeOK, CountExact, UnloaderState, [Next]_vars PROVE UnloaderState'
  OBVIOUS
<1>1. CASE UNCHANGED vars
  BY <1>1 DEF vars, UnloaderState, Leased
<1>2. CASE Activate
  BY <1>2 DEF Activate, UnloaderState, Leased
<1>3. CASE BeginUnload
  BY <1>3 DEF BeginUnload, UnloaderState, Leased
<1>4. CASE WaitForIdle
  <2>1. Leased = {}
    BY <1>4, ZeroMeansFree DEF WaitForIdle
  <2> QED
    BY <1>4, <2>1 DEF WaitForIdle, UnloaderState, Leased
<1>5. CASE Busy
  BY <1>5 DEF Busy, UnloaderState, Leased
<1>6. CASE MarkUnloaded
  BY <1>6 DEF MarkUnloaded, UnloaderState, Leased
<1>7. CASE CloseLibrary
  BY <1>7 DEF CloseLibrary, UnloaderState, Leased
<1>8. ASSUME NEW h \in Handles, Continue(h) \/ Call(h) PROVE UnloaderState'
  <2>1. state' = state /\ unloader' = unloader
    BY <1>8 DEF Continue, Call, Increment, Recheck, Undo, PinOpen, PinStore, PinFails,
                PinWindows, UnpinLoad, UnpinClose, UnpinClear, UnpinWindows, DropLease,
                TryAcquire, Release, Destroy, DestroyUnleased, Adopt, Move, Decrement
  <2>2. state # "active" /\ Leased = {} => Leased' = {}
    <3>1. CASE Recheck(h) \/ Increment(h) \/ Undo(h) \/ TryAcquire(h)
      BY <3>1 DEF Recheck, Increment, Undo, TryAcquire, Goto, Leased
    <3>2. CASE PinOpen(h) \/ PinStore(h) \/ PinFails(h) \/ PinWindows(h)
      BY <3>2 DEF PinOpen, PinStore, PinFails, PinWindows, Leased
    <3>3. CASE UnpinLoad(h) \/ UnpinClose(h) \/ UnpinClear(h) \/ UnpinWindows(h)
      BY <3>3 DEF UnpinLoad, UnpinClose, UnpinClear, UnpinWindows, Goto, Leased
    <3>4. CASE DropLease(h) \/ Release(h) \/ Destroy(h) \/ DestroyUnleased(h)
      BY <3>4 DEF DropLease, Release, Destroy, DestroyUnleased, Leased
    <3>5. CASE \E g \in Handles : Adopt(h, g) \/ Move(h, g)
      BY <3>5 DEF Adopt, Move, Goto, Leased
    <3> QED
      BY <1>8, <3>1, <3>2, <3>3, <3>4, <3>5 DEF Continue, Call
  <2> QED
    BY <2>1, <2>2 DEF UnloaderState
<1> QED
  BY <1>1, <1>2, <1>3, <1>4, <1>5, <1>6, <1>7, <1>8 DEF Next, Unregister

-----------------------------------------------------------------------------
\* The state of a handle's call stays in step with the module's.
LEMMA HandleStateStep ==
    TypeOK /\ UnloaderState /\ HandleState /\ [Next]_vars => HandleState'
<1> USE DEF TypeOK, Labels, States, HandleState
<1> SUFFICES ASSUME TypeOK, UnloaderState, HandleState, [Next]_vars PROVE HandleState'
  OBVIOUS
<1>1. CASE UNCHANGED vars
  BY <1>1 DEF vars
<1>2. CASE Activate \/ Unregister \/ CloseLibrary
  BY <1>2 DEF Activate, Unregister, BeginUnload, WaitForIdle, Busy, MarkUnloaded,
              CloseLibrary
<1>3. ASSUME NEW h \in Handles, Continue(h) PROVE HandleState'
  <2>1. CASE Increment(h)
    BY <2>1 DEF Increment, Goto
  <2>2. CASE Recheck(h)
    BY <2>2 DEF Recheck, Goto
  <2>3. CASE Undo(h)
    BY <2>3 DEF Undo, Goto
  <2>4. CASE PinOpen(h) \/ PinStore(h) \/ PinFails(h) \/ PinWindows(h)
    BY <2>4 DEF PinOpen, PinStore, PinFails, PinWindows, Goto
  <2>5. CASE UnpinLoad(h) \/ UnpinClose(h) \/ UnpinClear(h) \/ UnpinWindows(h)
    BY <2>5 DEF UnpinLoad, UnpinClose, UnpinClear, UnpinWindows, Goto
  <2>6. CASE DropLease(h)
    BY <2>6 DEF DropLease, Decrement, Goto
  <2> QED
    BY <1>3, <2>1, <2>2, <2>3, <2>4, <2>5, <2>6 DEF Continue
<1>4. ASSUME NEW h \in Handles, Call(h) PROVE HandleState'
  <2>1. CASE TryAcquire(h)
    BY <2>1 DEF TryAcquire, Goto
  <2>2. CASE Release(h)
    BY <2>2 DEF Release, Decrement, Goto
  <2>3. CASE Destroy(h) \/ DestroyUnleased(h)
    BY <2>3 DEF Destroy, DestroyUnleased, Goto
  <2>4. ASSUME NEW g \in Handles, Adopt(h, g) PROVE HandleState'
    BY <2>4 DEF Adopt, Goto
  <2>5. ASSUME NEW g \in Handles, Move(h, g) PROVE HandleState'
    BY <2>5 DEF Move
  <2> QED
    BY <1>4, <2>1, <2>2, <2>3, <2>4, <2>5 DEF Call
<1> QED
  BY <1>1, <1>2, <1>3, <1>4 DEF Next

-----------------------------------------------------------------------------
\* How many handles may drop a reference is a number, now and after a step; a
\* cycle has one reference or none.
LEMMA UnpinningCount ==
    /\ IsFiniteSet(Unpinning) /\ Cardinality(Unpinning) \in Nat
    /\ IsFiniteSet(Unpinning') /\ Cardinality(Unpinning') \in Nat
<1>1. IsFiniteSet(Unpinning) /\ IsFiniteSet(Unpinning')
  BY HandlesAssumption, FS_Subset DEF Unpinning
<1> QED
  BY <1>1, FS_CardinalityType

LEMMA PinnedValue == Pinned \in {0, 1} /\ Pinned' \in {0, 1}
BY DEF Pinned

LEMMA OpenedValue == Opened \in {0, 1} /\ Opened' \in {0, 1}
BY DEF Opened

\* A step that takes no reference away and adds nothing to what they have to
\* cover keeps them covered.
LEMMA CoverKept ==
    ASSUME osRefs \in Nat, osRefs' \in Nat, ReferencesCover,
           osRefs' >= osRefs, mapped' => mapped, Opened' = Opened,
           Cardinality(Unpinning') <= Cardinality(Unpinning), Pinned' <= Pinned,
           state' \in {"loading", "active"} => state \in {"loading", "active"},
           Leased' # {} => Leased # {} \/ state \in {"loading", "active"}
    PROVE  ReferencesCover'
BY UnpinningCount, PinnedValue, OpenedValue DEF ReferencesCover

\* The last counted handle is alone.
LEMMA LastCounted ==
    ASSUME CountExact, leases = 1, NEW h \in Handles, h \in Counted
    PROVE  Counted = {h}
<1>1. IsFiniteSet(Counted) /\ Cardinality(Counted) = 1
  BY HandlesAssumption, FS_Subset DEF Counted, CountExact
<1>2. PICK x : Counted = {x}
  BY <1>1, FS_Singleton
<1> QED
  BY <1>2

\* Every handle that drops a reference has one to drop, and neither the loader's
\* nor that of the present leases is the one that it drops.
LEMMA ReferencesStep ==
    ASSUME ~PinMayFail, IInv, TypeOK', [Next]_vars
    PROVE  ReferencesCover'
<1> USE DEF TypeOK, Labels, States
<1>0. TypeOK /\ CountExact /\ HandleState /\ UnloaderState /\ ReferencesCover
  BY DEF IInv
<1>1. CASE UNCHANGED vars
  <2>1. Unpinning' = Unpinning /\ Leased' = Leased /\ Pinned' = Pinned /\ Opened' = Opened
    BY <1>1 DEF vars, Unpinning, Leased, Pinned, Counted, Unguarded, Opened
  <2> QED
    BY <1>0, <1>1, <2>1 DEF vars, ReferencesCover
<1>2. CASE Activate \/ Unregister
  <2>1. Unpinning' = Unpinning /\ Leased' = Leased /\ Pinned' = Pinned
    BY <1>2 DEF Activate, Unregister, BeginUnload, WaitForIdle, Busy, MarkUnloaded,
                Unpinning, Leased, Pinned, Counted, Unguarded
  <2>2. osRefs' = osRefs /\ mapped' = mapped /\ Opened' = Opened
    BY <1>2 DEF Activate, Unregister, BeginUnload, WaitForIdle, Busy, MarkUnloaded, Opened
  <2>3. state' \in {"loading", "active"} => state \in {"loading", "active"}
    BY <1>2 DEF Activate, Unregister, BeginUnload, WaitForIdle, Busy, MarkUnloaded
  <2> QED
    BY <1>0, <2>1, <2>2, <2>3 DEF ReferencesCover
<1>3. CASE CloseLibrary
  <2>1. Unpinning' = Unpinning /\ Leased' = Leased /\ Pinned' = Pinned /\ state' = state
    BY <1>3 DEF CloseLibrary, Unpinning, Leased, Pinned, Counted, Unguarded
  <2>2. Opened = 1 /\ Opened' = 0
    BY <1>3 DEF CloseLibrary, Opened
  <2>3. mapped' => mapped /\ osRefs' = osRefs - 1
    BY <1>0, <1>3, DropResult DEF CloseLibrary
  <2> QED
    BY <1>0, <2>1, <2>2, <2>3, PinnedValue, UnpinningCount DEF ReferencesCover
<1>4. ASSUME NEW h \in Handles, TryAcquire(h) \/ Destroy(h) \/ DestroyUnleased(h)
                                 \/ PinStore(h) \/ UnpinClear(h)
      PROVE  ReferencesCover'
  <2>1. Unpinning' = Unpinning /\ Leased' = Leased /\ Pinned' = Pinned
    BY <1>4 DEF TryAcquire, Destroy, DestroyUnleased, PinStore, UnpinClear, Goto,
                Unpinning, Leased, Pinned, Counted, Unguarded
  <2>2. osRefs' = osRefs /\ mapped' = mapped /\ state' = state /\ Opened' = Opened
    BY <1>4 DEF TryAcquire, Destroy, DestroyUnleased, PinStore, UnpinClear, Opened
  <2> QED
    BY <1>0, <2>1, <2>2 DEF ReferencesCover
<1>5. ASSUME NEW h \in Handles, Increment(h) PROVE ReferencesCover'
  <2>1. Unpinning' = Unpinning /\ Leased' = Leased
    BY <1>5 DEF Increment, Goto, Unpinning, Leased
  <2>2. osRefs' = osRefs /\ mapped' = mapped /\ state' = state /\ Opened' = Opened
    BY <1>5 DEF Increment, Opened
  <2>3. Pinned' <= Pinned
    <3>1. CASE leases = 0
      BY <1>5, <3>1 DEF Increment, Goto, Pinned, Unguarded
    <3>2. CASE leases # 0
      <4>1. Counted # {}
        BY <1>0, <3>2, FS_EmptySet DEF CountExact
      <4>2. ~Unguarded' => ~Unguarded
        BY <1>5 DEF Increment, Goto, Unguarded
      <4> QED
        BY <4>1, <4>2 DEF Pinned
    <3> QED
      BY <3>1, <3>2
  <2> QED
    BY <1>0, <2>1, <2>2, <2>3, UnpinningCount, CoverKept
<1>6. ASSUME NEW h \in Handles, Recheck(h) PROVE ReferencesCover'
  <2>1. Unpinning' = Unpinning
    BY <1>6 DEF Recheck, Goto, Unpinning
  <2>2. osRefs' = osRefs /\ mapped' = mapped /\ state' = state /\ Opened' = Opened
    BY <1>6 DEF Recheck, Opened
  <2>3. Counted # {}
    BY <1>6 DEF Recheck, Counted
  <2>4. ~Unguarded' => ~Unguarded
    BY <1>6 DEF Recheck, Goto, Unguarded
  <2>5. Pinned' <= Pinned
    BY <2>3, <2>4 DEF Pinned
  <2>6. Leased' # {} => Leased # {} \/ state \in {"loading", "active"}
    BY <1>6 DEF Recheck, Goto, Leased
  <2> QED
    BY <1>0, <2>1, <2>2, <2>5, <2>6, UnpinningCount, CoverKept
<1>7. ASSUME NEW h \in Handles, Undo(h) PROVE ReferencesCover'
  <2>1. Unpinning' = Unpinning /\ Leased' = Leased
    BY <1>7 DEF Undo, Goto, Unpinning, Leased
  <2>2. osRefs' = osRefs /\ mapped' = mapped /\ state' = state /\ Opened' = Opened
    BY <1>7 DEF Undo, Opened
  <2>3. h \in Counted
    BY <1>7 DEF Undo, Counted
  <2>4. Pinned' <= Pinned
    <3>1. CASE leases = 1
      <4>1. Counted' = {}
        BY <1>0, <1>7, <2>3, <3>1, LastCounted DEF Undo, Goto, Counted
      <4> QED
        BY <4>1 DEF Pinned
    <3>2. CASE leases # 1
      <4>1. ~Unguarded' => ~Unguarded
        BY <1>7, <3>2 DEF Undo, Goto, Unguarded
      <4> QED
        BY <2>3, <4>1 DEF Pinned
    <3> QED
      BY <3>1, <3>2
  <2> QED
    BY <1>0, <2>1, <2>2, <2>4, UnpinningCount, CoverKept
<1>8. ASSUME NEW h \in Handles, PinOpen(h) \/ PinWindows(h) PROVE ReferencesCover'
  <2>1. Unpinning' = Unpinning /\ Leased' = Leased
    BY <1>8 DEF PinOpen, PinWindows, Goto, Unpinning, Leased
  <2>2. osRefs' = osRefs + 1 /\ mapped' = mapped /\ state' = state /\ Opened' = Opened
    BY <1>8 DEF PinOpen, PinWindows, AddReference, Opened
  <2> QED
    BY <1>0, <2>1, <2>2, PinnedValue, OpenedValue, UnpinningCount DEF ReferencesCover
<1>9. ASSUME NEW h \in Handles, UnpinLoad(h) PROVE ReferencesCover'
  <2>1. Leased' = Leased /\ Pinned' = Pinned
    BY <1>9 DEF UnpinLoad, Goto, Leased, Pinned, Counted, Unguarded
  <2>2. osRefs' = osRefs /\ mapped' = mapped /\ state' = state /\ Opened' = Opened
    BY <1>9 DEF UnpinLoad, Opened
  <2>3. Unpinning' \subseteq Unpinning
    BY <1>9 DEF UnpinLoad, Goto, Unpinning
  <2>4. Cardinality(Unpinning') <= Cardinality(Unpinning)
    BY <2>3, UnpinningCount, FS_Subset
  <2> QED
    BY <1>0, <2>1, <2>2, <2>4, PinnedValue, CoverKept
<1>10. ASSUME NEW h \in Handles, UnpinClose(h) \/ UnpinWindows(h) PROVE ReferencesCover'
  <2>1. Leased' = Leased /\ Pinned' = Pinned
    BY <1>10 DEF UnpinClose, UnpinWindows, Goto, Leased, Pinned, Counted, Unguarded
  <2>2. state' = state /\ Opened' = Opened
    BY <1>10 DEF UnpinClose, UnpinWindows, Opened
  <2>3. h \in Unpinning /\ Unpinning' = Unpinning \ {h}
    BY <1>10 DEF UnpinClose, UnpinWindows, Goto, Unpinning
  <2>4. Cardinality(Unpinning') = Cardinality(Unpinning) - 1
    BY <2>3, UnpinningCount, FS_RemoveElement
  <2>5. mapped' => mapped /\ osRefs' = osRefs - 1
    BY <1>0, <1>10, DropResult DEF UnpinClose, UnpinWindows
  <2> QED
    BY <1>0, <2>1, <2>2, <2>4, <2>5, PinnedValue, OpenedValue, UnpinningCount
       DEF ReferencesCover
<1>11. ASSUME NEW h \in Handles, pc[h] \in {"held", "drop"}, Decrement(h)
       PROVE  ReferencesCover'
  <2>0. h \in Counted
    BY <1>11 DEF Counted
  <2>1. osRefs' = osRefs /\ mapped' = mapped /\ state' = state /\ Opened' = Opened
    BY <1>11 DEF Decrement, Opened
  <2>2. CASE leases = 1 /\ Platform # "none"
    <3>1. Counted = {h}
      BY <1>0, <2>0, <2>2, LastCounted
    <3>2. Leased' = {} /\ Counted' = {}
      BY <1>11, <2>2, <3>1 DEF Decrement, Goto, Counted, Leased
    <3>3. Pinned' = 0
      BY <3>2 DEF Pinned
    <3>4. state \in {"loading", "active"} => Pinned = 1
      BY <1>0, <1>11, <2>2, <3>1 DEF Pinned, Unguarded, HandleState, Counted
    <3>5. h \notin Unpinning /\ Unpinning' = Unpinning \union {h}
      BY <1>11, <2>2 DEF Decrement, Goto, Unpinning
    <3>6. Cardinality(Unpinning') = Cardinality(Unpinning) + 1
      BY <3>5, UnpinningCount, FS_AddElement
    <3> QED
      BY <1>0, <2>1, <3>2, <3>3, <3>4, <3>6, UnpinningCount, OpenedValue
         DEF ReferencesCover
  <2>3. CASE ~(leases = 1 /\ Platform # "none")
    <3>1. Unpinning' = Unpinning /\ Leased' \subseteq Leased
      BY <1>11, <2>3 DEF Decrement, Goto, Unpinning, Leased
    <3>2. ~Unguarded' => ~Unguarded
      BY <1>11, <2>3 DEF Decrement, Goto, Unguarded
    <3>3. Pinned' <= Pinned
      BY <2>0, <3>2 DEF Pinned
    <3> QED
      BY <1>0, <2>1, <3>1, <3>3, UnpinningCount, CoverKept
  <2> QED
    BY <2>2, <2>3
<1>12. ASSUME NEW h \in Handles, NEW g \in Handles, Adopt(h, g) PROVE ReferencesCover'
  <2>1. Unpinning' = Unpinning /\ Leased' = Leased /\ Pinned' = Pinned
    BY <1>12 DEF Adopt, Goto, Unpinning, Leased, Pinned, Counted, Unguarded
  <2>2. osRefs' = osRefs /\ mapped' = mapped /\ state' = state /\ Opened' = Opened
    BY <1>12 DEF Adopt, Opened
  <2> QED
    BY <1>0, <2>1, <2>2 DEF ReferencesCover
<1>13. ASSUME NEW h \in Handles, NEW g \in Handles, Move(h, g) PROVE ReferencesCover'
  <2>1. Unpinning' = Unpinning /\ Leased # {} /\ Counted # {}
    BY <1>13 DEF Move, Unpinning, Leased, Counted
  <2>2. osRefs' = osRefs /\ mapped' = mapped /\ state' = state /\ Opened' = Opened
    BY <1>13 DEF Move, Opened
  <2>3. ~Unguarded' => ~Unguarded
    BY <1>13 DEF Move, Unguarded
  <2>4. Pinned' <= Pinned
    BY <2>1, <2>3 DEF Pinned
  <2> QED
    BY <1>0, <2>1, <2>2, <2>4, UnpinningCount, CoverKept
<1>14. ASSUME NEW h \in Handles, PinFails(h) PROVE ReferencesCover'
  BY <1>14 DEF PinFails, ReferencesCover
<1> QED
  BY <1>1, <1>2, <1>3, <1>4, <1>5, <1>6, <1>7, <1>8, <1>9, <1>10, <1>11, <1>12, <1>13, <1>14
     DEF Next, Continue, Call, Release, DropLease

-----------------------------------------------------------------------------
\* The initial state satisfies the invariant.
LEMMA InitInvariant == Init => IInv
<1> SUFFICES ASSUME Init PROVE IInv
  OBVIOUS
<1>1. Counted = {} /\ Leased = {}
  BY DEF Init, Counted, Leased
<1>2. CountExact
  BY <1>1, FS_EmptySet DEF CountExact, Init
<1>3. TypeOK /\ UnloaderState /\ HandleState
  BY <1>1 DEF Init, TypeOK, States, Labels, UnloaderState, HandleState
<1>4. Unpinning = {} /\ Pinned = 0 /\ Opened = 1
  BY <1>1 DEF Init, Unpinning, Pinned, Opened
<1>5. ReferencesCover
  BY <1>1, <1>4, FS_EmptySet DEF ReferencesCover, Init
<1> QED
  BY <1>2, <1>3, <1>5 DEF IInv

\* The inductive invariant of the lease protocol: the counter counts exactly
\* the handles between fetch_add and fetch_sub, unregister_module() and the
\* granted leases exclude each other from wait_for_idle() on, and, where pins do
\* not fail, the references to the library cover all that may be dropped.
THEOREM LeaseInductive == Spec => []IInv
<1>1. IInv /\ [Next]_vars => IInv'
  BY TypeStep, CountStep, UnloaderStep, HandleStateStep, ReferencesStep DEF IInv
<1> QED
  BY InitInvariant, <1>1, PTL DEF Spec

\* No lease is granted while the module is unloaded: the double check of
\* try_acquire_lease() around its increment is enough, for any number of
\* handles and any interleaving.
THEOREM LeaseExcludesUnload == Spec => []NoLeaseWhenUnloaded
<1>1. IInv => NoLeaseWhenUnloaded
  BY DEF IInv, UnloaderState, NoLeaseWhenUnloaded
<1> QED
  BY LeaseInductive, <1>1, PTL

\* The owner may close the library whenever it likes: while a lease is granted
\* whose cycle has pinned, no step unmaps the library, on every platform, whatever
\* pins and unpins of successive first and last leases overlap, as long as the
\* system call that adds a reference does not fail.
THEOREM LeaseKeepsMapping == ASSUME ~PinMayFail PROVE Spec => GuardedLeaseBlocksUnmap
<1> DEFINE Guarded == mapped /\ Leased # {} /\ ~Unguarded
<1>1. ASSUME IInv, [Next]_vars, Guarded, ~mapped' PROVE FALSE
  <2> USE DEF TypeOK
  <2>1. TypeOK /\ ReferencesCover
    BY <1>1 DEF IInv
  <2>2. Pinned = 1
    BY <1>1 DEF Pinned, Counted, Leased
  <2>3. osRefs >= Opened + Cardinality(Unpinning) + 1
    BY <1>1, <2>1, <2>2 DEF ReferencesCover
  <2>4. CASE CloseLibrary
    <3>1. Opened = 1
      BY <2>4 DEF CloseLibrary, Opened
    <3> QED
      BY <1>1, <2>1, <2>3, <2>4, <3>1, UnpinningCount, DropResult DEF CloseLibrary
  <2>5. ASSUME NEW h \in Handles, UnpinClose(h) \/ UnpinWindows(h) PROVE FALSE
    <3>1. h \in Unpinning
      BY <2>5 DEF UnpinClose, UnpinWindows, Unpinning
    <3>2. Cardinality(Unpinning) >= 1
      BY <3>1, UnpinningCount, FS_EmptySet
    <3> QED
      BY <1>1, <2>1, <2>3, <2>5, <3>2, OpenedValue, UnpinningCount, DropResult
         DEF UnpinClose, UnpinWindows
  <2>6. CASE UNCHANGED vars \/ Activate \/ Unregister
    BY <1>1, <2>6 DEF vars, Activate, Unregister, BeginUnload, WaitForIdle, Busy,
                      MarkUnloaded
  <2>7. ASSUME NEW h \in Handles, Call(h) PROVE FALSE
    BY <1>1, <2>7 DEF Call, TryAcquire, Release, Destroy, DestroyUnleased, Adopt, Move,
                      Decrement
  <2>8. ASSUME NEW h \in Handles, Continue(h), ~UnpinClose(h), ~UnpinWindows(h)
        PROVE  FALSE
    BY <1>1, <2>8 DEF Continue, Increment, Recheck, Undo, PinOpen, PinStore, PinFails,
                      PinWindows, UnpinLoad, UnpinClear, DropLease, Decrement, AddReference
  <2> QED
    BY <1>1, <2>4, <2>5, <2>6, <2>7, <2>8 DEF Next
<1>2. IInv /\ [Next]_vars => [Guarded => mapped']_vars
  BY <1>1
<1> QED
  BY LeaseInductive, <1>2, PTL DEF Spec, GuardedLeaseBlocksUnmap

-----------------------------------------------------------------------------
(***************************************************************************)
(* Refinement of LeaseContract.                                            *)
(***************************************************************************)

\* A step that leaves the lifecycle and the granted leases alone stutters.
LEMMA LeaseStutter ==
    ASSUME state' = state, Leased' = Leased
    PROVE  [Contract!Next]_(Contract!vars)
BY DEF Contract!vars

\* Every step of a call on a handle is a grant, a release, a hand-over or
\* invisible to the contract.
LEMMA HandleRefines ==
    ASSUME TypeOK, NEW h \in Handles, Continue(h) \/ Call(h)
    PROVE  [Contract!Next]_(Contract!vars)
<1> USE DEF TypeOK, Labels
<1>0. state' = state
  BY DEF Continue, Call, Increment, Recheck, Undo, PinOpen, PinStore, PinFails,
         PinWindows, UnpinLoad, UnpinClose, UnpinClear, UnpinWindows, DropLease,
         TryAcquire, Release, Destroy, DestroyUnleased, Adopt, Move, Decrement
<1>1. CASE Recheck(h)
  <2>1. CASE state = "active"
    <3>1. Leased' = Leased \union {h}
      BY <1>1, <2>1 DEF Recheck, Goto, Leased
    <3> QED
      BY <1>0, <2>1, <3>1 DEF Contract!Next, Contract!Acquire
  <2>2. CASE state # "active"
    <3>1. Leased' = Leased
      BY <1>1, <2>2 DEF Recheck, Goto, Leased
    <3> QED
      BY <1>0, <3>1, LeaseStutter
  <2> QED
    BY <2>1, <2>2
<1>2. CASE DropLease(h) \/ Release(h)
  <2>1. Leased' = Leased \ {h}
    BY <1>2 DEF DropLease, Release, Decrement, Goto, Leased
  <2> QED
    BY <1>0, <2>1 DEF Contract!Next, Contract!Release
<1>3. CASE \E g \in Handles : Move(h, g)
  <2>1. PICK g \in Handles : Move(h, g)
    BY <1>3
  <2>2. h \in Leased /\ Leased' = (Leased \ {h}) \union {g}
    BY <2>1 DEF Move, Leased
  <2> QED
    BY <1>0, <2>2 DEF Contract!Next, Contract!HandOn
<1>4. CASE Increment(h) \/ Undo(h) \/ TryAcquire(h) \/ Destroy(h) \/ DestroyUnleased(h)
  <2>1. Leased' = Leased
    BY <1>4 DEF Increment, Undo, TryAcquire, Destroy, DestroyUnleased, Goto, Leased
  <2> QED
    BY <1>0, <2>1, LeaseStutter
<1>5. CASE PinOpen(h) \/ PinStore(h) \/ PinFails(h) \/ PinWindows(h)
  <2>1. Leased' = Leased
    BY <1>5 DEF PinOpen, PinStore, PinFails, PinWindows, Goto, Leased
  <2> QED
    BY <1>0, <2>1, LeaseStutter
<1>6. CASE UnpinLoad(h) \/ UnpinClose(h) \/ UnpinClear(h) \/ UnpinWindows(h)
  <2>1. Leased' = Leased
    BY <1>6 DEF UnpinLoad, UnpinClose, UnpinClear, UnpinWindows, Goto, Leased
  <2> QED
    BY <1>0, <2>1, LeaseStutter
<1>7. CASE \E g \in Handles : Adopt(h, g)
  <2>1. Leased' = Leased
    BY <1>7 DEF Adopt, Goto, Leased
  <2> QED
    BY <1>0, <2>1, LeaseStutter
<1> QED
  BY <1>1, <1>2, <1>3, <1>4, <1>5, <1>6, <1>7 DEF Continue, Call

\* Every step of the loader is a step of the contract; unregister_module()
\* unloads with no lease granted.
LEMMA LoaderRefines ==
    ASSUME IInv, Activate \/ Unregister \/ CloseLibrary
    PROVE  [Contract!Next]_(Contract!vars)
<1>0. Leased' = Leased
  BY DEF Activate, Unregister, BeginUnload, WaitForIdle, Busy, MarkUnloaded,
         CloseLibrary, Leased
<1>1. CASE Activate
  BY <1>0, <1>1 DEF Activate, Contract!Next, Contract!Activate
<1>2. CASE BeginUnload
  <2>1. CASE state = "active"
    BY <1>0, <1>2, <2>1 DEF BeginUnload, Contract!Next, Contract!Drain
  <2>2. CASE state = "draining"
    BY <1>0, <1>2, <2>2, LeaseStutter DEF BeginUnload
  <2> QED
    BY <1>2, <2>1, <2>2 DEF BeginUnload
<1>3. CASE WaitForIdle \/ Busy \/ CloseLibrary
  BY <1>0, <1>3, LeaseStutter DEF WaitForIdle, Busy, CloseLibrary
<1>4. CASE MarkUnloaded
  <2>1. state = "draining" /\ Leased = {}
    BY <1>4 DEF MarkUnloaded, IInv, UnloaderState
  <2> QED
    BY <1>0, <1>4, <2>1 DEF MarkUnloaded, Contract!Next, Contract!Unload
<1> QED
  BY <1>1, <1>2, <1>3, <1>4 DEF Unregister

\* The counter protocol of Lease.h implements the contract in which granting,
\* handing on and releasing a lease and unloading are single atomic steps.
THEOREM LeaseImplements == Spec => ImplementsContract
<1>1. Init => Contract!Init
  BY DEF Init, Contract!Init, Leased
<1>2. IInv /\ [Next]_vars => [Contract!Next]_(Contract!vars)
  <2> SUFFICES ASSUME IInv, [Next]_vars PROVE [Contract!Next]_(Contract!vars)
    OBVIOUS
  <2>1. CASE UNCHANGED vars
    BY <2>1, LeaseStutter DEF vars, Leased
  <2>2. CASE Activate \/ Unregister \/ CloseLibrary
    BY <2>2, LoaderRefines
  <2>3. CASE \E h \in Handles : Continue(h) \/ Call(h)
    BY <2>3, HandleRefines DEF IInv
  <2> QED
    BY <2>1, <2>2, <2>3 DEF Next
<1> QED
  BY LeaseInductive, <1>1, <1>2, PTL DEF Spec, ImplementsContract, Contract!Spec
=============================================================================
