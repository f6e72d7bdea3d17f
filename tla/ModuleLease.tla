---------------------------- MODULE ModuleLease ----------------------------
(***************************************************************************)
(* The lifecycle of one loaded module (Interface/Lease.h), the reference   *)
(* to the mapped library that the first lease takes and the last drops     *)
(* (Interface/Discovery.h), the owner handles that keep a lease for as     *)
(* long as their object lives (Interface/Owner.h), and the registry call   *)
(* that unloads the module (ModuleRegistry::unregister_module).            *)
(*                                                                         *)
(* A handle stands for one ModuleLease object, with the owner::ref around  *)
(* it when it has an object.  Handles are used by different threads: every *)
(* atomic access, and every access to `pin_state`, is a step of its own.   *)
(* Atomics are sequentially consistent.                                    *)
(***************************************************************************)
EXTENDS Integers, FiniteSets

CONSTANTS
    Handles,     \* the lease handles
    Platform,    \* "posix" or "windows": the pin and unpin hooks; "none": null hooks
    PinMayFail,  \* TRUE: the system call that adds a reference may fail
    MaxRefs      \* bound: the largest reference count a run explores

ASSUME HandlesAssumption == IsFiniteSet(Handles)
ASSUME PlatformAssumption == Platform \in {"posix", "windows", "none"}
ASSUME PinAssumption == PinMayFail \in BOOLEAN
ASSUME RefsAssumption == MaxRefs \in Nat \ {0}

VARIABLES
    state,      \* ModuleControl::state
    leases,     \* ModuleControl::leases
    pinState,   \* ModuleControl::pin_state is not null
    osRefs,     \* the operating system's reference count of the library
    mapped,     \* the image that was loaded has not been unmapped
    opened,     \* the loader's own reference is not closed yet
    pc,         \* where the call on a handle stands; "empty", "held" between calls
    before,     \* the count that fetch_add returned to it
    object,     \* the handle has an object to destroy (owner::ref)
    unloader,   \* where unregister_module stands
    refused     \* history: the acquire that raised the present count from zero
                \* was refused, so that nobody pinned for the leases it includes

vars == <<state, leases, pinState, osRefs, mapped, opened, pc, before, object,
          unloader, refused>>
loaderVars == <<state, opened, unloader>>
osVars == <<pinState, osRefs, mapped>>
counts == <<leases, refused>>

States == {"loading", "active", "draining", "unloaded"}
Labels == {"empty", "acquire", "recheck", "undo", "pin", "store", "held",
           "drop", "unpin", "close", "clear"}

\* register_module() has bound the platform identity of an opened library.
Init ==
    /\ state = "loading"
    /\ leases = 0
    /\ pinState = FALSE
    /\ osRefs = 1
    /\ mapped = TRUE
    /\ opened = TRUE
    /\ pc = [h \in Handles |-> "empty"]
    /\ before = [h \in Handles |-> 0]
    /\ object = [h \in Handles |-> FALSE]
    /\ unloader = "none"
    /\ refused = FALSE

Goto(h, label) == pc' = [pc EXCEPT ![h] = label]

-----------------------------------------------------------------------------
(***************************************************************************)
(* try_acquire_lease().                                                    *)
(***************************************************************************)

\* Mutation of TryAcquire: the state is not looked at before the increment.
TryAcquireUnchecked(h) ==
    /\ pc[h] = "empty"
    /\ ~object[h]
    /\ Goto(h, "acquire")
    /\ UNCHANGED <<loaderVars, counts, osVars, before, object>>

\* A module that is not active is refused at once.
TryAcquire(h) ==
    /\ pc[h] = "empty"
    /\ ~object[h]
    /\ state = "active"
    /\ Goto(h, "acquire")
    /\ UNCHANGED <<loaderVars, counts, osVars, before, object>>

\* owner::ref::adopt() of an object that a call made under lease g returned;
\* the reference owns the object whether or not it gets a lease.
Adopt(h, g) ==
    /\ pc[h] = "empty"
    /\ ~object[h]
    /\ pc[g] = "held"
    /\ object' = [object EXCEPT ![h] = TRUE]
    /\ Goto(h, IF state = "active" THEN "acquire" ELSE "empty")
    /\ UNCHANGED <<loaderVars, counts, osVars, before>>

\* leases.fetch_add(1)
Increment(h) ==
    /\ pc[h] = "acquire"
    /\ leases' = leases + 1
    /\ before' = [before EXCEPT ![h] = leases]
    /\ Goto(h, "recheck")
    /\ UNCHANGED <<loaderVars, osVars, object, refused>>

\* Mutation of Recheck: the state is not looked at again.
RecheckSkipped(h) ==
    /\ pc[h] = "recheck"
    /\ Goto(h, IF before[h] = 0 /\ Platform # "none" THEN "pin" ELSE "held")
    /\ UNCHANGED <<loaderVars, counts, osVars, before, object>>

\* Mutation of Recheck: no lease pins.
RecheckNeverPins(h) ==
    /\ pc[h] = "recheck"
    /\ Goto(h, IF state # "active" THEN "undo" ELSE "held")
    /\ UNCHANGED <<loaderVars, counts, osVars, before, object>>

\* The second look at the state; the first lease goes on to pin.
Recheck(h) ==
    /\ pc[h] = "recheck"
    /\ Goto(h, IF state # "active" THEN "undo"
               ELSE IF before[h] = 0 /\ Platform # "none" THEN "pin" ELSE "held")
    /\ UNCHANGED <<loaderVars, counts, osVars, before, object>>

\* Mutation of Undo: the refused acquire keeps its count.
UndoForgotten(h) ==
    /\ pc[h] = "undo"
    /\ Goto(h, "empty")
    /\ UNCHANGED <<loaderVars, counts, osVars, before, object>>

\* leases.fetch_sub(1) of a lease that is not granted: it never unpins.
Undo(h) ==
    /\ pc[h] = "undo"
    /\ leases' = leases - 1
    /\ refused' = (leases # 1 /\ (refused \/ before[h] = 0))
    /\ Goto(h, "empty")
    /\ UNCHANGED <<loaderVars, osVars, before, object>>

-----------------------------------------------------------------------------
(***************************************************************************)
(* pin_module() and unpin_module().  dlopen() and GetModuleHandleEx() add  *)
(* a reference, dlclose() and FreeLibrary() take one away if there is one; *)
(* the last one unmaps the image.  After that dlopen() maps another one,   *)
(* and GetModuleHandleEx() finds no module at the address.                 *)
(***************************************************************************)
AddReference ==
    /\ osRefs < MaxRefs
    /\ osRefs' = osRefs + 1
    /\ UNCHANGED mapped

DropReference ==
    /\ osRefs' = IF osRefs = 0 THEN 0 ELSE osRefs - 1
    /\ mapped' = (mapped /\ osRefs > 1)

\* The result of dlopen() is stored in a later step.
PinOpen(h) ==
    /\ pc[h] = "pin"
    /\ Platform = "posix"
    /\ AddReference
    /\ Goto(h, "store")
    /\ UNCHANGED <<loaderVars, counts, pinState, before, object>>

PinStore(h) ==
    /\ pc[h] = "store"
    /\ pinState' = TRUE
    /\ Goto(h, "held")
    /\ UNCHANGED <<loaderVars, counts, osRefs, mapped, before, object>>

\* dlopen() or GetModuleHandleEx() fails.  try_acquire_lease() ignores the
\* result of the hook: the lease is granted all the same.
PinFails(h) ==
    /\ pc[h] = "pin"
    /\ PinMayFail \/ (Platform = "windows" /\ ~mapped)
    /\ pinState' = FALSE
    /\ Goto(h, "held")
    /\ UNCHANGED <<loaderVars, counts, osRefs, mapped, before, object>>

PinWindows(h) ==
    /\ pc[h] = "pin"
    /\ Platform = "windows"
    /\ mapped
    /\ AddReference
    /\ Goto(h, "held")
    /\ UNCHANGED <<loaderVars, counts, pinState, before, object>>

UnpinLoad(h) ==
    /\ pc[h] = "unpin"
    /\ Platform = "posix"
    /\ Goto(h, IF pinState THEN "close" ELSE "empty")
    /\ UNCHANGED <<loaderVars, counts, osVars, before, object>>

UnpinClose(h) ==
    /\ pc[h] = "close"
    /\ DropReference
    /\ Goto(h, "clear")
    /\ UNCHANGED <<loaderVars, counts, pinState, before, object>>

UnpinClear(h) ==
    /\ pc[h] = "clear"
    /\ pinState' = FALSE
    /\ Goto(h, "empty")
    /\ UNCHANGED <<loaderVars, counts, osRefs, mapped, before, object>>

UnpinWindows(h) ==
    /\ pc[h] = "unpin"
    /\ Platform = "windows"
    /\ DropReference
    /\ Goto(h, "empty")
    /\ UNCHANGED <<loaderVars, counts, pinState, before, object>>

-----------------------------------------------------------------------------
(***************************************************************************)
(* Use and end of a handle.                                                *)
(***************************************************************************)

\* release_lease(): leases.fetch_sub(1); the last lease unpins.
Decrement(h) ==
    /\ leases' = leases - 1
    /\ refused' = (refused /\ leases # 1)
    /\ Goto(h, IF leases = 1 /\ Platform # "none" THEN "unpin" ELSE "empty")
    /\ UNCHANGED <<loaderVars, osVars, before, object>>

\* ModuleLease::release() of a lease without an object.
Release(h) ==
    /\ pc[h] = "held"
    /\ ~object[h]
    /\ Decrement(h)

\* owner::ref::release(): the creator's destroy entry runs first ...
Destroy(h) ==
    /\ pc[h] = "held"
    /\ object[h]
    /\ object' = [object EXCEPT ![h] = FALSE]
    /\ Goto(h, "drop")
    /\ UNCHANGED <<loaderVars, counts, osVars, before>>

\* ... and then the lease is dropped.
DropLease(h) ==
    /\ pc[h] = "drop"
    /\ Decrement(h)

\* The same of a reference whose lease was refused.
DestroyUnleased(h) ==
    /\ pc[h] = "empty"
    /\ object[h]
    /\ object' = [object EXCEPT ![h] = FALSE]
    /\ UNCHANGED <<loaderVars, counts, osVars, pc, before>>

\* Move construction, or move assignment to a handle that has been released.
Move(h, g) ==
    /\ pc[h] = "held"
    /\ pc[g] = "empty"
    /\ ~object[g]
    /\ pc' = [pc EXCEPT ![h] = "empty", ![g] = "held"]
    /\ object' = [object EXCEPT ![h] = FALSE, ![g] = object[h]]
    /\ UNCHANGED <<loaderVars, counts, osVars, before>>

-----------------------------------------------------------------------------
(***************************************************************************)
(* The loader.                                                             *)
(***************************************************************************)

\* activate_module(), from register_module()
Activate ==
    /\ state = "loading"
    /\ state' = "active"
    /\ UNCHANGED <<counts, osVars, opened, pc, before, object, unloader>>

\* unregister_module() of a registered module: begin_unload()
BeginUnload ==
    /\ unloader = "none"
    /\ state \in {"active", "draining"}
    /\ state' = "draining"
    /\ unloader' = "wait"
    /\ UNCHANGED <<counts, osVars, opened, pc, before, object>>

\* Mutation of WaitForIdle: one lease left counts as idle.
WaitForIdleOffByOne ==
    /\ unloader = "wait"
    /\ leases \in {0, 1}
    /\ unloader' = "idle"
    /\ UNCHANGED <<state, counts, osVars, opened, pc, before, object>>

\* wait_for_idle() has seen a count of zero.
WaitForIdle ==
    /\ unloader = "wait"
    /\ leases = 0
    /\ unloader' = "idle"
    /\ UNCHANGED <<state, counts, osVars, opened, pc, before, object>>

\* wait_for_idle() has run out of spins: `busy`, and the caller may retry.
Busy ==
    /\ unloader = "wait"
    /\ leases # 0
    /\ unloader' = "none"
    /\ UNCHANGED <<state, counts, osVars, opened, pc, before, object>>

\* mark_unloaded(), after the registry has removed the module's interfaces.
MarkUnloaded ==
    /\ unloader = "idle"
    /\ state' = "unloaded"
    /\ unloader' = "done"
    /\ UNCHANGED <<counts, osVars, opened, pc, before, object>>

\* dll::Object::unload() and the reclaim_image() that follows it: the owner closes
\* the library it opened, whenever it likes.  Neither the registry nor the count
\* of leases is asked.
CloseLibrary ==
    /\ opened
    /\ opened' = FALSE
    /\ DropReference
    /\ UNCHANGED <<state, counts, pinState, pc, before, object, unloader>>

-----------------------------------------------------------------------------
\* The steps of a call that is under way on handle h.
Continue(h) ==
    \/ Increment(h) \/ Recheck(h) \/ Undo(h)
    \/ PinOpen(h) \/ PinStore(h) \/ PinFails(h) \/ PinWindows(h)
    \/ UnpinLoad(h) \/ UnpinClose(h) \/ UnpinClear(h) \/ UnpinWindows(h)
    \/ DropLease(h)

Call(h) ==
    \/ TryAcquire(h)
    \/ Release(h)
    \/ Destroy(h)
    \/ DestroyUnleased(h)
    \/ \E g \in Handles : Adopt(h, g) \/ Move(h, g)

Unregister == BeginUnload \/ WaitForIdle \/ Busy \/ MarkUnloaded

Next ==
    \/ Activate
    \/ Unregister
    \/ CloseLibrary
    \/ \E h \in Handles : Continue(h) \/ Call(h)

Spec == Init /\ [][Next]_vars
-----------------------------------------------------------------------------
(***************************************************************************)
(* Properties.                                                             *)
(***************************************************************************)

\* Every variable has its type.
TypeOK ==
    /\ state \in States
    /\ leases \in Nat
    /\ pinState \in BOOLEAN
    /\ osRefs \in Nat
    /\ mapped \in BOOLEAN
    /\ opened \in BOOLEAN
    /\ pc \in [Handles -> Labels]
    /\ before \in [Handles -> Nat]
    /\ object \in [Handles -> BOOLEAN]
    /\ unloader \in {"none", "wait", "idle", "done"}
    /\ refused \in BOOLEAN

\* The handles whose lease has been granted and not yet given back.
Leased == {h \in Handles : pc[h] \in {"pin", "store", "held", "drop"}}

\* The handles that the count includes, among them those about to be refused.
Counted == {h \in Handles : pc[h] \in {"recheck", "undo", "pin", "store", "held", "drop"}}

\* "the module may only actually unload once every lease is released"
\* (Lease.h): a granted lease excludes the unloaded state, although an acquire
\* may be between its first look at the state and its increment when
\* wait_for_idle() sees zero.
NoLeaseWhenUnloaded == state = "unloaded" => Leased = {}

\* Nothing guards the leases yet, or any more: the acquire that raised the count
\* from zero has not pinned so far, or was refused and never will; without hooks
\* a lease is logical only.
Unguarded ==
    \/ Platform = "none"
    \/ refused
    \/ \E h \in Handles : before[h] = 0 /\ pc[h] \in {"recheck", "undo", "pin"}

\* The owner may close the library at any moment, and the unpins of earlier
\* leases may come late: no step unmaps it while a lease is granted whose cycle
\* has pinned.  The reference that pin took is there, and it is not the one that
\* anybody else is about to drop (release_lease(): "unmaps the module exactly
\* once every lease is gone").
GuardedLeaseBlocksUnmap ==
    [][mapped /\ Leased # {} /\ ~Unguarded => mapped']_vars

\* "The first lease takes an OS-level reference (`pin`) so the module stays
\* mapped until the last lease is released" (Lease.h): no step unmaps the
\* library while try_acquire_lease() has returned TRUE to some handle.
HeldLeaseBlocksUnmap ==
    [][mapped /\ (\E h \in Handles : pc[h] = "held") => mapped']_vars

\* "an object handle keeps the creating module loaded for as long as it lives"
\* (Owner.h).
ObjectKeepsModuleLoaded ==
    \A h \in Handles : object[h] => state # "unloaded"

\* The reference that unpin drops is the one that pin took ("A single reference
\* is held across all leases", Discovery.h): the loader's own is never dropped
\* before it closes the library.
LoaderReferenceKept == opened => mapped

\* With atomic grants and hand-overs the lifecycle is that of LeaseContract.
Contract == INSTANCE LeaseContract WITH held <- Leased

\* Every step of the counter protocol is one of the contract, or invisible to
\* it: no lease is granted once draining began, none is outstanding at unload.
ImplementsContract == Contract!Spec

(***************************************************************************)
(* The inductive invariant behind NoLeaseWhenUnloaded and                  *)
(* GuardedLeaseBlocksUnmap.                                                *)
(***************************************************************************)

\* The count is the number of handles between their increment and decrement.
CountExact == leases = Cardinality(Counted)

\* unregister_module() and the state agree, and from the moment it has seen a
\* count of zero no lease is granted.
UnloaderState ==
    /\ unloader = "done" <=> state = "unloaded"
    /\ unloader \in {"wait", "idle"} => state = "draining"
    /\ unloader \in {"idle", "done"} => Leased = {}
    /\ state = "loading" => Leased = {}

\* No call is under way before the module is active, only the first lease of a
\* cycle pins, and a refusal means that the module has begun to drain.
HandleState ==
    /\ state = "loading" => \A h \in Handles : pc[h] = "empty"
    /\ \A h \in Handles : pc[h] = "pin" => before[h] = 0
    /\ \A h \in Handles : pc[h] = "undo" => state \in {"draining", "unloaded"}
    /\ refused => state \in {"draining", "unloaded"}
    /\ Platform = "none" => \A h \in Handles : pc[h] \notin {"unpin", "close"}

\* The handles that may still drop a reference.
Unpinning == {h \in Handles : pc[h] \in {"unpin", "close"}}

\* The reference of the present leases has been taken and not yet given back.
Pinned == IF Counted # {} /\ ~Unguarded THEN 1 ELSE 0

\* The reference of the loader.
Opened == IF opened THEN 1 ELSE 0

\* As long as the library is mapped there is a reference for the loader, one for
\* every handle that may drop one and, where the leases are guarded, the one
\* that they took.  After a refused first acquire the last of the others drops a
\* reference that nobody took: by then no lease is left.
ReferencesCover ==
    mapped /\ (state \in {"loading", "active"} \/ Leased # {}) =>
        osRefs >= Opened + Cardinality(Unpinning) + Pinned

\* The inductive invariant; a pin that fails leaves the references uncovered.
IInv ==
    /\ TypeOK
    /\ CountExact
    /\ UnloaderState
    /\ HandleState
    /\ ~PinMayFail => ReferencesCover

(***************************************************************************)
(* Liveness.  A call under way goes on, a lease that can be dropped again  *)
(* and again is dropped, and a caller told `busy` retries.                 *)
(***************************************************************************)
Retry == state = "draining" /\ Unregister

FairSpec ==
    /\ Spec
    /\ WF_vars(Retry)
    /\ \A h \in Handles : WF_vars(Continue(h))
    /\ \A h \in Handles : SF_vars(Release(h) \/ Destroy(h))

\* An unload that has begun ends: refused callers do not keep the count up for
\* ever ("Stop admitting new leases", begin_unload()).
UnloadCompletes == state = "draining" ~> state = "unloaded"
=============================================================================
