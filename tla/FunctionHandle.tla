--------------------------- MODULE FunctionHandle ---------------------------
(***************************************************************************)
(* dll::Object and the dll::Function handles resolved from it              *)
(* (DLL/Object.h, DLL/Function.h).  A handle caches the index of its entry *)
(* and the address of the image it was last validated against; images come *)
(* and go under it, and an address is used again once its image is freed.  *)
(*                                                                         *)
(* The epoch domain is what SafeReclamation promises (RcuDomain implements *)
(* it): a retired image is freed at any time at which no thread holds it   *)
(* in a section.  The Control is shared by the Object and the handles;     *)
(* the last of them to go retires the image and deletes it.                *)
(***************************************************************************)
EXTENDS Naturals, Sequences, FiniteSets

CONSTANTS
    Threads, Handles,
    Addrs,     \* where an image can be allocated
    Tables,    \* the export tables of the modules that can be loaded
    NoTable,   \* a module without a table getter is loaded with none
    Unmapped,  \* what is at an address without an image
    Null,      \* no address, no handle, no thread
    HashOf,    \* HashOf[n]: the 32-bit hash of a name
    Name, Sig  \* the name and the signature the handles are resolved for

\* An entry of a table: its name, its signature and whether it has code.
ASSUME TablesAssumption ==
    /\ NoTable \in Tables /\ Unmapped \notin Tables
    /\ \A T \in Tables \ {NoTable} :
        /\ Len(T) \in Nat
        /\ \A i \in 1..Len(T) : {"name", "sig", "code"} \subseteq DOMAIN T[i]
ASSUME NullAssumption == Null \notin Threads \union Handles \union Addrs

VARIABLES
    image,    \* Control::image
    state,    \* Control::state
    lock,     \* Control::writer_lock: its holder
    control,  \* the Control exists
    object,   \* the Object is alive
    heap,     \* the table of the image at an address
    retired,  \* the addresses of the images queued in the domain
    lost,     \* history: the addresses of the images that could not be queued
    handle,   \* the handles' fields
    pc, using, inside, cur, snap, \* a thread: its step, handle, section, image
    mine, err                     \* its image to publish or retire, last_error()

controlVars == <<image, state, lock, control, object>>
queueVars == <<retired, lost>>
memoryVars == <<heap, queueVars>>
threadVars == <<pc, using, inside, cur, snap, mine, err>>
vars == <<controlVars, memoryVars, handle, threadVars>>

NoHandle == [bound |-> FALSE, index |-> 0, valid |-> FALSE, verified |-> Null]

Init ==
    /\ image = Null /\ state = "zombie" /\ lock = Null
    /\ control = TRUE /\ object = TRUE
    /\ heap = [a \in Addrs |-> Unmapped] /\ retired = {} /\ lost = {}
    /\ handle = [h \in Handles |-> NoHandle]
    /\ pc = [t \in Threads |-> "idle"]
    /\ inside = [t \in Threads |-> FALSE]
    /\ err = [t \in Threads |-> "none"]
    /\ using = [t \in Threads |-> Null] /\ cur = [t \in Threads |-> Null]
    /\ snap = [t \in Threads |-> Null] /\ mine = [t \in Threads |-> Null]

Goto(t, s) == pc' = [pc EXCEPT ![t] = s]
Fail(t, e) == err' = [err EXCEPT ![t] = e]

\* A handle that no other thread uses: what a caller must see to before it
\* resolves, moves or destroys one.
Unshared(h) == \A u \in Threads : using[u] # h

UseCount == Cardinality({h \in Handles : handle[h].bound}) + (IF object THEN 1 ELSE 0)

-----------------------------------------------------------------------------
(***************************************************************************)
(* Object: load(), reload(), unload(), force_unload(), the destructor.     *)
(***************************************************************************)

\* load() and reload(): the module is mapped and indexed with no lock held.
LoadImage(t, a, T) ==
    /\ pc[t] = "idle" /\ object
    /\ heap[a] = Unmapped
    /\ heap' = [heap EXCEPT ![a] = T]
    /\ mine' = [mine EXCEPT ![t] = a]
    /\ Goto(t, "lock")
    /\ UNCHANGED <<controlVars, queueVars, handle, using, inside, cur, snap, err>>

\* dlopen() fails, the table is of another format, or memory runs out.
LoadFails(t) ==
    /\ pc[t] = "idle" /\ object
    /\ Fail(t, "load_failed")
    /\ UNCHANGED <<controlVars, memoryVars, handle, pc, using, inside, cur, snap, mine>>

\* unload_impl() up to the lock: refused while a handle is alive.
Unload(t) ==
    /\ pc[t] = "idle" /\ object
    /\ \/ UseCount > 1 /\ Fail(t, "stale_handle") /\ UNCHANGED pc
       \/ /\ UseCount = 1
          /\ Goto(t, "lock")
          /\ UNCHANGED err
    /\ UNCHANGED <<controlVars, memoryVars, handle, using, inside, cur, snap, mine>>

\* force_unload(): its caller has excluded readers.
ForceUnload(t) ==
    /\ pc[t] = "idle" /\ object
    /\ \A u \in Threads : ~inside[u]
    /\ lock = Null
    /\ image' = Null
    /\ state' = "zombie"
    /\ heap' = IF image = Null THEN heap ELSE [heap EXCEPT ![image] = Unmapped]
    /\ UNCHANGED <<lock, control, object, queueVars, handle, threadVars>>

\* Mutation of LockTimeout: the image that was not published is forgotten.
LockTimeoutLeaks(t) ==
    /\ pc[t] = "lock"
    /\ lock # Null
    /\ mine' = [mine EXCEPT ![t] = Null]
    /\ Fail(t, "lock_timeout")
    /\ Goto(t, "idle")
    /\ UNCHANGED <<controlVars, memoryVars, handle, using, inside, cur, snap>>

\* lock_writer() with a timeout gives up: discard_image(), or nothing to undo.
LockTimeout(t) ==
    /\ pc[t] = "lock"
    /\ lock # Null
    /\ heap' = IF mine[t] = Null THEN heap ELSE [heap EXCEPT ![mine[t]] = Unmapped]
    /\ mine' = [mine EXCEPT ![t] = Null]
    /\ Fail(t, "lock_timeout")
    /\ Goto(t, "idle")
    /\ UNCHANGED <<controlVars, queueVars, handle, using, inside, cur, snap>>

\* publish_image() and unload_impl(): the lock and the exchange, ...
Exchange(t) ==
    /\ pc[t] = "lock"
    /\ lock = Null
    /\ lock' = t
    /\ image' = mine[t]
    /\ mine' = [mine EXCEPT ![t] = image]
    /\ Goto(t, "state")
    /\ UNCHANGED <<state, control, object, memoryVars, handle, using, inside, cur, snap, err>>

\* ... the state that goes with what was swapped in, the unlock, ...
StoreState(t) ==
    /\ pc[t] = "state"
    /\ state' = IF image = Null THEN "zombie" ELSE "active"
    /\ lock' = Null
    /\ Goto(t, "retire")
    /\ UNCHANGED <<image, control, object, memoryVars, handle, using, inside, cur, snap,
                   mine, err>>

\* retire_image() of the image at a: it is queued, or there is no memory for its
\* node; retire_impl() then queues nothing and nobody refers to the image any more.
RetireImage(a) ==
    \/ retired' = retired \union {a} /\ UNCHANGED lost
    \/ lost' = lost \union {a} /\ UNCHANGED retired

\* ... and, outside the lock, the image that was there is retired.
RetirePrevious(t) ==
    /\ pc[t] = "retire"
    /\ IF mine[t] = Null THEN UNCHANGED queueVars ELSE RetireImage(mine[t])
    /\ mine' = [mine EXCEPT ![t] = Null]
    /\ Fail(t, "none")
    /\ Goto(t, "idle")
    /\ UNCHANGED <<controlVars, heap, handle, using, inside, cur, snap>>

\* Mutation of DestroyControl: the object's end deletes the Control.
DestroyControlEarly(hs, o) == ~o

\* destroy_control(), by the last owner of the Control, retires the image.
DestroyControl(hs, o) == ~o /\ \A h \in Handles : ~hs[h].bound

\* A strong reference goes; the last one takes the Control with it.
DropReference(hs, o) ==
    /\ handle' = hs
    /\ object' = o
    /\ IF DestroyControl(hs, o)
       THEN /\ control' = FALSE
            /\ image' = Null
            /\ IF image = Null THEN UNCHANGED queueVars ELSE RetireImage(image)
       ELSE UNCHANGED <<control, image, queueVars>>

\* ~Object() with nobody in a call of it: unload_impl() is refused while there
\* are handles; without any, the image is retired, here or by the Control's end.
DestroyObject(t) ==
    /\ pc[t] = "idle" /\ object
    /\ \A u \in Threads : pc[u] \notin {"lock", "state", "retire", "resolve", "find", "reading"}
    /\ DropReference(handle, FALSE)
    /\ Fail(t, IF UseCount > 1 THEN "stale_handle" ELSE "none")
    /\ UNCHANGED <<state, lock, heap, pc, using, inside, cur, snap, mine>>

\* The domain frees a retired image that no thread holds in a section.
Free(a) ==
    /\ a \in retired
    /\ \A u \in Threads : inside[u] => cur[u] # a
    /\ retired' = retired \ {a}
    /\ heap' = [heap EXCEPT ![a] = Unmapped]
    /\ UNCHANGED <<controlVars, lost, handle, threadVars>>

-----------------------------------------------------------------------------
(***************************************************************************)
(* Sections of readers.                                                    *)
(***************************************************************************)

\* enter() and the load of the image that follows it.
EnterAndLoad(t) ==
    /\ inside' = [inside EXCEPT ![t] = TRUE]
    /\ cur' = [cur EXCEPT ![t] = image]

\* exit(), whatever the section was opened for; the call is over.
ExitAndReturn(t, e) ==
    /\ inside' = [inside EXCEPT ![t] = FALSE]
    /\ cur' = [cur EXCEPT ![t] = Null]
    /\ snap' = [snap EXCEPT ![t] = Null]
    /\ using' = [using EXCEPT ![t] = Null]
    /\ Fail(t, e)
    /\ Goto(t, "idle")

\* A null table makes the caller return: the section stays open.
ReturnInside(t) ==
    /\ snap' = [snap EXCEPT ![t] = Null]
    /\ using' = [using EXCEPT ![t] = Null]
    /\ Goto(t, "idle")
    /\ UNCHANGED <<inside, cur, err>>

\* Object::enter_read(): null when there is no image, or when it has no table; a
\* client that pairs every enter_read() with an exit_read() need not tell which.
EnterRead(t) ==
    /\ pc[t] = "idle" /\ object
    /\ IF image = Null
       THEN ExitAndReturn(t, "unloading")
       ELSE EnterAndLoad(t) /\ Goto(t, "reading") /\ UNCHANGED <<using, snap, err>>
    /\ UNCHANGED <<controlVars, memoryVars, handle, mine>>

ExitRead(t) ==
    /\ pc[t] = "reading"
    /\ ExitAndReturn(t, err[t])
    /\ UNCHANGED <<controlVars, memoryVars, handle, mine>>

-----------------------------------------------------------------------------
(***************************************************************************)
(* Function: resolve(), operator(), raw(), the moves, the destructor.      *)
(***************************************************************************)

\* resolve() drops what the handle had and takes the Object's Control.
Resolve(t, h) ==
    /\ pc[t] = "idle" /\ object /\ Unshared(h)
    /\ handle' = [handle EXCEPT ![h] = [NoHandle EXCEPT !.bound = TRUE]]
    /\ using' = [using EXCEPT ![t] = h]
    /\ Goto(t, "resolve")
    /\ UNCHANGED <<controlVars, memoryVars, inside, cur, snap, mine, err>>

ResolveLoad(t) ==
    /\ pc[t] = "resolve"
    /\ IF image = Null
       THEN ExitAndReturn(t, "not_loaded")
       ELSE EnterAndLoad(t) /\ Goto(t, "find") /\ UNCHANGED <<using, snap, err>>
    /\ UNCHANGED <<controlVars, memoryVars, handle, mine>>

\* The entries with the handle's name; find_index() looks for the first.
Named(T) == {i \in 1..Len(T) : T[i].name = Name}
First(S) == CHOOSE i \in S : \A j \in S : i <= j

\* find_index() in the table of the loaded image, and the end of the section.
ResolveFind(t) ==
    /\ pc[t] = "find"
    /\ LET T == heap[cur[t]]
           h == using[t]
           i == First(Named(T))
       IN \/ T = NoTable /\ ExitAndReturn(t, "not_loaded") /\ UNCHANGED handle
          \/ /\ T \notin {NoTable, Unmapped}
             /\ IF Named(T) = {}
                THEN ExitAndReturn(t, "not_found") /\ UNCHANGED handle
                ELSE /\ handle' = [handle EXCEPT ![h].index = i, ![h].valid = T[i].sig = Sig]
                     /\ ExitAndReturn(t, IF T[i].sig = Sig THEN "none" ELSE "sig_mismatch")
    /\ UNCHANGED <<controlVars, memoryVars, mine>>

\* operator() on a handle; a handle without a Control is not loaded.
Call(t, h) ==
    /\ pc[t] = "idle"
    /\ IF handle[h].bound
       THEN using' = [using EXCEPT ![t] = h] /\ Goto(t, "call") /\ UNCHANGED err
       ELSE Fail(t, "not_loaded") /\ UNCHANGED <<using, pc>>
    /\ UNCHANGED <<controlVars, memoryVars, handle, inside, cur, snap, mine>>

\* The fast path: enter() and the load of the image, ...
FastLoad(t) ==
    /\ pc[t] = "call"
    /\ EnterAndLoad(t)
    /\ Goto(t, "fast")
    /\ UNCHANGED <<controlVars, memoryVars, handle, using, snap, mine, err>>

\* Mutation of EntryMatches: the image pointer alone is trusted.
EntryMatchesPointer(T, i) == i \in 1..Len(T) /\ T[i].code

\* The entry still carries the resolved hash and signature, and has code.
EntryMatches(T, i) ==
    i \in 1..Len(T) /\ HashOf[T[i].name] = HashOf[Name] /\ T[i].sig = Sig /\ T[i].code

\* ... which must be the verified one with a matching entry; else the slow path.
FastCheck(t) ==
    /\ pc[t] = "fast"
    /\ LET h == handle[using[t]]
           hit == /\ cur[t] # Null
                  /\ cur[t] = h.verified
                  /\ heap[cur[t]] \notin {NoTable, Unmapped}
                  /\ EntryMatches(heap[cur[t]], h.index)
       IN IF hit
          THEN Goto(t, "calling") /\ Fail(t, "none") /\ UNCHANGED <<inside, cur>>
          ELSE /\ inside' = [inside EXCEPT ![t] = FALSE]
               /\ cur' = [cur EXCEPT ![t] = Null]
               /\ Goto(t, "slow")
               /\ UNCHANGED err
    /\ UNCHANGED <<controlVars, memoryVars, handle, using, snap, mine>>

\* The slow path: the state, then the image the snapshot will name, ...
SlowState(t) ==
    /\ pc[t] = "slow"
    /\ IF state # "active"
       THEN ExitAndReturn(t, "not_loaded")
       ELSE Goto(t, "snapshot") /\ UNCHANGED <<inside, cur, snap, using, err>>
    /\ UNCHANGED <<controlVars, memoryVars, handle, mine>>

SlowSnapshot(t) ==
    /\ pc[t] = "snapshot"
    /\ snap' = [snap EXCEPT ![t] = image]
    /\ Goto(t, "enter")
    /\ UNCHANGED <<controlVars, memoryVars, handle, using, inside, cur, mine, err>>

\* ... enter_read(): without an image the call returns and reports nothing, ...
SlowEnter(t) ==
    /\ pc[t] = "enter"
    /\ IF image = Null
       THEN ExitAndReturn(t, err[t])
       ELSE EnterAndLoad(t) /\ Goto(t, "check") /\ UNCHANGED <<using, snap, err>>
    /\ UNCHANGED <<controlVars, memoryVars, handle, mine>>

EntryIsNamed(T, i) == i \in 1..Len(T) /\ T[i].name = Name /\ T[i].sig = Sig

\* ... the table, the index, the entry; and the snapshot is recorded.
SlowCheck(t) ==
    /\ pc[t] = "check"
    /\ LET T == heap[cur[t]]
           i == handle[using[t]].index
       IN \/ T = NoTable /\ ReturnInside(t) /\ UNCHANGED handle
          \/ /\ T \notin {NoTable, Unmapped}
             /\ ~EntryIsNamed(T, i)
             /\ ExitAndReturn(t, "table_changed")
             /\ UNCHANGED handle
          \/ /\ T \notin {NoTable, Unmapped}
             /\ EntryIsNamed(T, i) /\ ~T[i].code
             /\ ExitAndReturn(t, "invalid")
             /\ UNCHANGED handle
          \/ /\ T \notin {NoTable, Unmapped}
             /\ EntryIsNamed(T, i) /\ T[i].code
             /\ handle' = [handle EXCEPT ![using[t]].verified = snap[t]]
             /\ Fail(t, "none")
             /\ Goto(t, "calling")
             /\ UNCHANGED <<using, inside, cur, snap>>
    /\ UNCHANGED <<controlVars, memoryVars, mine>>

\* The callee returns, and the section ends after it.
Return(t) ==
    /\ pc[t] = "calling"
    /\ ExitAndReturn(t, err[t])
    /\ UNCHANGED <<controlVars, memoryVars, handle, mine>>

\* The moves: `to` lets go of what it had and takes all but the snapshot.
Move(from, to) ==
    /\ from # to /\ handle[from].bound
    /\ Unshared(from) /\ Unshared(to)
    /\ LET hs == [handle EXCEPT ![to] = [handle[from] EXCEPT !.verified = Null],
                                ![from] = NoHandle]
       IN DropReference(hs, object)
    /\ UNCHANGED <<state, lock, heap, threadVars>>

\* release_lib(), by the destructor.
Release(h) ==
    /\ handle[h].bound /\ Unshared(h)
    /\ DropReference([handle EXCEPT ![h] = NoHandle], object)
    /\ UNCHANGED <<state, lock, heap, threadVars>>

-----------------------------------------------------------------------------
ObjectStep(t) ==
    \/ \E a \in Addrs, T \in Tables : LoadImage(t, a, T)
    \/ LoadFails(t) \/ Unload(t) \/ ForceUnload(t) \/ LockTimeout(t)
    \/ Exchange(t) \/ StoreState(t) \/ RetirePrevious(t) \/ DestroyObject(t)
    \/ EnterRead(t) \/ ExitRead(t)

CallStep(t) ==
    \/ \E h \in Handles : Resolve(t, h) \/ Call(t, h)
    \/ ResolveLoad(t) \/ ResolveFind(t)
    \/ FastLoad(t) \/ FastCheck(t)
    \/ SlowState(t) \/ SlowSnapshot(t) \/ SlowEnter(t) \/ SlowCheck(t) \/ Return(t)

Next ==
    \/ \E t \in Threads : ObjectStep(t) \/ CallStep(t)
    \/ \E a \in Addrs : Free(a)
    \/ \E h \in Handles : Release(h)
    \/ \E from, to \in Handles : Move(from, to)

Spec == Init /\ [][Next]_vars
-----------------------------------------------------------------------------
(***************************************************************************)
(* The inductive invariant.                                                *)
(***************************************************************************)

\* An index comes from find_index() alone; it is 0 until then.
Indexes == {0} \union {First(Named(T)) : T \in Tables \ {NoTable}}
HandleFields == [bound : BOOLEAN, index : Indexes, valid : BOOLEAN,
                 verified : Addrs \union {Null}]

TypeOK ==
    /\ image \in Addrs \union {Null} /\ state \in {"zombie", "active"}
    /\ lock \in Threads \union {Null}
    /\ control \in BOOLEAN /\ object \in BOOLEAN
    /\ heap \in [Addrs -> Tables \union {Unmapped}] /\ retired \subseteq Addrs
    /\ lost \subseteq Addrs
    /\ handle \in [Handles -> HandleFields]
    /\ pc \in [Threads -> {"idle", "lock", "state", "retire", "reading", "resolve", "find",
                           "call", "fast", "slow", "snapshot", "enter", "check", "calling"}]
    /\ using \in [Threads -> Handles \union {Null}]
    /\ inside \in [Threads -> BOOLEAN]
    /\ cur \in [Threads -> Addrs \union {Null}]
    /\ snap \in [Threads -> Addrs \union {Null}]
    /\ mine \in [Threads -> Addrs \union {Null}]

\* A mapped image is published, or queued, or in the hands of one thread, which
\* stands between its load and the retirement of what it swapped out; or it was
\* lost in a retirement.
OneOwner ==
    /\ image \notin retired \union lost
    /\ retired \intersect lost = {}
    /\ \A t \in Threads : mine[t] # Null =>
        /\ pc[t] \in {"lock", "state", "retire"}
        /\ mine[t] # image /\ mine[t] \notin retired \union lost
        /\ \A u \in Threads \ {t} : mine[u] # mine[t]
    /\ \A a \in Addrs : heap[a] # Unmapped <=>
        image = a \/ a \in retired \union lost \/ \E t \in Threads : mine[t] = a

\* The Control is there for the Object, the handles and the calls; the thread
\* between the exchange and the store of the state holds the writer lock.
ControlOwned ==
    /\ control <=> object \/ \E h \in Handles : handle[h].bound
    /\ \A t \in Threads : using[t] # Null => handle[using[t]].bound
    /\ \A t \in Threads : pc[t] = "state" <=> lock = t
    /\ control /\ lock = Null => (state = "active" <=> image # Null)

\* What a thread sees in its section is mapped, and nobody has yet seen an image
\* that is still to be published.
SectionsMapped ==
    /\ \A t \in Threads : inside[t] /\ cur[t] # Null => heap[cur[t]] # Unmapped
    /\ \A t, u \in Threads :
        pc[t] = "lock" /\ mine[t] # Null /\ inside[u] => cur[u] # mine[t]
    /\ \A t \in Threads : pc[t] = "fast" => inside[t]
    /\ \A t \in Threads : pc[t] \in {"find", "check", "calling"} => inside[t] /\ cur[t] # Null

\* A call has its handle; one that is being resolved has no index and one resolver.
Resolving(t) == pc[t] \in {"resolve", "find"}
CallsHaveHandle ==
    /\ \A t \in Threads :
        pc[t] \in {"resolve", "find", "call", "fast", "slow", "snapshot", "enter", "check",
                  "calling"} => using[t] # Null
    /\ \A t \in Threads : Resolving(t) => handle[using[t]].index = 0
    /\ \A t, u \in Threads :
        Resolving(t) /\ Resolving(u) /\ using[t] = using[u] => t = u

\* No other name of a table has the hash of the handles' name.
NoCollision ==
    \A T \in Tables \ {NoTable} : \A i \in 1..Len(T) :
        HashOf[T[i].name] = HashOf[Name] => T[i].name = Name
-----------------------------------------------------------------------------
(***************************************************************************)
(* Properties.                                                             *)
(***************************************************************************)

\* "a stale or torn snapshot can therefore only cost a revalidate, never a
\* wrong call" (Function.h): whatever reloads a handle has lived through, and
\* whatever address was used again, a call is inside a mapped image and calls
\* the function with the handle's name and signature.
RightFunction ==
    \A t \in Threads : pc[t] = "calling" =>
        LET T == heap[cur[t]]
            i == handle[using[t]].index
        IN T \notin {Unmapped, NoTable} /\ i \in 1..Len(T) /\ T[i].name = Name /\ T[i].sig = Sig

\* Every image that is mapped has exactly one owner that will free it: it is
\* published, or queued once, or in the hands of one load, reload or unload, also
\* after the Object or the last handle is gone (destroy_control()).  The one way
\* to lose an image is a retirement without memory for a node: then nobody has
\* it, so that nobody frees or publishes it again, and it stays mapped.
ImagesAccounted ==
    \A a \in Addrs :
        LET owners == (IF image = a THEN 1 ELSE 0) + (IF a \in retired THEN 1 ELSE 0)
                      + Cardinality({t \in Threads : mine[t] = a})
        IN /\ owners = (IF heap[a] = Unmapped \/ a \in lost THEN 0 ELSE 1)
           /\ a \in lost => heap[a] # Unmapped

\* "the Control itself outlives all handles" (Object.h): a handle that holds
\* one, or a thread in a call through it, never meets a deleted Control.
ControlOutlivesHandles ==
    ~control => ~object /\ \A h \in Handles : ~handle[h].bound /\ Unshared(h)

\* With no operation on the Object in progress, state and image agree, so that
\* is_loaded() and valid() may look at them one after the other.
StateAgrees ==
    control /\ (\A t \in Threads : pc[t] # "state") => (state = "active" <=> image # Null)

\* "Releases the critical section via exit_read() on all exit paths (including
\* error paths)" (docs/abix/api.md, operator() behavior): a thread that is in no
\* call is in no section.
SectionsBalanced ==
    \A t \in Threads : pc[t] \in {"idle", "lock", "state", "retire"} => ~inside[t]

\* The Control of an Object outlives the handles and the calls that use it, and
\* while nobody is changing it its state and its image agree.
ControlSound ==
    /\ ControlOutlivesHandles
    /\ StateAgrees

\* The inductive invariant of FunctionHandleProofs; the last part is kept when
\* there are no collisions.
IInv ==
    /\ TypeOK
    /\ OneOwner
    /\ ControlOwned
    /\ SectionsMapped
    /\ CallsHaveHandle
    /\ NoCollision => RightFunction
=============================================================================
