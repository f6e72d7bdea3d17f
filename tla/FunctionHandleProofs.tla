------------------------ MODULE FunctionHandleProofs ------------------------
(***************************************************************************)
(* For every number of threads, handles and addresses and every set of     *)
(* export tables: who owns an image, how long a Control lives, and that a  *)
(* call reaches the right function unless the hashes of two names collide. *)
(***************************************************************************)
EXTENDS FunctionHandle, TLAPS, FiniteSetTheorems

\* The domain's queue, and what a retirement does to it.
USE DEF queueVars, RetireImage


USE NullAssumption

-----------------------------------------------------------------------------
(***************************************************************************)
(* Types.                                                                  *)
(***************************************************************************)

LEMMA TypeInit == ASSUME Init PROVE TypeOK
BY DEF Init, TypeOK, NoHandle, HandleFields, Indexes

LEMMA NoHandleType == NoHandle \in HandleFields
BY DEF NoHandle, HandleFields, Indexes

LEMMA EnterTypes ==
    ASSUME TypeOK, NEW t \in Threads, EnterAndLoad(t)
    PROVE  inside' \in [Threads -> BOOLEAN] /\ cur' \in [Threads -> Addrs \union {Null}]
BY DEF TypeOK, EnterAndLoad

LEMMA ExitTypes ==
    ASSUME TypeOK, NEW t \in Threads, NEW e, ExitAndReturn(t, e)
    PROVE  /\ inside' \in [Threads -> BOOLEAN]
           /\ using' \in [Threads -> Handles \union {Null}]
           /\ cur' \in [Threads -> Addrs \union {Null}]
           /\ snap' \in [Threads -> Addrs \union {Null}]
           /\ pc' = [pc EXCEPT ![t] = "idle"]
BY DEF TypeOK, ExitAndReturn, Goto

\* The fields find_index() fills in.
LEMMA FieldTypes ==
    ASSUME NEW f \in [Handles -> HandleFields], NEW h \in Handles
    PROVE  /\ \A i \in Indexes : [f EXCEPT ![h].index = i] \in [Handles -> HandleFields]
           /\ \A b \in BOOLEAN : [f EXCEPT ![h].valid = b] \in [Handles -> HandleFields]
BY DEF HandleFields

\* A strong reference that goes leaves everything else typed.
LEMMA DropTypes ==
    ASSUME TypeOK, NEW hs \in [Handles -> HandleFields], NEW o \in BOOLEAN,
           DropReference(hs, o)
    PROVE  /\ handle' \in [Handles -> HandleFields] /\ object' \in BOOLEAN
           /\ control' \in BOOLEAN /\ image' \in Addrs \union {Null}
           /\ retired' \subseteq Addrs /\ lost' \subseteq Addrs
BY DEF TypeOK, DropReference

\* Every step keeps the types; find_index() looks into a mapped image.
LEMMA TypeStep ==
    ASSUME TypeOK, SectionsMapped, CallsHaveHandle, [Next]_vars
    PROVE  TypeOK'
<1>1. CASE UNCHANGED vars
  BY <1>1 DEF TypeOK, vars, controlVars, memoryVars, threadVars
<1>2. ASSUME NEW t \in Threads, NEW a \in Addrs, NEW T \in Tables, LoadImage(t, a, T)
      PROVE TypeOK'
  BY <1>2 DEF TypeOK, LoadImage, Goto, controlVars, memoryVars, threadVars
<1>3. ASSUME NEW t \in Threads, LoadFails(t) PROVE TypeOK'
  BY <1>3 DEF TypeOK, LoadFails, Fail, controlVars, memoryVars, threadVars
<1>4. ASSUME NEW t \in Threads, Unload(t) PROVE TypeOK'
  BY <1>4 DEF TypeOK, Unload, Fail, Goto, controlVars, memoryVars, threadVars
<1>5. ASSUME NEW t \in Threads, ForceUnload(t) PROVE TypeOK'
  BY <1>5 DEF TypeOK, ForceUnload, controlVars, memoryVars, threadVars
<1>6. ASSUME NEW t \in Threads, LockTimeout(t) PROVE TypeOK'
  BY <1>6 DEF TypeOK, LockTimeout, Fail, Goto, controlVars, memoryVars, threadVars
<1>7. ASSUME NEW t \in Threads, Exchange(t) PROVE TypeOK'
  BY <1>7 DEF TypeOK, Exchange, Goto, controlVars, memoryVars, threadVars
<1>8. ASSUME NEW t \in Threads, StoreState(t) PROVE TypeOK'
  BY <1>8 DEF TypeOK, StoreState, Goto, controlVars, memoryVars, threadVars
<1>9. ASSUME NEW t \in Threads, RetirePrevious(t) PROVE TypeOK'
  BY <1>9 DEF TypeOK, RetirePrevious, Fail, Goto, controlVars, memoryVars, threadVars
<1>10. ASSUME NEW t \in Threads, DestroyObject(t) PROVE TypeOK'
  <2>1. DropReference(handle, FALSE)
    BY <1>10 DEF DestroyObject
  <2> QED BY <1>10, <2>1, DropTypes DEF TypeOK, DestroyObject
<1>11. ASSUME NEW t \in Threads, EnterRead(t) PROVE TypeOK'
  BY <1>11, EnterTypes, ExitTypes DEF TypeOK, EnterRead, Goto, controlVars, memoryVars
<1>12. ASSUME NEW t \in Threads, ExitRead(t) PROVE TypeOK'
  BY <1>12, ExitTypes DEF TypeOK, ExitRead, Goto, controlVars, memoryVars
<1>13. ASSUME NEW t \in Threads, NEW h \in Handles, Resolve(t, h) PROVE TypeOK'
  <2>1. [NoHandle EXCEPT !.bound = TRUE] \in HandleFields
    BY DEF NoHandle, HandleFields, Indexes
  <2> QED BY <1>13, <2>1 DEF TypeOK, Resolve, Goto, controlVars, memoryVars
<1>14. ASSUME NEW t \in Threads, NEW h \in Handles, Call(t, h) PROVE TypeOK'
  <2>1. using' \in [Threads -> Handles \union {Null}]
    BY <1>14 DEF TypeOK, Call
  <2> QED BY <1>14, <2>1 DEF TypeOK, Call, Goto, controlVars, memoryVars
<1>15. ASSUME NEW t \in Threads, ResolveLoad(t) PROVE TypeOK'
  BY <1>15, EnterTypes, ExitTypes DEF TypeOK, ResolveLoad, Goto, controlVars, memoryVars
<1>16. ASSUME NEW t \in Threads, ResolveFind(t) PROVE TypeOK'
  <2> DEFINE T == heap[cur[t]]
             i == First(Named(T))
  <2>1. handle' \in [Handles -> HandleFields]
    <3>1. CASE UNCHANGED handle
      BY <3>1 DEF TypeOK
    <3>2. CASE /\ T \notin {NoTable, Unmapped}
               /\ handle' = [handle EXCEPT ![using[t]].index = i,
                                           ![using[t]].valid = T[i].sig = Sig]
      <4>1. cur[t] \in Addrs
        BY <1>16 DEF ResolveFind, SectionsMapped, TypeOK
      <4>2. T \in Tables \ {NoTable}
        BY <3>2, <4>1 DEF TypeOK
      <4>3. i \in Indexes
        <5> HIDE DEF T
        <5> QED BY <4>2 DEF Indexes
      <4> DEFINE found == [handle EXCEPT ![using[t]].index = i]
                 matches == T[i].sig = Sig
      <4>4. handle' = [found EXCEPT ![using[t]].valid = matches]
        BY <3>2
      <4>5. using[t] \in Handles
        BY <1>16 DEF ResolveFind, CallsHaveHandle, TypeOK
      <4>6. found \in [Handles -> HandleFields]
        BY <4>3, <4>5, FieldTypes DEF TypeOK
      <4>7. matches \in BOOLEAN
        OBVIOUS
      <4> HIDE DEF found, matches
      <4> QED BY <4>4, <4>5, <4>6, <4>7, FieldTypes
    <3> QED BY <1>16, <3>1, <3>2 DEF ResolveFind
  <2> QED BY <1>16, <2>1, ExitTypes DEF TypeOK, ResolveFind, controlVars, memoryVars
<1>17. ASSUME NEW t \in Threads, FastLoad(t) PROVE TypeOK'
  BY <1>17 DEF TypeOK, FastLoad, EnterAndLoad, Goto, controlVars, memoryVars, threadVars
<1>18. ASSUME NEW t \in Threads, FastCheck(t) PROVE TypeOK'
  BY <1>18 DEF TypeOK, FastCheck, EntryMatches, Goto, Fail, controlVars, memoryVars,
     threadVars
<1>19. ASSUME NEW t \in Threads, SlowState(t) PROVE TypeOK'
  BY <1>19, ExitTypes DEF TypeOK, SlowState, Goto, controlVars, memoryVars
<1>20. ASSUME NEW t \in Threads, SlowSnapshot(t) PROVE TypeOK'
  BY <1>20 DEF TypeOK, SlowSnapshot, Goto, controlVars, memoryVars, threadVars
<1>21. ASSUME NEW t \in Threads, SlowEnter(t) PROVE TypeOK'
  BY <1>21, EnterTypes, ExitTypes DEF TypeOK, SlowEnter, Goto, controlVars, memoryVars
<1>22. ASSUME NEW t \in Threads, SlowCheck(t) PROVE TypeOK'
  <2>1. handle' \in [Handles -> HandleFields]
    BY <1>22 DEF SlowCheck, TypeOK, HandleFields
  <2> QED
    BY <1>22, <2>1, ExitTypes DEF TypeOK, SlowCheck, Goto, ReturnInside, controlVars,
       memoryVars
<1>23. ASSUME NEW t \in Threads, Return(t) PROVE TypeOK'
  BY <1>23, ExitTypes DEF TypeOK, Return, Goto, controlVars, memoryVars
<1>24. ASSUME NEW a \in Addrs, Free(a) PROVE TypeOK'
  BY <1>24 DEF TypeOK, Free, controlVars, memoryVars, threadVars
<1>25. ASSUME NEW h \in Handles, Release(h) PROVE TypeOK'
  <2> DEFINE hs == [handle EXCEPT ![h] = NoHandle]
  <2>1. DropReference(hs, object)
    BY <1>25 DEF Release
  <2>2. hs \in [Handles -> HandleFields]
    BY NoHandleType DEF TypeOK
  <2> HIDE DEF hs
  <2> QED BY <1>25, <2>1, <2>2, DropTypes DEF TypeOK, Release, threadVars
<1>26. ASSUME NEW from \in Handles, NEW to \in Handles, Move(from, to) PROVE TypeOK'
  <2> DEFINE moved == [handle[from] EXCEPT !.verified = Null]
             hs == [handle EXCEPT ![to] = moved, ![from] = NoHandle]
  <2>1. DropReference(hs, object)
    BY <1>26 DEF Move
  <2>2. moved \in HandleFields
    BY DEF TypeOK, HandleFields
  <2>3. hs \in [Handles -> HandleFields]
    <3> HIDE DEF moved
    <3> QED BY <2>2, NoHandleType DEF TypeOK
  <2> HIDE DEF hs
  <2> QED BY <1>26, <2>1, <2>3, DropTypes DEF TypeOK, Move, threadVars
<1> QED
  BY <1>1, <1>2, <1>3, <1>4, <1>5, <1>6, <1>7, <1>8, <1>9, <1>10, <1>11, <1>12, <1>13,
     <1>14, <1>15,
     <1>16, <1>17, <1>18, <1>19, <1>20, <1>21, <1>22, <1>23, <1>24, <1>25, <1>26
  DEF Next, ObjectStep, CallStep

-----------------------------------------------------------------------------
(***************************************************************************)
(* Frames: what the steps of a call leave alone.                           *)
(***************************************************************************)

\* A call leaves the Control's fields and the images alone; it is a step of one
\* thread, and of one that is not publishing.
LEMMA CallFrame ==
    ASSUME TypeOK, NEW t \in Threads, CallStep(t)
    PROVE  /\ UNCHANGED <<image, state, lock, control, object, heap, queueVars, mine>>
           /\ pc[t] \notin {"lock", "state", "retire"}
           /\ pc'[t] \notin {"lock", "state", "retire"}
           /\ \A u \in Threads \ {t} : pc'[u] = pc[u]
<1>1. ASSUME NEW h \in Handles, Resolve(t, h) \/ Call(t, h) PROVE
      /\ UNCHANGED <<image, state, lock, control, object, heap, queueVars, mine>>
      /\ pc[t] \notin {"lock", "state", "retire"}
      /\ pc'[t] \notin {"lock", "state", "retire"}
      /\ \A u \in Threads \ {t} : pc'[u] = pc[u]
  BY <1>1 DEF TypeOK, Resolve, Call, Goto, controlVars, memoryVars
<1>2. CASE ResolveLoad(t) \/ ResolveFind(t)
  BY <1>2 DEF TypeOK, ResolveLoad, ResolveFind, ExitAndReturn, Goto, controlVars, memoryVars
<1>3. CASE FastLoad(t) \/ FastCheck(t)
  BY <1>3 DEF TypeOK, FastLoad, FastCheck, Goto, controlVars, memoryVars
<1>4. CASE SlowState(t) \/ SlowSnapshot(t) \/ SlowEnter(t)
  BY <1>4 DEF TypeOK, SlowState, SlowSnapshot, SlowEnter, ExitAndReturn, Goto, controlVars,
     memoryVars
<1>5. CASE SlowCheck(t) \/ Return(t)
  BY <1>5 DEF TypeOK, SlowCheck, Return, ReturnInside, ExitAndReturn, Goto, controlVars,
     memoryVars
<1> QED BY <1>1, <1>2, <1>3, <1>4, <1>5 DEF CallStep

\* find_index() writes the index and valid of the thread's own handle, ...
LEMMA FindHandles ==
    ASSUME TypeOK, CallsHaveHandle, NEW t \in Threads, ResolveFind(t)
    PROVE  /\ \A h \in Handles : handle'[h].bound = handle[h].bound
           /\ \A h \in Handles \ {using[t]} : handle'[h] = handle[h]
           /\ using' = [using EXCEPT ![t] = Null] /\ pc' = [pc EXCEPT ![t] = "idle"]
<1>1. using' = [using EXCEPT ![t] = Null] /\ pc' = [pc EXCEPT ![t] = "idle"]
  BY DEF ResolveFind, ExitAndReturn, Goto
<1>2. CASE UNCHANGED handle
  BY <1>1, <1>2
<1>3. ASSUME NEW i, NEW v, handle' = [handle EXCEPT ![using[t]].index = i, ![using[t]].valid = v]
      PROVE  /\ \A h \in Handles : handle'[h].bound = handle[h].bound
             /\ \A h \in Handles \ {using[t]} : handle'[h] = handle[h]
  <2> DEFINE g == [handle EXCEPT ![using[t]].index = i]
  <2>1. using[t] \in Handles
    BY DEF ResolveFind, CallsHaveHandle, TypeOK
  <2>2. /\ \A h \in Handles : g[h].bound = handle[h].bound
        /\ \A h \in Handles \ {using[t]} : g[h] = handle[h]
        /\ DOMAIN g = Handles
        /\ DOMAIN g[using[t]] = {"bound", "index", "valid", "verified"}
    BY <2>1 DEF TypeOK, HandleFields
  <2>3. handle' = [g EXCEPT ![using[t]].valid = v]
    BY <1>3
  <2> HIDE DEF g
  <2> QED BY <2>1, <2>2, <2>3
<1> QED BY <1>1, <1>2, <1>3 DEF ResolveFind

\* ... and a validation the snapshot of its handle.
LEMMA CheckHandles ==
    ASSUME TypeOK, CallsHaveHandle, NEW t \in Threads, SlowCheck(t)
    PROVE  \A h \in Handles : /\ handle'[h].bound = handle[h].bound
                              /\ handle'[h].index = handle[h].index
<1>1. using[t] \in Handles
  BY DEF SlowCheck, CallsHaveHandle, TypeOK
<1>2. CASE UNCHANGED handle
  BY <1>2
<1>3. CASE handle' = [handle EXCEPT ![using[t]].verified = snap[t]]
  BY <1>1, <1>3 DEF TypeOK, HandleFields
<1> QED BY <1>2, <1>3 DEF SlowCheck

\* What the end of a strong reference does to the image: it stays published, or
\* it is retired by the Control's last owner.
LEMMA DropCases ==
    ASSUME NEW hs, NEW o, DropReference(hs, o)
    PROVE  /\ handle' = hs /\ object' = o
           /\ \/ DestroyControl(hs, o) /\ control' = FALSE /\ image' = Null
                 /\ IF image = Null THEN UNCHANGED queueVars ELSE RetireImage(image)
              \/ ~DestroyControl(hs, o) /\ UNCHANGED <<control, image, queueVars>>
BY DEF DropReference

-----------------------------------------------------------------------------
(***************************************************************************)
(* Owners of images.                                                       *)
(***************************************************************************)

LEMMA OneOwnerInit == ASSUME Init PROVE OneOwner
BY DEF Init, OneOwner

\* A mapped image changes hands; it loses its owner in a failed retirement only,
\* and never gains one.
LEMMA OneOwnerStep ==
    ASSUME TypeOK, OneOwner, [Next]_vars
    PROVE  OneOwner'
<1>1. CASE UNCHANGED vars
  BY <1>1 DEF TypeOK, OneOwner, vars, controlVars, memoryVars, threadVars
<1>2. ASSUME NEW t \in Threads, NEW a \in Addrs, NEW T \in Tables, LoadImage(t, a, T)
      PROVE OneOwner'
  <2>1. image # a /\ a \notin retired \union lost /\ \A u \in Threads : mine[u] # a
    BY <1>2 DEF OneOwner, LoadImage
  <2>2. /\ mine[t] = Null /\ T # Unmapped
        /\ mine' = [mine EXCEPT ![t] = a] /\ heap' = [heap EXCEPT ![a] = T]
        /\ pc' = [pc EXCEPT ![t] = "lock"] /\ UNCHANGED <<image, queueVars>>
    BY <1>2, TablesAssumption DEF OneOwner, LoadImage, Goto, controlVars
  <2>3. mine'[t] = a /\ \A u \in Threads \ {t} : mine'[u] = mine[u] /\ pc'[u] = pc[u]
    BY <2>2 DEF TypeOK
  <2>4. heap'[a] # Unmapped /\ \A b \in Addrs \ {a} : heap'[b] = heap[b]
    BY <2>2 DEF TypeOK
  <2> QED BY <2>1, <2>2, <2>3, <2>4 DEF TypeOK, OneOwner
<1>3. ASSUME NEW t \in Threads, LoadFails(t) PROVE OneOwner'
  BY <1>3 DEF TypeOK, OneOwner, LoadFails, Fail, controlVars, memoryVars, threadVars
<1>4. ASSUME NEW t \in Threads, Unload(t) PROVE OneOwner'
  BY <1>4 DEF TypeOK, OneOwner, Unload, Fail, Goto, controlVars, memoryVars, threadVars
<1>5. ASSUME NEW t \in Threads, ForceUnload(t) PROVE OneOwner'
  BY <1>5 DEF TypeOK, OneOwner, ForceUnload, controlVars, memoryVars, threadVars
<1>6. ASSUME NEW t \in Threads, LockTimeout(t) PROVE OneOwner'
  BY <1>6 DEF TypeOK, OneOwner, LockTimeout, Fail, Goto, controlVars, memoryVars, threadVars
<1>7. ASSUME NEW t \in Threads, Exchange(t) PROVE OneOwner'
  BY <1>7 DEF TypeOK, OneOwner, Exchange, Goto, controlVars, memoryVars, threadVars
<1>8. ASSUME NEW t \in Threads, StoreState(t) PROVE OneOwner'
  BY <1>8 DEF TypeOK, OneOwner, StoreState, Goto, controlVars, memoryVars, threadVars
<1>9. ASSUME NEW t \in Threads, RetirePrevious(t) PROVE OneOwner'
  BY <1>9 DEF TypeOK, OneOwner, RetirePrevious, Fail, Goto, controlVars, memoryVars,
     threadVars
<1>10. ASSUME NEW t \in Threads, DestroyObject(t) PROVE OneOwner'
  BY <1>10 DEF TypeOK, OneOwner, DestroyObject, DropReference, DestroyControl, Fail,
     controlVars, memoryVars, threadVars
<1>11. ASSUME NEW t \in Threads, EnterRead(t) PROVE OneOwner'
  BY <1>11 DEF TypeOK, OneOwner, EnterRead, ExitAndReturn, EnterAndLoad, Goto, Fail,
     controlVars, memoryVars, threadVars
<1>12. ASSUME NEW t \in Threads, ExitRead(t) PROVE OneOwner'
  BY <1>12 DEF TypeOK, OneOwner, ExitRead, ExitAndReturn, Goto, Fail, controlVars,
     memoryVars, threadVars
<1>13. ASSUME NEW t \in Threads, CallStep(t) PROVE OneOwner'
  BY <1>13, CallFrame DEF TypeOK, OneOwner
<1>14. ASSUME NEW a \in Addrs, Free(a) PROVE OneOwner'
  BY <1>14 DEF TypeOK, OneOwner, Free, controlVars, memoryVars, threadVars
<1>15. ASSUME NEW h \in Handles, Release(h) PROVE OneOwner'
  BY <1>15 DEF TypeOK, OneOwner, Release, DropReference, DestroyControl, Unshared,
     NoHandle, controlVars, memoryVars, threadVars
<1>16. ASSUME NEW from \in Handles, NEW to \in Handles, Move(from, to) PROVE OneOwner'
  BY <1>16 DEF TypeOK, OneOwner, Move, DropReference, DestroyControl, Unshared, NoHandle,
     controlVars, memoryVars, threadVars
<1> QED
  BY <1>1, <1>2, <1>3, <1>4, <1>5, <1>6, <1>7, <1>8, <1>9, <1>10,
     <1>11, <1>12, <1>13, <1>14, <1>15, <1>16
  DEF Next, ObjectStep

\* At most one of the owners of an address that ImagesAccounted counts is there.
LEMMA OwnersCounted ==
    ASSUME TypeOK, OneOwner
    PROVE  ImagesAccounted
<1> SUFFICES ASSUME NEW a \in Addrs
             PROVE  /\ (IF image = a THEN 1 ELSE 0) + (IF a \in retired THEN 1 ELSE 0)
                         + Cardinality({t \in Threads : mine[t] = a})
                       = (IF heap[a] = Unmapped \/ a \in lost THEN 0 ELSE 1)
                    /\ a \in lost => heap[a] # Unmapped
  BY DEF ImagesAccounted
<1> DEFINE owners == {t \in Threads : mine[t] = a}
<1>1. CASE owners = {}
  <2>1. Cardinality(owners) = 0
    BY <1>1, FS_EmptySet
  <2> QED BY <1>1, <2>1 DEF OneOwner
<1>2. CASE owners # {}
  <2>1. PICK t \in Threads : mine[t] = a
    BY <1>2
  <2>2. owners = {t}
    BY <2>1 DEF OneOwner, TypeOK
  <2>3. Cardinality(owners) = 1
    BY <2>2, FS_Singleton
  <2> QED BY <2>1, <2>3 DEF OneOwner
<1> QED BY <1>1, <1>2

-----------------------------------------------------------------------------
(***************************************************************************)
(* The Control.                                                            *)
(***************************************************************************)

LEMMA ControlInit == ASSUME Init PROVE ControlOwned
BY DEF Init, ControlOwned, NoHandle

\* The Control lives as long as its owners, and its writer lock covers the two stores.
LEMMA ControlStep ==
    ASSUME TypeOK, ControlOwned, CallsHaveHandle, [Next]_vars
    PROVE  ControlOwned'
<1>1. CASE UNCHANGED vars
  BY <1>1 DEF TypeOK, ControlOwned, vars, controlVars, memoryVars, threadVars
<1>2. ASSUME NEW t \in Threads, NEW a \in Addrs, NEW T \in Tables, LoadImage(t, a, T)
      PROVE ControlOwned'
  BY <1>2 DEF TypeOK, ControlOwned, LoadImage, Goto, controlVars, memoryVars, threadVars
<1>3. ASSUME NEW t \in Threads, LoadFails(t) PROVE ControlOwned'
  BY <1>3 DEF TypeOK, ControlOwned, LoadFails, Fail, controlVars, memoryVars, threadVars
<1>4. ASSUME NEW t \in Threads, Unload(t) PROVE ControlOwned'
  BY <1>4 DEF TypeOK, ControlOwned, Unload, Fail, Goto, controlVars, memoryVars, threadVars
<1>5. ASSUME NEW t \in Threads, ForceUnload(t) PROVE ControlOwned'
  BY <1>5 DEF TypeOK, ControlOwned, ForceUnload, controlVars, memoryVars, threadVars
<1>6. ASSUME NEW t \in Threads, LockTimeout(t) PROVE ControlOwned'
  BY <1>6 DEF TypeOK, ControlOwned, LockTimeout, Fail, Goto, controlVars, memoryVars,
     threadVars
<1>7. ASSUME NEW t \in Threads, Exchange(t) PROVE ControlOwned'
  BY <1>7 DEF TypeOK, ControlOwned, Exchange, Goto, controlVars, memoryVars, threadVars
<1>8. ASSUME NEW t \in Threads, StoreState(t) PROVE ControlOwned'
  BY <1>8 DEF TypeOK, ControlOwned, StoreState, Goto, controlVars, memoryVars, threadVars
<1>9. ASSUME NEW t \in Threads, RetirePrevious(t) PROVE ControlOwned'
  BY <1>9 DEF TypeOK, ControlOwned, RetirePrevious, Fail, Goto, controlVars, memoryVars,
     threadVars
<1>10. ASSUME NEW t \in Threads, DestroyObject(t) PROVE ControlOwned'
  BY <1>10 DEF TypeOK, ControlOwned, DestroyObject, DropReference, DestroyControl, Fail,
     controlVars, memoryVars, threadVars
<1>11. ASSUME NEW t \in Threads, EnterRead(t) PROVE ControlOwned'
  BY <1>11 DEF TypeOK, ControlOwned, EnterRead, ExitAndReturn, EnterAndLoad, Goto, Fail,
     controlVars, memoryVars, threadVars
<1>12. ASSUME NEW t \in Threads, ExitRead(t) PROVE ControlOwned'
  BY <1>12 DEF TypeOK, ControlOwned, ExitRead, ExitAndReturn, Goto, Fail, controlVars,
     memoryVars, threadVars
<1>13. ASSUME NEW t \in Threads, NEW h \in Handles, Resolve(t, h) PROVE ControlOwned'
  BY <1>13 DEF TypeOK, ControlOwned, Resolve, Unshared, NoHandle, Goto, controlVars,
     memoryVars, threadVars
<1>14. ASSUME NEW t \in Threads, NEW h \in Handles, Call(t, h) PROVE ControlOwned'
  BY <1>14 DEF TypeOK, ControlOwned, Call, Goto, Fail, controlVars, memoryVars, threadVars
<1>15. ASSUME NEW t \in Threads, ResolveLoad(t) PROVE ControlOwned'
  BY <1>15 DEF TypeOK, ControlOwned, ResolveLoad, ExitAndReturn, EnterAndLoad, Goto, Fail,
     controlVars, memoryVars, threadVars
<1>16. ASSUME NEW t \in Threads, ResolveFind(t) PROVE ControlOwned'
  <2>1. /\ pc[t] = "find" /\ CallStep(t)
        /\ UNCHANGED <<image, state, lock, control, object>>
    BY <1>16 DEF ResolveFind, CallStep, controlVars
  <2>2. \A u \in Threads : using'[u] # Null => using'[u] = using[u]
    BY <1>16, FindHandles DEF TypeOK
  <2> QED BY <1>16, <2>1, <2>2, FindHandles, CallFrame DEF TypeOK, ControlOwned
<1>17. ASSUME NEW t \in Threads, FastLoad(t) PROVE ControlOwned'
  BY <1>17 DEF TypeOK, ControlOwned, FastLoad, EnterAndLoad, Goto, controlVars, memoryVars,
     threadVars
<1>18. ASSUME NEW t \in Threads, FastCheck(t) PROVE ControlOwned'
  BY <1>18 DEF TypeOK, ControlOwned, FastCheck, EntryMatches, Goto, Fail, controlVars,
     memoryVars, threadVars
<1>19. ASSUME NEW t \in Threads, SlowState(t) PROVE ControlOwned'
  BY <1>19 DEF TypeOK, ControlOwned, SlowState, ExitAndReturn, Goto, Fail, controlVars,
     memoryVars, threadVars
<1>20. ASSUME NEW t \in Threads, SlowSnapshot(t) PROVE ControlOwned'
  BY <1>20 DEF TypeOK, ControlOwned, SlowSnapshot, Goto, controlVars, memoryVars, threadVars
<1>21. ASSUME NEW t \in Threads, SlowEnter(t) PROVE ControlOwned'
  BY <1>21 DEF TypeOK, ControlOwned, SlowEnter, ExitAndReturn, EnterAndLoad, Goto, Fail,
     controlVars, memoryVars, threadVars
<1>22. ASSUME NEW t \in Threads, SlowCheck(t) PROVE ControlOwned'
  <2>1. /\ pc[t] = "check" /\ CallStep(t)
        /\ UNCHANGED <<image, state, lock, control, object>>
    BY <1>22 DEF SlowCheck, CallStep, controlVars
  <2>2. \A u \in Threads : using'[u] # Null => using'[u] = using[u]
    BY <1>22 DEF TypeOK, SlowCheck, ExitAndReturn, ReturnInside
  <2> QED BY <1>22, <2>1, <2>2, CheckHandles, CallFrame DEF TypeOK, ControlOwned
<1>23. ASSUME NEW t \in Threads, Return(t) PROVE ControlOwned'
  BY <1>23 DEF TypeOK, ControlOwned, Return, ExitAndReturn, Goto, Fail, controlVars,
     memoryVars, threadVars
<1>24. ASSUME NEW a \in Addrs, Free(a) PROVE ControlOwned'
  BY <1>24 DEF TypeOK, ControlOwned, Free, controlVars, memoryVars, threadVars
<1>25. ASSUME NEW h \in Handles, Release(h) PROVE ControlOwned'
  BY <1>25 DEF TypeOK, ControlOwned, Release, DropReference, DestroyControl, Unshared,
     NoHandle, controlVars, memoryVars, threadVars
<1>26. ASSUME NEW from \in Handles, NEW to \in Handles, Move(from, to) PROVE ControlOwned'
  BY <1>26 DEF TypeOK, ControlOwned, Move, DropReference, DestroyControl, Unshared,
     NoHandle, controlVars, memoryVars, threadVars
<1> QED
  BY <1>1, <1>2, <1>3, <1>4, <1>5, <1>6, <1>7, <1>8, <1>9, <1>10, <1>11, <1>12, <1>13,
     <1>14, <1>15,
     <1>16, <1>17, <1>18, <1>19, <1>20, <1>21, <1>22, <1>23, <1>24, <1>25, <1>26
  DEF Next, ObjectStep, CallStep

\* ControlSound says the same of a Control that is gone.
LEMMA ControlFollows == ASSUME TypeOK, ControlOwned PROVE ControlSound
BY DEF TypeOK, ControlOwned, ControlSound, ControlOutlivesHandles, StateAgrees, Unshared

-----------------------------------------------------------------------------
(***************************************************************************)
(* Sections.                                                               *)
(***************************************************************************)

LEMMA SectionsInit == ASSUME Init PROVE SectionsMapped
BY DEF Init, SectionsMapped

\* An image stays mapped while a thread is inside it, whoever lets go of it.
LEMMA SectionsStep ==
    ASSUME TypeOK, OneOwner, SectionsMapped, [Next]_vars
    PROVE  SectionsMapped'
<1>1. CASE UNCHANGED vars
  BY <1>1 DEF TypeOK, OneOwner, SectionsMapped, vars, controlVars, memoryVars, threadVars
<1>2. ASSUME NEW t \in Threads, NEW a \in Addrs, NEW T \in Tables, LoadImage(t, a, T)
      PROVE SectionsMapped'
  BY <1>2 DEF TypeOK, OneOwner, SectionsMapped, LoadImage, Goto, controlVars, memoryVars,
     threadVars
<1>3. ASSUME NEW t \in Threads, LoadFails(t) PROVE SectionsMapped'
  BY <1>3 DEF TypeOK, OneOwner, SectionsMapped, LoadFails, Fail, controlVars, memoryVars,
     threadVars
<1>4. ASSUME NEW t \in Threads, Unload(t) PROVE SectionsMapped'
  BY <1>4 DEF TypeOK, OneOwner, SectionsMapped, Unload, Fail, Goto, controlVars,
     memoryVars, threadVars
<1>5. ASSUME NEW t \in Threads, ForceUnload(t) PROVE SectionsMapped'
  BY <1>5 DEF TypeOK, OneOwner, SectionsMapped, ForceUnload, controlVars, memoryVars,
     threadVars
<1>6. ASSUME NEW t \in Threads, LockTimeout(t) PROVE SectionsMapped'
  BY <1>6 DEF TypeOK, OneOwner, SectionsMapped, LockTimeout, Fail, Goto, controlVars,
     memoryVars, threadVars
<1>7. ASSUME NEW t \in Threads, Exchange(t) PROVE SectionsMapped'
  BY <1>7 DEF TypeOK, OneOwner, SectionsMapped, Exchange, Goto, controlVars, memoryVars,
     threadVars
<1>8. ASSUME NEW t \in Threads, StoreState(t) PROVE SectionsMapped'
  BY <1>8 DEF TypeOK, OneOwner, SectionsMapped, StoreState, Goto, controlVars, memoryVars,
     threadVars
<1>9. ASSUME NEW t \in Threads, RetirePrevious(t) PROVE SectionsMapped'
  BY <1>9 DEF TypeOK, OneOwner, SectionsMapped, RetirePrevious, Fail, Goto, controlVars,
     memoryVars, threadVars
<1>10. ASSUME NEW t \in Threads, DestroyObject(t) PROVE SectionsMapped'
  BY <1>10 DEF TypeOK, OneOwner, SectionsMapped, DestroyObject, DropReference,
     DestroyControl, Fail, controlVars, memoryVars, threadVars
<1>11. ASSUME NEW t \in Threads, EnterRead(t) PROVE SectionsMapped'
  BY <1>11 DEF TypeOK, OneOwner, SectionsMapped, EnterRead, ExitAndReturn, EnterAndLoad,
     Goto, Fail, controlVars, memoryVars, threadVars
<1>12. ASSUME NEW t \in Threads, ExitRead(t) PROVE SectionsMapped'
  BY <1>12 DEF TypeOK, OneOwner, SectionsMapped, ExitRead, ExitAndReturn, Goto, Fail,
     controlVars, memoryVars, threadVars
<1>13. ASSUME NEW t \in Threads, NEW h \in Handles, Resolve(t, h) PROVE SectionsMapped'
  BY <1>13 DEF TypeOK, OneOwner, SectionsMapped, Resolve, Unshared, NoHandle, Goto,
     controlVars, memoryVars, threadVars
<1>14. ASSUME NEW t \in Threads, NEW h \in Handles, Call(t, h) PROVE SectionsMapped'
  BY <1>14 DEF TypeOK, OneOwner, SectionsMapped, Call, Goto, Fail, controlVars, memoryVars,
     threadVars
<1>15. ASSUME NEW t \in Threads, ResolveLoad(t) PROVE SectionsMapped'
  BY <1>15 DEF TypeOK, OneOwner, SectionsMapped, ResolveLoad, ExitAndReturn, EnterAndLoad,
     Goto, Fail, controlVars, memoryVars, threadVars
<1>16. ASSUME NEW t \in Threads, ResolveFind(t) PROVE SectionsMapped'
  <2>1. /\ UNCHANGED <<heap, mine>> /\ pc' = [pc EXCEPT ![t] = "idle"]
        /\ inside' = [inside EXCEPT ![t] = FALSE] /\ cur' = [cur EXCEPT ![t] = Null]
    BY <1>16 DEF ResolveFind, ExitAndReturn, Goto, memoryVars
  <2> QED BY <2>1 DEF TypeOK, SectionsMapped
<1>17. ASSUME NEW t \in Threads, FastLoad(t) PROVE SectionsMapped'
  BY <1>17 DEF TypeOK, OneOwner, SectionsMapped, FastLoad, EnterAndLoad, Goto, controlVars,
     memoryVars, threadVars
<1>18. ASSUME NEW t \in Threads, FastCheck(t) PROVE SectionsMapped'
  BY SMTT(30), <1>18 DEF TypeOK, OneOwner, SectionsMapped, FastCheck, EntryMatches, Goto, Fail,
     controlVars, memoryVars, threadVars
<1>19. ASSUME NEW t \in Threads, SlowState(t) PROVE SectionsMapped'
  BY SMTT(30), <1>19 DEF TypeOK, OneOwner, SectionsMapped, SlowState, ExitAndReturn, Goto, Fail,
     controlVars, memoryVars, threadVars
<1>20. ASSUME NEW t \in Threads, SlowSnapshot(t) PROVE SectionsMapped'
  BY <1>20 DEF TypeOK, OneOwner, SectionsMapped, SlowSnapshot, Goto, controlVars,
     memoryVars, threadVars
<1>21. ASSUME NEW t \in Threads, SlowEnter(t) PROVE SectionsMapped'
  BY <1>21 DEF TypeOK, OneOwner, SectionsMapped, SlowEnter, ExitAndReturn, EnterAndLoad,
     Goto, Fail, controlVars, memoryVars, threadVars
<1>22. ASSUME NEW t \in Threads, SlowCheck(t) PROVE SectionsMapped'
  <2>1. /\ pc[t] = "check" /\ UNCHANGED <<heap, mine>>
        /\ \/ pc' = [pc EXCEPT ![t] = "idle"] /\ UNCHANGED <<inside, cur>>
           \/ /\ pc' = [pc EXCEPT ![t] = "idle"]
              /\ inside' = [inside EXCEPT ![t] = FALSE] /\ cur' = [cur EXCEPT ![t] = Null]
           \/ pc' = [pc EXCEPT ![t] = "calling"] /\ UNCHANGED <<inside, cur>>
    BY <1>22 DEF SlowCheck, ExitAndReturn, ReturnInside, Goto, memoryVars
  <2> QED BY <2>1 DEF TypeOK, SectionsMapped
<1>23. ASSUME NEW t \in Threads, Return(t) PROVE SectionsMapped'
  BY <1>23 DEF TypeOK, OneOwner, SectionsMapped, Return, ExitAndReturn, Goto, Fail,
     controlVars, memoryVars, threadVars
<1>24. ASSUME NEW a \in Addrs, Free(a) PROVE SectionsMapped'
  BY <1>24 DEF TypeOK, OneOwner, SectionsMapped, Free, controlVars, memoryVars, threadVars
<1>25. ASSUME NEW h \in Handles, Release(h) PROVE SectionsMapped'
  BY <1>25 DEF TypeOK, OneOwner, SectionsMapped, Release, DropReference, DestroyControl,
     Unshared, NoHandle, controlVars, memoryVars, threadVars
<1>26. ASSUME NEW from \in Handles, NEW to \in Handles, Move(from, to) PROVE SectionsMapped'
  BY <1>26 DEF TypeOK, OneOwner, SectionsMapped, Move, DropReference, DestroyControl,
     Unshared, NoHandle, controlVars, memoryVars, threadVars
<1> QED
  BY <1>1, <1>2, <1>3, <1>4, <1>5, <1>6, <1>7, <1>8, <1>9, <1>10, <1>11, <1>12, <1>13,
     <1>14, <1>15,
     <1>16, <1>17, <1>18, <1>19, <1>20, <1>21, <1>22, <1>23, <1>24, <1>25, <1>26
  DEF Next, ObjectStep, CallStep

-----------------------------------------------------------------------------
(***************************************************************************)
(* Handles.                                                                *)
(***************************************************************************)

LEMMA CallsInit == ASSUME Init PROVE CallsHaveHandle
BY DEF Init, CallsHaveHandle, Resolving

\* Nobody resolves, moves or destroys a handle under a call.
LEMMA CallsStep ==
    ASSUME TypeOK, CallsHaveHandle, [Next]_vars
    PROVE  CallsHaveHandle'
<1>1. CASE UNCHANGED vars
  BY <1>1 DEF TypeOK, CallsHaveHandle, Resolving, vars, controlVars, memoryVars, threadVars
<1>2. ASSUME NEW t \in Threads, NEW a \in Addrs, NEW T \in Tables, LoadImage(t, a, T)
      PROVE CallsHaveHandle'
  BY <1>2 DEF TypeOK, CallsHaveHandle, Resolving, LoadImage, Goto, controlVars, memoryVars,
     threadVars
<1>3. ASSUME NEW t \in Threads, LoadFails(t) PROVE CallsHaveHandle'
  BY <1>3 DEF TypeOK, CallsHaveHandle, Resolving, LoadFails, Fail, controlVars, memoryVars,
     threadVars
<1>4. ASSUME NEW t \in Threads, Unload(t) PROVE CallsHaveHandle'
  BY <1>4 DEF TypeOK, CallsHaveHandle, Resolving, Unload, Fail, Goto, controlVars,
     memoryVars, threadVars
<1>5. ASSUME NEW t \in Threads, ForceUnload(t) PROVE CallsHaveHandle'
  BY <1>5 DEF TypeOK, CallsHaveHandle, Resolving, ForceUnload, controlVars, memoryVars,
     threadVars
<1>6. ASSUME NEW t \in Threads, LockTimeout(t) PROVE CallsHaveHandle'
  BY <1>6 DEF TypeOK, CallsHaveHandle, Resolving, LockTimeout, Fail, Goto, controlVars,
     memoryVars, threadVars
<1>7. ASSUME NEW t \in Threads, Exchange(t) PROVE CallsHaveHandle'
  BY <1>7 DEF TypeOK, CallsHaveHandle, Resolving, Exchange, Goto, controlVars, memoryVars,
     threadVars
<1>8. ASSUME NEW t \in Threads, StoreState(t) PROVE CallsHaveHandle'
  BY <1>8 DEF TypeOK, CallsHaveHandle, Resolving, StoreState, Goto, controlVars,
     memoryVars, threadVars
<1>9. ASSUME NEW t \in Threads, RetirePrevious(t) PROVE CallsHaveHandle'
  BY <1>9 DEF TypeOK, CallsHaveHandle, Resolving, RetirePrevious, Fail, Goto, controlVars,
     memoryVars, threadVars
<1>10. ASSUME NEW t \in Threads, DestroyObject(t) PROVE CallsHaveHandle'
  BY <1>10 DEF TypeOK, CallsHaveHandle, Resolving, DestroyObject, DropReference,
     DestroyControl, Fail, controlVars, memoryVars, threadVars
<1>11. ASSUME NEW t \in Threads, EnterRead(t) PROVE CallsHaveHandle'
  BY <1>11 DEF TypeOK, CallsHaveHandle, Resolving, EnterRead, ExitAndReturn, EnterAndLoad,
     Goto, Fail, controlVars, memoryVars, threadVars
<1>12. ASSUME NEW t \in Threads, ExitRead(t) PROVE CallsHaveHandle'
  BY <1>12 DEF TypeOK, CallsHaveHandle, Resolving, ExitRead, ExitAndReturn, Goto, Fail,
     controlVars, memoryVars, threadVars
<1>13. ASSUME NEW t \in Threads, NEW h \in Handles, Resolve(t, h) PROVE CallsHaveHandle'
  BY <1>13 DEF TypeOK, CallsHaveHandle, Resolving, Resolve, Unshared, NoHandle, Goto,
     controlVars, memoryVars, threadVars
<1>14. ASSUME NEW t \in Threads, NEW h \in Handles, Call(t, h) PROVE CallsHaveHandle'
  BY <1>14 DEF TypeOK, CallsHaveHandle, Resolving, Call, Goto, Fail, controlVars,
     memoryVars, threadVars
<1>15. ASSUME NEW t \in Threads, ResolveLoad(t) PROVE CallsHaveHandle'
  BY <1>15 DEF TypeOK, CallsHaveHandle, Resolving, ResolveLoad, ExitAndReturn,
     EnterAndLoad, Goto, Fail, controlVars, memoryVars, threadVars
<1>16. ASSUME NEW t \in Threads, ResolveFind(t) PROVE CallsHaveHandle'
  BY <1>16 DEF TypeOK, CallsHaveHandle, Resolving, ResolveFind, ExitAndReturn, Goto, Fail,
     controlVars, memoryVars, threadVars
<1>17. ASSUME NEW t \in Threads, FastLoad(t) PROVE CallsHaveHandle'
  BY <1>17 DEF TypeOK, CallsHaveHandle, Resolving, FastLoad, EnterAndLoad, Goto,
     controlVars, memoryVars, threadVars
<1>18. ASSUME NEW t \in Threads, FastCheck(t) PROVE CallsHaveHandle'
  BY <1>18 DEF TypeOK, CallsHaveHandle, Resolving, FastCheck, EntryMatches, Goto, Fail,
     controlVars, memoryVars, threadVars
<1>19. ASSUME NEW t \in Threads, SlowState(t) PROVE CallsHaveHandle'
  BY <1>19 DEF TypeOK, CallsHaveHandle, Resolving, SlowState, ExitAndReturn, Goto, Fail,
     controlVars, memoryVars, threadVars
<1>20. ASSUME NEW t \in Threads, SlowSnapshot(t) PROVE CallsHaveHandle'
  BY <1>20 DEF TypeOK, CallsHaveHandle, Resolving, SlowSnapshot, Goto, controlVars,
     memoryVars, threadVars
<1>21. ASSUME NEW t \in Threads, SlowEnter(t) PROVE CallsHaveHandle'
  BY <1>21 DEF TypeOK, CallsHaveHandle, Resolving, SlowEnter, ExitAndReturn, EnterAndLoad,
     Goto, Fail, controlVars, memoryVars, threadVars
<1>22. ASSUME NEW t \in Threads, SlowCheck(t) PROVE CallsHaveHandle'
  <2>1. /\ pc[t] = "check"
        /\ \/ pc' = [pc EXCEPT ![t] = "idle"] /\ using' = [using EXCEPT ![t] = Null]
           \/ pc' = [pc EXCEPT ![t] = "calling"] /\ UNCHANGED using
    BY <1>22 DEF SlowCheck, ExitAndReturn, ReturnInside, Goto
  <2>2. \A h \in Handles : handle'[h].index = handle[h].index
    BY <1>22, CheckHandles
  <2> QED BY <2>1, <2>2 DEF TypeOK, CallsHaveHandle, Resolving
<1>23. ASSUME NEW t \in Threads, Return(t) PROVE CallsHaveHandle'
  BY <1>23 DEF TypeOK, CallsHaveHandle, Resolving, Return, ExitAndReturn, Goto, Fail,
     controlVars, memoryVars, threadVars
<1>24. ASSUME NEW a \in Addrs, Free(a) PROVE CallsHaveHandle'
  BY <1>24 DEF TypeOK, CallsHaveHandle, Resolving, Free, controlVars, memoryVars, threadVars
<1>25. ASSUME NEW h \in Handles, Release(h) PROVE CallsHaveHandle'
  BY <1>25 DEF TypeOK, CallsHaveHandle, Resolving, Release, DropReference, DestroyControl,
     Unshared, NoHandle, controlVars, memoryVars, threadVars
<1>26. ASSUME NEW from \in Handles, NEW to \in Handles, Move(from, to) PROVE CallsHaveHandle'
  BY <1>26 DEF TypeOK, CallsHaveHandle, Resolving, Move, DropReference, DestroyControl,
     Unshared, NoHandle, controlVars, memoryVars, threadVars
<1> QED
  BY <1>1, <1>2, <1>3, <1>4, <1>5, <1>6, <1>7, <1>8, <1>9, <1>10, <1>11, <1>12, <1>13,
     <1>14, <1>15,
     <1>16, <1>17, <1>18, <1>19, <1>20, <1>21, <1>22, <1>23, <1>24, <1>25, <1>26
  DEF Next, ObjectStep, CallStep

-----------------------------------------------------------------------------
(***************************************************************************)
(* Calls.                                                                  *)
(***************************************************************************)

\* What RightFunction says of one call, and that a step leaves it as it is.
RightCall(u) ==
    LET T == heap[cur[u]]
        i == handle[using[u]].index
    IN T \notin {Unmapped, NoTable} /\ i \in 1..Len(T) /\ T[i].name = Name /\ T[i].sig = Sig
CallStays(u) ==
    /\ cur'[u] = cur[u] /\ using'[u] = using[u]
    /\ heap'[cur[u]] = heap[cur[u]]
    /\ handle'[using[u]].index = handle[using[u]].index

\* An image is not unmapped, and a handle gets no other index, under a call of it.
LEMMA CallStaysStep ==
    ASSUME TypeOK, OneOwner, SectionsMapped, CallsHaveHandle, RightFunction,
           NEW u \in Threads, pc[u] = "calling", pc'[u] = "calling", [Next]_vars
    PROVE  CallStays(u)
<1>1. CASE UNCHANGED vars
  BY <1>1 DEF TypeOK, SectionsMapped, CallStays, vars, controlVars, memoryVars, threadVars
<1>2. ASSUME NEW t \in Threads, NEW a \in Addrs, NEW T \in Tables, LoadImage(t, a, T)
      PROVE CallStays(u)
  BY <1>2 DEF TypeOK, SectionsMapped, CallStays, LoadImage, Goto, controlVars, memoryVars,
     threadVars
<1>3. ASSUME NEW t \in Threads, LoadFails(t) PROVE CallStays(u)
  BY <1>3 DEF TypeOK, SectionsMapped, CallStays, LoadFails, Fail, controlVars, memoryVars,
     threadVars
<1>4. ASSUME NEW t \in Threads, Unload(t) PROVE CallStays(u)
  BY <1>4 DEF TypeOK, SectionsMapped, CallStays, Unload, Fail, Goto, controlVars,
     memoryVars, threadVars
<1>5. ASSUME NEW t \in Threads, ForceUnload(t) PROVE CallStays(u)
  BY <1>5 DEF TypeOK, SectionsMapped, CallStays, ForceUnload, controlVars, memoryVars,
     threadVars
<1>6. ASSUME NEW t \in Threads, LockTimeout(t) PROVE CallStays(u)
  BY <1>6 DEF TypeOK, SectionsMapped, CallStays, LockTimeout, Fail, Goto, controlVars,
     memoryVars, threadVars
<1>7. ASSUME NEW t \in Threads, Exchange(t) PROVE CallStays(u)
  BY <1>7 DEF TypeOK, SectionsMapped, CallStays, Exchange, Goto, controlVars, memoryVars,
     threadVars
<1>8. ASSUME NEW t \in Threads, StoreState(t) PROVE CallStays(u)
  BY <1>8 DEF TypeOK, SectionsMapped, CallStays, StoreState, Goto, controlVars, memoryVars,
     threadVars
<1>9. ASSUME NEW t \in Threads, RetirePrevious(t) PROVE CallStays(u)
  BY <1>9 DEF TypeOK, SectionsMapped, CallStays, RetirePrevious, Fail, Goto, controlVars,
     memoryVars, threadVars
<1>10. ASSUME NEW t \in Threads, DestroyObject(t) PROVE CallStays(u)
  BY <1>10 DEF TypeOK, SectionsMapped, CallStays, DestroyObject, DropReference,
     DestroyControl, Fail, controlVars, memoryVars, threadVars
<1>11. ASSUME NEW t \in Threads, EnterRead(t) PROVE CallStays(u)
  BY <1>11 DEF TypeOK, SectionsMapped, CallStays, EnterRead, ExitAndReturn, EnterAndLoad,
     Goto, Fail, controlVars, memoryVars, threadVars
<1>12. ASSUME NEW t \in Threads, ExitRead(t) PROVE CallStays(u)
  BY <1>12 DEF TypeOK, SectionsMapped, CallStays, ExitRead, ExitAndReturn, Goto, Fail,
     controlVars, memoryVars, threadVars
<1>13. ASSUME NEW t \in Threads, NEW h \in Handles, Resolve(t, h) PROVE CallStays(u)
  BY <1>13 DEF TypeOK, SectionsMapped, CallStays, Resolve, Unshared, NoHandle, Goto,
     controlVars, memoryVars, threadVars
<1>14. ASSUME NEW t \in Threads, NEW h \in Handles, Call(t, h) PROVE CallStays(u)
  BY <1>14 DEF TypeOK, SectionsMapped, CallStays, Call, Goto, Fail, controlVars,
     memoryVars, threadVars
<1>15. ASSUME NEW t \in Threads, ResolveLoad(t) PROVE CallStays(u)
  BY <1>15 DEF TypeOK, SectionsMapped, CallStays, ResolveLoad, ExitAndReturn, EnterAndLoad,
     Goto, Fail, controlVars, memoryVars, threadVars
<1>16. ASSUME NEW t \in Threads, ResolveFind(t) PROVE CallStays(u)
  <2>1. t # u /\ UNCHANGED heap /\ cur' = [cur EXCEPT ![t] = Null] /\ Resolving(t)
    BY <1>16 DEF ResolveFind, ExitAndReturn, Resolving, memoryVars
  <2>2. handle[using[t]].index = 0
    BY <2>1 DEF CallsHaveHandle
  <2>3. using[u] \in Handles /\ cur[u] \in Addrs
    BY DEF CallsHaveHandle, SectionsMapped, TypeOK
  <2>4. using[u] # using[t]
    <3>1. RightCall(u)
      BY DEF RightFunction, RightCall
    <3>2. handle[using[u]].index # 0
      BY <2>3, <3>1, TablesAssumption DEF RightCall, TypeOK
    <3> QED BY <2>2, <3>2
  <2> QED BY <1>16, <2>1, <2>3, <2>4, FindHandles DEF CallStays, TypeOK
<1>17. ASSUME NEW t \in Threads, FastLoad(t) PROVE CallStays(u)
  BY <1>17 DEF TypeOK, SectionsMapped, CallStays, FastLoad, EnterAndLoad, Goto,
     controlVars, memoryVars, threadVars
<1>18. ASSUME NEW t \in Threads, FastCheck(t) PROVE CallStays(u)
  BY <1>18 DEF TypeOK, SectionsMapped, CallStays, FastCheck, EntryMatches, Goto, Fail,
     controlVars, memoryVars, threadVars
<1>19. ASSUME NEW t \in Threads, SlowState(t) PROVE CallStays(u)
  BY <1>19 DEF TypeOK, SectionsMapped, CallStays, SlowState, ExitAndReturn, Goto, Fail,
     controlVars, memoryVars, threadVars
<1>20. ASSUME NEW t \in Threads, SlowSnapshot(t) PROVE CallStays(u)
  BY <1>20 DEF TypeOK, SectionsMapped, CallStays, SlowSnapshot, Goto, controlVars,
     memoryVars, threadVars
<1>21. ASSUME NEW t \in Threads, SlowEnter(t) PROVE CallStays(u)
  BY <1>21 DEF TypeOK, SectionsMapped, CallStays, SlowEnter, ExitAndReturn, EnterAndLoad,
     Goto, Fail, controlVars, memoryVars, threadVars
<1>22. ASSUME NEW t \in Threads, SlowCheck(t) PROVE CallStays(u)
  <2>1. t # u /\ UNCHANGED heap
    BY <1>22 DEF SlowCheck, memoryVars
  <2>2. cur'[u] = cur[u] /\ using'[u] = using[u] /\ using[u] \in Handles
    BY <1>22, <2>1 DEF SlowCheck, ExitAndReturn, ReturnInside, CallsHaveHandle, TypeOK
  <2> QED BY <1>22, <2>1, <2>2, CheckHandles DEF CallStays
<1>23. ASSUME NEW t \in Threads, Return(t) PROVE CallStays(u)
  BY <1>23 DEF TypeOK, SectionsMapped, CallStays, Return, ExitAndReturn, Goto, Fail,
     controlVars, memoryVars, threadVars
<1>24. ASSUME NEW a \in Addrs, Free(a) PROVE CallStays(u)
  BY <1>24 DEF TypeOK, SectionsMapped, CallStays, Free, controlVars, memoryVars, threadVars
<1>25. ASSUME NEW h \in Handles, Release(h) PROVE CallStays(u)
  BY <1>25 DEF TypeOK, SectionsMapped, CallStays, Release, DropReference, DestroyControl,
     Unshared, NoHandle, controlVars, memoryVars, threadVars
<1>26. ASSUME NEW from \in Handles, NEW to \in Handles, Move(from, to) PROVE CallStays(u)
  <2>1. handle'[using[u]] = handle[using[u]]
    BY <1>26 DEF Move, DropReference, Unshared, CallsHaveHandle, TypeOK
  <2> QED BY <1>26, <2>1 DEF Move, threadVars, CallStays
<1> QED
  BY <1>1, <1>2, <1>3, <1>4, <1>5, <1>6, <1>7, <1>8, <1>9, <1>10, <1>11, <1>12, <1>13,
     <1>14, <1>15,
     <1>16, <1>17, <1>18, <1>19, <1>20, <1>21, <1>22, <1>23, <1>24, <1>25, <1>26
  DEF Next, ObjectStep, CallStep

\* A call that both the hash and the signature let through on the fast path, or
\* the name and the signature on the slow one, calls the right function.
LEMMA NewCall ==
    ASSUME TypeOK, SectionsMapped, CallsHaveHandle, NoCollision,
           NEW t \in Threads, FastCheck(t) \/ SlowCheck(t), pc'[t] = "calling"
    PROVE  RightCall(t)'
<1> DEFINE T == heap[cur[t]]
           i == handle[using[t]].index
<1>1. CASE FastCheck(t)
  <2>1. /\ cur[t] # Null /\ T \notin {NoTable, Unmapped} /\ EntryMatches(T, i)
        /\ UNCHANGED <<heap, cur, using, handle>>
    BY <1>1 DEF FastCheck, Goto, memoryVars, TypeOK
  <2>2. T \in Tables \ {NoTable}
    BY <2>1 DEF TypeOK
  <2> QED BY <2>1, <2>2 DEF EntryMatches, NoCollision, RightCall
<1>2. CASE SlowCheck(t)
  <2>1. /\ T \notin {NoTable, Unmapped} /\ EntryIsNamed(T, i)
        /\ UNCHANGED <<heap, cur, using>>
    BY <1>2 DEF SlowCheck, ExitAndReturn, ReturnInside, Goto, memoryVars, TypeOK
  <2>2. using[t] \in Handles
    BY <1>2 DEF SlowCheck, CallsHaveHandle, TypeOK
  <2>3. handle'[using[t]].index = i
    BY <1>2, <2>2, CheckHandles
  <2> QED BY <2>1, <2>3 DEF EntryIsNamed, RightCall
<1> QED BY <1>1, <1>2

\* Only the two checks start a call.
LEMMA CallStarts ==
    ASSUME TypeOK, [Next]_vars, NEW u \in Threads, pc[u] # "calling", pc'[u] = "calling"
    PROVE  FastCheck(u) \/ SlowCheck(u)
<1>1. CASE UNCHANGED vars
  BY <1>1 DEF vars, threadVars
<1>2. ASSUME NEW t \in Threads, ObjectStep(t) PROVE pc'[u] # "calling"
  <2>1. ASSUME NEW a \in Addrs, NEW T \in Tables, LoadImage(t, a, T) PROVE pc'[u] # "calling"
    BY <2>1 DEF LoadImage, Goto, TypeOK
  <2>2. CASE LoadFails(t) \/ Unload(t) \/ ForceUnload(t) \/ LockTimeout(t) \/ Exchange(t)
    BY <2>2 DEF LoadFails, Unload, ForceUnload, LockTimeout, Exchange, Goto, threadVars,
       TypeOK
  <2>3. CASE StoreState(t) \/ RetirePrevious(t) \/ DestroyObject(t) \/ EnterRead(t) \/ ExitRead(t)
    BY <2>3 DEF StoreState, RetirePrevious, DestroyObject, EnterRead, ExitRead,
       ExitAndReturn,
                Goto, TypeOK
  <2> QED BY <1>2, <2>1, <2>2, <2>3 DEF ObjectStep
<1>3. ASSUME NEW t \in Threads, CallStep(t) PROVE FastCheck(u) \/ SlowCheck(u)
  <2>1. CASE FastCheck(t) \/ SlowCheck(t)
    BY <2>1 DEF FastCheck, SlowCheck, ExitAndReturn, ReturnInside, Goto, TypeOK
  <2>2. ASSUME NEW h \in Handles, Resolve(t, h) \/ Call(t, h) PROVE pc'[u] # "calling"
    BY <2>2 DEF Resolve, Call, Goto, TypeOK
  <2>3. CASE ResolveLoad(t) \/ ResolveFind(t) \/ FastLoad(t) \/ SlowState(t)
    BY <2>3 DEF ResolveLoad, ResolveFind, FastLoad, SlowState, ExitAndReturn, Goto, TypeOK
  <2>4. CASE SlowSnapshot(t) \/ SlowEnter(t) \/ Return(t)
    BY <2>4 DEF SlowSnapshot, SlowEnter, Return, ExitAndReturn, Goto, TypeOK
  <2> QED BY <1>3, <2>1, <2>2, <2>3, <2>4 DEF CallStep
<1>4. ASSUME NEW a \in Addrs, Free(a) PROVE pc'[u] # "calling"
  BY <1>4 DEF Free, threadVars
<1>5. ASSUME NEW h \in Handles, Release(h) PROVE pc'[u] # "calling"
  BY <1>5 DEF Release, threadVars
<1>6. ASSUME NEW from \in Handles, NEW to \in Handles, Move(from, to) PROVE pc'[u] # "calling"
  BY <1>6 DEF Move, threadVars
<1> QED BY <1>1, <1>2, <1>3, <1>4, <1>5, <1>6 DEF Next

LEMMA RightStep ==
    ASSUME TypeOK, OneOwner, SectionsMapped, CallsHaveHandle, RightFunction, NoCollision,
           [Next]_vars
    PROVE  RightFunction'
<1> SUFFICES ASSUME NEW u \in Threads, pc'[u] = "calling" PROVE RightCall(u)'
  BY DEF RightFunction, RightCall
<1>1. CASE pc[u] = "calling"
  <2>1. RightCall(u)
    BY <1>1 DEF RightFunction, RightCall
  <2>2. CallStays(u)
    BY <1>1, CallStaysStep
  <2> QED BY <2>1, <2>2 DEF RightCall, CallStays
<1>2. CASE pc[u] # "calling"
  BY <1>2, CallStarts, NewCall
<1> QED BY <1>1, <1>2

-----------------------------------------------------------------------------
(***************************************************************************)
(* Theorems.                                                               *)
(***************************************************************************)

LEMMA InvariantInit == ASSUME Init PROVE IInv
<1>1. RightFunction
  BY DEF Init, RightFunction
<1> QED BY <1>1, TypeInit, OneOwnerInit, ControlInit, SectionsInit, CallsInit DEF IInv

LEMMA InvariantStep == ASSUME IInv, [Next]_vars PROVE IInv'
BY TypeStep, OneOwnerStep, ControlStep, SectionsStep, CallsStep, RightStep DEF IInv,
   NoCollision

\* The invariant of FunctionHandle holds in every state.
THEOREM FunctionInvariant == Spec => []IInv
<1>1. Init => IInv
  BY InvariantInit
<1>2. IInv /\ [Next]_vars => IInv'
  BY InvariantStep
<1> QED BY <1>1, <1>2, PTL DEF Spec

\* Every mapped image has exactly one owner that will free it: it is published,
\* or queued, or in the hands of one load, reload or unload, whatever fails and
\* whoever destroys the Object and the handles (Object.h); or it was lost in a
\* retirement without memory for its node (retire_impl(), Domain.h), and then
\* has none and stays mapped.
THEOREM ImagesHaveOneOwner == Spec => []ImagesAccounted
<1>1. IInv => ImagesAccounted
  BY OwnersCounted DEF IInv
<1> QED BY <1>1, FunctionInvariant, PTL

\* "the Control itself outlives all handles" (Object.h), and the calls through
\* them; state and image agree whenever the writer lock is free.
THEOREM ControlStaysSound == Spec => []ControlSound
<1>1. IInv => ControlSound
  BY ControlFollows DEF IInv
<1> QED BY <1>1, FunctionInvariant, PTL

\* "a stale or torn snapshot can therefore only cost a revalidate, never a wrong
\* call" (Function.h): as long as no other exported name has the 32-bit hash of
\* the handles' name, which is all the fast path compares, a call is inside a
\* mapped image and calls the function with the handle's name and signature.
THEOREM CallsReachTheirFunction == ASSUME NoCollision PROVE Spec => []RightFunction
<1>1. IInv => RightFunction
  BY DEF IInv
<1> QED BY <1>1, FunctionInvariant, PTL
=============================================================================
