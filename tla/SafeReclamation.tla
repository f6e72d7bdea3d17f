-------------------------- MODULE SafeReclamation --------------------------
(***************************************************************************)
(* What deferred reclamation promises, with no epochs, batches or locks:   *)
(* one pointer is published and exchanged, threads acquire what it points  *)
(* to and let go of it, and an object is freed once, after it has been     *)
(* replaced, and while nobody holds it.                                    *)
(***************************************************************************)
CONSTANTS Threads, Objects, NoObject

VARIABLES
    current,  \* the published object, or NoObject
    unused,   \* objects that have never been published
    held,     \* the pairs <<thread, object>> of an acquired object
    freed     \* objects that have been freed

vars == <<current, unused, held, freed>>

Init ==
    /\ current = NoObject
    /\ unused = Objects
    /\ held = {}
    /\ freed = {}

\* A new object, or none, takes the place of the published one.
Exchange ==
    /\ \E o \in unused \union {NoObject} :
           current' = o /\ unused' = unused \ {o}
    /\ UNCHANGED <<held, freed>>

\* A thread can acquire only the published object.
Acquire(t) ==
    /\ current # NoObject
    /\ held' = held \union {<<t, current>>}
    /\ UNCHANGED <<current, unused, freed>>

\* A thread lets go of all it holds.
Release(t) ==
    /\ held' = {h \in held : h[1] # t}
    /\ UNCHANGED <<current, unused, freed>>

Free(o) ==
    /\ o \notin unused
    /\ o # current
    /\ o \notin freed
    /\ \A t \in Threads : <<t, o>> \notin held
    /\ freed' = freed \union {o}
    /\ UNCHANGED <<current, unused, held>>

Next ==
    \/ Exchange
    \/ \E t \in Threads : Acquire(t) \/ Release(t)
    \/ \E o \in Objects : Free(o)

Spec == Init /\ [][Next]_vars
=============================================================================
