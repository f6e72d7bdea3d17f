--------------------------- MODULE LeaseContract ---------------------------
(***************************************************************************)
(* What a module's lifecycle promises to whoever calls into it: a lease is *)
(* granted only while the module is active, it can be handed on, and the   *)
(* module is unloaded only when nobody holds one.                          *)
(***************************************************************************)
CONSTANT Handles

VARIABLES
    state,  \* "loading", "active", "draining" or "unloaded"
    held    \* the handles that hold a lease

vars == <<state, held>>

Init ==
    /\ state = "loading"
    /\ held = {}

Activate ==
    /\ state = "loading"
    /\ state' = "active"
    /\ UNCHANGED held

Acquire(h) ==
    /\ state = "active"
    /\ held' = held \union {h}
    /\ UNCHANGED state

HandOn(h, g) ==
    /\ h \in held
    /\ held' = (held \ {h}) \union {g}
    /\ UNCHANGED state

Release(h) ==
    /\ held' = held \ {h}
    /\ UNCHANGED state

Drain ==
    /\ state = "active"
    /\ state' = "draining"
    /\ UNCHANGED held

Unload ==
    /\ state = "draining"
    /\ held = {}
    /\ state' = "unloaded"
    /\ UNCHANGED held

Next ==
    \/ Activate
    \/ Drain
    \/ Unload
    \/ \E h \in Handles : Acquire(h) \/ Release(h)
    \/ \E h, g \in Handles : HandOn(h, g)

Spec == Init /\ [][Next]_vars
=============================================================================
