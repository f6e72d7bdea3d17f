--------------------------- MODULE ModuleRegistry ---------------------------
(***************************************************************************)
(* The registry of dynamically discovered modules and their interfaces     *)
(* (Interface/ModuleRegistry.h): fixed arrays of module slots and of       *)
(* interface bindings, the second compacted when a module leaves, and the  *)
(* clients that look an interface up and bind it under a lease.            *)
(*                                                                         *)
(* Calls of the registry are serialized by the caller; leases are not, and *)
(* come and go while unregister_module() waits.  Granting and dropping a   *)
(* lease are single steps here: LeaseContract, which ModuleLease           *)
(* implements.                                                             *)
(***************************************************************************)
EXTENDS Naturals, FiniteSets, SequencesExt

CONSTANTS
    Controls,           \* the ModuleControl objects, one per load of a module
    Manifest,           \* Manifest[m]: [query, valid, entries]: whether the library exports the
                        \* query symbol, and what its manifest is; entries of [key, version]
    Clients,            \* the callers that bind interfaces
    NoControl,          \* the null control pointer
    Keys, Versions,     \* interface ids and versions the manifests use
    ModuleCapacity, InterfaceCapacity

ASSUME ControlsAssumption == NoControl \notin Controls
ASSUME VersionsAssumption == Versions \subseteq Nat \ {0}
ASSUME ManifestAssumption ==
    \A m \in Controls :
        /\ Manifest[m].valid \in BOOLEAN /\ Manifest[m].query \in BOOLEAN
        /\ Manifest[m].entries \in Seq([key : Keys, version : Versions])
ASSUME CapacityAssumption == ModuleCapacity \in Nat \ {0} /\ InterfaceCapacity \in Nat

VARIABLES
    state, id,      \* ModuleControl::state and ::id of every control
    platform,       \* the controls whose module handle, path, pin and unpin are set
    lastId,         \* the counter of next_module_instance_id()
    slots,          \* _modules: [control, begin, count]; used when control is not null
    moduleCount,    \* _module_count
    interfaces,     \* the first _interface_count elements of _interfaces
    waiting,        \* the control unregister_module() is waiting for
    status,         \* what the last call of the registry returned
    seen,           \* per client, a copy of the binding it looked up, or <<>>
    bound           \* per client, the binding it holds with a lease, or <<>>

vars == <<state, id, platform, lastId, slots, moduleCount, interfaces, waiting, status, seen, bound>>
registryVars == <<state, id, platform, lastId, slots, moduleCount, interfaces>>
clientVars == <<seen, bound>>

Slots == 1..ModuleCapacity
FreeSlot == [control |-> NoControl, begin |-> 0, count |-> 0]
Used(s) == slots[s].control # NoControl

Init ==
    /\ state = [m \in Controls |-> "loading"]
    /\ id = [m \in Controls |-> 0]
    /\ platform = {}
    /\ lastId = 0
    /\ slots = [s \in Slots |-> FreeSlot]
    /\ moduleCount = 0
    /\ interfaces = <<>>
    /\ waiting = NoControl
    /\ status = "ok"
    /\ seen = [c \in Clients |-> <<>>]
    /\ bound = [c \in Clients |-> <<>>]

-----------------------------------------------------------------------------
(***************************************************************************)
(* register_module().                                                      *)
(***************************************************************************)

\* A manifest that lists one interface in one version twice.
Duplicates(entries) == ~IsInjective(entries)

\* The early returns, in the code's order; "ok" when none is taken.
RegisterStatus(m) ==
    LET entries == Manifest[m].entries IN
    IF ~Manifest[m].valid THEN "invalid_manifest"
    ELSE IF \E s \in Slots : slots[s].control = m THEN "already_registered"
    ELSE IF Duplicates(entries) THEN "duplicate_interface"
    ELSE IF moduleCount = ModuleCapacity THEN "capacity_exceeded"
    ELSE IF Len(interfaces) + Len(entries) > InterfaceCapacity THEN "interface_capacity_exceeded"
    ELSE IF \A s \in Slots : Used(s) THEN "capacity_exceeded"
    ELSE IF state[m] # "loading" THEN "invalid_state"
    ELSE "ok"

\* The first free slot.
SlotFor == Min({s \in Slots : ~Used(s)})

\* The binding that is copied into _interfaces for one manifest entry.
Binding(m, module, entry) ==
    [module |-> module, key |-> entry.key, version |-> entry.version, control |-> m]

\* Ids are never reused.
next_module_instance_id == lastId + 1

register_module(m) ==
    /\ status' = RegisterStatus(m)
    /\ IF status' = "ok"
         THEN /\ state' = [state EXCEPT ![m] = "active"]
              /\ lastId' = next_module_instance_id
              /\ id' = [id EXCEPT ![m] = lastId']
              /\ slots' = [slots EXCEPT ![SlotFor] =
                     [control |-> m, begin |-> Len(interfaces),
                      count |-> Len(Manifest[m].entries)]]
              /\ moduleCount' = moduleCount + 1
              /\ interfaces' = interfaces \o
                     [i \in DOMAIN Manifest[m].entries |->
                          Binding(m, id'[m], Manifest[m].entries[i])]
         ELSE UNCHANGED <<state, id, lastId, slots, moduleCount, interfaces>>
    /\ UNCHANGED <<waiting, clientVars>>

\* register_module() of a manifest that is part of the host, as in the tests:
\* there is no library to ask for it, and none to bind.
Register(m) ==
    /\ waiting = NoControl
    /\ ~Manifest[m].query
    /\ register_module(m)
    /\ UNCHANGED platform

\* bind_module_platform(): leases of this control take a reference of the library.
bind_module_platform(m) == platform' = platform \union {m}

\* discover_module() without the query symbol, or with a manifest that does not
\* validate: the control stays as it was.
DiscoverNothing(m) ==
    /\ waiting = NoControl
    /\ ~Manifest[m].query \/ ~Manifest[m].valid
    /\ status' = "invalid_manifest"
    /\ UNCHANGED <<registryVars, waiting, clientVars>>

\* discover_module(): the control is bound before it is registered, and stays
\* bound when the registration fails.
Discover(m) ==
    /\ waiting = NoControl
    /\ Manifest[m].query /\ Manifest[m].valid
    /\ bind_module_platform(m)
    /\ register_module(m)

-----------------------------------------------------------------------------
(***************************************************************************)
(* unregister_module().                                                    *)
(***************************************************************************)

\* find_slot(): the slots whose control has this instance id.
FindSlot(i) == {s \in Slots : i # 0 /\ Used(s) /\ id[slots[s].control] = i}

Holders(m) == {c \in Clients : bound[c] # <<>> /\ bound[c].control = m}

UnregisterUnknown(i) ==
    /\ waiting = NoControl
    /\ FindSlot(i) = {}
    /\ status' = "not_registered"
    /\ UNCHANGED <<registryVars, waiting, clientVars>>

\* begin_unload(): no lease is granted from here on.
BeginUnload(i) ==
    /\ waiting = NoControl
    /\ \E s \in FindSlot(i) :
           /\ waiting' = slots[s].control
           /\ state' = [state EXCEPT ![waiting'] = "draining"]
    /\ UNCHANGED <<id, platform, lastId, slots, moduleCount, interfaces, status, clientVars>>

\* wait_for_idle() gives up; the module stays draining.
Busy ==
    /\ waiting # NoControl
    /\ Holders(waiting) # {}
    /\ status' = "busy"
    /\ waiting' = NoControl
    /\ UNCHANGED <<registryVars, clientVars>>

\* Mutation of Idle: the result of wait_for_idle() is ignored.
IdleAlways(m) == TRUE

\* wait_for_idle() saw no lease.
Idle(m) == Holders(m) = {}

\* Mutation of Compact: the last interface is not moved.
CompactShort(begin, count) ==
    SubSeq(interfaces, 1, begin) \o SubSeq(interfaces, begin + count + 1, Len(interfaces) - 1)

\* The interfaces that follow the removed ones move down.
Compact(begin, count) ==
    SubSeq(interfaces, 1, begin) \o SubSeq(interfaces, begin + count + 1, Len(interfaces))

\* Mutation of Shifted: the slots are not told of the compaction.
ShiftedNever(slot, begin, count) == slot

\* A slot whose interfaces follow the removed ones moves down with them.
Shifted(slot, begin, count) ==
    IF slot.control # NoControl /\ slot.begin > begin
      THEN [slot EXCEPT !.begin = @ - count]
      ELSE slot

\* The module is idle: its interfaces and its slot go, and it is unloaded.
Unregister ==
    /\ waiting # NoControl
    /\ Idle(waiting)
    /\ \E s \in FindSlot(id[waiting]) :
           LET begin == slots[s].begin
               count == slots[s].count
           IN  /\ interfaces' = Compact(begin, count)
               /\ slots' = [t \in Slots |->
                      IF t = s THEN FreeSlot ELSE Shifted(slots[t], begin, count)]
    /\ moduleCount' = moduleCount - 1
    /\ state' = [state EXCEPT ![waiting] = "unloaded"]
    /\ status' = "ok"
    /\ waiting' = NoControl
    /\ UNCHANGED <<id, platform, lastId, clientVars>>

-----------------------------------------------------------------------------
(***************************************************************************)
(* Lookups and bindings.                                                   *)
(***************************************************************************)
Matches(b, key, version) == b.key = key /\ (version = 0 \/ b.version = version)

\* find_interface(): the matches in the order of the array, up to max of them.
FindInterface(key, version, max) ==
    LET found[i \in 0..Len(interfaces)] ==
            IF i = 0 THEN <<>>
            ELSE IF Matches(interfaces[i], key, version) /\ Len(found[i - 1]) < max
                   THEN Append(found[i - 1], interfaces[i])
                   ELSE found[i - 1]
    IN  found[Len(interfaces)]

\* The test of the loop of find_first().
Better(best, b) == best = <<>> \/ b.version >= best.version

\* find_first(): one pass that keeps the best so far; <<>> is nullptr.
FindFirst(key, version) ==
    LET best[i \in 0..Len(interfaces)] ==
            IF i = 0 THEN <<>>
            ELSE IF Matches(interfaces[i], key, version) /\ Better(best[i - 1], interfaces[i])
                   THEN interfaces[i]
                   ELSE best[i - 1]
    IN  best[Len(interfaces)]

\* A client looks an interface up and keeps a copy of the binding.
Lookup(c, key, version) ==
    /\ waiting = NoControl
    /\ seen' = [seen EXCEPT ![c] = FindFirst(key, version)]
    /\ UNCHANGED <<registryVars, waiting, status, bound>>

\* bind_interface() of that copy, however old: a lease of an active module.
\* A refused lease leaves an invalid binding.
BindInterface(c) ==
    /\ seen[c] # <<>>
    /\ bound[c] = <<>>
    /\ state[seen[c].control] = "active"
    /\ bound' = [bound EXCEPT ![c] = seen[c]]
    /\ UNCHANGED <<registryVars, waiting, status, seen>>

\* The binding is destroyed and drops its lease.
Unbind(c) ==
    /\ bound[c] # <<>>
    /\ bound' = [bound EXCEPT ![c] = <<>>]
    /\ UNCHANGED <<registryVars, waiting, status, seen>>

Next ==
    \/ \E m \in Controls : Register(m) \/ DiscoverNothing(m) \/ Discover(m)
    \/ \E i \in 0..lastId : UnregisterUnknown(i) \/ BeginUnload(i)
    \/ Busy
    \/ Unregister
    \/ \E c \in Clients, key \in Keys, version \in Versions \union {0} :
           Lookup(c, key, version)
    \/ \E c \in Clients : BindInterface(c) \/ Unbind(c)

Spec == Init /\ [][Next]_vars
-----------------------------------------------------------------------------
(***************************************************************************)
(* Properties.                                                             *)
(***************************************************************************)
Registered == {m \in Controls : \E s \in Slots : slots[s].control = m}

\* The bindings register_module() made for a control.
BindingsOf(m) ==
    [i \in DOMAIN Manifest[m].entries |-> Binding(m, id[m], Manifest[m].entries[i])]

\* Every used slot still delimits exactly the bindings of its own module, after
\* any sequence of registrations and compactions, modules without interfaces
\* included (unregister_module(): the shift of `begin`).
SlotsDelimitBindings ==
    \A s \in Slots :
        Used(s) =>
            /\ slots[s].begin + slots[s].count <= Len(interfaces)
            /\ SubSeq(interfaces, slots[s].begin + 1, slots[s].begin + slots[s].count)
                   = BindingsOf(slots[s].control)

\* The count agrees with the slots, so no capacity is lost and the search for a
\* free slot always finds one (register_module(): "Slots are not compacted on
\* unregister, so append to the first free slot").
CountsAgree ==
    /\ moduleCount = Cardinality({s \in Slots : Used(s)})
    /\ moduleCount = Cardinality(Registered)
    /\ Len(interfaces) <= InterfaceCapacity

\* What the registered modules offer of an interface.
Offers(key, version) ==
    UNION {{b \in ToSet(BindingsOf(m)) : Matches(b, key, version)} : m \in Registered}

\* find_first() returns the newest version that a registered module offers, of
\* several the one registered last, and null only when there is none ("The
\* newest implementation of (id, version)").
FindFirstIsNewest ==
    \A key \in Keys, version \in Versions \union {0} :
        LET offers == Offers(key, version)
            first  == FindFirst(key, version)
        IN  IF offers = {} THEN first = <<>>
            ELSE /\ first \in offers
                 /\ \A b \in offers :
                        \/ b.version < first.version
                        \/ b.version = first.version /\ b.module <= first.module

\* find_interface() returns what the registered modules offer, none twice and in
\* registration order, and leaves one out only when it has filled the caller's
\* array ("queries return all of them and never overwrite one with another").
FindInterfaceIsComplete ==
    \A key \in Keys, version \in Versions \union {0} :
      LET offers == Offers(key, version) IN
      \A max \in 0..InterfaceCapacity :
        LET found == FindInterface(key, version, max) IN
        /\ Len(found) <= max
        /\ ToSet(found) \subseteq offers
        /\ Len(found) < max => offers \subseteq ToSet(found)
        /\ IsInjective(found)
        /\ \A i, j \in DOMAIN found : i < j => found[i].module <= found[j].module

\* A binding held under a lease names a module that is still registered, with
\* the instance id it was looked up with, however stale the copy it was bound
\* from ("a stale binding can never be mistaken for a live one").
BoundModulesLive ==
    \A c \in Clients :
        bound[c] # <<>> =>
            /\ bound[c].control \in Registered
            /\ bound[c].module = id[bound[c].control]
            /\ state[bound[c].control] \in {"active", "draining"}
            /\ bound[c] \in ToSet(interfaces)

\* After any registrations and compactions the slots, the interface array and the
\* counts of unregister_module() describe the same registered modules.
SlotsConsistent ==
    /\ SlotsDelimitBindings
    /\ CountsAgree

\* find_first() and find_interface() find every registered interface that fits and
\* nothing that has gone, the newest one first.
LookupsExact ==
    /\ FindFirstIsNewest
    /\ FindInterfaceIsComplete

(***************************************************************************)
(* The inductive invariant.                                                *)
(***************************************************************************)
Bindings == [module : Nat, key : Keys, version : Versions, control : Controls]

RegistryTypes ==
    /\ state \in [Controls -> {"loading", "active", "draining", "unloaded"}]
    /\ id \in [Controls -> Nat] /\ lastId \in Nat
    /\ slots \in [Slots -> [control : Controls \union {NoControl}, begin : Nat, count : Nat]]
    /\ moduleCount \in Nat
    /\ interfaces \in Seq(Bindings)
    /\ waiting \in Controls \union {NoControl}

\* A module is in one slot from registration to unload, under an id of its own.
ModulesOnce ==
    /\ \A s, t \in Slots : Used(s) /\ slots[s].control = slots[t].control => s = t
    /\ \A m \in Controls :
        /\ m \in Registered <=> state[m] \in {"active", "draining"}
        /\ IF state[m] = "loading" THEN id[m] = 0 ELSE id[m] \in 1..lastId
    /\ \A m, n \in Controls : id[m] = id[n] /\ id[m] # 0 => m = n
    /\ waiting # NoControl => waiting \in Controls /\ state[waiting] = "draining"

\* The slots cut disjoint pieces out of the interface array, each that of its module.
Piece(s) ==
    LET m == slots[s].control IN
    /\ slots[s].count = Len(Manifest[m].entries)
    /\ slots[s].begin + slots[s].count <= Len(interfaces)
    /\ \A i \in 1..slots[s].count :
        interfaces[slots[s].begin + i] = Binding(m, id[m], Manifest[m].entries[i])

PiecesApart ==
    \A s, t \in Slots : Used(s) /\ Used(t) /\ s # t =>
        \/ slots[s].begin + slots[s].count <= slots[t].begin
        \/ slots[t].begin + slots[t].count <= slots[s].begin

\* The pieces fill the array in the order of registration, and no module was
\* registered with an interface listed twice.
ArrayInOrder ==
    /\ \A i, j \in 1..Len(interfaces) :
        i <= j => interfaces[i].module <= interfaces[j].module
    /\ \A i \in 1..Len(interfaces) :
        \E s \in Slots :
            Used(s) /\ slots[s].begin < i /\ i <= slots[s].begin + slots[s].count
    /\ \A m \in Registered : ~Duplicates(Manifest[m].entries)

RegistryInv ==
    /\ RegistryTypes /\ ModulesOnce
    /\ \A s \in Slots : Used(s) => Piece(s)
    /\ PiecesApart
    /\ ArrayInOrder
    /\ IsFiniteSet(Registered) /\ CountsAgree

\* A binding that was looked up names a module that was registered then; while
\* the module is, the binding is in the array.
FromRegistered(b) ==
    /\ b.control \in Controls /\ state[b.control] # "loading"
    /\ b \in ToSet(BindingsOf(b.control))

ClientsInv ==
    /\ seen \in [Clients -> Bindings \union {<<>>}]
    /\ bound \in [Clients -> Bindings \union {<<>>}]
    /\ \A c \in Clients : seen[c] # <<>> => FromRegistered(seen[c])
    /\ \A c \in Clients : bound[c] # <<>> =>
        FromRegistered(bound[c]) /\ bound[c].control \in Registered
=============================================================================
