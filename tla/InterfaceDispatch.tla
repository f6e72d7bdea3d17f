------------------------- MODULE InterfaceDispatch -------------------------
(***************************************************************************)
(* Binding an object to an interface and calling it: InterfaceRegistry     *)
(* (Interface/Registry.h), InterfaceRef, the slot cache and the shared     *)
(* slot table (Interface/Ref.h), and the two proxies (Interface/Proxy.h)   *)
(* for one contract, as the macros of Interface/Declaration.h declare it.  *)
(* Every operation is a call of one thread: the registry and the tables    *)
(* are not synchronised and their users serialise them.                    *)
(*                                                                         *)
(* An adapter is [of, sig]: the concrete type whose objects it expects and *)
(* the signature it really has; NoAdapter is an unbound slot.              *)
(***************************************************************************)
EXTENDS Integers, Sequences, FiniteSets

CONSTANTS
    ObjectTypes,      \* TypeOfObject[o]: the concrete type of object o
    NullObject,
    Contract,         \* Traits: [id, version, signatures], 0 for an unchecked slot
    OtherId,          \* another interface
    NoAdapter,
    Implementations,  \* [type, id, version, methods] that may be added
    ManifestTables,   \* [type, methods] that a discovered module may declare
    InterfaceSlots,   \* the Capacity of the registry
    RefSlots,         \* MaxMethods of an InterfaceRef
    TableFor,         \* TableFor[t]: the type that shared table t is kept for
    SharedProxies

Bindable == DOMAIN ObjectTypes
SlotCapacity == Len(Contract.signatures)

\* The tables that the macros and the generator write: every adapter is for the
\* type of its table and has the signature recorded next to it.
HonestTable(methods, type) ==
    /\ Len(methods) \in Nat
    /\ \A i \in 1..Len(methods) :
           /\ methods[i].slot \in Nat
           /\ methods[i].entry # NoAdapter =>
                  methods[i].entry.of = type /\ methods[i].entry.sig = methods[i].signature

ASSUME DispatchAssumption ==
    /\ NullObject \notin Bindable \union DOMAIN TableFor
    /\ SlotCapacity \in Nat
    /\ \A impl \in Implementations : impl.version \in Nat /\ HonestTable(impl.methods, impl.type)
    /\ \A m \in ManifestTables : HonestTable(m.methods, m.type)

VARIABLES
    impls,   \* InterfaceRegistry: the sequence of its entries
    ref,     \* an InterfaceRef: [object, id, version, slots]
    unique,  \* a UniqueInterfaceProxy: [object, slots, status]
    table,   \* table[t]: an InterfaceSlotTable: [ready, slots]
    proxy    \* proxy[p]: a SharedInterfaceProxy: [object, table, status]

dispatchVars == <<impls, ref, unique, table, proxy>>

Unslotted == [s \in {} |-> NoAdapter]
NoRef == [object |-> NullObject, id |-> 0, version |-> 0, slots |-> Unslotted]
NoUnique(status) == [object |-> NullObject, slots |-> Unslotted, status |-> status]
NoTable == [ready |-> FALSE, slots |-> Unslotted]
NoProxy(status) == [object |-> NullObject, table |-> NullObject, status |-> status]

DispatchInit ==
    /\ impls = <<>> /\ ref = NoRef /\ unique = NoUnique("interface_not_found")
    /\ table = [t \in DOMAIN TableFor |-> NoTable]
    /\ proxy = [p \in SharedProxies |-> NoProxy("interface_not_found")]
-----------------------------------------------------------------------------
(***************************************************************************)
(* The registry.                                                           *)
(***************************************************************************)
Claims(type, id) == {i \in 1..Len(impls) : impls[i].type = type /\ impls[i].id = id}

find_exact(type, id, version) == {i \in Claims(type, id) : impls[i].version = version}

find_newest(type, id) ==
    {i \in Claims(type, id) : \A j \in Claims(type, id) : impls[j].version <= impls[i].version}

\* find(): at most one entry; version 0 asks for the newest.
find(type, id, version) ==
    IF version = 0 THEN find_newest(type, id) ELSE find_exact(type, id, version)

Missing(type, id) ==
    IF Claims(type, id) # {} THEN "version_mismatch" ELSE "interface_not_found"

add(impl) ==
    /\ find_exact(impl.type, impl.id, impl.version) = {}
    /\ Len(impls) < InterfaceSlots
    /\ impls' = Append(impls, impl)
    /\ UNCHANGED <<ref, unique, table, proxy>>
-----------------------------------------------------------------------------
(***************************************************************************)
(* Slots.  The last method of a slot wins, as the copying loops have it.   *)
(***************************************************************************)
Slotted(methods) ==
    [s \in {methods[i].slot : i \in 1..Len(methods)} |->
        methods[CHOOSE i \in 1..Len(methods) : methods[i].slot = s
                    /\ \A j \in (i + 1)..Len(methods) : methods[j].slot # s].entry]

Fits(methods, capacity) == \A i \in 1..Len(methods) : methods[i].slot < capacity

\* The first method of a slot, which is the one fill_slot_entries looks at.
Checked(methods, s) ==
    LET with == {i \in 1..Len(methods) : methods[i].slot = s}
    IN {methods[i] : i \in {k \in with : \A j \in with : k <= j}}

\* The verdict on a method table; the slots go in the order of the contract, and
\* the first one that fails decides.
fill_slot_entries(methods) ==
    LET expected == {s \in 0..(SlotCapacity - 1) : Contract.signatures[s + 1] # 0}
        missing == {s \in expected : \A m \in Checked(methods, s) : m.entry = NoAdapter}
        wrong == {s \in expected \ missing : \A m \in Checked(methods, s) :
                                                 m.signature # Contract.signatures[s + 1]}
        bad == missing \union wrong
    IN IF ~Fits(methods, SlotCapacity) THEN "method_capacity_exceeded"
       ELSE IF bad = {} THEN "ok"
       ELSE IF (CHOOSE s \in bad : \A r \in bad : s <= r) \in missing
       THEN "method_not_found" ELSE "signature_mismatch"

\* The part of validate_manifest() that looks into a method table.
valid_table(methods) ==
    \A i, j \in 1..Len(methods) : methods[i].slot = methods[j].slot => i = j
-----------------------------------------------------------------------------
(***************************************************************************)
(* InterfaceRef: no contract, the signatures are kept for the caller.      *)
(***************************************************************************)
resolve(o, id, version) ==
    LET found == IF o = NullObject THEN {} ELSE find(ObjectTypes[o], id, version)
    IN /\ ref' = IF found = {} THEN NoRef
                 ELSE LET impl == impls[CHOOSE i \in found : TRUE]
                      IN IF Fits(impl.methods, RefSlots)
                         THEN [object |-> o, id |-> id, version |-> impl.version,
                               slots |-> Slotted(impl.methods)]
                         ELSE NoRef
       /\ UNCHANGED <<impls, unique, table, proxy>>
-----------------------------------------------------------------------------
(***************************************************************************)
(* UniqueInterfaceProxy: its own slots.                                    *)
(***************************************************************************)
\* Mutation of BoundTo: a failed bind keeps what was bound before.
BoundToKeeps(o, methods) ==
    LET status == IF o = NullObject THEN "invalid_table" ELSE fill_slot_entries(methods)
    IN IF status = "ok" THEN [object |-> o, slots |-> Slotted(methods), status |-> "ok"]
       ELSE [unique EXCEPT !.status = status]

BoundTo(o, methods) ==
    LET status == IF o = NullObject THEN "invalid_table" ELSE fill_slot_entries(methods)
    IN IF status = "ok" THEN [object |-> o, slots |-> Slotted(methods), status |-> "ok"]
       ELSE NoUnique(status)

bind(o, version) ==
    /\ unique' = IF o = NullObject THEN NoUnique("invalid_table")
                 ELSE LET found == find(ObjectTypes[o], Contract.id, version)
                      IN IF found = {} THEN NoUnique(Missing(ObjectTypes[o], Contract.id))
                         ELSE BoundTo(o, impls[CHOOSE i \in found : TRUE].methods)
    /\ UNCHANGED <<impls, ref, table, proxy>>

\* From the manifest of a discovered module, which was validated.
bind_methods(o, id, version, m) ==
    /\ valid_table(m.methods)
    /\ o # NullObject => ObjectTypes[o] = m.type
    /\ unique' = IF id # Contract.id THEN NoUnique("interface_not_found")
                 ELSE IF version # Contract.version THEN NoUnique("version_mismatch")
                 ELSE BoundTo(o, m.methods)
    /\ UNCHANGED <<impls, ref, table, proxy>>
-----------------------------------------------------------------------------
(***************************************************************************)
(* InterfaceSlotTable and SharedInterfaceProxy.                            *)
(***************************************************************************)
Built(methods) ==
    IF fill_slot_entries(methods) = "ok" THEN [ready |-> TRUE, slots |-> Slotted(methods)]
    ELSE NoTable

\* make_shared_slot_table(), from the registry: also when it fails, the table is
\* no longer what it was.
SharedTable(t, version) ==
    LET found == find(TableFor[t], Contract.id, version)
    IN IF found = {} THEN NoTable ELSE Built(impls[CHOOSE i \in found : TRUE].methods)

build(t, version) ==
    /\ table' = [table EXCEPT ![t] = SharedTable(t, version)]
    /\ UNCHANGED <<impls, ref, unique, proxy>>

clear(t) ==
    /\ table[t] # NoTable
    /\ table' = [table EXCEPT ![t] = NoTable]
    /\ UNCHANGED <<impls, ref, unique, proxy>>

\* A proxy is given a table for the type of its object ("one table per concrete
\* implementation").
BoundProxy(t, o, ready) ==
    [object |-> o, table |-> t,
     status |-> IF o # NullObject /\ ready THEN "ok" ELSE "invalid_table"]

bind_shared(p, t, o) ==
    /\ o # NullObject => ObjectTypes[o] = TableFor[t]
    /\ proxy' = [proxy EXCEPT ![p] = BoundProxy(t, o, table[t].ready)]
    /\ UNCHANGED <<impls, ref, unique, table>>

\* The bind() that builds the table first, and loses its binding when that fails.
bind_and_build(p, t, o, version) ==
    /\ o # NullObject => ObjectTypes[o] = TableFor[t]
    /\ LET built == SharedTable(t, version)
           status == IF find(TableFor[t], Contract.id, version) = {}
                     THEN Missing(TableFor[t], Contract.id)
                     ELSE fill_slot_entries(impls[CHOOSE i \in
                              find(TableFor[t], Contract.id, version) : TRUE].methods)
       IN /\ table' = [table EXCEPT ![t] = built]
          /\ proxy' = [proxy EXCEPT ![p] = IF built.ready THEN BoundProxy(t, o, TRUE)
                                           ELSE NoProxy(status)]
    /\ UNCHANGED <<impls, ref, unique>>

AddNext == \E impl \in Implementations : add(impl)

\* The registry with an InterfaceRef and a UniqueInterfaceProxy, ...
UniqueNext ==
    \E o \in Bindable \union {NullObject}, version \in 0..2 :
        \/ \E id \in {Contract.id, OtherId} :
            resolve(o, id, version) \/ \E m \in ManifestTables : bind_methods(o, id, version, m)
        \/ bind(o, version)

\* ... and with shared tables and the proxies that use them.
SharedProxyNext ==
    \E t \in DOMAIN TableFor :
        \/ clear(t)
        \/ \E version \in 0..2 : build(t, version)
        \/ \E p \in SharedProxies, o \in Bindable \union {NullObject} :
            bind_shared(p, t, o) \/ \E version \in 0..2 : bind_and_build(p, t, o, version)

DispatchSpec == DispatchInit /\ [][AddNext \/ UniqueNext \/ SharedProxyNext]_dispatchVars
-----------------------------------------------------------------------------
(***************************************************************************)
(* Calls.                                                                  *)
(***************************************************************************)
Method(slots, s) == IF s \in DOMAIN slots THEN slots[s] ELSE NoAdapter

\* call_checked() of either proxy: the adapter it would call for a slot.
UniqueCall(s) == Method(unique.slots, s)
SharedCall(p, s) ==
    IF proxy[p].table = NullObject THEN NoAdapter ELSE Method(table[proxy[p].table].slots, s)

UniqueValid == unique.status = "ok" /\ unique.object # NullObject
SharedValid(p) ==
    /\ proxy[p].status = "ok" /\ proxy[p].object # NullObject
    /\ proxy[p].table # NullObject /\ table[proxy[p].table].ready

RightAdapter(a, o, s) ==
    /\ a # NoAdapter
    /\ a.of = ObjectTypes[o] /\ a.sig = Contract.signatures[s + 1]
-----------------------------------------------------------------------------
(***************************************************************************)
(* Properties.                                                             *)
(***************************************************************************)

\* Whenever a proxy says that it is valid, every slot the contract checks is
\* bound to an adapter for the type of the proxy's own object, with the signature
\* the call assumes: also for a proxy that was bound before its shared table was
\* built again, and for a table that came out of a manifest.
CallsMatchContract ==
    \A s \in {k \in 0..(SlotCapacity - 1) : Contract.signatures[k + 1] # 0} :
        /\ UniqueValid => RightAdapter(UniqueCall(s), unique.object, s)
        /\ \A p \in SharedProxies : SharedValid(p) =>
               RightAdapter(SharedCall(p, s), proxy[p].object, s)

\* call_checked() of a proxy whose last bind failed calls nothing, nor does that
\* of a shared proxy whose table was cleared or could not be built again; a
\* shared proxy bound to a table that was built only later calls what is right for
\* its object.  (One bound to a null object is the exception: it keeps its table.)
InvalidCallsNothing ==
    \A s \in 0..(SlotCapacity - 1) :
        /\ ~UniqueValid => UniqueCall(s) = NoAdapter
        /\ \A p \in SharedProxies : SharedCall(p, s) # NoAdapter =>
               /\ table[proxy[p].table].ready
               /\ proxy[p].object # NullObject =>
                      SharedCall(p, s).of = ObjectTypes[proxy[p].object]

\* No (type, interface, version) is claimed twice, a lookup of version 0 finds the
\* newest, and whatever an InterfaceRef was resolved to is for its own object.
BindingsUnambiguous ==
    /\ \A i, j \in 1..Len(impls) :
          (impls[i].type = impls[j].type /\ impls[i].id = impls[j].id
             /\ impls[i].version = impls[j].version) => i = j
    /\ \A o \in Bindable, id \in {Contract.id, OtherId} : Claims(ObjectTypes[o], id) # {} =>
          \E i \in find(ObjectTypes[o], id, 0) : \A j \in Claims(ObjectTypes[o], id) :
              impls[i].version >= impls[j].version
    /\ \A s \in DOMAIN ref.slots : ref.slots[s] # NoAdapter =>
          ref.slots[s].of = ObjectTypes[ref.object]

\* A call through a proxy reaches an adapter for its own object and signature, or
\* nothing when its last bind failed; what it was bound to is unambiguous.
DispatchSound ==
    /\ CallsMatchContract
    /\ InvalidCallsNothing
    /\ BindingsUnambiguous

(***************************************************************************)
(* The inductive invariant, when no implementation has a slot twice: of    *)
(* such a slot fill_slot_entries looks at the first method and copies the  *)
(* last.                                                                   *)
(***************************************************************************)
SlotsDistinct == \A impl \in Implementations : valid_table(impl.methods)

\* Slots for objects of this type.
SlotsFor(slots, type) == \A s \in DOMAIN slots : slots[s] # NoAdapter => slots[s].of = type

\* Slots that were checked against the contract.
SlotsMatch(slots) ==
    \A s \in 0..(SlotCapacity - 1) : Contract.signatures[s + 1] # 0 =>
        /\ s \in DOMAIN slots /\ slots[s] # NoAdapter
        /\ slots[s].sig = Contract.signatures[s + 1]

\* The same type, interface and version, and the entry that find() takes for version 0.
SameClaim(a, b) == a.type = b.type /\ a.id = b.id
ImplsInv ==
    /\ impls \in Seq(Implementations)
    /\ \A i, j \in 1..Len(impls) :
          SameClaim(impls[i], impls[j]) /\ impls[i].version = impls[j].version => i = j
    /\ \A i \in 1..Len(impls) : \E j \in 1..Len(impls) :
          /\ SameClaim(impls[i], impls[j])
          /\ \A k \in 1..Len(impls) :
                SameClaim(impls[i], impls[k]) => impls[k].version <= impls[j].version

ResolvedInv ==
    \/ ref = NoRef
    \/ ref.object \in Bindable /\ SlotsFor(ref.slots, ObjectTypes[ref.object])

UniqueInv ==
    \/ unique.slots = Unslotted /\ unique.object = NullObject
    \/ /\ unique.object \in Bindable /\ unique.status = "ok"
       /\ SlotsFor(unique.slots, ObjectTypes[unique.object]) /\ SlotsMatch(unique.slots)

TablesInv ==
    /\ DOMAIN table = DOMAIN TableFor
    /\ \A t \in DOMAIN TableFor :
          \/ table[t] = NoTable
          \/ table[t].ready /\ SlotsFor(table[t].slots, TableFor[t]) /\ SlotsMatch(table[t].slots)

ProxiesInv ==
    /\ DOMAIN proxy = SharedProxies
    /\ \A p \in SharedProxies :
          /\ proxy[p].table \in DOMAIN TableFor \union {NullObject}
          /\ proxy[p].object # NullObject =>
                 /\ proxy[p].object \in Bindable /\ proxy[p].table # NullObject
                 /\ ObjectTypes[proxy[p].object] = TableFor[proxy[p].table]

DispatchInv == ImplsInv /\ ResolvedInv /\ UniqueInv /\ TablesInv /\ ProxiesInv
=============================================================================
