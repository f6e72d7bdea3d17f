--------------------------- MODULE BindingProofs ---------------------------
(***************************************************************************)
(* What is bound at start-up.  First the proxies: a call reaches what the  *)
(* contract promises, for every set of types, objects, implementations and *)
(* tables (InterfaceDispatch).  Then the type registries: a module is      *)
(* registered as a whole, for every set of modules (TypeRegistry).  And    *)
(* the plans that map an object of one layout to another (MapPlan): for    *)
(* every plan, nothing outside the two objects is touched.  The files that *)
(* modules are discovered in (BinaryImage): whatever their headers say,    *)
(* how far the readers go.  Then the arithmetic under all of it (Words):   *)
(* exact for every width.  Last what two sides of a boundary compare       *)
(* (Identity): what is fed to a hash can be taken apart in one way.        *)
(***************************************************************************)
EXTENDS Identity, Words, InterfaceDispatch, TypeRegistry, MapPlan, BinaryImage, Integers, FiniteSetTheorems, SequenceTheorems, Induction

\* With no slot twice, the slot of a method holds its entry, ...
LEMMA SlotOfMethod ==
    ASSUME NEW methods, Len(methods) \in Nat, valid_table(methods), NEW i \in 1..Len(methods)
    PROVE  /\ methods[i].slot \in DOMAIN Slotted(methods)
           /\ Slotted(methods)[methods[i].slot] = methods[i].entry
<1> DEFINE s == methods[i].slot
           Last(k) == methods[k].slot = s /\ \A j \in (k + 1)..Len(methods) : methods[j].slot # s
<1>1. s \in {methods[k].slot : k \in 1..Len(methods)}
  OBVIOUS
<1>2. Last(i)
  <2>1. ASSUME NEW j \in (i + 1)..Len(methods), methods[j].slot = s
        PROVE  FALSE
    <3>1. j \in 1..Len(methods) /\ j # i
      OBVIOUS
    <3> QED BY <2>1, <3>1 DEF valid_table
  <2> QED BY <2>1
<1>3. \A k \in 1..Len(methods) : Last(k) => k = i
  BY DEF valid_table
<1>4. (CHOOSE k \in 1..Len(methods) : Last(k)) = i
  <2> HIDE DEF Last
  <2> QED BY <1>2, <1>3
<1> QED BY <1>1, <1>4 DEF Slotted

\* ... and the method that is checked for the slot is the one that fills it.
LEMMA CheckedIsCopied ==
    ASSUME NEW methods, Len(methods) \in Nat, valid_table(methods), NEW s,
           NEW m \in Checked(methods, s)
    PROVE  \E i \in 1..Len(methods) : m = methods[i] /\ methods[i].slot = s /\ Checked(methods, s) = {m}
<1> DEFINE with == {i \in 1..Len(methods) : methods[i].slot = s}
<1>1. PICK i \in with : m = methods[i] /\ \A j \in with : i <= j
  BY DEF Checked
<1>2. with = {i}
  BY <1>1 DEF valid_table
<1>3. Checked(methods, s) = {methods[i]}
  BY <1>1, <1>2 DEF Checked
<1> QED BY <1>1, <1>3

\* What an honest table fills the slots with is for its type, ...
LEMMA SlotsForType ==
    ASSUME NEW methods, NEW type, HonestTable(methods, type), valid_table(methods)
    PROVE  SlotsFor(Slotted(methods), type)
<1> SUFFICES ASSUME NEW s \in DOMAIN Slotted(methods), Slotted(methods)[s] # NoAdapter
             PROVE  Slotted(methods)[s].of = type
  BY DEF SlotsFor
<1>1. DOMAIN Slotted(methods) = {methods[i].slot : i \in 1..Len(methods)}
  BY DEF Slotted
<1>2. PICK i \in 1..Len(methods) : s = methods[i].slot
  BY <1>1
<1>3. Slotted(methods)[s] = methods[i].entry
  BY <1>2, SlotOfMethod DEF HonestTable
<1> QED BY <1>3 DEF HonestTable

\* ... and one that fill_slot_entries accepts fills every slot that the contract checks.
LEMMA SlotsMatchContract ==
    ASSUME NEW methods, NEW type, HonestTable(methods, type), valid_table(methods),
           fill_slot_entries(methods) = "ok"
    PROVE  SlotsMatch(Slotted(methods))
<1> DEFINE expected == {s \in 0..(SlotCapacity - 1) : Contract.signatures[s + 1] # 0}
           missing == {s \in expected : \A m \in Checked(methods, s) : m.entry = NoAdapter}
           wrong == {s \in expected \ missing : \A m \in Checked(methods, s) :
                                                 m.signature # Contract.signatures[s + 1]}
<1>1. missing \union wrong = {}
  BY DEF fill_slot_entries
<1>2. ASSUME NEW s \in 0..(SlotCapacity - 1), Contract.signatures[s + 1] # 0
      PROVE  /\ s \in DOMAIN Slotted(methods) /\ Slotted(methods)[s] # NoAdapter
             /\ Slotted(methods)[s].sig = Contract.signatures[s + 1]
  <2>1. s \in expected \ missing /\ s \notin wrong
    BY <1>1, <1>2
  <2>2. PICK m \in Checked(methods, s) : m.entry # NoAdapter
    BY <2>1
  <2>3. PICK n \in Checked(methods, s) : n.signature = Contract.signatures[s + 1]
    BY <2>1
  <2>4. Len(methods) \in Nat
    BY DEF HonestTable
  <2>5. PICK i \in 1..Len(methods) : m = methods[i] /\ methods[i].slot = s
                                     /\ Checked(methods, s) = {m}
    BY <2>4, CheckedIsCopied
  <2>6. s \in DOMAIN Slotted(methods) /\ Slotted(methods)[s] = methods[i].entry
    BY <2>4, <2>5, SlotOfMethod
  <2>7. methods[i].signature = Contract.signatures[s + 1]
    BY <2>3, <2>5
  <2> QED BY <2>2, <2>5, <2>6, <2>7 DEF HonestTable
<1> QED BY <1>2 DEF SlotsMatch

\* What find() returns is a claim of the type.
LEMMA FoundIsClaim ==
    ASSUME NEW type, NEW id, NEW version, NEW i \in find(type, id, version)
    PROVE  i \in Claims(type, id) /\ i \in 1..Len(impls) /\ impls[i].type = type
BY DEF find, find_exact, find_newest, Claims

\* The entry that a lookup picks has an honest table, without a slot twice.
LEMMA FoundIsHonest ==
    ASSUME SlotsDistinct, ImplsInv, NEW type, NEW id, NEW version,
           find(type, id, version) # {}
    PROVE  LET impl == impls[CHOOSE i \in find(type, id, version) : TRUE]
           IN /\ HonestTable(impl.methods, type) /\ valid_table(impl.methods)
              /\ impl.type = type
<1> DEFINE i == CHOOSE i \in find(type, id, version) : TRUE
<1>1. i \in find(type, id, version)
  OBVIOUS
<1> HIDE DEF i
<1>2. i \in 1..Len(impls) /\ impls[i].type = type
  BY <1>1, FoundIsClaim
<1>3. impls[i] \in Implementations
  BY <1>2 DEF ImplsInv
<1>4. HonestTable(impls[i].methods, type) /\ valid_table(impls[i].methods)
  BY <1>2, <1>3, DispatchAssumption DEF SlotsDistinct
<1> QED BY <1>2, <1>4 DEF i

\* A new entry keeps the registry unambiguous, and the newest of its claims is there.
LEMMA AddedImpls ==
    ASSUME ImplsInv, NEW impl \in Implementations, add(impl)
    PROVE  ImplsInv'
<1> DEFINE n == Len(impls)
<1>1. impls \in Seq(Implementations) /\ n \in Nat /\ impls' = Append(impls, impl)
  BY DEF ImplsInv, add
<1>2. impls' \in Seq(Implementations) /\ Len(impls') = n + 1 /\ impls'[n + 1] = impl
      /\ \A i \in 1..n : impls'[i] = impls[i] /\ impls[i] \in Implementations
  BY <1>1
<1>3. \A i \in 1..n : ~(SameClaim(impls[i], impl) /\ impls[i].version = impl.version)
  BY DEF add, find_exact, Claims, SameClaim
<1>4. \A a, b : SameClaim(a, b) => SameClaim(b, a)
  BY DEF SameClaim
<1>5. \A a, b, c : SameClaim(a, b) /\ SameClaim(b, c) => SameClaim(a, c)
  BY DEF SameClaim
<1>6. \A a : SameClaim(a, a)
  BY DEF SameClaim
<1>7. \A a \in Implementations : a.version \in Nat
  BY DispatchAssumption
<1>8. ASSUME NEW i \in 1..(n + 1), NEW j \in 1..(n + 1),
             SameClaim(impls'[i], impls'[j]), impls'[i].version = impls'[j].version
      PROVE  i = j
  <2>1. CASE i \in 1..n /\ j \in 1..n
    BY <2>1, <1>2, <1>8 DEF ImplsInv
  <2>2. CASE i = n + 1 /\ j \in 1..n
    BY <2>2, <1>2, <1>3, <1>4, <1>8
  <2>3. CASE i \in 1..n /\ j = n + 1
    BY <2>3, <1>2, <1>3, <1>8
  <2> QED BY <2>1, <2>2, <2>3, <1>1
<1> DEFINE Latest(i, j) == /\ SameClaim(impls'[i], impls'[j])
                           /\ \A k \in 1..(n + 1) :
                                 SameClaim(impls'[i], impls'[k]) => impls'[k].version <= impls'[j].version
\* The newest of the old claims of an old entry, or the new one, is the newest now.
<1>9. ASSUME NEW i \in 1..n
      PROVE  \E j \in 1..(n + 1) : Latest(i, j)
  <2>1. PICK j \in 1..n : /\ SameClaim(impls[i], impls[j])
                          /\ \A k \in 1..n : SameClaim(impls[i], impls[k]) =>
                                 impls[k].version <= impls[j].version
    BY DEF ImplsInv
  <2>2. CASE SameClaim(impls[i], impl) /\ impls[j].version <= impl.version
    <3>1. n + 1 \in 1..(n + 1)
      BY <1>1
    <3>2. ASSUME NEW k \in 1..(n + 1), SameClaim(impls'[i], impls'[k])
          PROVE  impls'[k].version <= impls'[n + 1].version
      <4>1. CASE k \in 1..n
        <5>1. impls[k].version <= impls[j].version
          BY <4>1, <2>1, <1>2, <3>2
        <5> QED BY <5>1, <4>1, <2>2, <1>2, <1>7
      <4>2. CASE k = n + 1
        BY <4>2, <1>2, <1>7
      <4> QED BY <4>1, <4>2, <1>1
    <3>3. SameClaim(impls'[i], impls'[n + 1])
      BY <2>2, <1>2
    <3> QED BY <3>1, <3>2, <3>3
  <2>3. CASE ~(SameClaim(impls[i], impl) /\ impls[j].version <= impl.version)
    <3>1. j \in 1..(n + 1)
      BY <1>1
    <3>2. ASSUME NEW k \in 1..(n + 1), SameClaim(impls'[i], impls'[k])
          PROVE  impls'[k].version <= impls'[j].version
      <4>1. CASE k \in 1..n
        BY <4>1, <2>1, <1>2, <3>2
      <4>2. CASE k = n + 1
        BY <4>2, <2>3, <1>2, <1>7, <3>2
      <4> QED BY <4>1, <4>2, <1>1
    <3> QED BY <3>1, <3>2, <2>1, <1>2
  <2> QED BY <2>2, <2>3
<1>10. \E j \in 1..(n + 1) : Latest(n + 1, j)
  <2>1. CASE \E i \in 1..n : SameClaim(impl, impls[i])
    <3>1. PICK i \in 1..n : SameClaim(impl, impls[i])
      BY <2>1
    <3>2. PICK j \in 1..(n + 1) : Latest(i, j)
      BY <1>9
    <3>3. SameClaim(impls'[n + 1], impls'[i])
      BY <3>1, <1>2
    <3>4. \A k \in 1..(n + 1) : SameClaim(impls'[n + 1], impls'[k]) => SameClaim(impls'[i], impls'[k])
      BY <3>3, <1>4, <1>5
    <3> QED BY <3>2, <3>3, <3>4, <1>5
  <2>2. CASE ~\E i \in 1..n : SameClaim(impl, impls[i])
    <3>1. n + 1 \in 1..(n + 1)
      BY <1>1
    <3>2. ASSUME NEW k \in 1..(n + 1), SameClaim(impls'[n + 1], impls'[k])
          PROVE  impls'[k].version <= impls'[n + 1].version
      <4>1. k = n + 1
        BY <2>2, <1>1, <1>2, <3>2
      <4> QED BY <4>1, <1>2, <1>7
    <3> QED BY <3>1, <3>2, <1>6
  <2> QED BY <2>1, <2>2
<1>11. \A i \in 1..(n + 1) : \E j \in 1..(n + 1) : Latest(i, j)
  <2> HIDE DEF Latest
  <2>1. \A i \in 1..(n + 1) : i \in 1..n \/ i = n + 1
    BY <1>1
  <2> HIDE DEF n
  <2> QED BY <2>1, <1>9, <1>10
<1> QED
  <2>1. impls' \in Seq(Implementations) /\ Len(impls') = n + 1
    BY <1>2
  <2> HIDE DEF n
  <2> QED BY <2>1, <1>8, <1>11 DEF ImplsInv

\* BoundTo() leaves a unique proxy bound to what the contract asks for, or to nothing.
LEMMA BoundInv ==
    ASSUME NEW o \in Bindable \union {NullObject}, NEW methods,
           o # NullObject => HonestTable(methods, ObjectTypes[o]) /\ valid_table(methods),
           unique' = BoundTo(o, methods)
    PROVE  UniqueInv'
<1>1. CASE o # NullObject /\ fill_slot_entries(methods) = "ok"
  <2>1. unique' = [object |-> o, slots |-> Slotted(methods), status |-> "ok"]
    BY <1>1 DEF BoundTo
  <2>2. SlotsFor(Slotted(methods), ObjectTypes[o]) /\ SlotsMatch(Slotted(methods))
    BY <1>1, SlotsForType, SlotsMatchContract
  <2>3. o \in Bindable
    BY <1>1
  <2> QED BY <2>1, <2>2, <2>3 DEF UniqueInv
<1>2. CASE ~(o # NullObject /\ fill_slot_entries(methods) = "ok")
  <2>1. unique'.slots = Unslotted /\ unique'.object = NullObject
    BY <1>2 DEF BoundTo, NoUnique
  <2> QED BY <2>1 DEF UniqueInv
<1> QED BY <1>1, <1>2

\* A shared table that is built is for its type and for the contract, or it is empty.
LEMMA SharedTableGood ==
    ASSUME SlotsDistinct, ImplsInv, NEW t \in DOMAIN TableFor, NEW version
    PROVE  \/ SharedTable(t, version) = NoTable
           \/ /\ SharedTable(t, version).ready
              /\ SlotsFor(SharedTable(t, version).slots, TableFor[t])
              /\ SlotsMatch(SharedTable(t, version).slots)
<1> DEFINE found == find(TableFor[t], Contract.id, version)
<1>1. CASE found = {}
  BY <1>1 DEF SharedTable
<1>2. CASE found # {}
  <2>1. PICK methods : methods = impls[CHOOSE i \in found : TRUE].methods
    OBVIOUS
  <2>2. HonestTable(methods, TableFor[t]) /\ valid_table(methods)
    BY <1>2, <2>1, FoundIsHonest
  <2>3. SharedTable(t, version) = Built(methods)
    BY <1>2, <2>1 DEF SharedTable
  <2>4. CASE fill_slot_entries(methods) = "ok"
    <3>1. SharedTable(t, version) = [ready |-> TRUE, slots |-> Slotted(methods)]
      BY <2>3, <2>4 DEF Built
    <3>2. SlotsFor(Slotted(methods), TableFor[t]) /\ SlotsMatch(Slotted(methods))
      BY <2>2, <2>4, SlotsForType, SlotsMatchContract
    <3> QED BY <3>1, <3>2
  <2>5. CASE fill_slot_entries(methods) # "ok"
    BY <2>3, <2>5 DEF Built
  <2> QED BY <2>4, <2>5
<1> QED BY <1>1, <1>2

\* Replacing one shared table by a good or an empty one keeps them all so.
LEMMA TableReplaced ==
    ASSUME TablesInv, NEW t \in DOMAIN TableFor, NEW new,
           table' = [table EXCEPT ![t] = new],
           new = NoTable \/ (new.ready /\ SlotsFor(new.slots, TableFor[t]) /\ SlotsMatch(new.slots))
    PROVE  TablesInv'
<1>1. DOMAIN table' = DOMAIN TableFor
  BY DEF TablesInv
<1>2. ASSUME NEW r \in DOMAIN TableFor
      PROVE  \/ table'[r] = NoTable
             \/ /\ table'[r].ready /\ SlotsFor(table'[r].slots, TableFor[r])
                /\ SlotsMatch(table'[r].slots)
  <2>1. CASE r = t
    <3>1. table'[r] = new
      BY <2>1 DEF TablesInv
    <3> QED BY <2>1, <3>1
  <2>2. CASE r # t
    <3>1. table'[r] = table[r]
      BY <2>2 DEF TablesInv
    <3> QED BY <3>1 DEF TablesInv
  <2> QED BY <2>1, <2>2
<1> QED BY <1>1, <1>2 DEF TablesInv

\* Rebinding one shared proxy to a table for the type of its object, or to nothing.
LEMMA ProxyRebound ==
    ASSUME ProxiesInv, NEW p \in SharedProxies, NEW t \in DOMAIN TableFor,
           NEW o \in Bindable \union {NullObject}, o # NullObject => ObjectTypes[o] = TableFor[t],
           NEW new, proxy' = [proxy EXCEPT ![p] = new],
           (\E ready : new = BoundProxy(t, o, ready)) \/ (\E why : new = NoProxy(why))
    PROVE  ProxiesInv'
<1>1. /\ new.table \in DOMAIN TableFor \union {NullObject}
      /\ new.object # NullObject =>
             /\ new.object \in Bindable /\ new.table # NullObject
             /\ ObjectTypes[new.object] = TableFor[new.table]
  <2>1. CASE \E ready : new = BoundProxy(t, o, ready)
    BY <2>1, DispatchAssumption DEF BoundProxy
  <2>2. CASE \E why : new = NoProxy(why)
    BY <2>2 DEF NoProxy
  <2> QED BY <2>1, <2>2
<1>2. DOMAIN proxy' = SharedProxies /\ \A q \in SharedProxies : proxy'[q] = IF q = p THEN new ELSE proxy[q]
  BY DEF ProxiesInv
<1> QED BY <1>1, <1>2 DEF ProxiesInv
-----------------------------------------------------------------------------
(***************************************************************************)
(* The inductive invariant.                                                *)
(***************************************************************************)
LEMMA InitDispatchInv ==
    ASSUME DispatchInit
    PROVE  DispatchInv
<1> USE DEF DispatchInit
<1>1. ImplsInv
  BY DEF ImplsInv
<1>2. ResolvedInv /\ UniqueInv
  BY DEF ResolvedInv, UniqueInv, NoUnique
<1>3. TablesInv
  BY DEF TablesInv
<1>4. ProxiesInv
  BY DEF ProxiesInv, NoProxy
<1> QED BY <1>1, <1>2, <1>3, <1>4 DEF DispatchInv

LEMMA ResolveKeepsInv ==
    ASSUME SlotsDistinct, DispatchInv, NEW o \in Bindable \union {NullObject}, NEW id, NEW version,
           resolve(o, id, version)
    PROVE  ResolvedInv'
<1> DEFINE found == find(ObjectTypes[o], id, version)
<1>1. CASE o = NullObject \/ found = {}
  BY <1>1 DEF resolve, ResolvedInv
<1>2. CASE o # NullObject /\ found # {}
  <2>1. PICK impl : impl = impls[CHOOSE i \in found : TRUE]
    OBVIOUS
  <2>2. HonestTable(impl.methods, ObjectTypes[o]) /\ valid_table(impl.methods)
    BY <1>2, <2>1, FoundIsHonest DEF DispatchInv
  <2>3. SlotsFor(Slotted(impl.methods), ObjectTypes[o])
    BY <2>2, SlotsForType
  <2>4. ref' = NoRef \/ (ref'.object = o /\ ref'.slots = Slotted(impl.methods))
    BY <1>2, <2>1 DEF resolve
  <2> QED BY <1>2, <2>3, <2>4 DEF ResolvedInv
<1> QED BY <1>1, <1>2

LEMMA BindKeepsInv ==
    ASSUME SlotsDistinct, DispatchInv, NEW o \in Bindable \union {NullObject}, NEW version,
           bind(o, version)
    PROVE  UniqueInv'
<1> DEFINE found == find(ObjectTypes[o], Contract.id, version)
<1>1. CASE o = NullObject \/ found = {}
  <2>1. unique'.slots = Unslotted /\ unique'.object = NullObject
    BY <1>1 DEF bind, NoUnique
  <2> QED BY <2>1 DEF UniqueInv
<1>2. CASE o # NullObject /\ found # {}
  <2>1. PICK methods : methods = impls[CHOOSE i \in found : TRUE].methods
    OBVIOUS
  <2>2. HonestTable(methods, ObjectTypes[o]) /\ valid_table(methods)
    BY <1>2, <2>1, FoundIsHonest DEF DispatchInv
  <2>3. unique' = BoundTo(o, methods)
    BY <1>2, <2>1 DEF bind
  <2> QED BY <2>2, <2>3, BoundInv
<1> QED BY <1>1, <1>2

LEMMA BindMethodsKeepsInv ==
    ASSUME NEW o \in Bindable \union {NullObject}, NEW id, NEW version, NEW m \in ManifestTables,
           bind_methods(o, id, version, m)
    PROVE  UniqueInv'
<1>1. CASE id # Contract.id \/ version # Contract.version
  <2>1. unique'.slots = Unslotted /\ unique'.object = NullObject
    BY <1>1 DEF bind_methods, NoUnique
  <2> QED BY <2>1 DEF UniqueInv
<1>2. CASE id = Contract.id /\ version = Contract.version
  <2>1. unique' = BoundTo(o, m.methods)
    BY <1>2 DEF bind_methods
  <2>2. o # NullObject => HonestTable(m.methods, ObjectTypes[o]) /\ valid_table(m.methods)
    BY DispatchAssumption DEF bind_methods
  <2> QED BY <2>1, <2>2, BoundInv
<1> QED BY <1>1, <1>2

LEMMA NextDispatchInv ==
    ASSUME SlotsDistinct, DispatchInv, [AddNext \/ UniqueNext \/ SharedProxyNext]_dispatchVars
    PROVE  DispatchInv'
<1>1. ASSUME NEW impl \in Implementations, add(impl)
      PROVE  DispatchInv'
  <2>1. ImplsInv'
    BY <1>1, AddedImpls DEF DispatchInv
  <2>2. ResolvedInv' /\ UniqueInv'
    BY <1>1 DEF DispatchInv, add, ResolvedInv, UniqueInv
  <2>3. TablesInv' /\ ProxiesInv'
    BY <1>1 DEF DispatchInv, add, TablesInv, ProxiesInv
  <2> QED BY <2>1, <2>2, <2>3 DEF DispatchInv
<1>2. ASSUME NEW o \in Bindable \union {NullObject}, NEW version, NEW id, resolve(o, id, version)
      PROVE  DispatchInv'
  <2>1. ResolvedInv'
    BY <1>2, ResolveKeepsInv
  <2>2. ImplsInv' /\ UniqueInv'
    BY <1>2 DEF DispatchInv, resolve, ImplsInv, UniqueInv
  <2>3. TablesInv' /\ ProxiesInv'
    BY <1>2 DEF DispatchInv, resolve, TablesInv, ProxiesInv
  <2> QED BY <2>1, <2>2, <2>3 DEF DispatchInv
<1>3. ASSUME UniqueInv', UNCHANGED <<impls, ref, table, proxy>>
      PROVE  DispatchInv'
  <2>1. ImplsInv' /\ ResolvedInv'
    BY <1>3 DEF DispatchInv, ImplsInv, ResolvedInv
  <2>2. TablesInv' /\ ProxiesInv'
    BY <1>3 DEF DispatchInv, TablesInv, ProxiesInv
  <2> QED BY <1>3, <2>1, <2>2 DEF DispatchInv
<1>4. ASSUME TablesInv', ProxiesInv', UNCHANGED <<impls, ref, unique>>
      PROVE  DispatchInv'
  BY <1>4 DEF DispatchInv, ImplsInv, ResolvedInv, UniqueInv
<1>5. ASSUME NEW t \in DOMAIN TableFor, clear(t)
      PROVE  DispatchInv'
  <2>1. TablesInv'
    BY <1>5, TableReplaced DEF clear, DispatchInv
  <2>2. ProxiesInv'
    BY <1>5 DEF clear, DispatchInv, ProxiesInv
  <2> QED BY <1>4, <1>5, <2>1, <2>2 DEF clear
<1>6. ASSUME NEW t \in DOMAIN TableFor, NEW version, build(t, version)
      PROVE  DispatchInv'
  <2>1. PICK new : new = SharedTable(t, version)
    OBVIOUS
  <2>2. table' = [table EXCEPT ![t] = new]
    BY <1>6, <2>1 DEF build
  <2>3. new = NoTable \/ (new.ready /\ SlotsFor(new.slots, TableFor[t]) /\ SlotsMatch(new.slots))
    BY <2>1, SharedTableGood DEF DispatchInv
  <2>4. TablesInv'
    BY <2>2, <2>3, TableReplaced DEF DispatchInv
  <2>5. ProxiesInv'
    BY <1>6 DEF build, DispatchInv, ProxiesInv
  <2> QED BY <1>4, <1>6, <2>4, <2>5 DEF build
<1>7. ASSUME NEW t \in DOMAIN TableFor, NEW p \in SharedProxies,
             NEW o \in Bindable \union {NullObject}, bind_shared(p, t, o)
      PROVE  DispatchInv'
  <2>1. PICK new : new = BoundProxy(t, o, table[t].ready)
    OBVIOUS
  <2>2. proxy' = [proxy EXCEPT ![p] = new]
    BY <1>7, <2>1 DEF bind_shared
  <2>3. ProxiesInv'
    <3>1. o # NullObject => ObjectTypes[o] = TableFor[t]
      BY <1>7 DEF bind_shared
    <3>2. (\E ready : new = BoundProxy(t, o, ready)) \/ (\E why : new = NoProxy(why))
      BY <2>1
    <3>3. ProxiesInv
      BY DEF DispatchInv
    <3> QED BY <3>1, <3>2, <3>3, <2>2, ProxyRebound
  <2>4. TablesInv'
    BY <1>7 DEF bind_shared, DispatchInv, TablesInv
  <2> QED BY <1>4, <1>7, <2>3, <2>4 DEF bind_shared
<1>8. ASSUME NEW t \in DOMAIN TableFor, NEW p \in SharedProxies,
             NEW o \in Bindable \union {NullObject}, NEW version, bind_and_build(p, t, o, version)
      PROVE  DispatchInv'
  <2>1. PICK built : built = SharedTable(t, version)
    OBVIOUS
  <2>2. table' = [table EXCEPT ![t] = built]
    BY <1>8, <2>1 DEF bind_and_build
  <2>3. built = NoTable \/ (built.ready /\ SlotsFor(built.slots, TableFor[t]) /\ SlotsMatch(built.slots))
    BY <2>1, SharedTableGood DEF DispatchInv
  <2>4. TablesInv'
    BY <2>2, <2>3, TableReplaced DEF DispatchInv
  <2>5. PICK new : /\ proxy' = [proxy EXCEPT ![p] = new]
                   /\ new = BoundProxy(t, o, TRUE) \/ \E why : new = NoProxy(why)
    <3>1. PICK reason : proxy' = [proxy EXCEPT ![p] = IF built.ready THEN BoundProxy(t, o, TRUE)
                                                      ELSE NoProxy(reason)]
      BY <1>8, <2>1 DEF bind_and_build
    <3> QED BY <3>1
  <2>6. ProxiesInv'
    <3>1. o # NullObject => ObjectTypes[o] = TableFor[t]
      BY <1>8 DEF bind_and_build
    <3>2. (\E ready : new = BoundProxy(t, o, ready)) \/ (\E why : new = NoProxy(why))
      BY <2>5
    <3>3. ProxiesInv
      BY DEF DispatchInv
    <3> QED BY <3>1, <3>2, <3>3, <2>5, ProxyRebound
  <2> QED BY <1>4, <1>8, <2>4, <2>6 DEF bind_and_build
<1>9. CASE AddNext
  BY <1>1, <1>9 DEF AddNext
<1>10. CASE UniqueNext
  <2>1. PICK o \in Bindable \union {NullObject}, version \in 0..2 :
            \/ \E id \in {Contract.id, OtherId} :
                resolve(o, id, version) \/ \E m \in ManifestTables : bind_methods(o, id, version, m)
            \/ bind(o, version)
    BY <1>10 DEF UniqueNext
  <2>2. CASE bind(o, version)
    <3>1. UniqueInv'
      BY <2>2, BindKeepsInv
    <3> QED BY <1>3, <2>2, <3>1 DEF bind
  <2>3. ASSUME NEW id, NEW m \in ManifestTables, bind_methods(o, id, version, m)
        PROVE  DispatchInv'
    <3>1. UniqueInv'
      BY <2>3, BindMethodsKeepsInv
    <3> QED BY <1>3, <2>3, <3>1 DEF bind_methods
  <2> QED BY <1>2, <2>1, <2>2, <2>3
<1>11. CASE SharedProxyNext
  <2>1. PICK t \in DOMAIN TableFor :
            \/ clear(t)
            \/ \E version \in 0..2 : build(t, version)
            \/ \E p \in SharedProxies, o \in Bindable \union {NullObject} :
                bind_shared(p, t, o) \/ \E version \in 0..2 : bind_and_build(p, t, o, version)
    BY <1>11 DEF SharedProxyNext
  <2> QED BY <1>5, <1>6, <1>7, <1>8, <2>1
<1>12. CASE UNCHANGED dispatchVars
  <2>1. UniqueInv' /\ UNCHANGED <<impls, ref, table, proxy>>
    BY <1>12 DEF dispatchVars, DispatchInv, UniqueInv
  <2> QED BY <1>3, <2>1
<1> QED BY <1>9, <1>10, <1>11, <1>12

\* The invariant is enough for what is promised of a call.
LEMMA InvMatchesContract ==
    ASSUME DispatchInv, NullObject \notin Bindable
    PROVE  CallsMatchContract
<1> SUFFICES ASSUME NEW s \in 0..(SlotCapacity - 1), Contract.signatures[s + 1] # 0
             PROVE  /\ UniqueValid => RightAdapter(UniqueCall(s), unique.object, s)
                    /\ \A p \in SharedProxies : SharedValid(p) =>
                           RightAdapter(SharedCall(p, s), proxy[p].object, s)
  BY DEF CallsMatchContract
<1>1. ASSUME NEW slots, NEW o, SlotsFor(slots, ObjectTypes[o]), SlotsMatch(slots)
      PROVE  RightAdapter(Method(slots, s), o, s)
  <2>1. s \in DOMAIN slots /\ slots[s] # NoAdapter /\ slots[s].sig = Contract.signatures[s + 1]
    BY <1>1 DEF SlotsMatch
  <2>2. slots[s].of = ObjectTypes[o]
    BY <1>1, <2>1 DEF SlotsFor
  <2> QED BY <2>1, <2>2 DEF RightAdapter, Method
<1>2. ASSUME UniqueValid
      PROVE  RightAdapter(UniqueCall(s), unique.object, s)
  <2>1. SlotsFor(unique.slots, ObjectTypes[unique.object]) /\ SlotsMatch(unique.slots)
    BY <1>2 DEF DispatchInv, UniqueInv, UniqueValid
  <2>2. PICK slots, o : slots = unique.slots /\ o = unique.object
    OBVIOUS
  <2>3. RightAdapter(Method(slots, s), o, s)
    BY <1>1, <2>1, <2>2
  <2> QED BY <2>2, <2>3 DEF UniqueCall
<1>3. ASSUME NEW p \in SharedProxies, SharedValid(p)
      PROVE  RightAdapter(SharedCall(p, s), proxy[p].object, s)
  <2>1. PICK t, o : t = proxy[p].table /\ o = proxy[p].object
    OBVIOUS
  <2>2. t # NullObject /\ o # NullObject /\ table[t].ready
    BY <1>3, <2>1 DEF SharedValid
  <2>3. t \in DOMAIN TableFor /\ ObjectTypes[o] = TableFor[t]
    BY <2>1, <2>2 DEF DispatchInv, ProxiesInv
  <2>4. table[t] # NoTable
    BY <2>2 DEF NoTable
  <2>5. SlotsFor(table[t].slots, ObjectTypes[o]) /\ SlotsMatch(table[t].slots)
    BY <2>3, <2>4 DEF DispatchInv, TablesInv
  <2>6. PICK slots : slots = table[t].slots
    OBVIOUS
  <2>7. RightAdapter(Method(slots, s), o, s)
    BY <1>1, <2>5, <2>6
  <2> QED BY <2>1, <2>2, <2>6, <2>7 DEF SharedCall
<1> QED BY <1>2, <1>3

LEMMA InvCallsNothing ==
    ASSUME DispatchInv, NullObject \notin Bindable
    PROVE  InvalidCallsNothing
<1> SUFFICES ASSUME NEW s \in 0..(SlotCapacity - 1)
             PROVE  /\ ~UniqueValid => UniqueCall(s) = NoAdapter
                    /\ \A p \in SharedProxies : SharedCall(p, s) # NoAdapter =>
                           /\ table[proxy[p].table].ready
                           /\ proxy[p].object # NullObject =>
                                  SharedCall(p, s).of = ObjectTypes[proxy[p].object]
  BY DEF InvalidCallsNothing
<1>1. ASSUME ~UniqueValid
      PROVE  UniqueCall(s) = NoAdapter
  <2>1. unique.slots = Unslotted
    BY <1>1 DEF UniqueValid, DispatchInv, UniqueInv
  <2>2. s \notin DOMAIN Unslotted
    BY DEF Unslotted
  <2> QED BY <2>1, <2>2 DEF UniqueCall, Method
<1>2. ASSUME NEW p \in SharedProxies, SharedCall(p, s) # NoAdapter
      PROVE  /\ table[proxy[p].table].ready
             /\ proxy[p].object # NullObject =>
                    SharedCall(p, s).of = ObjectTypes[proxy[p].object]
  <2>1. PICK t, o : t = proxy[p].table /\ o = proxy[p].object
    OBVIOUS
  <2>2. t # NullObject /\ SharedCall(p, s) = Method(table[t].slots, s)
    BY <1>2, <2>1 DEF SharedCall
  <2>3. s \in DOMAIN table[t].slots /\ SharedCall(p, s) = table[t].slots[s]
    BY <1>2, <2>2 DEF Method
  <2>4. table[t] # NoTable
    <3>1. NoTable.slots = Unslotted /\ s \notin DOMAIN Unslotted
      BY DEF NoTable, Unslotted
    <3> QED BY <2>3, <3>1
  <2>5. t \in DOMAIN TableFor
    BY <2>1, <2>2 DEF DispatchInv, ProxiesInv
  <2>6. table[t].ready /\ SlotsFor(table[t].slots, TableFor[t])
    BY <2>4, <2>5 DEF DispatchInv, TablesInv
  <2>7. SharedCall(p, s).of = TableFor[t]
    BY <1>2, <2>3, <2>6 DEF SlotsFor
  <2>8. o # NullObject => ObjectTypes[o] = TableFor[t]
    BY <2>1 DEF DispatchInv, ProxiesInv
  <2> QED BY <2>1, <2>6, <2>7, <2>8
<1> QED BY <1>1, <1>2

LEMMA InvUnambiguous ==
    ASSUME DispatchInv
    PROVE  BindingsUnambiguous
<1>1. ASSUME NEW i \in 1..Len(impls), NEW j \in 1..Len(impls),
             impls[i].type = impls[j].type, impls[i].id = impls[j].id,
             impls[i].version = impls[j].version
      PROVE  i = j
  BY <1>1 DEF DispatchInv, ImplsInv, SameClaim
<1>2. ASSUME NEW type, NEW id, Claims(type, id) # {}
      PROVE  \E i \in find(type, id, 0) : \A j \in Claims(type, id) :
                 impls[i].version >= impls[j].version
  <2>1. PICK i \in 1..Len(impls) : impls[i].type = type /\ impls[i].id = id
    BY <1>2 DEF Claims
  <2>2. PICK j \in 1..Len(impls) : /\ SameClaim(impls[i], impls[j])
                                   /\ \A k \in 1..Len(impls) : SameClaim(impls[i], impls[k]) =>
                                          impls[k].version <= impls[j].version
    BY DEF DispatchInv, ImplsInv
  <2>3. j \in Claims(type, id)
    BY <2>1, <2>2 DEF Claims, SameClaim
  <2>4. \A k \in Claims(type, id) : impls[k].version <= impls[j].version
    BY <2>1, <2>2 DEF Claims, SameClaim
  <2>5. j \in find(type, id, 0)
    BY <2>3, <2>4 DEF find, find_newest
  <2>6. \A k \in Claims(type, id) : impls[j].version >= impls[k].version
    BY <2>4
  <2> QED BY <2>5, <2>6
<1>3. ASSUME NEW s \in DOMAIN ref.slots, ref.slots[s] # NoAdapter
      PROVE  ref.slots[s].of = ObjectTypes[ref.object]
  <2>1. NoRef.slots = Unslotted /\ s \notin DOMAIN Unslotted
    BY DEF NoRef, Unslotted
  <2>2. ref # NoRef
    BY <1>3, <2>1
  <2> QED BY <1>3, <2>2 DEF DispatchInv, ResolvedInv, SlotsFor
<1> QED BY <1>1, <1>2, <1>3 DEF BindingsUnambiguous

\* When no implementation has a slot twice, whatever is added, bound, built again
\* and cleared, in any order: a call through a valid proxy reaches the adapter that
\* the contract asks for, for the type of the proxy's own object; a proxy whose last
\* bind failed calls nothing; a lookup of version 0 finds the newest.
THEOREM DispatchIsSound ==
    ASSUME SlotsDistinct
    PROVE  DispatchSpec => []DispatchSound
<1>1. DispatchInit => DispatchInv
  BY InitDispatchInv
<1>2. DispatchInv /\ [AddNext \/ UniqueNext \/ SharedProxyNext]_dispatchVars => DispatchInv'
  BY NextDispatchInv
<1>3. DispatchInv => DispatchSound
  <2>1. NullObject \notin Bindable
    BY DispatchAssumption
  <2> QED BY <2>1, InvMatchesContract, InvCallsNothing, InvUnambiguous DEF DispatchSound
<1> QED BY <1>1, <1>2, <1>3, PTL DEF DispatchSpec

-----------------------------------------------------------------------------
(***************************************************************************)
(* The type registries.                                                    *)
(***************************************************************************)
\* A version is a number.
LEMMA VersionIsNumber ==
    ASSUME NEW m \in Modules
    PROVE  parse_version(m.text) \in Nat
<1> DEFINE text == m.text
           l == Len(text)
           digits == {n \in 0..l : \A i \in 1..n : text[i] \in 0..9}
           last == CHOOSE n \in digits : \A k \in digits : k <= n
           step == [p \in Nat \X (1..l) |-> (p[1] * 10 + text[p[2]]) % VersionModulus]
           Rec(g) == g = [n \in 0..l |-> IF n = 0 THEN 0
                                         ELSE (g[n - 1] * 10 + text[n]) % VersionModulus]
<1>1. text \in Seq(Nat) /\ l \in Nat /\ VersionModulus \in Nat \ {0}
  BY TypesAssumption
<1>2. /\ step \in [Nat \X (1..l) -> Nat]
      /\ \A v \in Nat, i \in 1..l : step[<<v, i>>] = (v * 10 + text[i]) % VersionModulus
  <2>1. \A v \in Nat, i \in 1..l : (v * 10 + text[i]) % VersionModulus \in Nat
    <3>1. ASSUME NEW v \in Nat, NEW i \in 1..l
          PROVE  (v * 10 + text[i]) % VersionModulus \in Nat
      <4>1. text[i] \in Nat
        BY <1>1
      <4>2. PICK w \in Nat : w = v * 10 + text[i]
        BY <4>1
      <4>3. w % VersionModulus \in Nat
        BY <1>1, <4>2
      <4> QED BY <4>2, <4>3
    <3> QED BY <3>1
  <2> HIDE DEF text, l
  <2> QED BY <2>1
<1> HIDE DEF step
<1>3. PICK g : Loop(g, Nat, 0, l, step)
  BY <1>1, <1>2, LoopExists
<1>4. \A i \in 1..l : i \in 0..l /\ i # 0 /\ i - 1 \in 0..l
  BY <1>1
<1>5. \A i \in 1..l : g[i] = (g[i - 1] * 10 + text[i]) % VersionModulus
  <2> HIDE DEF text, l
  <2> QED BY <1>2, <1>3, <1>4 DEF Loop
<1>6. Rec(g)
  <2>1. \A i \in 0..l : i # 0 => i \in 1..l
    BY <1>1
  <2> HIDE DEF text, l
  <2> QED BY <1>3, <1>5, <2>1 DEF Loop
<1> DEFINE value == CHOOSE f : Rec(f)
<1>7. Rec(value)
  BY <1>6
<1>8. parse_version(m.text) = value[last]
  BY DEF parse_version
<1>9. \A n \in 0..l : value[n] \in Nat
  <2>1. value[0] = 0 /\ \A n \in 1..l : value[n] = (value[n - 1] * 10 + text[n]) % VersionModulus
    <3>1. 0 \in 0..l
      BY <1>1
    <3> HIDE DEF value, text, l
    <3> QED BY <1>4, <1>7, <3>1
  <2> HIDE DEF value
  <2> DEFINE P == {k \in Nat : k <= l => value[k] \in Nat}
  <2>2. 0 \in P
    BY <2>1
  <2>3. ASSUME NEW k \in Nat, k \in P
        PROVE  k + 1 \in P
    <3>1. SUFFICES ASSUME k + 1 <= l
                   PROVE  value[k + 1] \in Nat
      OBVIOUS
    <3>2. k + 1 \in 1..l /\ (k + 1) - 1 = k /\ value[k] \in Nat
      BY <2>3, <3>1, <1>1
    <3>3. value[k + 1] = step[<<value[k], k + 1>>]
      BY <1>2, <2>1, <3>2
    <3> QED BY <1>2, <3>2, <3>3
  <2>4. Nat \subseteq P
    <3> HIDE DEF P
    <3> QED BY <2>2, <2>3, NumbersByInduction
  <2> QED BY <2>4, <1>1
\* The digits that lead: there is a longest run.
<1>10. last \in 0..l
  <2>1. 0 \in digits
    BY <1>1
  <2>2. digits \subseteq Nat /\ \A k \in digits : k <= l
    BY <1>1
  <2>3. \E n \in digits : \A k \in digits : k <= n
    <3> DEFINE S == {l - n : n \in digits}
    <3>1. S \subseteq Nat /\ S # {}
      <4>1. \A n \in digits : l - n \in Nat
        BY <1>1, <2>2
      <4> HIDE DEF digits
      <4> QED BY <4>1, <2>1
    <3>2. PICK x \in S : \A y \in S : x <= y
      <4> HIDE DEF S
      <4> QED BY <3>1, LeastElement
    <3>3. PICK n \in digits : x = l - n
      BY <3>2
    <3>4. ASSUME NEW k \in digits
          PROVE  k <= n
      <4>1. l - n <= l - k
        BY <3>2, <3>3
      <4>2. k \in Nat /\ n \in Nat /\ l \in Nat
        BY <2>2, <3>3, <1>1
      <4> QED BY ONLY <4>1, <4>2
    <3> QED BY <3>4
  <2>4. last \in digits
    <3> HIDE DEF digits
    <3> QED BY <2>3
  <2> HIDE DEF last
  <2> QED BY <2>4
<1> HIDE DEF value, last
<1> QED BY <1>8, <1>9, <1>10

\* What appending does.
Added(us, ts, e) ==
    Len(us) = Len(ts) + 1 /\ us[Len(ts) + 1] = e /\ \A d \in 1..Len(ts) : us[d] = ts[d]

Fresh(ts, e) == \A d \in 1..Len(ts) : ~(ts[d].id = e.id /\ ts[d].version = e.version)

\* A new entry keeps them distinct, and every id its newest one.
LEMMA EntryAdded ==
    ASSUME NEW ts, EntriesInv(ts), NEW e \in Entries, Fresh(ts, e)
    PROVE  \E us : us = Append(ts, e) /\ EntriesInv(us) /\ Added(us, ts, e)
<1> DEFINE n == Len(ts)
<1> USE DEF Fresh
<1> PICK us : us = Append(ts, e)
  OBVIOUS
<1>1. ts \in Seq(Entries) /\ n \in Nat
  BY DEF EntriesInv
<1>2. us \in Seq(Entries) /\ Len(us) = n + 1 /\ us[n + 1] = e
      /\ \A i \in 1..n : us[i] = ts[i] /\ ts[i] \in Entries
  BY <1>1
<1>3. \A a \in Entries : a.version \in Nat
  BY DEF Entries
<1>4. ASSUME NEW i \in 1..(n + 1), NEW j \in 1..(n + 1), us[i].id = us[j].id, us[i].version = us[j].version
      PROVE  i = j
  <2>1. CASE i \in 1..n /\ j \in 1..n
    BY <2>1, <1>2, <1>4 DEF EntriesInv
  <2>2. CASE i = n + 1 /\ j \in 1..n
    BY <2>2, <1>2, <1>4
  <2>3. CASE i \in 1..n /\ j = n + 1
    BY <2>3, <1>2, <1>4
  <2> QED BY <2>1, <2>2, <2>3, <1>1
<1>5. ASSUME NEW i \in 1..n
      PROVE  \E j \in 1..(n + 1) : Newest(us, i, j)
  <2>1. PICK j \in 1..n : Newest(ts, i, j)
    BY DEF EntriesInv
  <2>2. CASE ts[i].id = e.id /\ ts[j].version <= e.version
    <3>1. n + 1 \in 1..(n + 1)
      BY <1>1
    <3>2. ASSUME NEW k \in 1..(n + 1), us[k].id = us[i].id
          PROVE  us[k].version <= us[n + 1].version
      <4>1. CASE k \in 1..n
        <5>1. ts[k].version <= ts[j].version
          BY <4>1, <2>1, <1>2, <3>2 DEF Newest
        <5> QED BY <5>1, <4>1, <2>2, <1>2, <1>3
      <4>2. CASE k = n + 1
        BY <4>2, <1>2, <1>3
      <4> QED BY <4>1, <4>2, <1>1
    <3>3. us[n + 1].id = us[i].id
      BY <2>2, <1>2
    <3> QED BY <3>1, <3>2, <3>3, <1>2 DEF Newest
  <2>3. CASE ~(ts[i].id = e.id /\ ts[j].version <= e.version)
    <3>1. j \in 1..(n + 1) /\ us[j].id = us[i].id
      BY <1>1, <1>2, <2>1 DEF Newest
    <3>2. ASSUME NEW k \in 1..(n + 1), us[k].id = us[i].id
          PROVE  us[k].version <= us[j].version
      <4>1. CASE k \in 1..n
        BY <4>1, <2>1, <1>2, <3>2 DEF Newest
      <4>2. CASE k = n + 1
        BY <4>2, <2>3, <1>2, <1>3, <3>2
      <4> QED BY <4>1, <4>2, <1>1
    <3> QED BY <3>1, <3>2, <1>2 DEF Newest
  <2> QED BY <2>2, <2>3
<1>6. \E j \in 1..(n + 1) : Newest(us, n + 1, j)
  <2>1. CASE \E i \in 1..n : ts[i].id = e.id
    <3>1. PICK i \in 1..n : ts[i].id = e.id
      BY <2>1
    <3>2. PICK j \in 1..(n + 1) : Newest(us, i, j)
      BY <1>5
    <3>3. us[n + 1].id = us[i].id
      BY <3>1, <1>2
    <3> QED BY <3>2, <3>3 DEF Newest
  <2>2. CASE ~\E i \in 1..n : ts[i].id = e.id
    <3>1. n + 1 \in 1..(n + 1)
      BY <1>1
    <3>2. ASSUME NEW k \in 1..(n + 1), us[k].id = us[n + 1].id
          PROVE  us[k].version <= us[n + 1].version
      <4>1. k = n + 1
        BY <2>2, <1>1, <1>2, <3>2
      <4> QED BY <4>1, <1>2, <1>3
    <3> QED BY <3>1, <3>2, <1>2 DEF Newest
  <2> QED BY <2>1, <2>2
<1>7. \A i \in 1..(n + 1) : \E j \in 1..(n + 1) : Newest(us, i, j)
  <2>1. \A i \in 1..(n + 1) : i \in 1..n \/ i = n + 1
    BY <1>1
  <2> HIDE DEF n
  <2> QED BY <2>1, <1>5, <1>6
<1> QED
  <2> HIDE DEF n
  <2>1. EntriesInv(us)
    BY <1>2, <1>4, <1>7 DEF EntriesInv
  <2> QED BY <2>1, <1>2 DEF n, Added

\* With it comes its canonical record, unless its id has one: there is room.
LEMMA CanonicalAdded ==
    ASSUME NEW ts, NEW cs, CanonicalInv(ts, cs), EntriesInv(ts), NEW e, NEW us,
           Len(ts) < TypeCapacity, e.id # 0, e.layout \in GoodLayouts, e.id \in {t.id : t \in TypeList},
           Added(us, ts, e), NEW ds, ds = With(cs, e.id, e.layout)
    PROVE  CanonicalInv(us, ds) /\ At1(ds, e.id) # {}
<1> DEFINE n == Len(ts)
           l == Len(cs)
<1> USE DEF Added
<1>1. n \in Nat /\ cs \in Seq(Records) /\ l \in Nat /\ l <= n /\ TypeCapacity \in Nat
  BY TypesAssumption DEF CanonicalInv, EntriesInv
<1>2. \A c \in 1..l : \E f \in 1..(n + 1) : IsFirst(us, cs[c].id, f) /\ us[f].layout = cs[c].layout
  <2>1. ASSUME NEW c \in 1..l
        PROVE  \E f \in 1..(n + 1) : IsFirst(us, cs[c].id, f) /\ us[f].layout = cs[c].layout
    <3>1. PICK f \in 1..n : IsFirst(ts, cs[c].id, f) /\ ts[f].layout = cs[c].layout
      BY DEF CanonicalInv
    <3>2. f \in 1..(n + 1) /\ \A d \in 1..(f - 1) : d \in 1..n
      BY <1>1
    <3> QED BY <3>1, <3>2 DEF IsFirst
  <2> QED BY <2>1
<1>3. CASE At1(cs, e.id) # {}
  <2>1. ds = cs
    BY <1>3 DEF With
  <2>2. ASSUME NEW i \in 1..(n + 1)
        PROVE  \E c \in 1..l : cs[c].id = us[i].id
    <3>1. CASE i \in 1..n
      <4>1. PICK c \in 1..l : cs[c].id = ts[i].id
        BY <3>1 DEF CanonicalInv
      <4>2. us[i] = ts[i]
        BY <3>1
      <4> QED BY <4>1, <4>2
    <3>2. CASE i = n + 1
      BY <3>2, <1>3 DEF At1
    <3> QED BY <3>1, <3>2, <1>1
  <2>3. l <= n + 1
    BY <1>1
  <2>4. \A c, d \in 1..l : cs[c].id = cs[d].id => c = d
    BY DEF CanonicalInv
  <2> HIDE DEF l
  <2>5. CanonicalInv(us, cs)
    BY <1>1, <1>2, <2>2, <2>3, <2>4 DEF CanonicalInv, l
  <2> QED BY <1>3, <2>1, <2>5
<1>4. CASE At1(cs, e.id) = {}
  <2> DEFINE r == [id |-> e.id, layout |-> e.layout]
  <2>1. ds = Append(cs, r)
    BY <1>1, <1>4 DEF With
  <2>2. ds \in Seq(Records) /\ Len(ds) = l + 1 /\ ds[l + 1] = r /\ \A c \in 1..l : ds[c] = cs[c]
    <3>1. r \in Records
      BY DEF Records
    <3> HIDE DEF r
    <3> QED BY <1>1, <2>1, <3>1
  <2>3. \A c \in 1..l : cs[c].id # e.id
    BY <1>4 DEF At1
  <2>4. \A c \in 1..(l + 1) : c \in 1..l \/ c = l + 1
    BY <1>1
  <2>5. l + 1 \in 1..(l + 1) /\ 1..l \subseteq 1..(l + 1) /\ l + 1 <= n + 1
    BY <1>1
  <2>6. ds[l + 1].id = e.id /\ ds[l + 1].layout = e.layout
    BY <2>2
  <2>7. \A c, d \in 1..(l + 1) : ds[c].id = ds[d].id => c = d
    <3>1. ASSUME NEW c \in 1..(l + 1), NEW d \in 1..(l + 1), ds[c].id = ds[d].id
          PROVE  c = d
      <4>1. CASE c \in 1..l /\ d \in 1..l
        BY <3>1, <4>1, <2>2 DEF CanonicalInv
      <4>2. CASE c = l + 1 \/ d = l + 1
        BY <3>1, <4>2, <2>2, <2>3, <2>4, <2>6
      <4> QED BY <2>4, <4>1, <4>2
    <3> QED BY <3>1
  <2>8. \A i \in 1..(n + 1) : \E c \in 1..(l + 1) : ds[c].id = us[i].id
    <3>1. ASSUME NEW i \in 1..n
          PROVE  \E c \in 1..(l + 1) : ds[c].id = us[i].id
      <4>1. PICK c \in 1..l : cs[c].id = ts[i].id
        BY DEF CanonicalInv
      <4> QED BY <4>1, <2>2, <2>5
    <3>2. \A i \in 1..(n + 1) : i \in 1..n \/ i = n + 1
      BY <1>1
    <3>3. ds[l + 1].id = us[n + 1].id
      BY <2>6
    <3> QED BY <3>1, <3>2, <3>3, <2>5
  <2>9. \A c \in 1..(l + 1) : \E f \in 1..(n + 1) : IsFirst(us, ds[c].id, f) /\ us[f].layout = ds[c].layout
    <3>1. IsFirst(us, e.id, n + 1)
      <4>1. \A i \in 1..n : ts[i].id # e.id
        BY <2>3 DEF CanonicalInv
      <4>2. n + 1 \in 1..(n + 1) /\ \A d \in 1..((n + 1) - 1) : d \in 1..n
        BY <1>1
      <4> QED BY <4>1, <4>2 DEF IsFirst
    <3>2. n + 1 \in 1..(n + 1)
      BY <1>1
    <3>3. \A c \in 1..l : \E f \in 1..(n + 1) : IsFirst(us, ds[c].id, f) /\ us[f].layout = ds[c].layout
      BY <1>2, <2>2
    <3>4. IsFirst(us, ds[l + 1].id, n + 1) /\ us[n + 1].layout = ds[l + 1].layout
      BY <3>1, <2>6
    <3> HIDE DEF l, n
    <3> QED BY <3>2, <3>3, <3>4, <2>4
  <2>10. At1(ds, e.id) # {}
    BY <2>2, <2>5, <2>6 DEF At1
  <2>11. CanonicalInv(us, ds)
    <3> HIDE DEF l
    <3>1. Len(ds) <= Len(us)
      BY <2>2, <2>5
    <3> QED BY <2>2, <2>7, <2>8, <2>9, <3>1 DEF CanonicalInv
  <2> QED BY <2>10, <2>11
<1> QED BY <1>3, <1>4

\* The entry of a type.
EntryOf(t, version) == [id |-> t.id, layout |-> t.layout, fields |-> t.fields, version |-> version]

LEMMA EntryIsEntry ==
    ASSUME NEW m \in Modules, NEW i \in 1..Len(m.types), NEW version \in Nat
    PROVE  /\ EntryOf(m.types[i], version) \in Entries
           /\ m.types[i].id \in {t.id : t \in TypeList}
BY DEF EntryOf, Entries, TypeList

\* What the loop has after its first k turns.
Done(r, m, version, k) ==
    /\ EntriesInv(r.types) /\ CanonicalInv(r.types, r.canonical) /\ r.ok
    /\ Len(r.types) = Len(types) + Cardinality(NewTypes(m, version) \cap (1..k))
    /\ \A e \in 1..Len(types) : r.types[e] = types[e]
    /\ \A e \in (Len(types) + 1)..Len(r.types) :
          \E j \in NewTypes(m, version) \cap (1..k) : r.types[e] = EntryOf(m.types[j], version)
    /\ \A j \in NewTypes(m, version) \cap (1..k) :
          \E e \in 1..Len(r.types) : r.types[e] = EntryOf(m.types[j], version)

\* A turn for a new type, of a module that was checked, adds its entry.
LEMMA TurnAdds ==
    ASSUME EntriesInv(types), NEW m \in Modules, NEW version \in Nat, check_module(m, version),
           NEW k \in Nat, k + 1 \in NewTypes(m, version), NEW r, Done(r, m, version, k)
    PROVE  Done(RegisterOne(r, m.types[k + 1], version), m, version, k + 1)
<1> DEFINE new == NewTypes(m, version)
           t == m.types[k + 1]
           e == EntryOf(t, version)
           cs == With(r.canonical, t.id, t.layout)
           n == Len(r.types)
<1>1. /\ k + 1 \in 1..Len(m.types) /\ Len(m.types) \in Nat /\ TypeCapacity \in Nat
      /\ types \in Seq(Entries) /\ r.types \in Seq(Entries) /\ n \in Nat /\ Len(types) \in Nat
  BY TypesAssumption DEF NewTypes, EntriesInv, Done
<1>2. t.id # 0 /\ t.layout \in GoodLayouts
  BY <1>1 DEF check_module, valid
<1>3. e \in Entries /\ e.id \in {u.id : u \in TypeList}
  BY <1>1, EntryIsEntry DEF EntryOf
<1>4. e.id = t.id /\ e.layout = t.layout /\ e.version = version
  BY DEF EntryOf
<1>5. /\ IsFiniteSet(new \cap (1..k)) /\ new \cap (1..(k + 1)) = (new \cap (1..k)) \union {k + 1}
      /\ Cardinality(new \cap (1..(k + 1))) = Cardinality(new \cap (1..k)) + 1
      /\ Cardinality(new \cap (1..k)) \in Nat
  <2>1. IsFiniteSet(1..k)
    <3>1. 1 \in Int /\ k \in Int
      OBVIOUS
    <3> QED BY <3>1, FS_Interval
  <2>2. IsFiniteSet(new \cap (1..k))
    BY <2>1, FS_Subset
  <2>3. new \cap (1..(k + 1)) = (new \cap (1..k)) \union {k + 1} /\ k + 1 \notin new \cap (1..k)
    OBVIOUS
  <2> HIDE DEF new
  <2> QED BY <2>2, <2>3, FS_AddElement, FS_CardinalityType
<1>6. n < TypeCapacity
  <2>1. new \subseteq 1..Len(m.types) /\ IsFiniteSet(1..Len(m.types))
    <3>1. 1 \in Int /\ Len(m.types) \in Int
      BY <1>1
    <3>2. IsFiniteSet(1..Len(m.types))
      BY <3>1, FS_Interval
    <3> QED BY <3>2 DEF NewTypes
  <2>2. Cardinality(new \cap (1..(k + 1))) <= Cardinality(new) /\ Cardinality(new) \in Nat
    <3>1. IsFiniteSet(new) /\ new \cap (1..(k + 1)) \subseteq new
      BY <2>1, FS_Subset
    <3> HIDE DEF new
    <3> QED BY <3>1, FS_Subset, FS_CardinalityType
  <2>3. Cardinality(new) <= TypeCapacity - Len(types)
    BY DEF check_module, fits
  <2>4. n = Len(types) + Cardinality(new \cap (1..k))
    BY DEF Done
  <2> HIDE DEF new, n
  <2> QED BY <1>1, <1>5, <2>2, <2>3, <2>4
<1>7. \A d \in 1..n : ~(r.types[d].id = e.id /\ r.types[d].version = e.version)
  <2>1. ASSUME NEW d \in 1..n, r.types[d].id = t.id, r.types[d].version = version
        PROVE  FALSE
    <3>1. CASE d \in 1..Len(types)
      <4>1. r.types[d] = types[d]
        BY <3>1 DEF Done
      <4>2. find_type(t.id, version) = {}
        BY DEF NewTypes
      <4> QED BY <2>1, <3>1, <4>1, <4>2 DEF find_type, At1
    <3>2. CASE d \notin 1..Len(types)
      <4>1. d \in (Len(types) + 1)..n
        BY <1>1, <3>2
      <4>2. PICK j \in new \cap (1..k) : r.types[d] = EntryOf(m.types[j], version)
        BY <4>1 DEF Done
      <4>3. m.types[j].id = t.id /\ j # k + 1 /\ j \in 1..Len(m.types)
        BY <2>1, <4>2 DEF EntryOf, NewTypes
      <4> QED BY <1>1, <4>3 DEF check_module, duplicate_in_module
    <3> QED BY <3>1, <3>2
  <2> QED BY <1>4, <2>1
<1>8. PICK ts : ts = r.types
  OBVIOUS
<1>9. PICK us : us = Append(ts, e) /\ EntriesInv(us) /\ Added(us, ts, e)
  <2>1. EntriesInv(ts)
    BY <1>8 DEF Done
  <2>2. Fresh(ts, e)
    BY <1>7, <1>8 DEF Fresh
  <2> HIDE DEF e
  <2> QED BY <1>3, <2>1, <2>2, EntryAdded
<1>10. CanonicalInv(us, cs) /\ At1(cs, t.id) # {}
  <2>1. EntriesInv(r.types) /\ CanonicalInv(r.types, r.canonical)
    BY DEF Done
  <2>2. e.id # 0 /\ e.layout \in GoodLayouts
    BY <1>2, <1>4
  <2>3. cs = With(r.canonical, e.id, e.layout)
    BY <1>4
  <2> HIDE DEF e, cs
  <2>4. CanonicalInv(us, cs) /\ At1(cs, e.id) # {}
    BY <1>3, <1>6, <1>8, <1>9, <2>1, <2>2, <2>3, CanonicalAdded
  <2> QED BY <1>4, <2>4
<1>11. RegisterOne(r, t, version) = [types |-> us, canonical |-> cs, ok |-> TRUE]
  <2>1. n # TypeCapacity
    BY <1>1, <1>6
  <2> QED BY <1>8, <1>9, <1>10, <2>1 DEF RegisterOne, EntryOf
<1>12. PICK q : q = RegisterOne(r, t, version)
  OBVIOUS
<1>13. Len(us) = n + 1 /\ us[n + 1] = e /\ \A d \in 1..n : us[d] = r.types[d]
  BY <1>8, <1>9 DEF Added
<1>14. q.types = us /\ q.canonical = cs /\ q.ok
  BY <1>11, <1>12
<1>15. Len(us) = Len(types) + Cardinality(new \cap (1..(k + 1)))
  <2>1. n = Len(types) + Cardinality(new \cap (1..k))
    BY DEF Done
  <2> HIDE DEF new, n
  <2> QED BY <1>1, <1>5, <1>13, <2>1
<1>16. Len(types) <= n
  <2>1. n = Len(types) + Cardinality(new \cap (1..k))
    BY DEF Done
  <2> HIDE DEF new, n
  <2> QED BY <1>1, <1>5, <2>1
<1>17. \A d \in 1..Len(types) : us[d] = types[d]
  <2>1. ASSUME NEW d \in 1..Len(types)
        PROVE  us[d] = types[d]
    <3>1. d \in 1..n
      BY <1>1, <1>16
    <3>2. r.types[d] = types[d]
      BY DEF Done
    <3> QED BY <1>13, <3>1, <3>2
  <2> QED BY <2>1
<1>18. ASSUME NEW d \in (Len(types) + 1)..Len(us)
       PROVE  \E j \in new \cap (1..(k + 1)) : us[d] = EntryOf(m.types[j], version)
  <2>1. CASE d = n + 1
    BY <1>5, <1>13, <2>1
  <2>2. CASE d # n + 1
    <3>1. d \in (Len(types) + 1)..n /\ d \in 1..n
      BY <1>1, <1>13, <2>2
    <3>2. PICK j \in new \cap (1..k) : r.types[d] = EntryOf(m.types[j], version)
      BY <3>1 DEF Done
    <3> QED BY <1>5, <1>13, <3>1, <3>2
  <2> QED BY <2>1, <2>2
<1>19. ASSUME NEW j \in new \cap (1..(k + 1))
       PROVE  \E d \in 1..Len(us) : us[d] = EntryOf(m.types[j], version)
  <2>1. CASE j = k + 1
    <3>1. n + 1 \in 1..Len(us)
      BY <1>1, <1>13
    <3> QED BY <1>13, <2>1, <3>1
  <2>2. CASE j # k + 1
    <3>1. j \in new \cap (1..k)
      BY <1>5, <2>2
    <3>2. PICK d \in 1..n : r.types[d] = EntryOf(m.types[j], version)
      BY <3>1 DEF Done
    <3>3. d \in 1..Len(us) /\ us[d] = r.types[d]
      BY <1>1, <1>13
    <3> QED BY <3>2, <3>3
  <2> QED BY <2>1, <2>2
<1>20. Done(q, m, version, k + 1)
  <2> HIDE DEF t, e, cs, n
  <2>1. EntriesInv(q.types) /\ CanonicalInv(q.types, q.canonical) /\ q.ok
    BY <1>9, <1>10, <1>14
  <2>2. \A d \in 1..Len(types) : q.types[d] = types[d]
    BY <1>14, <1>17
  <2>3. \A d \in (Len(types) + 1)..Len(q.types) :
            \E j \in new \cap (1..(k + 1)) : q.types[d] = EntryOf(m.types[j], version)
    BY <1>14, <1>18
  <2>4. \A j \in new \cap (1..(k + 1)) :
            \E d \in 1..Len(q.types) : q.types[d] = EntryOf(m.types[j], version)
    BY <1>14, <1>19
  <2>5. Len(q.types) = Len(types) + Cardinality(new \cap (1..(k + 1)))
    BY <1>14, <1>15
  <2> QED BY <2>1, <2>2, <2>3, <2>4, <2>5 DEF Done
<1> QED BY <1>12, <1>20

\* The loop as a whole: nothing stops it, and every new type has its entry.
LEMMA LoopRegisters ==
    ASSUME EntriesInv(types), CanonicalInv(types, canonical), NEW m \in Modules,
           NEW version \in Nat, check_module(m, version)
    PROVE  Done(Registered(m, version), m, version, Len(m.types))
<1> DEFINE l == Len(m.types)
           new == NewTypes(m, version)
           S == [types : Seq(Entries), canonical : Seq(Records), ok : BOOLEAN]
           base == [types |-> types, canonical |-> canonical, ok |-> TRUE]
           Turn(r, i) == IF ~r.ok \/ i \notin new THEN r ELSE RegisterOne(r, m.types[i], version)
           step == [p \in S \X (1..l) |-> Turn(p[1], p[2])]
           Rec(g) == g = [i \in 0..l |-> IF i = 0 THEN base
                                         ELSE IF ~g[i - 1].ok \/ i \notin new THEN g[i - 1]
                                         ELSE RegisterOne(g[i - 1], m.types[i], version)]
<1>1. l \in Nat /\ base \in S
  BY TypesAssumption DEF EntriesInv, CanonicalInv
<1>2. \A r \in S, i \in 1..l : Turn(r, i) \in S
  <2>1. ASSUME NEW r \in S, NEW i \in 1..l
        PROVE  RegisterOne(r, m.types[i], version) \in S
    <3> DEFINE t == m.types[i]
    <3>1. EntryOf(t, version) \in Entries /\ t.id \in {u.id : u \in TypeList}
      BY EntryIsEntry
    <3>2. With(r.canonical, t.id, t.layout) \in Seq(Records)
      <4>1. r.canonical \in Seq(Records)
        OBVIOUS
      <4>2. t.layout \in GoodLayouts => [id |-> t.id, layout |-> t.layout] \in Records
        BY <3>1 DEF Records
      <4> HIDE DEF t, S
      <4> QED BY <4>1, <4>2 DEF With
    <3>3. Append(r.types, EntryOf(t, version)) \in Seq(Entries)
      BY <3>1
    <3>4. r \in S /\ r.types \in Seq(Entries) /\ r.canonical \in Seq(Records)
      OBVIOUS
    <3>5. PICK c, us : c = With(r.canonical, t.id, t.layout) /\ us = Append(r.types, EntryOf(t, version))
      OBVIOUS
    <3>6. RegisterOne(r, t, version) \in
              {[r EXCEPT !.ok = FALSE], [r EXCEPT !.canonical = c, !.ok = FALSE],
               [types |-> us, canonical |-> c, ok |-> TRUE]}
      <4> HIDE DEF t, S
      <4> QED BY <3>5 DEF RegisterOne, EntryOf
    <3>7. c \in Seq(Records) /\ us \in Seq(Entries)
      BY <3>2, <3>3, <3>5
    <3>8. [types |-> us, canonical |-> c, ok |-> TRUE] \in S
      BY <3>7
    <3>9. [r EXCEPT !.ok = FALSE] \in S /\ [r EXCEPT !.canonical = c, !.ok = FALSE] \in S
      BY <3>4, <3>7
    <3> HIDE DEF S
    <3>10. RegisterOne(r, t, version) \in S
      BY ONLY <3>6, <3>8, <3>9, Zenon
    <3> QED BY <3>10
  <2> HIDE DEF S
  <2> QED BY <2>1
<1>3. /\ step \in [S \X (1..l) -> S]
      /\ \A r \in S, i \in 1..l : step[<<r, i>>] = Turn(r, i)
  <2> HIDE DEF S, l, Turn
  <2> QED BY <1>2
<1> HIDE DEF step
<1>4. PICK g : Loop(g, S, base, l, step)
  <2> HIDE DEF base, S
  <2> QED BY <1>1, <1>3, LoopExists
<1>5. \A i \in 1..l : i \in 0..l /\ i # 0 /\ i - 1 \in 0..l
  BY <1>1
<1>6. \A i \in 1..l : g[i] = Turn(g[i - 1], i)
  <2> HIDE DEF S, l, Turn
  <2> QED BY <1>3, <1>4, <1>5 DEF Loop
<1>7. Rec(g)
  <2>1. \A i \in 0..l : i # 0 => i \in 1..l
    BY <1>1
  <2> HIDE DEF S, l, new, base
  <2> QED BY <1>4, <1>6, <2>1 DEF Loop
<1> DEFINE upto == CHOOSE f : Rec(f)
<1>8. Rec(upto)
  <2> HIDE DEF Rec
  <2> QED BY <1>7
<1>9. Registered(m, version) = upto[l]
  BY DEF Registered
<1>10. upto[0] = base /\ \A i \in 1..l : upto[i] = Turn(upto[i - 1], i)
  <2>1. 0 \in 0..l
    BY <1>1
  <2> HIDE DEF upto, l, new, base
  <2> QED BY <1>5, <1>8, <2>1
<1> HIDE DEF upto
<1> DEFINE P == {k \in Nat : k <= l => Done(upto[k], m, version, k)}
<1>11. 0 \in P
  <2>1. new \cap (1..0) = {} /\ Cardinality({}) = 0 /\ Len(types) \in Nat
    BY FS_EmptySet DEF EntriesInv
  <2>2. (Len(types) + 1)..Len(types) = {} /\ Len(types) = Len(types) + 0
    BY <2>1
  <2>3. base.types = types /\ base.canonical = canonical /\ base.ok
    OBVIOUS
  <2>4. Done(base, m, version, 0)
    <3> HIDE DEF base
    <3> QED BY <2>1, <2>2, <2>3 DEF Done
  <2> QED BY <1>10, <2>4
<1>12. ASSUME NEW k \in Nat, k \in P
       PROVE  k + 1 \in P
  <2>1. SUFFICES ASSUME k + 1 <= l
                 PROVE  Done(upto[k + 1], m, version, k + 1)
    OBVIOUS
  <2>2. k <= l /\ k + 1 \in 1..l /\ (k + 1) - 1 = k
    BY <1>1, <2>1
  <2>3. PICK r : r = upto[k] /\ Done(r, m, version, k)
    BY <1>12, <2>2
  <2>4. upto[k + 1] = Turn(r, k + 1) /\ r.ok
    BY <1>10, <2>2, <2>3 DEF Done
  <2>5. CASE k + 1 \in new
    <3>1. upto[k + 1] = RegisterOne(r, m.types[k + 1], version)
      BY <2>4, <2>5
    <3> QED BY <2>3, <2>5, <3>1, TurnAdds
  <2>6. CASE k + 1 \notin new
    <3>1. upto[k + 1] = r
      BY <2>4, <2>6
    <3>2. new \cap (1..(k + 1)) = new \cap (1..k)
      BY <2>6
    <3>3. Done(r, m, version, k + 1)
      BY <2>3, <3>2 DEF Done
    <3> QED BY <3>1, <3>3
  <2> QED BY <2>5, <2>6
<1>13. l \in P
  <2> HIDE DEF P
  <2>1. Nat \subseteq P
    BY <1>11, <1>12, NumbersByInduction
  <2> QED BY <1>1, <2>1
<1> QED BY <1>1, <1>9, <1>13

\* Registering one type in the kernel registry: there is room for each id that may come.
LEMMA KernelRegisters ==
    ASSUME BootRoom, TypeCapacity \in Nat, NEW ks, KernelGood(ks), NEW layout \in GoodLayouts,
           NEW id \in KernelIds \union {b.id : b \in BootRecords},
           \A b \in BootRecords : id = b.id => layout = b.layout
    PROVE  /\ KernelGood(With(ks, id, layout))
           /\ \A x : Listed(ks, x) => Listed(With(ks, id, layout), x)
           /\ id # 0 => Listed(With(ks, id, layout), id)
<1> DEFINE All == KernelIds \union {b.id : b \in BootRecords}
           T == [id : All, layout : GoodLayouts]
           l == Len(ks)
           r == [id |-> id, layout |-> layout]
<1>1. ks \in Seq(T) /\ l \in Nat /\ r \in T
  BY DEF KernelGood
<1>2. IsFiniteSet(All) /\ Cardinality(All) <= Cardinality(KernelIds) + 2 /\ Cardinality(All) \in Nat
      /\ Cardinality(KernelIds) \in Nat
  <2> DEFINE p == BootTypes[1].id
             q == BootTypes[2].id
  <2>1. IsFiniteSet(KernelIds) /\ Cardinality(KernelIds) \in Nat
    BY FS_CardinalityType DEF BootRoom
  <2>2. p \notin KernelIds /\ q \notin KernelIds /\ p # q
    BY DEF BootRoom, BootRecords
  <2>3. IsFiniteSet(KernelIds \union {p}) /\ Cardinality(KernelIds \union {p}) = Cardinality(KernelIds) + 1
    BY <2>1, <2>2, FS_AddElement
  <2> DEFINE K == KernelIds \union {p}
  <2>4. IsFiniteSet(K \union {q}) /\ Cardinality(K \union {q}) = Cardinality(K) + 1
    <3>1. q \notin K /\ IsFiniteSet(K)
      BY <2>2, <2>3
    <3> HIDE DEF K, q
    <3> QED BY <3>1, FS_AddElement
  <2>5. All = K \union {q}
    BY DEF BootRecords
  <2>6. Cardinality(K) = Cardinality(KernelIds) + 1
    BY <2>3
  <2> HIDE DEF K, All
  <2> QED BY <2>1, <2>4, <2>5, <2>6
<1>3. CASE ~(id # 0 /\ At1(ks, id) = {})
  <2>1. With(ks, id, layout) = ks
    BY <1>3 DEF With
  <2>2. At1(ks, id) # {} => Listed(ks, id)
    BY DEF At1, Listed
  <2> QED BY <1>3, <2>1, <2>2
<1>4. CASE id # 0 /\ At1(ks, id) = {}
  <2>1. IdsOf(ks) \subseteq All /\ id \notin IdsOf(ks)
    <3>1. ASSUME NEW i \in 1..l
          PROVE  ks[i].id \in All
      <4>1. ks[i] \in T
        <5> HIDE DEF T
        <5> QED BY <1>1
      <4> QED BY <4>1
    <3>2. \A i \in 1..l : ks[i].id # id
      BY <1>4 DEF At1
    <3> QED BY <3>1, <3>2 DEF IdsOf
  <2>2. IsFiniteSet(IdsOf(ks)) /\ IsFiniteSet(IdsOf(ks) \union {id})
        /\ Cardinality(IdsOf(ks) \union {id}) = Cardinality(IdsOf(ks)) + 1
        /\ Cardinality(IdsOf(ks) \union {id}) <= Cardinality(All)
    <3>1. IsFiniteSet(IdsOf(ks))
      BY <1>2, <2>1, FS_Subset
    <3>2. IdsOf(ks) \union {id} \subseteq All
      BY <2>1
    <3> HIDE DEF All
    <3> QED BY <1>2, <2>1, <3>1, <3>2, FS_AddElement, FS_Subset
  <2>3. l < TypeCapacity
    BY <1>1, <1>2, <2>2 DEF KernelGood, BootRoom
  <2>4. PICK ls : ls = With(ks, id, layout)
    OBVIOUS
  <2>5. ls = Append(ks, r)
    BY <1>4, <2>3, <2>4 DEF With
  <2>6. ls \in Seq(T) /\ Len(ls) = l + 1 /\ ls[l + 1] = r /\ \A i \in 1..l : ls[i] = ks[i]
    <3> HIDE DEF T, r
    <3> QED BY <1>1, <2>5
  <2>7. IdsOf(ls) = IdsOf(ks) \union {id}
    <3>1. \A i \in 1..(l + 1) : i \in 1..l \/ i = l + 1
      BY <1>1
    <3>2. l + 1 \in 1..(l + 1) /\ 1..l \subseteq 1..(l + 1) /\ ls[l + 1].id = id
      <4>1. ls[l + 1] = r
        BY <2>6
      <4>2. ls[l + 1].id = id
        BY ONLY <4>1
      <4> QED BY <1>1, <4>2
    <3> HIDE DEF r
    <3> QED BY <2>6, <3>1, <3>2 DEF IdsOf
  <2>8. \A i \in 1..(l + 1), b \in BootRecords : ls[i].id = b.id => ls[i].layout = b.layout
    <3>1. \A i \in 1..(l + 1) : i \in 1..l \/ i = l + 1
      BY <1>1
    <3>2. ls[l + 1].id = id /\ ls[l + 1].layout = layout
      <4>1. ls[l + 1] = r
        BY <2>6
      <4> QED BY ONLY <4>1
    <3>3. \A i \in 1..l, b \in BootRecords : ls[i].id = b.id => ls[i].layout = b.layout
      <4>1. \A i \in 1..l, b \in BootRecords : ks[i].id = b.id => ks[i].layout = b.layout
        BY DEF KernelGood
      <4>2. \A i \in 1..l : ls[i] = ks[i]
        BY <2>6
      <4> QED BY ONLY <4>1, <4>2
    <3>4. \A b \in BootRecords : id = b.id => layout = b.layout
      OBVIOUS
    <3> HIDE DEF l, r
    <3> QED BY ONLY <3>1, <3>2, <3>3, <3>4
  <2>9. KernelGood(ls)
    <3>1. Cardinality(IdsOf(ls)) = l + 1
      BY <2>2, <2>7 DEF KernelGood
    <3> QED BY <2>6, <2>8, <3>1 DEF KernelGood
  <2>10. \A x : Listed(ks, x) => Listed(ls, x)
    <3>1. 1..l \subseteq 1..(l + 1)
      BY <1>1
    <3> QED BY <2>6, <3>1 DEF Listed
  <2>11. Listed(ls, id)
    <3>1. l + 1 \in 1..(l + 1) /\ ls[l + 1].id = id
      <4>1. ls[l + 1] = r
        BY <2>6
      <4>2. ls[l + 1].id = id
        BY ONLY <4>1
      <4> QED BY <1>1, <4>2
    <3> QED BY <2>6, <3>1 DEF Listed
  <2> QED BY <2>4, <2>9, <2>10, <2>11
<1> QED BY <1>3, <1>4

\* Registering a module keeps what is said of the entries, and says it of the new ones.
LEMMA ModuleRegistered ==
    ASSUME TypesInv, NEW m \in Modules, register_module(m)
    PROVE  TypesInv'
<1> DEFINE n == Len(types)
           l == Len(m.types)
<1>1. PICK version \in Nat : version = parse_version(m.text)
  BY VersionIsNumber
<1>2. PICK r : r = Registered(m, version)
  OBVIOUS
<1>3. PICK new : new = NewTypes(m, version)
  OBVIOUS
<1>4. Done(r, m, version, l) /\ check_module(m, version)
  BY <1>1, <1>2, LoopRegisters DEF TypesInv, register_module
<1>5. /\ types' = r.types /\ canonical' = r.canonical
      /\ accepted' = accepted \union {<<m, version>>} /\ UNCHANGED <<kernel, booted>>
  BY <1>1, <1>2, <1>4 DEF register_module, Done
<1>6. l \in Nat /\ n \in Nat /\ TypeCapacity \in Nat /\ new \subseteq 1..l /\ new \cap (1..l) = new
  BY <1>3, TypesAssumption DEF NewTypes, TypesInv, EntriesInv
<1>7. PICK ts : ts = r.types
  OBVIOUS
<1>8. /\ \A e \in 1..n : ts[e] = types[e]
      /\ \A e \in (n + 1)..Len(ts) : \E j \in new : ts[e] = EntryOf(m.types[j], version)
      /\ \A j \in new : \E e \in 1..Len(ts) : ts[e] = EntryOf(m.types[j], version)
  <2>1. new \cap (1..l) = new
    BY <1>6
  <2> HIDE DEF l
  <2> QED BY <1>3, <1>4, <1>7, <2>1 DEF Done
<1>9. EntriesInv(ts) /\ CanonicalInv(ts, r.canonical)
  BY <1>4, <1>7 DEF Done
<1>10. Len(ts) \in Nat /\ n <= Len(ts) /\ Len(ts) <= TypeCapacity
  <2>1. IsFiniteSet(new)
    <3>1. 1 \in Int /\ l \in Int
      BY <1>6
    <3>2. IsFiniteSet(1..l)
      BY <3>1, FS_Interval
    <3> QED BY <1>6, <3>2, FS_Subset
  <2>2. Cardinality(new) \in Nat
    BY <2>1, FS_CardinalityType
  <2>3. Len(ts) = n + Cardinality(new)
    BY <1>3, <1>4, <1>6, <1>7 DEF Done
  <2>4. Cardinality(new) <= TypeCapacity - n
    BY <1>3, <1>4 DEF check_module, fits
  <2> HIDE DEF n
  <2> QED BY <1>6, <2>2, <2>3, <2>4
<1>11. 1..n \subseteq 1..Len(ts)
  BY <1>6, <1>10
<1>12. ASSUME NEW id, Listed(types, id)
       PROVE  Listed(ts, id)
  BY <1>8, <1>11, <1>12 DEF Listed
<1>13. ASSUME NEW id, known_type(m, id)
       PROVE  Listed(ts, id)
  <2>1. CASE \E i \in 1..l : m.types[i].id = id
    <3>1. PICK i \in 1..l : m.types[i].id = id
      BY <2>1
    <3>2. CASE i \in new
      <4>1. PICK e \in 1..Len(ts) : ts[e] = EntryOf(m.types[i], version)
        BY <1>8, <3>2
      <4>2. ts[e].id = id
        BY <3>1, <4>1 DEF EntryOf
      <4> QED BY <4>2 DEF Listed
    <3>3. CASE i \notin new
      <4>1. Listed(types, id)
        BY <1>3, <3>1, <3>3 DEF NewTypes, find_type, At1, Listed
      <4> QED BY <1>12, <4>1
    <3> QED BY <3>2, <3>3
  <2>2. CASE find_by_id(id) # {}
    <3>1. Listed(types, id)
      BY <2>2 DEF find_by_id, At1, Listed
    <3> QED BY <1>12, <3>1
  <2> QED BY <1>13, <2>1, <2>2 DEF known_type
<1>14. \A e \in 1..Len(ts) : e \in 1..n \/ e \in (n + 1)..Len(ts)
  BY <1>6, <1>10
<1>15. ASSUME NEW e \in 1..Len(ts), NEW id \in ts[e].fields
       PROVE  Listed(ts, id)
  <2>1. CASE e \in 1..n
    <3>1. Listed(types, id)
      BY <1>8, <1>15, <2>1 DEF TypesInv, AcceptedInv
    <3> QED BY <1>12, <3>1
  <2>2. CASE e \in (n + 1)..Len(ts)
    <3>1. PICK j \in new : ts[e] = EntryOf(m.types[j], version)
      BY <1>8, <2>2
    <3>2. j \in 1..l /\ id \in m.types[j].fields
      BY <1>6, <1>15, <3>1 DEF EntryOf
    <3>3. known_type(m, id)
      BY <1>4, <3>2 DEF check_module
    <3> QED BY <1>13, <3>3
  <2> QED BY <1>14, <2>1, <2>2
<1>16. ASSUME NEW a \in accepted \union {<<m, version>>}, NEW id \in a[1].uses
       PROVE  Listed(ts, id)
  <2>1. CASE a \in accepted
    <3>1. Listed(types, id)
      BY <1>16, <2>1 DEF TypesInv, AcceptedInv
    <3> QED BY <1>12, <3>1
  <2>2. CASE a = <<m, version>>
    <3>1. known_type(m, id)
      BY <1>4, <1>16, <2>2 DEF check_module
    <3> QED BY <1>13, <3>1
  <2> QED BY <2>1, <2>2
<1> DEFINE Of(e, a, i) == /\ ts[e].id = a[1].types[i].id /\ ts[e].version = a[2]
                          /\ ts[e].layout = a[1].types[i].layout
<1>17. ASSUME NEW a \in accepted \union {<<m, version>>}, NEW i \in 1..Len(a[1].types)
       PROVE  \E e \in 1..Len(ts) : Of(e, a, i)
  <2>1. CASE a \in accepted
    <3>1. PICK e \in 1..n : /\ types[e].id = a[1].types[i].id /\ types[e].version = a[2]
                            /\ types[e].layout = a[1].types[i].layout
      BY <1>17, <2>1 DEF TypesInv, AcceptedInv
    <3> QED BY <1>8, <1>11, <3>1
  <2>2. CASE a = <<m, version>>
    <3>1. i \in 1..l /\ a[1] = m /\ a[2] = version
      BY <1>17, <2>2
    <3>2. CASE i \in new
      <4>1. PICK e \in 1..Len(ts) : ts[e] = EntryOf(m.types[i], version)
        BY <1>8, <3>2
      <4> QED BY <3>1, <4>1 DEF EntryOf
    <3>3. CASE i \notin new
      <4>1. PICK e \in find_type(m.types[i].id, version) : TRUE
        BY <1>3, <3>1, <3>3 DEF NewTypes
      <4>2. e \in 1..n /\ types[e].id = m.types[i].id /\ types[e].version = version
        BY <4>1 DEF find_type, At1
      <4>3. types[e].layout = m.types[i].layout
        BY <1>4, <3>1, <4>1 DEF check_module, conflict
      <4> QED BY <1>8, <1>11, <3>1, <4>2, <4>3
    <3> QED BY <3>2, <3>3
  <2> QED BY <2>1, <2>2
<1>18. ASSUME NEW e \in 1..Len(ts)
       PROVE  \E a \in accepted \union {<<m, version>>} :
                 a[2] = ts[e].version /\ \E i \in 1..Len(a[1].types) : a[1].types[i].id = ts[e].id
  <2>1. CASE e \in 1..n
    <3>1. PICK a \in accepted :
              a[2] = types[e].version /\ \E i \in 1..Len(a[1].types) : a[1].types[i].id = types[e].id
      BY <2>1 DEF TypesInv, AcceptedInv
    <3> QED BY <1>8, <2>1, <3>1
  <2>2. CASE e \in (n + 1)..Len(ts)
    <3>1. PICK j \in new : ts[e] = EntryOf(m.types[j], version)
      BY <1>8, <2>2
    <3>2. PICK a : a = <<m, version>>
      OBVIOUS
    <3>3. a[1] = m /\ a[2] = version /\ a \in accepted \union {<<m, version>>}
      BY <3>2
    <3>4. j \in 1..Len(a[1].types) /\ a[1].types[j].id = ts[e].id /\ a[2] = ts[e].version
      BY <1>6, <3>1, <3>3 DEF EntryOf
    <3> QED BY <3>3, <3>4
  <2> QED BY <1>14, <2>1, <2>2
<1>19. AcceptedInv'
  <2>1. types' = ts /\ accepted' = accepted \union {<<m, version>>}
    BY <1>5, <1>7
  <2>2. \A a \in accepted \union {<<m, version>>} : \A i \in 1..Len(a[1].types) :
            \E e \in 1..Len(ts) : Of(e, a, i)
    BY <1>17
  <2> QED BY <1>15, <1>16, <1>18, <2>1, <2>2 DEF AcceptedInv
<1>20. EntriesInv(types)' /\ CanonicalInv(types, canonical)' /\ Len(types') <= TypeCapacity
  BY <1>5, <1>7, <1>9, <1>10
<1>21. KernelInv'
  BY <1>5 DEF TypesInv, KernelInv
<1> QED BY <1>19, <1>20, <1>21 DEF TypesInv

LEMMA InitTypesInv ==
    ASSUME TypesInit
    PROVE  TypesInv
<1> USE DEF TypesInit
<1>1. TypeCapacity \in Nat
  BY TypesAssumption
<1>2. types = <<>> /\ canonical = <<>> /\ kernel = <<>> /\ accepted = {} /\ booted = "none"
      /\ Len(<<>>) = 0 /\ 1..0 = {}
  OBVIOUS
<1>3. EntriesInv(types) /\ CanonicalInv(types, canonical) /\ Len(types) <= TypeCapacity /\ AcceptedInv
  BY <1>1, <1>2 DEF EntriesInv, CanonicalInv, AcceptedInv
<1>4. KernelInv
  <2>1. IdsOf(kernel) = {} /\ Cardinality({}) = 0
    BY <1>2, FS_EmptySet DEF IdsOf
  <2> QED BY <1>2, <2>1 DEF KernelInv, KernelGood
<1> QED BY <1>3, <1>4 DEF TypesInv

LEMMA NextTypesInv ==
    ASSUME BootRoom, TypesInv, [TypesNext]_typeVars
    PROVE  TypesInv'
<1>1. TypeCapacity \in Nat
  BY TypesAssumption
<1>2. CASE \E m \in Modules : register_module(m)
  BY <1>2, ModuleRegistered
<1>3. ASSUME KernelInv', UNCHANGED <<types, canonical, accepted>>
      PROVE  TypesInv'
  BY <1>3 DEF TypesInv, AcceptedInv
<1>4. ASSUME NEW id \in KernelIds, NEW layout \in GoodLayouts, register_type(id, layout)
      PROVE  TypesInv'
  <2>1. PICK ks : ks = kernel
    OBVIOUS
  <2>2. KernelGood(ks)
    BY <2>1 DEF TypesInv, KernelInv
  <2>3. \A b \in BootRecords : id # b.id
    BY DEF BootRoom
  <2>4. KernelGood(With(ks, id, layout)) /\ \A x : Listed(ks, x) => Listed(With(ks, id, layout), x)
    BY <1>1, <2>2, <2>3, KernelRegisters
  <2>5. KernelInv'
    BY <1>4, <2>1, <2>4 DEF register_type, TypesInv, KernelInv
  <2> QED BY <1>3, <1>4, <2>5 DEF register_type
<1>5. ASSUME bootstrap_self
      PROVE  TypesInv'
  <2>1. PICK b, c : b = BootTypes[1] /\ c = BootTypes[2]
    OBVIOUS
  <2>2. /\ BootRecords = {b, c} /\ b.id # 0 /\ c.id # 0 /\ b.id # c.id
        /\ b.layout \in GoodLayouts /\ c.layout \in GoodLayouts
    BY <2>1 DEF BootRoom, BootRecords
  <2>3. PICK ks : ks = kernel
    OBVIOUS
  <2>4. KernelGood(ks)
    BY <2>3 DEF TypesInv, KernelInv
  <2>5. PICK ls : ls = With(ks, b.id, b.layout)
    OBVIOUS
  <2>6. KernelGood(ls) /\ Listed(ls, b.id)
    BY <1>1, <2>2, <2>4, <2>5, KernelRegisters
  <2>7. PICK ms : ms = With(ls, c.id, c.layout)
    OBVIOUS
  <2>8. KernelGood(ms) /\ Listed(ms, c.id) /\ Listed(ms, b.id)
    <3>1. \A d \in BootRecords : c.id = d.id => c.layout = d.layout
      BY <2>2
    <3>2. c.id \in KernelIds \union {d.id : d \in BootRecords}
      BY <2>2
    <3> QED BY <1>1, <2>2, <2>6, <2>7, <3>1, <3>2, KernelRegisters
  <2>9. kernel' = ms
    BY <1>5, <2>1, <2>3, <2>5, <2>7 DEF bootstrap_self
  <2>10. KernelInv'
    BY <2>2, <2>8, <2>9 DEF KernelInv
  <2> QED BY <1>3, <1>5, <2>10 DEF bootstrap_self
<1>6. CASE UNCHANGED typeVars
  BY <1>3, <1>6 DEF typeVars, TypesInv, KernelInv
<1> QED BY <1>2, <1>4, <1>5, <1>6 DEF TypesNext

\* What is listed is found.
LEMMA ListedIsFound ==
    ASSUME TypesInv, NEW id, Listed(types, id)
    PROVE  find_by_id(id) # {}
<1>1. PICK e \in 1..Len(types) : types[e].id = id
  BY DEF Listed
<1>2. PICK n \in 1..Len(types) : Newest(types, e, n)
  BY DEF TypesInv, EntriesInv
<1>3. n \in At1(types, id)
  BY <1>1, <1>2 DEF Newest, At1
<1>4. ASSUME NEW j \in At1(types, id)
      PROVE  types[j].version < types[n].version \/ (types[j].version = types[n].version /\ j <= n)
  <2>1. j \in 1..Len(types) /\ types[j].id = id
    BY DEF At1
  <2>2. types[j].version <= types[n].version
    BY <1>1, <1>2, <2>1 DEF Newest
  <2>3. types[j].version \in Nat /\ types[n].version \in Nat
    <3>1. types \in Seq(Entries)
      BY DEF TypesInv, EntriesInv
    <3>2. types[j] \in Entries /\ types[n] \in Entries
      BY <2>1, <3>1
    <3> QED BY <3>2 DEF Entries
  <2>4. CASE types[j].version = types[n].version
    <3>1. j = n
      BY <1>1, <1>2, <2>1, <2>4 DEF Newest, TypesInv, EntriesInv
    <3> QED BY <2>1, <2>4, <3>1
  <2> QED BY <2>2, <2>3, <2>4
<1> QED BY <1>3, <1>4 DEF find_by_id

LEMMA InvCanonical ==
    ASSUME TypesInv
    PROVE  CanonicalIsFirst
<1> SUFFICES ASSUME NEW e \in 1..Len(types)
             PROVE  LET first == CHOOSE d \in At1(types, types[e].id) :
                                     \A f \in At1(types, types[e].id) : d <= f
                    IN \E c \in At1(canonical, types[e].id) :
                           /\ canonical[c].layout = types[first].layout
                           /\ At1(canonical, types[e].id) = {c}
  BY DEF CanonicalIsFirst
<1> DEFINE Least(d) == \A f \in At1(types, types[e].id) : d <= f
           first == CHOOSE d \in At1(types, types[e].id) : Least(d)
<1>1. PICK id : id = types[e].id
  OBVIOUS
<1>2. PICK c \in 1..Len(canonical) : canonical[c].id = id
  BY <1>1 DEF TypesInv, CanonicalInv
<1>3. PICK f \in 1..Len(types) : IsFirst(types, id, f) /\ types[f].layout = canonical[c].layout
  BY <1>2 DEF TypesInv, CanonicalInv
<1>4. Len(types) \in Nat
  BY DEF TypesInv, EntriesInv
<1>5. f \in At1(types, id) /\ \A d \in At1(types, id) : f <= d
  <2>1. ASSUME NEW d \in At1(types, id), d < f
        PROVE  FALSE
    <3>1. d \in 1..(f - 1) /\ types[d].id = id
      BY <1>4, <2>1 DEF At1
    <3> QED BY <1>3, <3>1 DEF IsFirst
  <2>2. \A d \in At1(types, id) : d \in Nat
    BY DEF At1
  <2>3. f \in At1(types, id)
    BY <1>3 DEF IsFirst, At1
  <2> QED BY <2>1, <2>2, <2>3
<1>6. first = f
  <2>1. first \in At1(types, id) /\ Least(first)
    <3>1. \E d \in At1(types, types[e].id) : Least(d)
      BY <1>1, <1>5
    <3> HIDE DEF Least
    <3> QED BY <1>1, <3>1
  <2>2. first <= f /\ f <= first
    BY <1>1, <1>5, <2>1
  <2>3. first \in Nat /\ f \in Nat
    BY <2>1, <1>4 DEF At1
  <2> HIDE DEF first
  <2> QED BY <2>2, <2>3
<1>7. At1(canonical, id) = {c}
  BY <1>2 DEF TypesInv, CanonicalInv, At1
<1> HIDE DEF first
<1>8. canonical[c].layout = types[first].layout
  BY <1>3, <1>6
<1> QED BY <1>1, <1>7, <1>8 DEF first

\* As long as the program's own types leave room for those of the bootstrap: a
\* module is registered as a whole or not at all, whatever modules come in
\* whatever order; every reference resolves; the first version of a type is its
\* canonical one; and after bootstrap_self() both of its types are found.
THEOREM TypesAreSound ==
    ASSUME BootRoom
    PROVE  TypesSpec => []TypesSound
<1>1. TypesInit => TypesInv
  BY InitTypesInv
<1>2. TypesInv /\ [TypesNext]_typeVars => TypesInv'
  BY NextTypesInv
<1>3. TypesInv => TypesSound
  <2> SUFFICES ASSUME TypesInv
               PROVE  TypesSound
    OBVIOUS
  <2>1. RegistrationAtomic
    <3>1. ASSUME NEW a \in accepted, NEW i \in 1..Len(a[1].types)
          PROVE  \E e \in find_type(a[1].types[i].id, a[2]) : types[e].layout = a[1].types[i].layout
      BY DEF TypesInv, AcceptedInv, find_type, At1
    <3>2. ASSUME NEW e \in 1..Len(types)
          PROVE  \E a \in accepted :
                     a[2] = types[e].version /\ \E i \in 1..Len(a[1].types) : a[1].types[i].id = types[e].id
      BY DEF TypesInv, AcceptedInv
    <3> QED BY <3>1, <3>2 DEF RegistrationAtomic
  <2>2. ReferencesResolve
    <3>1. \A e \in 1..Len(types) : \A id \in types[e].fields : find_by_id(id) # {}
      BY ListedIsFound DEF TypesInv, AcceptedInv
    <3>2. \A a \in accepted : \A id \in a[1].uses : find_by_id(id) # {}
      BY ListedIsFound DEF TypesInv, AcceptedInv
    <3> QED BY <3>1, <3>2 DEF ReferencesResolve, TypesInv, EntriesInv
  <2>3. BootstrapRegistered
    BY DEF TypesInv, KernelInv, KernelGood, Listed, BootstrapRegistered, BootRecords, At1
  <2> QED BY <2>1, <2>2, <2>3, InvCanonical DEF TypesSound
<1> QED BY <1>1, <1>2, <1>3, PTL DEF TypesSpec

-----------------------------------------------------------------------------
(***************************************************************************)
(* Mapping plans.                                                          *)
(***************************************************************************)
\* A checked range lies inside its object.
LEMMA RangeInside ==
    ASSUME NEW l \in PlanLayouts, NEW index, NEW bytes \in Nat, valid_range(index, l, bytes)
    PROVE  \A b \in Extent(l, index, bytes) : b < l.size
<1>1. l.size \in Nat /\ l.offsets \in Seq(Nat)
  BY PlansAssumption
<1>2. l.offsets[index] \in Nat /\ bytes <= l.size /\ l.offsets[index] <= l.size - bytes
  BY <1>1 DEF valid_range, valid_field
<1> QED BY <1>1, <1>2 DEF Extent

LEMMA FieldInside ==
    ASSUME NEW l \in PlanLayouts, NEW index, valid_field(index, l)
    PROVE  \A b \in Extent(l, index, 1) : b < l.size
<1>1. l.size \in Nat /\ l.offsets \in Seq(Nat)
  BY PlansAssumption
<1>2. l.offsets[index] \in Nat /\ l.offsets[index] < l.size
  BY <1>1 DEF valid_field
<1> QED BY <1>1, <1>2 DEF Extent

\* The operation that comes next.
LEMMA NextOp ==
    ASSUME MapTypes, status = "running"
    PROVE  /\ at + 1 \in 1..Len(plan.ops) /\ Operation.bytes \in Nat
           /\ plan.source \in PlanLayouts /\ plan.target \in PlanLayouts
<1>1. plan.ops \in Seq([opcode : Opcodes, source : Nat, target : Nat, bytes : Nat]) /\ at \in Nat /\ at < Len(plan.ops)
  BY DEF MapTypes
<1>2. at + 1 \in 1..Len(plan.ops)
  BY <1>1
<1>3. Operation \in [opcode : Opcodes, source : Nat, target : Nat, bytes : Nat]
  <2> DEFINE R == [opcode : Opcodes, source : Nat, target : Nat, bytes : Nat]
  <2>1. plan.ops \in Seq(R)
    BY <1>1
  <2> HIDE DEF R
  <2>2. plan.ops[at + 1] \in R
    BY <1>2, <2>1
  <2> QED BY <2>2 DEF R, Operation
<1>4. plan.source \in PlanLayouts /\ plan.target \in PlanLayouts
  BY DEF MapTypes
<1> QED BY <1>2, <1>3, <1>4

\* An operation that is done adds what it sets.
LEMMA OperationDone ==
    ASSUME MapInv, status = "running", NextOperation,
           wroteBytes' = wroteBytes \union SetBy(at + 1),
           \A b \in SetBy(at + 1) : b < plan.target.size,
           \A b \in readBytes' : b < plan.source.size
    PROVE  MapInv'
<1>1. /\ plan' = plan /\ at' = at + 1 /\ at \in Nat /\ at + 1 \in 1..Len(plan.ops) /\ Len(plan.ops) \in Nat
      /\ status' = IF at + 1 = Len(plan.ops) THEN "ok" ELSE "running"
  BY NextOp DEF MapInv, NextOperation, MapTypes
<1>2. MapTypes'
  BY <1>1 DEF MapInv, MapTypes
<1>3. MapStaysInside'
  BY <1>1 DEF MapInv, MapSound, MapStaysInside
<1>4. OkMeansApplied'
  <2>1. \A n \in 1..at' : SetBy(n)' = SetBy(n)
    BY <1>1 DEF SetBy
  <2>2. wroteBytes = UNION {SetBy(n) : n \in 1..at}
    BY DEF MapInv, MapSound, OkMeansApplied
  <2>3. 1..at' = (1..at) \union {at + 1}
    BY <1>1
  <2> DEFINE before == UNION {SetBy(n) : n \in 1..at}
             after == UNION {SetBy(n) : n \in 1..at'}
  <2>4. wroteBytes' = after
    <3>1. \A x : x \in after <=> \E n \in 1..at' : x \in SetBy(n)
      OBVIOUS
    <3>2. \A x : x \in before <=> \E n \in 1..at : x \in SetBy(n)
      OBVIOUS
    <3>3. wroteBytes' = before \union SetBy(at + 1)
      BY <2>2
    <3> HIDE DEF before, after
    <3>4. \A x : x \in after <=> x \in before \union SetBy(at + 1)
      BY <2>3, <3>1, <3>2
    <3>5. after = before \union SetBy(at + 1)
      BY <3>4
    <3> QED BY <3>3, <3>5
  <2>5. UNION {SetBy(n)' : n \in 1..at'} = UNION {SetBy(n) : n \in 1..at'}
    BY <2>1
  <2> QED BY <1>1, <2>4, <2>5 DEF OkMeansApplied
<1> QED BY <1>2, <1>3, <1>4 DEF MapInv, MapSound

LEMMA OperationFails ==
    ASSUME MapInv, status = "running", NEW why \in {"invalid_operation", "conversion_failed"}, FailPlan(why)
    PROVE  MapInv'
<1>1. /\ plan' = plan /\ at' = at /\ readBytes' = readBytes /\ wroteBytes' = wroteBytes
      /\ status' = why /\ why \notin {"idle", "running", "ok"}
  BY DEF FailPlan
<1>2. MapTypes'
  BY <1>1 DEF MapInv, MapTypes
<1>3. MapStaysInside'
  BY <1>1 DEF MapInv, MapSound, MapStaysInside
<1>4. OkMeansApplied'
  BY <1>1 DEF MapInv, MapSound, OkMeansApplied, SetBy
<1> QED BY <1>2, <1>3, <1>4 DEF MapInv, MapSound

LEMMA PlanStarts ==
    ASSUME MapInv, StartPlan
    PROVE  MapInv'
<1>1. at = 0 /\ readBytes = {}
  BY DEF StartPlan, MapInv, MapTypes
<1>2. wroteBytes = {}
  BY <1>1 DEF MapInv, MapSound, OkMeansApplied
<1>3. /\ at' = at /\ readBytes' = readBytes /\ wroteBytes' = wroteBytes
      /\ plan' \in [ops : Plans, source : PlanLayouts, target : PlanLayouts, converter : BOOLEAN]
  BY DEF StartPlan
<1>4. plan'.ops \in Seq([opcode : Opcodes, source : Nat, target : Nat, bytes : Nat])
  BY <1>3, PlansAssumption
<1>5. /\ status' = "ok" => Len(plan'.ops) = 0
      /\ status' = "running" => plan'.ops # <<>>
      /\ status' # "idle"
  <2>1. <<>> \in Seq([opcode : Opcodes, source : Nat, target : Nat, bytes : Nat]) /\ Len(<<>>) = 0
    OBVIOUS
  <2> QED BY <2>1 DEF StartPlan
<1>6. MapTypes'
  <2>1. status' = "running" => 0 < Len(plan'.ops)
    BY <1>4, <1>5
  <2>2. plan' \in [ops : Plans \union {<<>>}, source : PlanLayouts, target : PlanLayouts, converter : BOOLEAN]
    BY <1>3
  <2> QED BY <1>1, <1>3, <1>4, <1>5, <2>1, <2>2 DEF MapTypes
<1>7. MapStaysInside'
  BY <1>1, <1>2, <1>3 DEF MapStaysInside
<1>8. OkMeansApplied'
  BY <1>1, <1>2, <1>3, <1>5 DEF OkMeansApplied
<1> QED BY <1>6, <1>7, <1>8 DEF MapInv, MapSound

LEMMA MapInitInv == MapInit => MapInv
<1> SUFFICES ASSUME MapInit PROVE MapInv
  OBVIOUS
<1>1. /\ plan.ops = <<>> /\ at = 0 /\ status = "idle" /\ readBytes = {} /\ wroteBytes = {}
      /\ plan = [ops |-> <<>>, source |-> plan.source, target |-> plan.target, converter |-> FALSE]
      /\ plan.source \in PlanLayouts /\ plan.target \in PlanLayouts
  BY PlansAssumption DEF MapInit
<1>2. <<>> \in Seq([opcode : Opcodes, source : Nat, target : Nat, bytes : Nat])
  OBVIOUS
<1>3. plan \in [ops : Plans \union {<<>>}, source : PlanLayouts, target : PlanLayouts, converter : BOOLEAN]
  <2>1. [ops |-> <<>>, source |-> plan.source, target |-> plan.target, converter |-> FALSE]
            \in [ops : Plans \union {<<>>}, source : PlanLayouts, target : PlanLayouts, converter : BOOLEAN]
    BY <1>1
  <2> QED BY <1>1, <2>1
<1>4. MapTypes
  BY <1>1, <1>2, <1>3 DEF MapTypes
<1>5. MapSound
  BY <1>1 DEF MapSound, MapStaysInside, OkMeansApplied
<1> QED BY <1>4, <1>5 DEF MapInv

LEMMA MapStep ==
    ASSUME MapInv, [MapNext]_mapVars
    PROVE  MapInv'
<1>0. MapTypes /\ (\A b \in readBytes : b < plan.source.size)
  BY DEF MapInv, MapSound, MapStaysInside
<1>1. CASE StartPlan
  BY <1>1, PlanStarts
<1>2. CASE CopyField
  <2> DEFINE from == Extent(plan.source, Operation.source, Operation.bytes)
             to == Extent(plan.target, Operation.target, Operation.bytes)
  <2>1. status = "running" /\ SetBy(at + 1) = to
    BY <1>2 DEF CopyField, SetBy, Operation
  <2>2. CASE FailPlan("invalid_operation")
    BY <2>1, <2>2, OperationFails
  <2>3. CASE ~FailPlan("invalid_operation")
    <3>1. /\ valid_range(Operation.source, plan.source, Operation.bytes)
          /\ valid_range(Operation.target, plan.target, Operation.bytes)
          /\ readBytes' = readBytes \union from /\ wroteBytes' = wroteBytes \union to /\ NextOperation
      BY <1>2, <2>3 DEF CopyField
    <3>2. (\A b \in from : b < plan.source.size) /\ (\A b \in to : b < plan.target.size)
      BY <1>0, <2>1, <3>1, NextOp, RangeInside
    <3> HIDE DEF from, to
    <3> QED BY <1>0, <2>1, <3>1, <3>2, OperationDone
  <2> QED BY <2>2, <2>3
<1>3. CASE DefaultField
  <2> DEFINE to == Extent(plan.target, Operation.target, Operation.bytes)
  <2>1. status = "running" /\ SetBy(at + 1) = to
    BY <1>3 DEF DefaultField, SetBy, Operation
  <2>2. CASE FailPlan("invalid_operation")
    BY <2>1, <2>2, OperationFails
  <2>3. CASE ~FailPlan("invalid_operation")
    <3>1. /\ valid_range(Operation.target, plan.target, Operation.bytes)
          /\ readBytes' = readBytes /\ wroteBytes' = wroteBytes \union to /\ NextOperation
      BY <1>3, <2>3 DEF DefaultField
    <3>2. \A b \in to : b < plan.target.size
      BY <1>0, <2>1, <3>1, NextOp, RangeInside
    <3> HIDE DEF to
    <3> QED BY <1>0, <2>1, <3>1, <3>2, OperationDone
  <2> QED BY <2>2, <2>3
<1>4. CASE SkipField
  <2>1. status = "running" /\ SetBy(at + 1) = {}
    BY <1>4 DEF SkipField, SetBy, Operation
  <2>2. CASE FailPlan("invalid_operation")
    BY <2>1, <2>2, OperationFails
  <2>3. CASE ~FailPlan("invalid_operation")
    <3>1. readBytes' = readBytes /\ wroteBytes' = wroteBytes \union {} /\ NextOperation
      BY <1>4, <2>3 DEF SkipField
    <3> QED BY <1>0, <2>1, <3>1, OperationDone
  <2> QED BY <2>2, <2>3
<1>5. CASE ConvertField
  <2> DEFINE from == Extent(plan.source, Operation.source, 1)
             to == Extent(plan.target, Operation.target, 1)
  <2>1. status = "running" /\ SetBy(at + 1) = to
    BY <1>5 DEF ConvertField, SetBy, Operation
  <2>2. CASE FailPlan("invalid_operation") \/ FailPlan("conversion_failed")
    BY <2>1, <2>2, OperationFails
  <2>3. CASE ~(FailPlan("invalid_operation") \/ FailPlan("conversion_failed"))
    <3>1. /\ valid_field(Operation.source, plan.source) /\ valid_field(Operation.target, plan.target)
          /\ readBytes' = readBytes \union from /\ wroteBytes' = wroteBytes \union to /\ NextOperation
      BY <1>5, <2>3 DEF ConvertField
    <3>2. (\A b \in from : b < plan.source.size) /\ (\A b \in to : b < plan.target.size)
      BY <1>0, <2>1, <3>1, NextOp, FieldInside
    <3> HIDE DEF from, to
    <3> QED BY <1>0, <2>1, <3>1, <3>2, OperationDone
  <2> QED BY <2>2, <2>3
<1>6. CASE UnknownField
  BY <1>6, OperationFails DEF UnknownField
<1>7. CASE UNCHANGED mapVars
  BY <1>7 DEF mapVars, MapInv, MapTypes, MapSound, MapStaysInside, OkMeansApplied, SetBy
<1> QED BY <1>1, <1>2, <1>3, <1>4, <1>5, <1>6, <1>7 DEF MapNext

\* For every plan over every pair of layouts: no operation touches a byte outside the two
\* objects, ok means that the whole plan was applied, and a failure that exactly the
\* operations before it were.
THEOREM PlansAreSound == MapSpec => []MapSound
<1>1. MapInv => MapSound
  BY DEF MapInv
<1> QED BY MapInitInv, MapStep, <1>1, PTL DEF MapSpec
-----------------------------------------------------------------------------
(***************************************************************************)
(* The readers of binary containers.                                       *)
(***************************************************************************)
\* The ranges inside a file of this size, and a list of stages that touches only ranges
\* of a set: a stage may rely on the tests of the stages before it.
InFile(size) == {r \in Int \X Int : r[2] > 0 => r[1] >= 0 /\ r[1] + r[2] <= size}
Bounded(stages, R) ==
    \A i \in 1..Len(stages) :
        (\A k \in 1..(i - 1) : stages[k].holds) => \A r \in stages[i].bytes : r \in R

LEMMA BoundedTouches ==
    ASSUME NEW stages, NEW R, Bounded(stages, R)
    PROVE  Touches(stages) \subseteq R
  BY DEF Bounded, Touches

\* The bounds of a list of stages, by those of its parts.
LEMMA BoundedAppend ==
    ASSUME NEW A, NEW s \in Seq(A), NEW t \in Seq(A), NEW R,
           Bounded(s, R), Parses(s) => Bounded(t, R)
    PROVE  Bounded(s \o t, R)
<1> DEFINE n == Len(s)
           m == Len(t)
           u == s \o t
<1>1. /\ n \in Nat /\ m \in Nat /\ u \in Seq(A) /\ Len(u) = n + m
      /\ \A i \in 1..n : u[i] = s[i]
      /\ \A i \in (n + 1)..(n + m) : u[i] = t[i - n]
  BY ConcatProperties
<1> HIDE DEF u, n, m
<1>2. ASSUME NEW i \in 1..Len(u), \A k \in 1..(i - 1) : u[k].holds, NEW r \in u[i].bytes
      PROVE  r \in R
  <2>1. CASE i \in 1..n
    <3>1. u[i] = s[i] /\ \A k \in 1..(i - 1) : s[k].holds
      BY <1>1, <1>2, <2>1
    <3> QED BY <1>2, <2>1, <3>1 DEF Bounded, n
  <2>2. CASE i \in (n + 1)..(n + m)
    <3>1. \A k \in 1..n : k \in 1..(i - 1) /\ u[k] = s[k]
      BY <1>1, <2>2
    <3>2. Parses(s)
      BY <1>2, <3>1 DEF Parses, n
    <3>3. i - n \in 1..m /\ u[i] = t[i - n]
      BY <1>1, <2>2
    <3>4. ASSUME NEW k \in 1..((i - n) - 1)
          PROVE  t[k].holds
      <4>1. n + k \in 1..(i - 1) /\ n + k \in (n + 1)..(n + m) /\ (n + k) - n = k
        BY <1>1, <2>2
      <4> QED BY <1>1, <1>2, <4>1
    <3> QED BY <1>2, <3>2, <3>3, <3>4 DEF Bounded, m
  <2> QED BY <1>1, <2>1, <2>2
<1> QED BY <1>2 DEF Bounded, u

\* The loop over the parts: what holds of nothing and is kept by each part holds of all.
LEMMA ConcatLoop ==
    ASSUME NEW A, NEW ss, Len(ss) \in Nat, \A k \in 1..Len(ss) : ss[k] \in Seq(A)
    PROVE  \E g : /\ g \in [0..Len(ss) -> Seq(A)] /\ g[0] = <<>> /\ Concat(ss) = g[Len(ss)]
                  /\ \A k \in 1..Len(ss) : g[k] = g[k - 1] \o ss[k]
<1> DEFINE n == Len(ss)
           step == [x \in Seq(A) \X (1..n) |-> x[1] \o ss[x[2]]]
           Upto(g) == g = [k \in 0..n |-> IF k = 0 THEN <<>> ELSE g[k - 1] \o ss[k]]
<1>1. <<>> \in Seq(A)
  OBVIOUS
<1>2. step \in [Seq(A) \X (1..n) -> Seq(A)]
  <2>1. ASSUME NEW x \in Seq(A) \X (1..n)
        PROVE  x[1] \o ss[x[2]] \in Seq(A)
    <3>1. x[1] \in Seq(A) /\ ss[x[2]] \in Seq(A)
      OBVIOUS
    <3> QED BY <3>1, ConcatProperties
  <2> QED BY <2>1
<1>3. \A y \in Seq(A), k \in 1..n : step[<<y, k>>] = y \o ss[k]
  OBVIOUS
<1> HIDE DEF step
<1>4. PICK g : Loop(g, Seq(A), <<>>, n, step)
  BY <1>1, <1>2, LoopExists
<1>5. /\ g \in [0..n -> Seq(A)] /\ g[0] = <<>>
      /\ \A k \in 1..n : g[k] = g[k - 1] \o ss[k]
  <2>1. /\ g \in [0..n -> Seq(A)] /\ g[0] = <<>>
        /\ \A k \in 1..n : g[k] = step[<<g[k - 1], k>>]
    BY <1>4 DEF Loop
  <2>2. \A k \in 1..n : k - 1 \in 0..n
    OBVIOUS
  <2> QED BY <1>3, <2>1, <2>2
<1>6. Upto(g)
  <2>1. \A k \in 0..n : k # 0 => k \in 1..n
    OBVIOUS
  <2>2. \A k \in 0..n : g[k] = IF k = 0 THEN <<>> ELSE g[k - 1] \o ss[k]
    BY <1>5, <2>1
  <2>3. g = [k \in 0..n |-> g[k]]
    BY <1>5
  <2> QED BY <2>2, <2>3
<1>7. ASSUME NEW h, Upto(h)
      PROVE  h[n] = g[n]
  <2> DEFINE P == {k \in Nat : k <= n => h[k] = g[k]}
  <2>0. \A k \in 0..n : h[k] = IF k = 0 THEN <<>> ELSE h[k - 1] \o ss[k]
    BY <1>7
  <2>1. 0 \in P
    BY <1>5, <2>0
  <2>2. ASSUME NEW k \in Nat, k \in P
        PROVE  k + 1 \in P
    <3> SUFFICES ASSUME k + 1 <= n
                 PROVE  h[k + 1] = g[k + 1]
      OBVIOUS
    <3>1. k + 1 \in 1..n /\ k + 1 \in 0..n /\ k + 1 # 0 /\ (k + 1) - 1 = k /\ k <= n
      OBVIOUS
    <3>2. h[k] = g[k]
      BY <2>2, <3>1
    <3>3. h[k + 1] = h[k] \o ss[k + 1]
      BY <2>0, <3>1
    <3>4. g[k + 1] = g[k] \o ss[k + 1]
      BY <1>5, <3>1
    <3> QED BY <3>2, <3>3, <3>4
  <2> HIDE DEF P
  <2>3. n \in P
    <3>1. Nat \subseteq P
      BY <2>1, <2>2, NumbersByInduction
    <3> QED BY <3>1
  <2> QED BY <2>3 DEF P
<1>8. Concat(ss) = g[n]
  <2> DEFINE u == CHOOSE h : Upto(h)
  <2>1. Concat(ss) = u[n]
    BY DEF Concat
  <2>2. Upto(u)
    BY <1>6
  <2> HIDE DEF u
  <2> QED BY <1>7, <2>1, <2>2
<1> QED BY <1>5, <1>8

LEMMA ConcatBounded ==
    ASSUME NEW A, NEW ss, Len(ss) \in Nat, \A k \in 1..Len(ss) : ss[k] \in Seq(A), NEW R,
           \A k \in 1..Len(ss) : Bounded(ss[k], R)
    PROVE  Concat(ss) \in Seq(A) /\ Bounded(Concat(ss), R)
<1> DEFINE n == Len(ss)
<1>1. PICK g : /\ g \in [0..n -> Seq(A)] /\ g[0] = <<>> /\ Concat(ss) = g[n]
               /\ \A k \in 1..n : g[k] = g[k - 1] \o ss[k]
  BY ConcatLoop
<1> DEFINE P == {k \in Nat : k <= n => Bounded(g[k], R)}
<1>2. 0 \in P
  BY <1>1 DEF Bounded
<1>3. ASSUME NEW k \in Nat, k \in P
      PROVE  k + 1 \in P
  <2> SUFFICES ASSUME k + 1 <= n
               PROVE  Bounded(g[k + 1], R)
    OBVIOUS
  <2>1. k + 1 \in 1..n /\ (k + 1) - 1 = k /\ k <= n /\ k \in 0..n
    OBVIOUS
  <2>2. g[k + 1] = g[k] \o ss[k + 1]
    BY <1>1, <2>1
  <2>3. g[k] \in Seq(A) /\ ss[k + 1] \in Seq(A) /\ Bounded(ss[k + 1], R) /\ Bounded(g[k], R)
    BY <1>1, <1>3, <2>1
  <2> QED BY <2>2, <2>3, BoundedAppend
<1> HIDE DEF P
<1>4. n \in P
  <2>1. Nat \subseteq P
    BY <1>2, <1>3, NumbersByInduction
  <2> QED BY <2>1
<1> QED BY <1>1, <1>4 DEF P

LEMMA RangeInFile ==
    ASSUME NEW size \in Nat, NEW start \in Nat, NEW n \in Nat, start + n <= size
    PROVE  <<start, n>> \in InFile(size)
  BY DEF InFile

\* An element of an array that fits.
ElementAt(start, n, one) == start + (n - 1) * one
ArrayFits(start, m, one, size) ==
    start \in Nat /\ m \in Nat /\ size \in Nat /\ one \in {12, 16, 68, 80} /\ start + m * one <= size
LEMMA ElementFits ==
    ASSUME NEW size, NEW start, NEW m, NEW one, NEW n \in 1..m, ArrayFits(start, m, one, size)
    PROVE  ElementAt(start, n, one) \in Nat /\ ElementAt(start, n, one) + one <= size
<1> USE DEF ElementAt, ArrayFits
<1>1. n \in Nat /\ n >= 1 /\ n <= m
  OBVIOUS
<1>2. CASE one = 12
  BY <1>1, <1>2
<1>3. CASE one = 16
  BY <1>1, <1>3
<1>4. CASE one = 68
  BY <1>1, <1>4
<1>5. CASE one = 80
  BY <1>1, <1>5
<1> QED BY <1>2, <1>3, <1>4, <1>5

LEMMA NameInFile ==
    ASSUME NEW size \in Nat, NEW start \in Nat, NEW end \in Nat, end <= size
    PROVE  NameBytes(start, end) \subseteq InFile(size)
<1>1. CASE start < end
  <2>1. end - start \in Nat /\ start + (end - start) <= size
    BY <1>1
  <2>2. <<start, end - start>> \in InFile(size)
    BY <2>1, RangeInFile
  <2> QED BY <2>2, <1>1 DEF NameBytes, When
<1>2. CASE ~(start < end)
  BY <1>2 DEF NameBytes, When
<1> QED BY <1>1, <1>2

LEMMA InBounds ==
    ASSUME NEW size \in Nat, NEW offset \in Nat, NEW length \in Nat, in_bounds(offset, length, size)
    PROVE  offset + length <= size
  BY DEF in_bounds

\* A sum that fits its width, and one that does not.
LEMMA SmallRemainder ==
    ASSUME NEW b \in Nat \ {0}, NEW r \in 0..(b - 1)
    PROVE  r % b = r
  OBVIOUS
LEMMA SumWraps ==
    ASSUME NEW b \in Nat \ {0}, NEW r \in b..(2 * b - 1)
    PROVE  r % b = r - b
<1> DEFINE x == r - b
<1>1. x \in 0..(b - 1) /\ r = 1 * b + x
  OBVIOUS
<1> HIDE DEF x
<1>2. (1 * b + x) % b = x
  BY <1>1
<1> QED BY <1>1, <1>2 DEF x

-----------------------------------------------------------------------------
\* What a file is to the proofs below: it is shorter than half of what a size_t counts.
FileSize(size) == size \in Nat /\ Whole \in Nat \ {0} /\ 2 * size < Whole

\* ELF: an entry whose end passes the test lies in the table, or its place has gone
\* back past the start of the table, and then past that of the file or not.
EntryPlace(start, off) == (start + off) % Whole
EntryPasses(start, off, length, size) ==
    /\ start \in 0..(Whole - 1) /\ off \in 0..(Whole - 1) /\ length \in Nat
    /\ start + length <= size /\ 24 <= length /\ (off + 24) % Whole <= length
LEMMA EntryInFileOrBefore ==
    ASSUME NEW size, FileSize(size), NEW start, NEW off, NEW length, EntryPasses(start, off, length, size)
    PROVE  /\ EntryPlace(start, off) \in Nat
           /\ \/ EntryPlace(start, off) + 16 <= size
              \/ EntryPlace(start, off) >= Whole - 24
<1>1. PICK w \in Nat \ {0} : w = Whole
  BY DEF FileSize
<1>2. size \in Nat /\ 2 * size < w
  BY <1>1 DEF FileSize
<1>3. /\ start \in 0..(w - 1) /\ off \in 0..(w - 1) /\ length \in Nat
      /\ start + length <= size /\ 24 <= length /\ (off + 24) % w <= length
  BY <1>1 DEF EntryPasses
<1>4. start \in Nat /\ off \in Nat /\ start < w /\ off < w
  BY <1>3
<1>5. CASE off + 24 < w
  <2>1. (off + 24) % w = off + 24
    BY <1>4, <1>5, SmallRemainder
  <2>2. off + 24 <= length
    BY <1>3, <2>1
  <2>3. start + off \in 0..(w - 1) /\ (start + off) + 16 <= size
    BY <1>2, <1>3, <1>4, <2>2
  <2>4. (start + off) % w = start + off
    BY <2>3, SmallRemainder
  <2> QED BY <1>1, <2>3, <2>4 DEF EntryPlace
<1>6. CASE ~(off + 24 < w) /\ start + off < w
  <2>1. start + off \in 0..(w - 1) /\ start + off >= w - 24
    BY <1>4, <1>6
  <2>2. (start + off) % w = start + off
    BY <2>1, SmallRemainder
  <2> QED BY <1>1, <2>1, <2>2 DEF EntryPlace
<1>7. CASE ~(off + 24 < w) /\ ~(start + off < w)
  <2>1. start + off \in w..(2 * w - 1)
    BY <1>4, <1>7
  <2>2. (start + off) % w = (start + off) - w
    BY <2>1, SumWraps
  <2>3. (start + off) - w \in Nat /\ ((start + off) - w) + 16 <= size
    BY <1>2, <1>3, <1>4, <1>7
  <2> QED BY <1>1, <2>2, <2>3 DEF EntryPlace
<1> QED BY <1>5, <1>6, <1>7

\* ELF: what a section header may say of its contents, and of its symbols.
BackEntries(h) == {r \in ElfEntryBytes(h) : r[1] >= Whole - 24}
LEMMA ElfSymbolsInFile ==
    ASSUME NEW f, FileSize(f.size), IsElf(f), NEW i \in 0..(f.shnum - 1),
           f.shoff + 64 * f.shnum <= f.size
    PROVE  ElfSymbolBytes(f, i) \subseteq InFile(f.size) \union BackEntries(f.headers[i])
<1> DEFINE h == f.headers[i]
           g == f.headers[h.link]
           place == ElfHeader(f, i)
           fs == ElfFileSize(h)
<1>1. /\ f.size \in Nat /\ Whole \in Nat \ {0}
      /\ f.shoff \in Nat /\ f.shnum \in Nat /\ f.symbol.strx \in Nat /\ i \in Nat
  BY DEF IsElf, FileSize
<1>2. /\ h.offset \in 0..(Whole - 1) /\ h.size \in Nat /\ h.link \in Nat /\ h.entsize \in Nat
      /\ fs \in Nat /\ h.offset \in Nat
  <2>1. h.offset \in 0..(Whole - 1) /\ h.size \in 0..(Whole - 1) /\ h.link \in Nat /\ h.entsize \in 0..(Whole - 1)
    BY DEF IsElf
  <2> HIDE DEF h
  <2> QED BY <1>1, <2>1 DEF ElfFileSize
<1>3. h.link < f.shnum => g.offset \in Nat /\ g.size \in Nat
  <2>1. h.link < f.shnum => h.link \in 0..(f.shnum - 1)
    BY <1>1, <1>2
  <2> HIDE DEF h
  <2> QED BY <2>1 DEF IsElf
<1>4. {<<place + 40, 4>>, <<place + 56, 8>>} \subseteq InFile(f.size)
  <2>1. place \in Nat /\ place + 64 <= f.size
    BY <1>1 DEF ElfHeader
  <2> HIDE DEF place
  <2>2. place + 40 \in Nat /\ place + 56 \in Nat /\ (place + 40) + 4 <= f.size /\ (place + 56) + 8 <= f.size
    BY <1>1, <2>1
  <2> QED BY <1>1, <2>2, RangeInFile
<1>5. h.link < f.shnum => <<ElfHeader(f, h.link) + 24, 16>> \in InFile(f.size)
  <2> HIDE DEF h
  <2> SUFFICES ASSUME h.link < f.shnum
               PROVE  <<ElfHeader(f, h.link) + 24, 16>> \in InFile(f.size)
    OBVIOUS
  <2>1. ElfHeader(f, h.link) + 24 \in Nat /\ (ElfHeader(f, h.link) + 24) + 16 <= f.size
    BY <1>1, <1>2 DEF ElfHeader
  <2> QED BY <1>1, <2>1, RangeInFile
<1>6. ASSUME ElfReadsSymbols(f, h), NEW r \in ElfEntryBytes(h)
      PROVE  r \in InFile(f.size) \union BackEntries(h)
  <2> DEFINE e == IF h.entsize = 0 THEN 24 ELSE h.entsize
  <2>1. e \in Nat
    BY <1>2
  <2>2. \A n \in Nat : ElfOffset(h, n) = (n * e) % Whole
    BY DEF ElfOffset
  <2>3. PICK n \in 0..(fs + 24) : /\ r = <<(h.offset + ElfOffset(h, n)) % Whole, 16>>
                                  /\ \A m \in 0..n : ElfInTable(h, ElfOffset(h, m))
    BY DEF ElfEntryBytes, ElfEntries
  <2>4. h.offset + fs <= f.size
    BY <1>1, <1>2, <1>6, InBounds DEF ElfReadsSymbols
  <2>5. n \in Nat /\ n \in 0..n /\ 0 \in 0..n
    BY <1>2, <2>3
  <2> DEFINE off == ElfOffset(h, n)
  <2>6. (off + 24) % Whole <= fs /\ (ElfOffset(h, 0) + 24) % Whole <= fs
    BY <2>3, <2>5 DEF ElfInTable
  <2> HIDE DEF e, h, fs
  <2>7. off \in 0..(Whole - 1)
    <3>1. PICK c \in Nat : c = n * e
      BY <2>1, <2>5
    <3>2. c % Whole \in 0..(Whole - 1)
      BY <1>1
    <3> QED BY <2>2, <2>5, <3>1, <3>2
  <2>8. 24 <= fs
    <3>1. ElfOffset(h, 0) = 0
      BY <1>1, <2>1, <2>2, SmallRemainder
    <3>2. 24 \in 0..(Whole - 1)
      BY <1>1 DEF FileSize
    <3>3. 24 % Whole = 24
      BY <1>1, <3>2, SmallRemainder
    <3> QED BY <2>6, <3>1, <3>3
  <2> HIDE DEF off
  <2>9. EntryPasses(h.offset, off, fs, f.size)
    BY <1>2, <2>4, <2>6, <2>7, <2>8 DEF EntryPasses
  <2>10. /\ EntryPlace(h.offset, off) \in Nat
         /\ EntryPlace(h.offset, off) + 16 <= f.size \/ EntryPlace(h.offset, off) >= Whole - 24
    BY <2>9, EntryInFileOrBefore
  <2>11. r = <<EntryPlace(h.offset, off), 16>>
    BY <2>3 DEF EntryPlace, off
  <2>12. CASE EntryPlace(h.offset, off) + 16 <= f.size
    BY <1>1, <2>10, <2>11, <2>12, RangeInFile
  <2>13. CASE EntryPlace(h.offset, off) >= Whole - 24
    BY <1>6, <2>11, <2>13 DEF BackEntries
  <2> QED BY <2>10, <2>12, <2>13
<1>7. ElfReadsSymbols(f, h) =>
          NameBytes(g.offset + f.symbol.strx, g.offset + g.size) \subseteq InFile(f.size)
  <2> SUFFICES ASSUME ElfReadsSymbols(f, h)
               PROVE  NameBytes(g.offset + f.symbol.strx, g.offset + g.size) \subseteq InFile(f.size)
    OBVIOUS
  <2>1. h.link < f.shnum /\ in_bounds(g.offset, g.size, f.size)
    BY DEF ElfReadsSymbols
  <2> HIDE DEF h, g
  <2>2. /\ g.offset + f.symbol.strx \in Nat /\ g.offset + g.size \in Nat
        /\ g.offset + g.size <= f.size
    BY <1>1, <1>3, <2>1, InBounds
  <2> QED BY <1>1, <2>2, NameInFile
<1> DEFINE head == {<<place + 40, 4>>, <<place + 56, 8>>}
           link == <<ElfHeader(f, h.link) + 24, 16>>
           entries == ElfEntryBytes(h)
           name == NameBytes(g.offset + f.symbol.strx, g.offset + g.size)
           reads == ElfReadsSymbols(f, h)
           linked == h.link < f.shnum /\ in_bounds(h.offset, ElfFileSize(h), f.size)
           named == f.symbol.exported /\ ElfEntries(h) # {}
<1>8. ElfSymbolBytes(f, i) = head \union When(linked, {link})
                             \union When(reads, entries \union When(named, name))
  BY DEF ElfSymbolBytes
<1>9. reads => entries \subseteq InFile(f.size) \union BackEntries(h)
  BY <1>6
<1>10. linked => h.link < f.shnum
  OBVIOUS
<1> HIDE DEF head, link, entries, name, reads, linked, named, h, g, place, fs
<1>11. head \subseteq InFile(f.size) /\ (linked => link \in InFile(f.size)) /\ (reads => name \subseteq InFile(f.size))
  BY <1>4, <1>5, <1>7, <1>10 DEF head, link, name, reads
<1>12. ElfSymbolBytes(f, i) \subseteq InFile(f.size) \union BackEntries(h)
  BY <1>8, <1>9, <1>11 DEF When
<1> QED BY <1>12 DEF h

\* ELF: every stage of the reader is covered by the tests before it.
LEMMA ElfBounded ==
    ASSUME NEW f, f.format = "elf", FileSize(f.size), IsElf(f)
    PROVE  Bounded(parse_elf(f), InFile(f.size) \union EarlyEntries(f))
<1> DEFINE R == InFile(f.size) \union EarlyEntries(f)
           z == f.size
           x == f.shstrndx
           names == ElfNames(f)
           c8 == in_bounds(f.shoff, f.shentsize * f.shnum, f.size)
           c10 == in_bounds(ElfNames(f).offset, ElfNames(f).size, f.size)
           b10 == {<<ElfHeader(f, f.shstrndx) + 24, 16>>}
           headers == {<<ElfHeader(f, i), 56>> : i \in ElfIndexes(f)}
           strings == UNION {NameBytes(ElfNames(f).offset + f.headers[i].strx,
                                       ElfNames(f).offset + ElfNames(f).size) : i \in ElfIndexes(f)}
           symbols == UNION {ElfSymbolBytes(f, i) : i \in ElfDynsym(f)}
           b11 == {<<7, 1>>, <<18, 2>>} \union headers \union strings \union symbols
           st == <<Stage(When(z >= 4, {<<0, 4>>}), z >= 4),
                   Stage({}, z >= 16),
                   Stage({<<4, 1>>}, f.class = 2),
                   Stage({<<5, 1>>}, f.endian = 1),
                   Stage({}, z >= 64),
                   Stage({<<40, 8>>, <<58, 6>>}, f.shentsize = 64),
                   Stage({}, f.shnum # 0),
                   Stage({}, c8),
                   Stage({}, x < f.shnum),
                   Stage(b10, c10),
                   Stage(b11, TRUE)>>
<1>1. parse_elf(f) = st
  BY DEF parse_elf
<1>2. /\ z \in Nat /\ f.shoff \in Nat /\ f.shnum \in Nat /\ x \in Nat /\ f.shentsize \in Nat
      /\ \A i \in 0..(f.shnum - 1) : f.headers[i].strx \in Nat /\ f.headers[i].offset \in Nat /\ f.headers[i].size \in Nat
  BY DEF IsElf, FileSize
<1>3. x < f.shnum => names.offset \in Nat /\ names.size \in Nat
  BY <1>2 DEF ElfNames
<1>4. f.shentsize = 64 /\ c8 => f.shoff + 64 * f.shnum <= z
  <2> SUFFICES ASSUME f.shentsize = 64, c8 PROVE f.shoff + 64 * f.shnum <= z
    OBVIOUS
  <2>1. 64 * f.shnum \in Nat /\ in_bounds(f.shoff, 64 * f.shnum, z)
    BY <1>2
  <2> QED BY <1>2, <2>1, InBounds
<1> HIDE DEF c8
<1>5. f.shentsize = 64 /\ c8 /\ x < f.shnum => b10 \subseteq R
  <2> SUFFICES ASSUME f.shentsize = 64, c8, x < f.shnum
               PROVE  <<ElfHeader(f, x) + 24, 16>> \in R
    OBVIOUS
  <2>1. ElfHeader(f, x) + 24 \in Nat /\ (ElfHeader(f, x) + 24) + 16 <= z
    BY <1>2, <1>4 DEF ElfHeader
  <2> QED BY <1>2, <2>1, RangeInFile
<1>6. z >= 64 => (<<7, 1>> \in R /\ <<18, 2>> \in R)
  <2>1. z >= 64 => 7 + 1 <= z /\ 18 + 2 <= z
    BY <1>2
  <2> QED BY <1>2, <2>1, RangeInFile
<1>7. f.shentsize = 64 /\ c8 => headers \subseteq R
  <2> SUFFICES ASSUME f.shentsize = 64, c8, NEW i \in ElfIndexes(f)
               PROVE  <<ElfHeader(f, i), 56>> \in R
    OBVIOUS
  <2>1. ElfHeader(f, i) \in Nat /\ ElfHeader(f, i) + 56 <= z
    BY <1>2, <1>4 DEF ElfHeader, ElfIndexes
  <2> QED BY <1>2, <2>1, RangeInFile
<1>8. x < f.shnum /\ c10 => strings \subseteq R
  <2> SUFFICES ASSUME x < f.shnum, c10, NEW i \in ElfIndexes(f)
               PROVE  NameBytes(names.offset + f.headers[i].strx, names.offset + names.size) \subseteq R
    OBVIOUS
  <2>1. names.offset + names.size <= z
    BY <1>2, <1>3, InBounds
  <2>2. f.headers[i].strx \in Nat
    BY <1>2 DEF ElfIndexes
  <2> HIDE DEF names
  <2>3. names.offset + f.headers[i].strx \in Nat /\ names.offset + names.size \in Nat
    BY <1>3, <2>2
  <2> QED BY <1>2, <2>1, <2>3, NameInFile
<1>9. f.shentsize = 64 /\ c8 => symbols \subseteq R
  <2> SUFFICES ASSUME f.shentsize = 64, c8, NEW i \in ElfDynsym(f)
               PROVE  ElfSymbolBytes(f, i) \subseteq R
    OBVIOUS
  <2>1. i \in 0..(f.shnum - 1)
    BY DEF ElfDynsym, ElfIndexes
  <2>2. ElfSymbolBytes(f, i) \subseteq InFile(z) \union BackEntries(f.headers[i])
    BY <1>2, <1>4, <2>1, ElfSymbolsInFile
  <2>3. BackEntries(f.headers[i]) \subseteq EarlyEntries(f)
    BY DEF BackEntries, EarlyEntries
  <2> QED BY <2>2, <2>3
<1> HIDE DEF c10, b10, headers, strings, symbols, R
<1>10. z >= 64 /\ f.shentsize = 64 /\ c8 /\ x < f.shnum /\ c10 => b11 \subseteq R
  BY <1>6, <1>7, <1>8, <1>9
<1>11. (z >= 4 => <<0, 4>> \in R) /\ (z >= 16 => <<4, 1>> \in R /\ <<5, 1>> \in R)
  BY <1>2, RangeInFile DEF R
<1>12. z >= 64 => <<40, 8>> \in R /\ <<58, 6>> \in R
  BY <1>2, RangeInFile DEF R
<1> HIDE DEF b11
<1> DEFINE P == st
<1>13. Len(P) = 11
  OBVIOUS
<1>14. /\ P[2].holds = (z >= 16) /\ P[5].holds = (z >= 64)
       /\ P[6].holds = (f.shentsize = 64) /\ P[8].holds = c8 /\ P[9].holds = (x < f.shnum) /\ P[10].holds = c10
  BY DEF Stage
<1>15. /\ P[1].bytes = When(z >= 4, {<<0, 4>>}) /\ P[2].bytes = {} /\ P[3].bytes = {<<4, 1>>}
       /\ P[4].bytes = {<<5, 1>>} /\ P[5].bytes = {} /\ P[6].bytes = {<<40, 8>>, <<58, 6>>}
       /\ P[7].bytes = {} /\ P[8].bytes = {} /\ P[9].bytes = {} /\ P[10].bytes = b10 /\ P[11].bytes = b11
  BY DEF Stage
<1> HIDE DEF P
<1>16. P[1].bytes \subseteq R
  BY <1>11, <1>15 DEF When
<1>17. ASSUME NEW i \in 1..11, \A k \in 1..(i - 1) : P[k].holds
       PROVE  P[i].bytes \subseteq R
  <2>1. CASE i = 1
    BY <1>16, <2>1
  <2>2. CASE i \in {2, 5, 7, 8, 9}
    BY <1>15, <2>2
  <2>3. CASE i = 3
    <3>1. P[2].holds
      BY <1>17, <2>3
    <3> QED BY <1>11, <1>14, <1>15, <2>3, <3>1
  <2>4. CASE i = 4
    <3>1. P[2].holds
      BY <1>17, <2>4
    <3> QED BY <1>11, <1>14, <1>15, <2>4, <3>1
  <2>5. CASE i = 6
    <3>1. P[5].holds
      BY <1>17, <2>5
    <3> QED BY <1>12, <1>14, <1>15, <2>5, <3>1
  <2>6. CASE i = 10
    <3>1. P[6].holds /\ P[8].holds /\ P[9].holds
      BY <1>17, <2>6
    <3> QED BY <1>5, <1>14, <1>15, <2>6, <3>1
  <2>7. CASE i = 11
    <3>1. P[5].holds /\ P[6].holds /\ P[8].holds /\ P[9].holds /\ P[10].holds
      BY <1>17, <2>7
    <3> QED BY <1>10, <1>14, <1>15, <2>7, <3>1
  <2> QED BY <2>1, <2>2, <2>3, <2>4, <2>5, <2>6, <2>7
<1>18. Bounded(P, R)
  BY <1>13, <1>17 DEF Bounded
<1> QED BY <1>1, <1>18 DEF P, R

-----------------------------------------------------------------------------
\* Mach-O: where a load command begins.
LEMMA MachoAtIsNat ==
    ASSUME NEW f, IsMacho(f), NEW k \in 1..Len(f.commands)
    PROVE  MachoAt(f, k) \in Nat
<1> DEFINE n == k - 1
           base == MachoHeader(f)
           step == [x \in Nat \X (1..n) |-> x[1] + f.commands[x[2]].cmdsize]
           Upto(g) == g = [i \in 0..n |-> IF i = 0 THEN base ELSE g[i - 1] + f.commands[i].cmdsize]
<1>1. n \in Nat /\ base \in Nat /\ \A i \in 1..n : f.commands[i].cmdsize \in Nat
  BY DEF MachoHeader, IsMacho
<1> HIDE DEF n, base
<1>2. step \in [Nat \X (1..n) -> Nat] /\ \A y \in Nat, i \in 1..n : step[<<y, i>>] = y + f.commands[i].cmdsize
  BY <1>1
<1> HIDE DEF step
<1>3. PICK g : Loop(g, Nat, base, n, step)
  BY <1>1, <1>2, LoopExists
<1>4. g \in [0..n -> Nat] /\ \A i \in 0..n : g[i] = IF i = 0 THEN base ELSE g[i - 1] + f.commands[i].cmdsize
  <2>1. /\ g \in [0..n -> Nat] /\ g[0] = base
        /\ \A i \in 1..n : g[i] = step[<<g[i - 1], i>>]
    BY <1>3 DEF Loop
  <2>2. \A i \in 1..n : i - 1 \in 0..n
    BY <1>1
  <2>3. \A i \in 1..n : g[i] = g[i - 1] + f.commands[i].cmdsize
    BY <1>2, <2>1, <2>2
  <2>4. \A i \in 0..n : i # 0 => i \in 1..n
    BY <1>1
  <2> QED BY <2>1, <2>3, <2>4
<1>5. Upto(g)
  <2>1. g = [i \in 0..n |-> g[i]]
    BY <1>4
  <2> QED BY <1>4, <2>1
<1> DEFINE u == CHOOSE h : Upto(h)
<1>6. MachoAt(f, k) = u[n]
  BY DEF MachoAt, n, base
<1>7. Upto(u)
  BY <1>5
<1> HIDE DEF u
<1> DEFINE P == {i \in Nat : i <= n => u[i] \in Nat}
<1>8. \A i \in 0..n : u[i] = IF i = 0 THEN base ELSE u[i - 1] + f.commands[i].cmdsize
  BY <1>7
<1>9. 0 \in P
  BY <1>1, <1>8
<1>10. ASSUME NEW i \in Nat, i \in P
       PROVE  i + 1 \in P
  <2> SUFFICES ASSUME i + 1 <= n
               PROVE  u[i + 1] \in Nat
    OBVIOUS
  <2>1. i <= n /\ i + 1 \in 0..n /\ i + 1 \in 1..n /\ i + 1 # 0 /\ (i + 1) - 1 = i
    BY <1>1
  <2>2. u[i + 1] = u[i] + f.commands[i + 1].cmdsize
    BY <1>8, <2>1
  <2> QED BY <1>1, <1>10, <2>1, <2>2
<1> HIDE DEF P
<1>11. n \in P
  <2>1. Nat \subseteq P
    BY <1>9, <1>10, NumbersByInduction
  <2> QED BY <1>1, <2>1
<1> QED BY <1>1, <1>6, <1>11 DEF P

\* A load command is read in five stages.
LEMMA FiveElements ==
    ASSUME NEW a1, NEW a2, NEW a3, NEW a4, NEW a5, NEW P, P = <<a1, a2, a3, a4, a5>>
    PROVE  Len(P) = 5 /\ P \in Seq({P[i] : i \in 1..5})
<1> DEFINE A == {P[i] : i \in 1..5}
<1>1. P[1] = a1 /\ P[2] = a2 /\ P[3] = a3 /\ P[4] = a4 /\ P[5] = a5
  OBVIOUS
<1>2. P[1] \in A /\ P[2] \in A /\ P[3] \in A /\ P[4] \in A /\ P[5] \in A
  OBVIOUS
<1> HIDE DEF A
<1>3. <<a1, a2, a3, a4, a5>> \in Seq(A) /\ Len(<<a1, a2, a3, a4, a5>>) = 5
  BY <1>1, <1>2
<1> QED BY <1>3 DEF A

LEMMA MachoCommandShape ==
    ASSUME NEW f, NEW k
    PROVE  /\ Len(MachoCommand(f, k)) = 5
           /\ MachoCommand(f, k) \in Seq({MachoCommand(f, k)[i] : i \in 1..5})
<1> DEFINE c == f.commands[k]
           place == MachoAt(f, k)
           start == place + SectionStart(f)
           seg == IsSegment(f, c)
           a1 == Stage({}, place + 8 <= MachoEnd(f))
           a2 == Stage({<<place, 8>>}, c.cmdsize >= 8 /\ place + c.cmdsize <= MachoEnd(f))
           a3 == Stage(When(c.cmd = "symtab" /\ c.cmdsize >= 24, {<<place + 8, 16>>})
                       \union When(seg, {<<place + 8, 16>>}),
                       seg => c.cmdsize >= SectionStart(f))
           a4 == Stage(When(seg, {<<place + 24, IF f.wide THEN 8 ELSE 4>>, <<start - 8, 4>>}),
                       seg => SectionStart(f) + Len(c.sections) * SectionSize(f) <= c.cmdsize)
           a5 == Stage(When(seg, {<<start + (s - 1) * SectionSize(f), SectionSize(f) - 8>> : s \in 1..Len(c.sections)}),
                       TRUE)
<1>1. MachoCommand(f, k) = <<a1, a2, a3, a4, a5>>
  BY DEF MachoCommand
<1> HIDE DEF a1, a2, a3, a4, a5
<1> QED BY <1>1, FiveElements

\* Whatever a load command says, only the name of a segment may be read too early.
LEMMA MachoCommandBounded ==
    ASSUME NEW f, f.size \in Nat, IsMacho(f), f.format = "macho", NEW k \in 1..Len(f.commands),
           MachoEnd(f) <= f.size
    PROVE  Bounded(MachoCommand(f, k), InFile(f.size) \union EarlyNames(f))
<1> DEFINE z == f.size
           R == InFile(f.size) \union EarlyNames(f)
           c == f.commands[k]
           place == MachoAt(f, k)
           start == place + SectionStart(f)
           seg == IsSegment(f, c)
           end == MachoEnd(f)
           q == Len(c.sections)
           c1 == place + 8 <= end
           c2 == c.cmdsize >= 8 /\ place + c.cmdsize <= end
           c3 == seg => c.cmdsize >= SectionStart(f)
           c4 == seg => SectionStart(f) + q * SectionSize(f) <= c.cmdsize
           sym == c.cmd = "symtab" /\ c.cmdsize >= 24
           b3 == When(sym, {<<place + 8, 16>>}) \union When(seg, {<<place + 8, 16>>})
           b4 == When(seg, {<<place + 24, IF f.wide THEN 8 ELSE 4>>, <<start - 8, 4>>})
           b5 == When(seg, {<<start + (s - 1) * SectionSize(f), SectionSize(f) - 8>> : s \in 1..q})
           P == <<Stage({}, c1), Stage({<<place, 8>>}, c2), Stage(b3, c3), Stage(b4, c4), Stage(b5, TRUE)>>
<1>1. MachoCommand(f, k) = P
  BY DEF MachoCommand
<1>2. /\ z \in Nat /\ place \in Nat /\ end \in Nat /\ end <= z /\ c.cmdsize \in Nat /\ q \in Nat
  <2>1. place \in Nat
    BY MachoAtIsNat
  <2>2. end \in Nat
    BY DEF MachoEnd, MachoHeader, IsMacho
  <2> QED BY <2>1, <2>2 DEF IsMacho
<1>3. \/ SectionStart(f) = 72 /\ SectionSize(f) = 80
      \/ SectionStart(f) = 56 /\ SectionSize(f) = 68
  BY DEF SectionStart, SectionSize
<1>4. seg /\ c.cmdsize < 24 => <<place + 8, 16>> \in R
  <2>1. seg /\ c.cmdsize < 24 => <<place + 8, 16>> \in EarlyNames(f)
    BY DEF EarlyNames
  <2> QED BY <2>1
<1> HIDE DEF place, end, seg, q
<1>5. c2 => <<place, 8>> \in R
  <2>1. c2 => place + 8 <= z
    BY <1>2
  <2> QED BY <1>2, <2>1, RangeInFile
<1>6. c1 => <<place, 8>> \in R
  <2>1. c1 => place + 8 <= z
    BY <1>2
  <2> QED BY <1>2, <2>1, RangeInFile
<1>7. c2 /\ c.cmdsize >= 24 => <<place + 8, 16>> \in R
  <2>1. c2 /\ c.cmdsize >= 24 => (place + 8) + 16 <= z
    BY <1>2
  <2>2. place + 8 \in Nat
    BY <1>2
  <2> QED BY <2>1, <2>2, <1>2, RangeInFile
<1>8. c2 => b3 \subseteq R
  BY <1>2, <1>4, <1>7 DEF When
<1> DEFINE first == SectionStart(f)
           each == SectionSize(f)
           cmdsize == c.cmdsize
<1>9. c2 /\ c3 => b4 \subseteq R
  <2> SUFFICES ASSUME c2, c3, seg
               PROVE  <<place + 24, IF f.wide THEN 8 ELSE 4>> \in R /\ <<start - 8, 4>> \in R
    BY DEF When
  <2> DEFINE w == IF f.wide THEN 8 ELSE 4
             o == (place + first) - 8
  <2>1. place + cmdsize <= end /\ first <= cmdsize /\ first \in {56, 72} /\ cmdsize \in Nat
    BY <1>2, <1>3
  <2>2. w \in Nat /\ w <= 8
    OBVIOUS
  <2> HIDE DEF w, first, cmdsize
  <2>3. place + 24 \in Nat /\ (place + 24) + w <= z
    BY <1>2, <2>1, <2>2
  <2>4. o \in Nat /\ o + 4 <= z
    BY <1>2, <2>1
  <2> HIDE DEF o
  <2>5. <<place + 24, w>> \in R /\ <<o, 4>> \in R
    BY <1>2, <2>2, <2>3, <2>4, RangeInFile
  <2> QED BY <2>5 DEF w, o, first
<1>10. c2 /\ c4 => b5 \subseteq R
  <2> SUFFICES ASSUME c2, c4, seg, NEW s \in 1..q
               PROVE  <<start + (s - 1) * SectionSize(f), SectionSize(f) - 8>> \in R
    BY DEF When
  <2> DEFINE o == (place + first) + (s - 1) * each
             n == each - 8
  <2>1. place + cmdsize <= end /\ first + q * each <= cmdsize /\ cmdsize \in Nat
    BY <1>2
  <2>2. \/ first = 72 /\ each = 80
        \/ first = 56 /\ each = 68
    BY <1>3
  <2>3. s \in Nat /\ s <= q /\ s >= 1
    BY <1>2
  <2> HIDE DEF first, each, cmdsize
  <2>4. o \in Nat /\ n \in Nat /\ o + n <= z
    <3>1. (place + first) \in Nat /\ each \in {12, 16, 68, 80}
      BY <1>2, <2>2
    <3>2. (place + first) + q * each <= z
      <4>1. CASE each = 80
        BY <1>2, <2>1, <2>2, <4>1
      <4>2. CASE each = 68
        BY <1>2, <2>1, <2>2, <4>2
      <4> QED BY <2>2, <4>1, <4>2
    <3>3. o \in Nat /\ o + each <= z
      <4>1. ArrayFits(place + first, q, each, z)
        BY <1>2, <3>1, <3>2 DEF ArrayFits
      <4>2. o = ElementAt(place + first, s, each)
        BY DEF ElementAt
      <4> HIDE DEF o
      <4> QED BY <4>1, <4>2, ElementFits
    <3> HIDE DEF o
    <3> QED BY <1>2, <2>2, <3>3
  <2> HIDE DEF o, n
  <2>5. <<o, n>> \in R
    BY <1>2, <2>4, RangeInFile
  <2> QED BY <2>5 DEF o, n, first, each
<1> HIDE DEF c1, c2, c3, c4, b3, b4, b5, R
<1>11. Len(P) = 5
  OBVIOUS
<1>12. /\ P[1].holds = c1 /\ P[2].holds = c2 /\ P[3].holds = c3 /\ P[4].holds = c4
       /\ P[1].bytes = {} /\ P[2].bytes = {<<place, 8>>} /\ P[3].bytes = b3 /\ P[4].bytes = b4 /\ P[5].bytes = b5
  BY DEF Stage
<1> HIDE DEF P
<1>13. ASSUME NEW i \in 1..5, \A j \in 1..(i - 1) : P[j].holds
       PROVE  P[i].bytes \subseteq R
  <2>1. CASE i = 1
    BY <1>12, <2>1
  <2>2. CASE i = 2
    <3>1. P[1].holds
      BY <1>13, <2>2
    <3> QED BY <1>6, <1>12, <2>2, <3>1
  <2>3. CASE i = 3
    <3>1. P[2].holds
      BY <1>13, <2>3
    <3> QED BY <1>8, <1>12, <2>3, <3>1
  <2>4. CASE i = 4
    <3>1. P[2].holds /\ P[3].holds
      BY <1>13, <2>4
    <3> QED BY <1>9, <1>12, <2>4, <3>1
  <2>5. CASE i = 5
    <3>1. P[2].holds /\ P[4].holds
      BY <1>13, <2>5
    <3> QED BY <1>10, <1>12, <2>5, <3>1
  <2> QED BY <2>1, <2>2, <2>3, <2>4, <2>5
<1>14. Bounded(P, R)
  BY <1>11, <1>13 DEF Bounded
<1> QED BY <1>1, <1>11, <1>14 DEF R

\* A sequence keeps its elements, whatever set they are looked for in.
LEMMA SeqOfItsElements ==
    ASSUME NEW A, NEW B, NEW s \in Seq(B), \A i \in 1..Len(s) : s[i] \in A
    PROVE  s \in Seq(A)
<1>1. Len(s) \in Nat /\ s \in [1..Len(s) -> B]
  BY LenProperties
<1>2. s = [i \in 1..Len(s) |-> s[i]]
  BY <1>1
<1>3. s \in [1..Len(s) -> A]
  BY <1>2
<1> QED BY <1>1, <1>3, SeqDef

\* Mach-O: the symbols of the last symbol table.
LEMMA MachoSymbolsInFile ==
    ASSUME NEW f, f.size \in Nat, IsMacho(f), NEW k \in 1..Len(f.commands)
    PROVE  MachoSymbolBytes(f, f.commands[k].symtab) \subseteq InFile(f.size)
<1> DEFINE t == f.commands[k].symtab
           z == f.size
           one == SymbolSize(f)
           reads == MachoReadsSymbols(f, t)
           entries == {<<t.symoff + (n - 1) * SymbolSize(f), SymbolSize(f)>> : n \in 1..t.nsyms}
           named == f.symbol.exported /\ t.nsyms > 0
           name == NameBytes(t.stroff + f.symbol.strx, t.stroff + t.strsize)
<1>1. MachoSymbolBytes(f, t) = When(reads, entries \union When(named, name))
  BY DEF MachoSymbolBytes
<1>2. /\ z \in Nat /\ t.symoff \in Nat /\ t.nsyms \in Nat /\ t.stroff \in Nat /\ t.strsize \in Nat
      /\ f.symbol.strx \in Nat
  BY DEF IsMacho
<1>3. one \in {12, 16} /\ t.nsyms * one \in Nat
  <2>1. one = 12 \/ one = 16
    BY DEF SymbolSize
  <2> QED BY <1>2, <2>1
<1>4. reads => in_bounds(t.symoff, t.nsyms * one, z) /\ in_bounds(t.stroff, t.strsize, z)
  BY DEF MachoReadsSymbols
<1> HIDE DEF t, one, reads
<1>5. reads => t.symoff + t.nsyms * one <= z /\ t.stroff + t.strsize <= z
  BY <1>2, <1>3, <1>4, InBounds
<1>6. ASSUME reads, NEW n \in 1..t.nsyms
      PROVE  <<t.symoff + (n - 1) * one, one>> \in InFile(z)
  <2> DEFINE o == t.symoff + (n - 1) * one
  <2>1. o \in Nat /\ one \in Nat /\ o + one <= z
    <3>1. ArrayFits(t.symoff, t.nsyms, one, z)
      BY <1>2, <1>3, <1>5, <1>6 DEF ArrayFits
    <3>2. o = ElementAt(t.symoff, n, one)
      BY DEF ElementAt
    <3> HIDE DEF o
    <3>3. o \in Nat /\ o + one <= z
      BY <3>1, <3>2, ElementFits
    <3> QED BY <1>3, <3>3
  <2> HIDE DEF o
  <2>2. <<o, one>> \in InFile(z)
    BY <1>2, <2>1, RangeInFile
  <2> QED BY <2>2 DEF o
<1>7. reads => entries \subseteq InFile(z)
  BY <1>6 DEF one
<1>8. reads => name \subseteq InFile(z)
  <2>1. t.stroff + f.symbol.strx \in Nat /\ t.stroff + t.strsize \in Nat
    BY <1>2
  <2> QED BY <1>2, <1>5, <2>1, NameInFile
<1> HIDE DEF entries, named, name
<1>9. When(reads, entries \union When(named, name)) \subseteq InFile(z)
  BY <1>7, <1>8 DEF When
<1> QED BY <1>1, <1>9 DEF t

\* Mach-O: every stage of the reader is covered by the tests before it, the name of a
\* short segment command excepted.
LEMMA MachoBounded ==
    ASSUME NEW f, f.size \in Nat, IsMacho(f), f.format = "macho"
    PROVE  Bounded(parse_macho(f), InFile(f.size) \union EarlyNames(f))
<1> DEFINE z == f.size
           R == InFile(f.size) \union EarlyNames(f)
           n == Len(f.commands)
           h1 == Stage(When(z >= 4, {<<0, 4>>}), z >= 4)
           h2 == Stage({}, z >= MachoHeader(f))
           h3 == Stage({<<16, 8>>}, in_bounds(MachoHeader(f), f.commands_size, z))
           h4 == Stage({<<4, 4>>}, TRUE)
           last == Stage(UNION {MachoSymbolBytes(f, f.commands[k].symtab) : k \in LastSymtab(f)}, TRUE)
           ss == [k \in 1..n |-> MachoCommand(f, k)]
           A == {h1, h2, h3, h4, last} \union {MachoCommand(f, x[1])[x[2]] : x \in (1..n) \X (1..5)}
           head == <<h1, h2, h3, h4>>
           tail == <<last>>
<1>1. parse_macho(f) = (head \o Concat(ss)) \o tail
  BY DEF parse_macho
<1>2. n \in Nat /\ z \in Nat /\ f.commands_size \in Nat /\ MachoHeader(f) \in {28, 32}
  BY DEF IsMacho, MachoHeader
<1>3. Len(ss) = n /\ \A k \in 1..n : ss[k] = MachoCommand(f, k)
  BY <1>2
<1>4. last.bytes \subseteq R
  <2> SUFFICES ASSUME NEW k \in LastSymtab(f)
               PROVE  MachoSymbolBytes(f, f.commands[k].symtab) \subseteq R
    BY DEF Stage
  <2>1. k \in 1..n
    BY DEF LastSymtab, Symtabs
  <2> QED BY <2>1, MachoSymbolsInFile
<1>5. /\ h1.bytes = When(z >= 4, {<<0, 4>>}) /\ h2.bytes = {} /\ h3.bytes = {<<16, 8>>} /\ h4.bytes = {<<4, 4>>}
      /\ h2.holds = (z >= MachoHeader(f)) /\ h3.holds = in_bounds(MachoHeader(f), f.commands_size, z)
  BY DEF Stage
<1>6. Parses(head) => MachoEnd(f) <= z
  <2> SUFFICES ASSUME Parses(head)
               PROVE  MachoEnd(f) <= z
    OBVIOUS
  <2>1. head[3].holds
    BY DEF Parses
  <2>2. in_bounds(MachoHeader(f), f.commands_size, z)
    BY <1>5, <2>1
  <2> QED BY <1>2, <2>2, InBounds DEF MachoEnd
<1>7. (z >= 4 => <<0, 4>> \in R) /\ (z >= MachoHeader(f) => <<16, 8>> \in R /\ <<4, 4>> \in R)
  BY <1>2, RangeInFile
<1>8. \A k \in 1..n : ss[k] \in Seq(A)
  <2> SUFFICES ASSUME NEW k \in 1..n, MachoEnd(f) <= z \/ ~(MachoEnd(f) <= z)
               PROVE  MachoCommand(f, k) \in Seq(A)
    BY <1>3
  <2>1. Len(MachoCommand(f, k)) = 5 /\ MachoCommand(f, k) \in Seq({MachoCommand(f, k)[i] : i \in 1..5})
    BY MachoCommandShape
  <2>2. \A i \in 1..5 : MachoCommand(f, k)[i] \in A
    <3> SUFFICES ASSUME NEW i \in 1..5
                 PROVE  MachoCommand(f, k)[i] \in {MachoCommand(f, x[1])[x[2]] : x \in (1..n) \X (1..5)}
      OBVIOUS
    <3> DEFINE x == <<k, i>>
    <3>1. x \in (1..n) \X (1..5) /\ x[1] = k /\ x[2] = i
      OBVIOUS
    <3> HIDE DEF x
    <3> QED BY <3>1
  <2> HIDE DEF A
  <2> QED BY <2>1, <2>2, SeqOfItsElements
<1>9. h1 \in A /\ h2 \in A /\ h3 \in A /\ h4 \in A /\ last \in A
  OBVIOUS
<1> HIDE DEF A, h1, h2, h3, h4, last, ss, R
<1>10. head \in Seq(A) /\ tail \in Seq(A) /\ Len(head) = 4 /\ Len(tail) = 1
       /\ head[1] = h1 /\ head[2] = h2 /\ head[3] = h3 /\ head[4] = h4 /\ tail[1] = last
  BY <1>9
<1> HIDE DEF head, tail
<1>11. Bounded(head, R)
  <2> SUFFICES ASSUME NEW i \in 1..4, \A k \in 1..(i - 1) : head[k].holds
               PROVE  head[i].bytes \subseteq R
    BY <1>10 DEF Bounded
  <2>1. CASE i = 1
    BY <1>5, <1>7, <1>10, <2>1 DEF When
  <2>2. CASE i = 2
    BY <1>5, <1>10, <2>2
  <2>3. CASE i = 3
    <3>1. head[2].holds
      BY <2>3
    <3> QED BY <1>5, <1>7, <1>10, <2>3, <3>1
  <2>4. CASE i = 4
    <3>1. head[2].holds
      BY <2>4
    <3> QED BY <1>5, <1>7, <1>10, <2>4, <3>1
  <2> QED BY <2>1, <2>2, <2>3, <2>4
<1>12. Bounded(tail, R)
  BY <1>4, <1>10 DEF Bounded
<1>13. Concat(ss) \in Seq(A)
  <2>1. Len(ss) \in Nat /\ \A k \in 1..Len(ss) : ss[k] \in Seq(A)
    BY <1>2, <1>3, <1>8
  <2>2. PICK g : g \in [0..Len(ss) -> Seq(A)] /\ Concat(ss) = g[Len(ss)]
    BY <2>1, ConcatLoop
  <2> QED BY <2>1, <2>2
<1>14. Parses(head) => Bounded(Concat(ss), R)
  <2> SUFFICES ASSUME MachoEnd(f) <= z
               PROVE  Bounded(Concat(ss), R)
    BY <1>6
  <2>1. \A k \in 1..n : Bounded(ss[k], R)
    BY <1>3, MachoCommandBounded DEF R
  <2> QED BY <1>2, <1>3, <1>8, <2>1, ConcatBounded
<1>15. head \o Concat(ss) \in Seq(A)
  BY <1>10, <1>13, ConcatProperties
<1>16. Bounded(head \o Concat(ss), R)
  BY <1>10, <1>11, <1>13, <1>14, BoundedAppend
<1>17. Bounded((head \o Concat(ss)) \o tail, R)
  BY <1>10, <1>12, <1>15, <1>16, BoundedAppend
<1> QED BY <1>1, <1>17 DEF R

-----------------------------------------------------------------------------
\* PE: an RVA is translated to an offset inside the file, or not at all.
LEMMA OffsetInFile ==
    ASSUME NEW f, f.size \in Nat, IsPe(f), NEW rva \in Nat, NEW o \in rva_to_offset(f, rva)
    PROVE  o \in Nat /\ o + 1 <= f.size
<1>1. PICK n \in 1..Len(f.sections) :
          /\ o = f.sections[n].offset + (rva - f.sections[n].rva) /\ rva >= f.sections[n].rva
          /\ in_bounds(f.sections[n].offset + (rva - f.sections[n].rva), 1, f.size)
  BY DEF rva_to_offset
<1>2. f.sections[n].offset \in Nat /\ f.sections[n].rva \in Nat
  BY DEF IsPe
<1>3. o \in Nat /\ in_bounds(o, 1, f.size)
  BY <1>1, <1>2
<1> QED BY <1>3, InBounds

\* PE: one named export, wherever the tables begin.
LEMMA PeExportBounded ==
    ASSUME NEW f, f.size \in Nat, IsPe(f), NEW i \in Nat, NEW names \in Nat, NEW functions \in Nat,
           NEW ordinals \in Nat
    PROVE  Bounded(PeExport(f, f.exports, i, names, functions, ordinals), InFile(f.size))
<1> DEFINE z == f.size
           R == InFile(f.size)
           d == f.exports
           place == names + i * 4
           ord == ordinals + i * 2
           fun == functions + d.ordinal * 4
           c1 == in_bounds(names + i * 4, 4, f.size)
           c2 == in_bounds(ordinals + i * 2, 2, f.size)
           c3 == rva_to_offset(f, d.name) # {}
           c4 == in_bounds(functions + d.ordinal * 4, 4, f.size)
           b5 == {<<functions + d.ordinal * 4, 4>>}
                 \union (UNION {NameBytes(n, f.size) : n \in rva_to_offset(f, d.name)})
           P == <<Stage({}, c1), Stage({}, c2), Stage({<<place, 4>>}, c3), Stage({<<ord, 2>>}, c4), Stage(b5, TRUE)>>
<1>1. PeExport(f, d, i, names, functions, ordinals) = P
  BY DEF PeExport
<1>2. d.ordinal \in Nat /\ d.name \in Nat /\ z \in Nat /\ place \in Nat /\ ord \in Nat /\ fun \in Nat
  <2>1. d.ordinal \in Nat /\ d.name \in Nat
    BY DEF IsPe
  <2> QED BY <2>1
<1>3. (c1 => place + 4 <= z) /\ (c2 => ord + 2 <= z) /\ (c4 => fun + 4 <= z)
  BY <1>2, InBounds
<1> HIDE DEF c1, c2, c4
<1>4. (c1 => <<place, 4>> \in R) /\ (c2 => <<ord, 2>> \in R) /\ (c4 => <<fun, 4>> \in R)
  <2> HIDE DEF place, ord, fun
  <2> QED BY <1>2, <1>3, RangeInFile
<1>5. \A n \in rva_to_offset(f, d.name) : NameBytes(n, z) \subseteq R
  <2> SUFFICES ASSUME NEW n \in rva_to_offset(f, d.name)
               PROVE  NameBytes(n, z) \subseteq R
    OBVIOUS
  <2>1. n \in Nat
    BY <1>2, OffsetInFile
  <2> QED BY <1>2, <2>1, NameInFile
<1>6. c4 => b5 \subseteq R
  BY <1>4, <1>5
<1> HIDE DEF place, ord, c3, b5, R
<1>7. Len(P) = 5
  OBVIOUS
<1>8. /\ P[1].holds = c1 /\ P[2].holds = c2 /\ P[3].holds = c3 /\ P[4].holds = c4
      /\ P[1].bytes = {} /\ P[2].bytes = {} /\ P[3].bytes = {<<place, 4>>} /\ P[4].bytes = {<<ord, 2>>} /\ P[5].bytes = b5
  BY DEF Stage
<1> HIDE DEF P
<1>9. ASSUME NEW n \in 1..5, \A k \in 1..(n - 1) : P[k].holds
      PROVE  P[n].bytes \subseteq R
  <2>1. CASE n \in {1, 2}
    BY <1>8, <2>1
  <2>2. CASE n = 3
    <3>1. P[1].holds
      BY <1>9, <2>2
    <3> QED BY <1>4, <1>8, <2>2, <3>1
  <2>3. CASE n = 4
    <3>1. P[2].holds
      BY <1>9, <2>3
    <3> QED BY <1>4, <1>8, <2>3, <3>1
  <2>4. CASE n = 5
    <3>1. P[4].holds
      BY <1>9, <2>4
    <3> QED BY <1>6, <1>8, <2>4, <3>1
  <2> QED BY <2>1, <2>2, <2>3, <2>4
<1>10. Bounded(P, R)
  BY <1>7, <1>9 DEF Bounded
<1> QED BY <1>1, <1>10 DEF R

LEMMA PeExportShape ==
    ASSUME NEW f, NEW d, NEW i, NEW names, NEW functions, NEW ordinals
    PROVE  LET P == PeExport(f, d, i, names, functions, ordinals)
           IN Len(P) = 5 /\ P \in Seq({P[n] : n \in 1..5})
<1> DEFINE a1 == Stage({}, in_bounds(names + i * 4, 4, f.size))
           a2 == Stage({}, in_bounds(ordinals + i * 2, 2, f.size))
           a3 == Stage({<<names + i * 4, 4>>}, rva_to_offset(f, d.name) # {})
           a4 == Stage({<<ordinals + i * 2, 2>>}, in_bounds(functions + d.ordinal * 4, 4, f.size))
           a5 == Stage({<<functions + d.ordinal * 4, 4>>}
                       \union (UNION {NameBytes(n, f.size) : n \in rva_to_offset(f, d.name)}), TRUE)
<1>1. PeExport(f, d, i, names, functions, ordinals) = <<a1, a2, a3, a4, a5>>
  BY DEF PeExport
<1> HIDE DEF a1, a2, a3, a4, a5
<1> QED BY <1>1, FiveElements

\* PE: the whole export directory.
LEMMA PeExportsInFile ==
    ASSUME NEW f, f.size \in Nat, IsPe(f), DataDirectory(f) \in Nat, DataDirectory(f) + 8 <= f.size
    PROVE  PeExports(f) \subseteq InFile(f.size)
<1> DEFINE z == f.size
           R == InFile(f.size)
           d == f.exports
           directory == rva_to_offset(f, d.rva)
           usable == {o \in directory : /\ d.rva # 0 /\ d.size >= 40 /\ in_bounds(o, 40, f.size)}
           all(n, u, o) == Touches(Concat([i \in 1..d.count |-> PeExport(f, d, i - 1, n, u, o)]))
           readable == /\ d.rva # 0 /\ d.size >= 40
                       /\ \E o \in directory : in_bounds(o, 40, f.size)
           exported == UNION {Touches(Concat([i \in 1..d.count |-> PeExport(f, d, i - 1, n, u, o)])) :
                              n \in rva_to_offset(f, d.names), u \in rva_to_offset(f, d.functions),
                              o \in rva_to_offset(f, d.ordinals)}
<1>1. PeExports(f) = {<<DataDirectory(f), 8>>} \union {<<place, 40>> : place \in usable} \union When(readable, exported)
  BY DEF PeExports
<1>2. /\ d.rva \in Nat /\ d.count \in Nat /\ d.names \in Nat /\ d.functions \in Nat /\ d.ordinals \in Nat
      /\ z \in Nat
  BY DEF IsPe
<1>3. <<DataDirectory(f), 8>> \in R
  BY <1>2, RangeInFile
<1>4. ASSUME NEW place \in usable
      PROVE  <<place, 40>> \in R
  <2>1. place \in Nat
    BY <1>2, OffsetInFile
  <2>2. place + 40 <= z
    BY <1>2, <2>1, InBounds
  <2> QED BY <1>2, <2>1, <2>2, RangeInFile
<1>5. ASSUME NEW n \in rva_to_offset(f, d.names), NEW u \in rva_to_offset(f, d.functions),
             NEW o \in rva_to_offset(f, d.ordinals)
      PROVE  Touches(Concat([i \in 1..d.count |-> PeExport(f, d, i - 1, n, u, o)])) \subseteq R
  <2> DEFINE P(i) == PeExport(f, d, i - 1, n, u, o)
             ss == [i \in 1..d.count |-> P(i)]
             A == {P(x[1])[x[2]] : x \in (1..d.count) \X (1..5)}
  <2>1. n \in Nat /\ u \in Nat /\ o \in Nat
    BY <1>2, OffsetInFile
  <2>2. Len(ss) = d.count
    BY <1>2
  <2>3. ASSUME NEW i \in 1..d.count
        PROVE  ss[i] \in Seq(A) /\ Bounded(ss[i], R)
    <3>1. ss[i] = P(i) /\ i - 1 \in Nat
      BY <1>2
    <3>2. Bounded(P(i), R)
      BY <2>1, <3>1, PeExportBounded
    <3>3. Len(P(i)) = 5 /\ P(i) \in Seq({P(i)[k] : k \in 1..5})
      BY PeExportShape
    <3>4. \A k \in 1..5 : P(i)[k] \in A
      <4> SUFFICES ASSUME NEW k \in 1..5
                   PROVE  P(i)[k] \in A
        OBVIOUS
      <4> DEFINE x == <<i, k>>
      <4>1. x \in (1..d.count) \X (1..5) /\ x[1] = i /\ x[2] = k
        OBVIOUS
      <4> HIDE DEF x, P
      <4> QED BY <4>1
    <3> HIDE DEF P, A, ss
    <3>5. P(i) \in Seq(A)
      BY <3>3, <3>4, SeqOfItsElements
    <3> QED BY <3>1, <3>2, <3>5
  <2> HIDE DEF ss, A
  <2>4. Bounded(Concat(ss), R)
    <3>1. Len(ss) \in Nat /\ \A i \in 1..Len(ss) : ss[i] \in Seq(A) /\ Bounded(ss[i], R)
      BY <1>2, <2>2, <2>3
    <3> HIDE DEF R
    <3> QED BY <3>1, ConcatBounded
  <2> QED BY <2>4, BoundedTouches DEF ss
<1>6. exported \subseteq R
  <2> DEFINE N == rva_to_offset(f, d.names)
             U == rva_to_offset(f, d.functions)
             O == rva_to_offset(f, d.ordinals)
             T(n, u, o) == Touches(Concat([i \in 1..d.count |-> PeExport(f, d, i - 1, n, u, o)]))
  <2>1. \A n \in N, u \in U, o \in O : T(n, u, o) \subseteq R
    BY <1>5
  <2>2. exported = UNION {T(n, u, o) : n \in N, u \in U, o \in O}
    OBVIOUS
  <2> HIDE DEF N, U, O, T, exported, R
  <2> QED BY <2>1, <2>2
<1> HIDE DEF usable, readable, exported, R
<1>7. {<<place, 40>> : place \in usable} \subseteq R
  BY <1>4
<1>8. When(readable, exported) \subseteq R
  BY <1>6 DEF When
<1> QED BY <1>1, <1>3, <1>7, <1>8 DEF R

\* PE: every stage of the reader is covered by the tests before it.
LEMMA PeBounded ==
    ASSUME NEW f, f.size \in Nat, IsPe(f)
    PROVE  Bounded(parse_pe(f), InFile(f.size))
<1> DEFINE z == f.size
           R == InFile(f.size)
           nt == f.nt
           coff == Coff(f)
           opt == OptionalHeader(f)
           osize == f.optional_size
           rows == SectionTable(f)
           q == Len(f.sections)
           c2 == in_bounds(nt, 4, z)
           c4 == in_bounds(coff, 20, z)
           c5 == in_bounds(opt, osize, z)
           c7 == osize >= IF f.wide THEN 120 ELSE 104
           c8 == in_bounds(rows, q * 40, z)
           b9 == {<<rows + (i - 1) * 40, 40>> : i \in 1..q} \union PeExports(f)
           P == <<Stage({}, z >= 64),
                  Stage({<<0, 2>>, <<60, 4>>}, c2),
                  Stage({<<nt, 4>>}, f.signature),
                  Stage({}, c4),
                  Stage({<<coff, 4>>, <<coff + 16, 2>>}, c5),
                  Stage({}, osize >= 2),
                  Stage({<<opt, 2>>}, c7),
                  Stage({<<opt + 24, 8>>}, c8),
                  Stage(b9, TRUE)>>
<1>1. parse_pe(f) = P
  BY DEF parse_pe
<1>2. /\ z \in Nat /\ nt \in Nat /\ osize \in Nat /\ q \in Nat
      /\ coff = nt + 4 /\ opt = coff + 20 /\ rows = opt + osize
  BY DEF IsPe, Coff, OptionalHeader, SectionTable
<1>3. DataDirectory(f) = opt + IF f.wide THEN 112 ELSE 96
  BY DEF DataDirectory
<1> HIDE DEF coff, opt, rows, q, nt, osize
<1>4. /\ c2 => nt + 4 <= z
      /\ c4 => coff + 20 <= z
      /\ c5 => opt + osize <= z
      /\ c8 => rows + q * 40 <= z
  BY <1>2, InBounds
<1> HIDE DEF c2, c4, c5, c8
<1>5. z >= 64 => <<0, 2>> \in R /\ <<60, 4>> \in R
  BY <1>2, RangeInFile
<1>6. c2 => <<nt, 4>> \in R
  BY <1>2, <1>4, RangeInFile
<1>7. c4 => <<coff, 4>> \in R /\ <<coff + 16, 2>> \in R
  <2>1. c4 => coff + 4 <= z /\ (coff + 16) + 2 <= z
    BY <1>2, <1>4
  <2>2. coff \in Nat /\ coff + 16 \in Nat
    BY <1>2
  <2> QED BY <1>2, <2>1, <2>2, RangeInFile
<1>8. c5 /\ osize >= 2 => <<opt, 2>> \in R
  <2>1. c5 /\ osize >= 2 => opt + 2 <= z
    BY <1>2, <1>4
  <2>2. opt \in Nat
    BY <1>2
  <2> QED BY <1>2, <2>1, <2>2, RangeInFile
<1>9. c5 /\ c7 => <<opt + 24, 8>> \in R
  <2>1. c5 /\ c7 => (opt + 24) + 8 <= z
    BY <1>2, <1>4
  <2>2. opt + 24 \in Nat
    BY <1>2
  <2> QED BY <1>2, <2>1, <2>2, RangeInFile
<1>10. c5 /\ c7 => PeExports(f) \subseteq R
  <2>1. c5 /\ c7 => DataDirectory(f) + 8 <= z
    BY <1>2, <1>3, <1>4
  <2>2. DataDirectory(f) \in Nat
    BY <1>2, <1>3
  <2> QED BY <1>2, <2>1, <2>2, PeExportsInFile
<1>11. ASSUME c8, NEW i \in 1..q
       PROVE  <<rows + (i - 1) * 40, 40>> \in R
  <2>1. rows + (i - 1) * 40 \in Nat /\ (rows + (i - 1) * 40) + 40 <= z
    BY <1>2, <1>4, <1>11
  <2> QED BY <1>2, <2>1, RangeInFile
<1> HIDE DEF R, c7
<1>12. c5 /\ c7 /\ c8 => b9 \subseteq R
  BY <1>10, <1>11
<1> HIDE DEF b9
<1>13. Len(P) = 9
  OBVIOUS
<1>14. /\ P[1].holds = (z >= 64) /\ P[2].holds = c2 /\ P[4].holds = c4 /\ P[5].holds = c5
       /\ P[6].holds = (osize >= 2) /\ P[7].holds = c7 /\ P[8].holds = c8
  BY DEF Stage
<1>15. /\ P[1].bytes = {} /\ P[2].bytes = {<<0, 2>>, <<60, 4>>} /\ P[3].bytes = {<<nt, 4>>} /\ P[4].bytes = {}
       /\ P[5].bytes = {<<coff, 4>>, <<coff + 16, 2>>} /\ P[6].bytes = {} /\ P[7].bytes = {<<opt, 2>>}
       /\ P[8].bytes = {<<opt + 24, 8>>} /\ P[9].bytes = b9
  BY DEF Stage
<1> HIDE DEF P
<1>16. ASSUME NEW n \in 1..9, \A k \in 1..(n - 1) : P[k].holds
       PROVE  P[n].bytes \subseteq R
  <2>1. CASE n \in {1, 4, 6}
    BY <1>15, <2>1
  <2>2. CASE n = 2
    <3>1. P[1].holds
      BY <1>16, <2>2
    <3> QED BY <1>5, <1>14, <1>15, <2>2, <3>1
  <2>3. CASE n = 3
    <3>1. P[2].holds
      BY <1>16, <2>3
    <3> QED BY <1>6, <1>14, <1>15, <2>3, <3>1
  <2>4. CASE n = 5
    <3>1. P[4].holds
      BY <1>16, <2>4
    <3> QED BY <1>7, <1>14, <1>15, <2>4, <3>1
  <2>5. CASE n = 7
    <3>1. P[5].holds /\ P[6].holds
      BY <1>16, <2>5
    <3> QED BY <1>8, <1>14, <1>15, <2>5, <3>1
  <2>6. CASE n = 8
    <3>1. P[5].holds /\ P[7].holds
      BY <1>16, <2>6
    <3> QED BY <1>9, <1>14, <1>15, <2>6, <3>1
  <2>7. CASE n = 9
    <3>1. P[5].holds /\ P[7].holds /\ P[8].holds
      BY <1>16, <2>7
    <3> QED BY <1>12, <1>14, <1>15, <2>7, <3>1
  <2> QED BY <2>1, <2>2, <2>3, <2>4, <2>5, <2>6, <2>7
<1>17. Bounded(P, R)
  BY <1>13, <1>16 DEF Bounded
<1> QED BY <1>1, <1>17 DEF R

-----------------------------------------------------------------------------
\* Whatever the file says, its reader touches what it may.
MayTouch(f) == InFile(f.size) \union EarlyNames(f) \union EarlyEntries(f)
LEMMA ParserBounded ==
    ASSUME NEW f \in Files
    PROVE  Touches(Parser(f)) \subseteq MayTouch(f)
<1> USE DEF MayTouch
<1>1. f.size \in Nat /\ FileSize(f.size) /\ (f.format = "elf" => IsElf(f)) /\ (f.format = "macho" => IsMacho(f)) /\ (f.format = "pe" => IsPe(f))
  BY FilesAssumption DEF FileSize
<1>2. CASE f.format = "elf"
  <2>1. Parser(f) = parse_elf(f)
    BY <1>2 DEF Parser
  <2> QED BY <1>1, <1>2, <2>1, ElfBounded, BoundedTouches
<1>3. CASE f.format = "macho"
  <2>1. Parser(f) = parse_macho(f)
    BY <1>3 DEF Parser
  <2> QED BY <1>1, <1>3, <2>1, MachoBounded, BoundedTouches
<1>4. CASE f.format = "pe"
  <2>1. Parser(f) = parse_pe(f)
    BY <1>4 DEF Parser
  <2> QED BY <1>1, <1>4, <2>1, PeBounded, BoundedTouches
<1>5. CASE f.format \notin {"elf", "macho", "pe"}
  <2>1. Parser(f) = <<Stage({}, FALSE)>>
    BY <1>5 DEF Parser
  <2> QED BY <2>1 DEF Touches, Stage
<1> QED BY <1>2, <1>3, <1>4, <1>5

\* A file of no known format has no image.
LEMMA ImageHasFormat ==
    ASSUME NEW f, Parses(Parser(f))
    PROVE  f.format \in {"elf", "macho", "pe"}
<1> SUFFICES ASSUME f.format \notin {"elf", "macho", "pe"}
             PROVE  FALSE
  OBVIOUS
<1>1. Parser(f) = <<Stage({}, FALSE)>>
  BY DEF Parser
<1> QED BY <1>1 DEF Parses, Stage

\* The sections of an image are numbers, whatever the file says.
LEMMA SectionsAreNumbers ==
    ASSUME NEW f \in Files, f.format \in {"elf", "macho", "pe"}
    PROVE  \A n \in 1..Len(Sections(f)) :
              /\ Sections(f)[n].offset \in Nat /\ Sections(f)[n].size \in Nat
              /\ Sections(f)[n].file_size \in Nat
<1>1. (f.format = "elf" => IsElf(f)) /\ (f.format = "macho" => IsMacho(f)) /\ (f.format = "pe" => IsPe(f))
  BY FilesAssumption
<1>2. CASE f.format = "elf"
  <2>1. Sections(f) = ElfSections(f)
    BY <1>2 DEF Sections
  <2>2. f.shnum \in Nat /\ Len(ElfSections(f)) = f.shnum
    BY <1>1, <1>2 DEF ElfSections, IsElf
  <2>3. ASSUME NEW n \in 1..f.shnum
        PROVE  /\ ElfSections(f)[n].offset \in Nat /\ ElfSections(f)[n].size \in Nat
               /\ ElfSections(f)[n].file_size \in Nat
    <3> DEFINE h == f.headers[n - 1]
    <3>1. n - 1 \in 0..(f.shnum - 1)
      BY <2>2
    <3>2. h.offset \in Nat /\ h.size \in Nat
      BY <1>1, <1>2, <3>1 DEF IsElf
    <3>3. ElfFileSize(h) \in Nat
      BY <3>2 DEF ElfFileSize
    <3>4. ElfSections(f)[n] = [name |-> ElfName(f, h), offset |-> h.offset, size |-> h.size, file_size |-> ElfFileSize(h)]
      BY DEF ElfSections
    <3> HIDE DEF h
    <3> QED BY <3>2, <3>3, <3>4
  <2> QED BY <2>1, <2>2, <2>3
<1>3. CASE f.format = "pe"
  <2>1. Sections(f) = PeSections(f)
    BY <1>3 DEF Sections
  <2>2. Len(f.sections) \in Nat /\ Len(PeSections(f)) = Len(f.sections)
    BY <1>1, <1>3 DEF PeSections, IsPe
  <2>3. ASSUME NEW n \in 1..Len(f.sections)
        PROVE  /\ PeSections(f)[n].offset \in Nat /\ PeSections(f)[n].size \in Nat
               /\ PeSections(f)[n].file_size \in Nat
    BY <1>1, <1>3 DEF PeSections, IsPe
  <2> QED BY <2>1, <2>2, <2>3
<1>4. CASE f.format = "macho"
  <2> DEFINE of(s) == [name |-> s.name, offset |-> s.offset, size |-> s.size,
                       file_size |-> IF s.offset = 0 THEN 0 ELSE s.size]
             m == Len(f.commands)
             own(k) == {of(f.commands[k].sections[n]) : n \in 1..Len(f.commands[k].sections)}
             A == UNION {own(k) : k \in 1..m}
             ss == [k \in 1..m |-> IF IsSegment(f, f.commands[k])
                                   THEN [n \in 1..Len(f.commands[k].sections) |-> of(f.commands[k].sections[n])]
                                   ELSE <<>>]
  <2>1. Sections(f) = Concat(ss)
    BY <1>4 DEF Sections, MachoSections
  <2>2. IsMacho(f) /\ m \in Nat
    BY <1>1, <1>4 DEF IsMacho
  <2>3. \A x \in A : x.offset \in Nat /\ x.size \in Nat /\ x.file_size \in Nat
    <3> SUFFICES ASSUME NEW k \in 1..m, NEW n \in 1..Len(f.commands[k].sections)
                 PROVE  /\ of(f.commands[k].sections[n]).offset \in Nat /\ of(f.commands[k].sections[n]).size \in Nat
                        /\ of(f.commands[k].sections[n]).file_size \in Nat
      OBVIOUS
    <3>1. f.commands[k].sections[n].offset \in Nat /\ f.commands[k].sections[n].size \in Nat
      BY <2>2 DEF IsMacho
    <3> QED BY <3>1
  <2>4. ASSUME NEW k \in 1..m
        PROVE  ss[k] \in Seq(A)
    <3> DEFINE q == Len(f.commands[k].sections)
               t == [n \in 1..q |-> of(f.commands[k].sections[n])]
    <3>1. q \in Nat
      BY <2>2 DEF IsMacho
    <3>2. \A n \in 1..q : of(f.commands[k].sections[n]) \in A
      OBVIOUS
    <3>3. ss[k] = IF IsSegment(f, f.commands[k]) THEN t ELSE <<>>
      OBVIOUS
    <3> HIDE DEF q, A, ss, of
    <3>4. t \in [1..q -> A]
      BY <3>2
    <3> HIDE DEF t
    <3>5. t \in Seq(A) /\ <<>> \in Seq(A)
      BY <3>1, <3>4, SeqDef
    <3> QED BY <3>3, <3>5
  <2>5. Len(ss) = m
    BY <2>2
  <2> HIDE DEF ss, A
  <2>6. Concat(ss) \in Seq(A)
    <3>1. Len(ss) \in Nat /\ \A k \in 1..Len(ss) : ss[k] \in Seq(A)
      BY <2>2, <2>4, <2>5
    <3>2. PICK g : g \in [0..Len(ss) -> Seq(A)] /\ Concat(ss) = g[Len(ss)]
      BY <3>1, ConcatLoop
    <3> QED BY <3>1, <3>2
  <2>7. \A n \in 1..Len(Concat(ss)) : Concat(ss)[n] \in A
    BY <2>6
  <2> QED BY <2>1, <2>3, <2>7
<1> QED BY <1>2, <1>3, <1>4

\* What the readers keep: what was touched is covered, and an image is that of the file.
TouchedCovered ==
    IF file = NoFile THEN touched = {}
    ELSE touched \subseteq MayTouch(file)
ImageOfFile ==
    image # NoFile => /\ file # NoFile /\ file.format \in {"elf", "macho", "pe"}
                      /\ image = [format |-> file.format, sections |-> Sections(file)]
BinaryInv ==
    /\ file # NoFile => file \in Files
    /\ TouchedCovered
    /\ ImageOfFile
    /\ image = NoFile => region = NoFile
    /\ RegionIsContent

LEMMA BinaryInvHolds == BinaryInv => ReadersBounded
<1> SUFFICES ASSUME BinaryInv
             PROVE  ReadsStayInFile
  BY DEF BinaryInv, ReadersBounded
<1> SUFFICES ASSUME NEW r \in touched, r[2] > 0
             PROVE  \/ r[1] >= 0 /\ r[1] + r[2] <= file.size
                    \/ r \in EarlyNames(file) \union EarlyEntries(file)
  BY DEF ReadsStayInFile
<1>1. file # NoFile /\ r \in MayTouch(file)
  BY DEF BinaryInv, TouchedCovered
<1> QED BY <1>1 DEF InFile, MayTouch

\* read_region(): the section that is found, and what is delivered of it.
LEMMA InnerInSection ==
    ASSUME file \in Files, ImageOfFile, image # NoFile, NEW n \in 1..Len(image.sections), Readable(image.sections[n])
    PROVE  LET s == image.sections[n]
           IN /\ Inner(s) \in InFile(file.size)
              /\ Inner(s)[1] >= s.offset /\ Inner(s)[1] + Inner(s)[2] <= s.offset + s.file_size
              /\ image.format # "pe" => Inner(s) = <<s.offset, s.file_size>>
              /\ s.file_size >= 24 => <<s.offset, 20>> \in InFile(file.size)
<1> DEFINE s == image.sections[n]
           o == s.offset
           fs == s.file_size
           z == file.size
           h == file.private
           rest == h.version = 1 /\ h.header_size >= 24 /\ h.region_offset >= h.header_size
           skipped == /\ image.format = "pe" /\ fs >= 24 /\ h.magic
                      /\ h.version = 1 /\ h.header_size >= 24 /\ h.region_offset >= h.header_size
                      /\ h.region_offset + h.region_size <= fs
<1>1. Inner(s) = IF skipped THEN <<o + h.region_offset, h.region_size>> ELSE <<o, fs>>
  BY DEF Inner
<1>2. image.format = file.format /\ image.sections = Sections(file) /\ file.format \in {"elf", "macho", "pe"}
  BY DEF ImageOfFile
<1>3. o \in Nat /\ fs \in Nat /\ z \in Nat
  BY <1>2, SectionsAreNumbers, FilesAssumption
<1>4. o + fs <= z
  BY <1>3, InBounds DEF Readable
<1>5. skipped => h.region_offset \in Nat /\ h.region_size \in Nat /\ h.region_offset + h.region_size <= fs
  BY <1>2, FilesAssumption DEF IsPe
<1>6. skipped => image.format = "pe"
  OBVIOUS
<1> HIDE DEF skipped, h, o, fs, z
<1>7. CASE skipped
  <2> DEFINE p == o + h.region_offset
             l == h.region_size
  <2>1. Inner(s) = <<p, l>> /\ p \in Nat /\ l \in Nat
    BY <1>1, <1>3, <1>5, <1>7
  <2>2. p + l <= z /\ p >= o /\ p + l <= o + fs
    BY <1>3, <1>4, <1>5, <1>7
  <2> HIDE DEF p, l
  <2>3. Inner(s) \in InFile(z) /\ Inner(s)[1] = p /\ Inner(s)[2] = l
    BY <1>3, <2>1, <2>2, RangeInFile
  <2>4. fs >= 24 => <<o, 20>> \in InFile(z)
    BY <1>3, <1>4, RangeInFile
  <2> QED BY <1>6, <1>7, <2>2, <2>3, <2>4 DEF o, fs, z
<1>8. CASE ~skipped
  <2>1. Inner(s) = <<o, fs>>
    BY <1>1, <1>8
  <2>2. Inner(s) \in InFile(z) /\ Inner(s)[1] = o /\ Inner(s)[2] = fs
    BY <1>3, <1>4, <2>1, RangeInFile
  <2>3. fs >= 24 => <<o, 20>> \in InFile(z)
    BY <1>3, <1>4, RangeInFile
  <2> QED BY <1>3, <2>1, <2>2, <2>3 DEF o, fs, z
<1> QED BY <1>7, <1>8

LEMMA ParseKeeps ==
    ASSUME BinaryInv, parse_binary_image
    PROVE  BinaryInv'
<1>1. file # NoFile /\ file \in Files /\ image = NoFile /\ region = NoFile /\ file' = file /\ region' = region
  BY DEF BinaryInv, parse_binary_image
<1>2. TouchedCovered'
  <2>1. touched' \subseteq MayTouch(file)
    BY <1>1, ParserBounded DEF parse_binary_image
  <2> QED BY <1>1, <2>1 DEF TouchedCovered
<1>3. ImageOfFile'
  <2>1. CASE Parses(Parser(file))
    <3>1. image' = [format |-> file.format, sections |-> Sections(file)]
      BY <2>1 DEF parse_binary_image
    <3>2. file.format \in {"elf", "macho", "pe"}
      BY <2>1, ImageHasFormat
    <3> QED BY <1>1, <3>1, <3>2 DEF ImageOfFile
  <2>2. CASE ~Parses(Parser(file))
    BY <1>1, <2>2 DEF ImageOfFile, parse_binary_image
  <2> QED BY <2>1, <2>2
<1>4. RegionIsContent'
  BY <1>1 DEF RegionIsContent
<1> QED BY <1>1, <1>2, <1>3, <1>4 DEF BinaryInv

LEMMA ReadRegionKeeps ==
    ASSUME BinaryInv, NEW wanted \in {".abix.metadata", ".abix.names"}, read_region(wanted)
    PROVE  BinaryInv'
<1> DEFINE found == find_section(native_section_name(image.format, wanted))
           good == {k \in found : Readable(image.sections[k])}
           n == CHOOSE k \in good : TRUE
           s == image.sections[n]
           R == MayTouch(file)
<1>1. /\ image # NoFile /\ file # NoFile /\ file \in Files /\ file' = file /\ image' = image
      /\ ImageOfFile
  BY DEF BinaryInv, ImageOfFile, read_region
<1>2. /\ region' = IF good = {} THEN NoFile ELSE Inner(s)
      /\ touched' = IF good = {} THEN {}
                    ELSE {Inner(s)} \union When(image.format = "pe" /\ s.file_size >= 24, {<<s.offset, 20>>})
  BY DEF read_region
<1>3. CASE good = {}
  <2>1. region' = NoFile /\ touched' = {}
    BY <1>2, <1>3
  <2> QED BY <1>1, <2>1 DEF BinaryInv, TouchedCovered, ImageOfFile, RegionIsContent
<1>4. CASE good # {}
  <2>1. n \in good
    BY <1>4
  <2> HIDE DEF n
  <2>2. /\ n \in 1..Len(image.sections) /\ Readable(s)
        /\ s.name = native_section_name(image.format, wanted)
    BY <2>1 DEF find_section
  <2>3. /\ Inner(s) \in InFile(file.size)
        /\ Inner(s)[1] >= s.offset /\ Inner(s)[1] + Inner(s)[2] <= s.offset + s.file_size
        /\ image.format # "pe" => Inner(s) = <<s.offset, s.file_size>>
        /\ s.file_size >= 24 => <<s.offset, 20>> \in InFile(file.size)
    BY <1>1, <2>2, InnerInSection
  <2>4. /\ region' = Inner(s)
        /\ touched' = {Inner(s)} \union When(image.format = "pe" /\ s.file_size >= 24, {<<s.offset, 20>>})
    BY <1>2, <1>4
  <2>5. touched' \subseteq R
    BY <2>3, <2>4 DEF When, MayTouch
  <2>6. s.name \in {native_section_name(image.format, c) : c \in {".abix.metadata", ".abix.names"}}
    BY <2>2
  <2>7. RegionIsContent'
    <3>1. \E j \in 1..Len(image.sections) :
            /\ image.sections[j].name \in {native_section_name(image.format, c) : c \in {".abix.metadata", ".abix.names"}}
            /\ Inner(s)[1] >= image.sections[j].offset
            /\ Inner(s)[1] + Inner(s)[2] <= image.sections[j].offset + image.sections[j].file_size
            /\ image.format # "pe" => Inner(s) = <<image.sections[j].offset, image.sections[j].file_size>>
      BY <2>2, <2>3, <2>6
    <3> HIDE DEF s
    <3> QED BY <1>1, <2>4, <3>1 DEF RegionIsContent
  <2>8. TouchedCovered' /\ ImageOfFile'
    BY <1>1, <2>5 DEF TouchedCovered, ImageOfFile
  <2> QED BY <1>1, <2>7, <2>8 DEF BinaryInv
<1> QED BY <1>3, <1>4

LEMMA OpenKeeps ==
    ASSUME BinaryInv, Open
    PROVE  BinaryInv'
<1>1. /\ file = NoFile /\ file' \in Files /\ image' = image /\ touched' = touched /\ region' = region
      /\ touched = {} /\ image = NoFile
  BY DEF BinaryInv, Open, TouchedCovered, ImageOfFile
<1> QED BY <1>1 DEF BinaryInv, TouchedCovered, ImageOfFile, RegionIsContent

\* No reader leaves the file, but for the name of a segment command too short for one and
\* for the symbol entries of a .dynsym whose entry size, close to 2^64, takes the loop back
\* over the start of the file; what read_region() delivers is content of a section with the
\* native name of the region (Binary/ELF.h, MachO.h, PE.h, BinaryImage.h).
THEOREM ReadersStayBounded == BinarySpec => []ReadersBounded
<1>1. BinaryInit => BinaryInv
  BY DEF BinaryInit, BinaryInv, TouchedCovered, ImageOfFile, RegionIsContent
<1>2. BinaryInv /\ [BinaryNext]_binaryVars => BinaryInv'
  <2> SUFFICES ASSUME BinaryInv, [BinaryNext]_binaryVars
               PROVE  BinaryInv'
    OBVIOUS
  <2>1. CASE Open
    BY <2>1, OpenKeeps
  <2>2. CASE parse_binary_image
    BY <2>2, ParseKeeps
  <2>3. ASSUME NEW wanted \in {".abix.metadata", ".abix.names"}, read_region(wanted)
        PROVE  BinaryInv'
    BY <2>3, ReadRegionKeeps
  <2>4. CASE UNCHANGED binaryVars
    BY <2>4 DEF binaryVars, BinaryInv, TouchedCovered, ImageOfFile, RegionIsContent
  <2> QED BY <2>1, <2>2, <2>3, <2>4 DEF BinaryNext
<1> QED BY <1>1, <1>2, BinaryInvHolds, PTL DEF BinarySpec
-----------------------------------------------------------------------------
(***************************************************************************)
(* Fixed-width arithmetic, and the atomic operations.                      *)
(***************************************************************************)
LEMMA QuotientUnique ==
    ASSUME NEW b \in Nat \ {0}, NEW q \in Nat, NEW r \in 0..(b - 1)
    PROVE  (q * b + r) \div b = q /\ (q * b + r) % b = r
  OBVIOUS

\* A number is a quotient and what is left.
LEMMA Quotient ==
    ASSUME NEW a \in Nat, NEW b \in Nat \ {0}
    PROVE  \E q \in Nat, r \in 0..(b - 1) : a = q * b + r /\ a \div b = q /\ a % b = r
<1> DEFINE P == {n \in Nat : \E q \in Nat, r \in 0..(b - 1) : n = q * b + r}
<1>1. 0 \in P
  <2>1. 0 \in Nat /\ 0 \in 0..(b - 1) /\ 0 = 0 * b + 0
    OBVIOUS
  <2> QED BY <2>1
<1>2. ASSUME NEW n \in Nat, n \in P
      PROVE  n + 1 \in P
  <2>1. PICK q \in Nat, r \in 0..(b - 1) : n = q * b + r
    BY <1>2
  <2>2. CASE r + 1 <= b - 1
    <3>1. r + 1 \in 0..(b - 1) /\ n + 1 = q * b + (r + 1)
      BY <2>1, <2>2
    <3> QED BY <3>1
  <2>3. CASE ~(r + 1 <= b - 1)
    <3>1. r = b - 1 /\ q + 1 \in Nat /\ 0 \in 0..(b - 1)
      BY <2>3
    <3>2. (q + 1) * b = q * b + b
      OBVIOUS
    <3>3. n + 1 = (q + 1) * b + 0
      BY <2>1, <3>1, <3>2
    <3>4. \E c \in Nat, e \in 0..(b - 1) : n + 1 = c * b + e
      BY <3>1, <3>3, Zenon
    <3> QED BY <3>4
  <2> QED BY <2>2, <2>3
<1> HIDE DEF P
<1>3. a \in P
  <2>1. Nat \subseteq P
    BY <1>1, <1>2, NumbersByInduction
  <2> QED BY <2>1
<1>4. PICK q \in Nat, r \in 0..(b - 1) : a = q * b + r
  BY <1>3 DEF P
<1> QED BY <1>4, QuotientUnique
LEMMA ProductIsNat ==
    ASSUME NEW a \in Nat, NEW b \in Nat
    PROVE  a * b \in Nat /\ a * b = b * a
  OBVIOUS
LEMMA ProductGrows ==
    ASSUME NEW a \in Nat, NEW b \in Nat, NEW c \in Nat, a <= b
    PROVE  a * c <= b * c
  OBVIOUS
-----------------------------------------------------------------------------
LEMMA Widths ==
    /\ Word \in Nat \ {0, 1} /\ Byte \in Nat \ {0, 1}
    /\ UnitsPerMs \in Nat \ {0} /\ Giga \in Nat \ {0}
  BY WordsAssumption

LEMMA DeadlinesOnTime ==
    ASSUME NEW now \in 1..(Word - 1), NEW ms \in Nat, now + ms * UnitsPerMs < Word
    PROVE  /\ bounded(after_ms(now, ms))
           /\ \A later \in now..(Word - 1) : expired(after_ms(now, ms), later) <=> later >= now + ms * UnitsPerMs
<1> DEFINE d == ms * UnitsPerMs
<1>1. Word \in Nat \ {0} /\ UnitsPerMs \in Nat /\ now \in Nat
  BY Widths
<1>2. d \in Nat
  BY <1>1, ProductIsNat
<1>3. CASE ms = 0
  <2>1. d = 0 /\ after_ms(now, ms) = 1
    BY <1>1, <1>3 DEF after_ms
  <2> HIDE DEF d
  <2> QED BY <1>1, <2>1 DEF bounded, expired, d
<1>4. CASE ms # 0
  <2>0. duration_units(ms) = d % Word
    BY DEF duration_units
  <2> HIDE DEF d
  <2>1. after_ms(now, ms) = (now + (d % Word)) % Word
    <3> DEFINE y == duration_units(ms)
    <3>1. after_ms(now, ms) = (now + y) % Word
      BY <1>4 DEF after_ms
    <3> QED BY <2>0, <3>1
  <2>2. d \in 0..(Word - 1) /\ now + d \in 0..(Word - 1)
    BY <1>1, <1>2 DEF d
  <2>3. d % Word = d /\ (now + d) % Word = now + d
    BY <1>1, <2>2, SmallRemainder
  <2>4. after_ms(now, ms) = now + d
    BY <2>1, <2>3
  <2> QED BY <1>1, <1>2, <2>4 DEF bounded, expired, d
<1> QED BY <1>3, <1>4

LEMMA TicksExact ==
    ASSUME NEW ticks \in Nat, NEW f \in 1..Word, (f - 1) * Giga < Word
    PROVE  /\ (ticks * Giga) \div f < Word => monotonic_now_ns(ticks, f) = (ticks * Giga) \div f
           /\ counter_units(1, f) > 0
<1>1. Word \in Nat \ {0, 1} /\ Giga \in Nat \ {0} /\ f \in Nat \ {0}
  BY Widths
<1>2. PICK q \in Nat, r \in 0..(f - 1) : ticks = q * f + r /\ ticks \div f = q /\ ticks % f = r
  BY <1>1, Quotient
<1> DEFINE u == q * Giga
           v == r * Giga
<1>3. u \in Nat /\ v \in Nat /\ r \in Nat
  BY <1>1, <1>2, ProductIsNat
<1>4. v < Word
  <2>1. v <= (f - 1) * Giga
    BY <1>1, <1>2, <1>3, ProductGrows
  <2>2. (f - 1) * Giga \in Nat
    BY <1>1, ProductIsNat
  <2> HIDE DEF v
  <2> QED BY <1>1, <1>3, <2>1, <2>2
<1>5. PICK w \in Nat, x \in 0..(f - 1) : v = w * f + x /\ v \div f = w
  BY <1>1, <1>3, Quotient
<1>6. ticks * Giga = (u + w) * f + x
  <2>1. ticks * Giga = (q * f) * Giga + v
    BY <1>1, <1>2, <1>3
  <2>2. (q * f) * Giga = u * f
    BY <1>1, <1>2
  <2>3. (u + w) * f = u * f + w * f
    BY <1>1, <1>3, <1>5
  <2> HIDE DEF u, v
  <2>4. u * f \in Nat /\ w * f \in Nat
    BY <1>1, <1>3, <1>5, ProductIsNat
  <2> QED BY <1>3, <1>5, <2>1, <2>2, <2>3, <2>4
<1> HIDE DEF u, v
<1>7. (ticks * Giga) \div f = u + w
  BY <1>1, <1>3, <1>5, <1>6, QuotientUnique
<1>8. monotonic_now_ns(ticks, f) = ((u % Word) + ((v % Word) \div f)) % Word
  BY <1>2 DEF monotonic_now_ns, u, v
<1>9. (ticks * Giga) \div f < Word => monotonic_now_ns(ticks, f) = (ticks * Giga) \div f
  <2> SUFFICES ASSUME u + w < Word
               PROVE  monotonic_now_ns(ticks, f) = u + w
    BY <1>7
  <2>1. u \in 0..(Word - 1) /\ v \in 0..(Word - 1) /\ u + w \in 0..(Word - 1)
    BY <1>1, <1>3, <1>4, <1>5
  <2>2. u % Word = u /\ v % Word = v /\ (u + w) % Word = u + w
    BY <1>1, <2>1, SmallRemainder
  <2> QED BY <1>5, <1>8, <2>2
<1>10. counter_units(1, f) > 0
  <2> DEFINE k == f \div 1000
             m == IF k # 0 THEN k ELSE 1
  <2>1. k \in Nat /\ k < f
    BY <1>1
  <2>2. counter_units(1, f) = (1 * m) % Word
    BY DEF counter_units
  <2> HIDE DEF k
  <2>3. m \in 1..(Word - 1) /\ 1 * m = m
    BY <1>1, <2>1
  <2> HIDE DEF m
  <2>4. m % Word = m
    BY <1>1, <2>3, SmallRemainder
  <2> QED BY <2>2, <2>3, <2>4
<1> QED BY <1>9, <1>10

LEMMA ArraysHaveRoom ==
    ASSUME NEW count \in Nat, NEW elem \in Nat, NEW bytes \in alloc_array(count, elem)
    PROVE  bytes = count * elem
<1>1. Word \in Nat \ {0}
  BY Widths
<1>2. /\ elem # 0 => ~(count > (Word - 1) \div elem)
      /\ bytes = (count * elem) % Word
  BY DEF alloc_array
<1>3. count * elem \in 0..(Word - 1)
  <2>1. CASE elem = 0
    BY <1>1, <2>1
  <2>2. CASE elem # 0
    <3>0. Word - 1 \in Nat /\ elem \in Nat \ {0}
      BY <1>1, <2>2
    <3>1. PICK q \in Nat, r \in 0..(elem - 1) : Word - 1 = q * elem + r /\ (Word - 1) \div elem = q
      BY <3>0, Quotient
    <3>2. count <= q
      BY <1>2, <2>2, <3>1
    <3>3. count * elem <= q * elem /\ count * elem \in Nat /\ q * elem \in Nat
      BY <3>2, ProductGrows, ProductIsNat
    <3> QED BY <1>1, <3>1, <3>3
  <2> QED BY <2>1, <2>2
<1> QED BY <1>1, <1>2, <1>3, SmallRemainder

-----------------------------------------------------------------------------
\* Mapping.h: the domain of a subsystem names it, and its module.
LEMMA DomainIsOwn ==
    ASSUME NEW s \in Subsystems
    PROVE  /\ DomainOf(s) \in Nat \ {0} /\ domain_local(DomainOf(s)) = s
           /\ domain_module(DomainOf(s)) = 2 /\ domain_owner(DomainOf(s)) = 1
<1> DEFINE M == ModuleMax
           L == LocalMax
           p == M * L
           id == (M + 2) * L + s
<1>1. M \in Nat /\ M > 2 /\ L \in Nat /\ L > 5 /\ s \in 1..5
  BY WordsAssumption DEF Subsystems
<1>2. p \in Nat /\ (M + 2) * L = p + 2 * L /\ 3 * L <= p
  <2>1. 3 * L <= M * L
    BY <1>1, ProductGrows
  <2>2. (M + 2) * L = p + 2 * L
    BY <1>1
  <2> QED BY <1>1, <2>1, <2>2, ProductIsNat
<1>3. 2 % M = 2 /\ s % L = s
  <2>1. M \in Nat \ {0} /\ L \in Nat \ {0} /\ 2 \in 0..(M - 1) /\ s \in 0..(L - 1)
    BY <1>1
  <2> QED BY <2>1, SmallRemainder
<1>4. DomainOf(s) = id
  <2>1. DomainOf(s) = p + (2 % M) * L + (s % L)
    BY DEF DomainOf, make_skl_domain
  <2> HIDE DEF p, M, L
  <2>2. DomainOf(s) = (p + 2 * L) + s
    BY <1>3, <2>1
  <2> QED BY <1>2, <2>2
<1>5. id \div L = M + 2 /\ id % L = s
  <2>1. L \in Nat \ {0} /\ M + 2 \in Nat /\ s \in 0..(L - 1)
    BY <1>1
  <2> HIDE DEF M, L
  <2> QED BY <2>1, QuotientUnique
<1>6. (M + 2) % M = 2
  <2>1. M \in Nat \ {0} /\ 1 \in Nat /\ 2 \in 0..(M - 1) /\ M + 2 = 1 * M + 2
    BY <1>1
  <2> HIDE DEF M
  <2> QED BY <2>1, QuotientUnique
<1>7. id \div p = 1
  <2>1. 2 * L + s \in 0..(p - 1) /\ p \in Nat \ {0}
    BY <1>1, <1>2
  <2>2. id = 1 * p + (2 * L + s)
    BY <1>1, <1>2
  <2> HIDE DEF id, p, M, L
  <2> QED BY <2>1, <2>2, QuotientUnique
<1>8. id \in Nat \ {0}
  BY <1>1, <1>2
<1> HIDE DEF id, p
<1> QED BY <1>4, <1>5, <1>6, <1>7, <1>8 DEF domain_local, domain_module, domain_owner, p

\* as_error_value(): 0 stands for 0, and no two values for the same.
LEMMA ErrorValuesDiffer ==
    ASSUME NEW v \in 0..(Byte - 1), NEW w \in 0..(Byte - 1)
    PROVE  /\ as_error_value(v) = as_error_value(w) => v = w
           /\ v # 0 => as_error_value(v) # 0
<1>1. Byte \in Nat \ {0, 1}
  BY Widths
<1>2. PICK half \in Nat : half = Byte \div 2
  BY <1>1
<1>3. half <= Byte
  BY <1>1, <1>2
<1> QED BY <1>1, <1>2, <1>3 DEF as_error_value

LEMMA ErrorsKept ==
    ASSUME NEW s \in Subsystems, NEW v \in 0..(Byte - 1)
    PROVE  LET told == [of |-> s, value |-> v]
               code == to_error_code(told)
           IN /\ is_canonical(code) /\ (is_success(code) <=> v = 0)
              /\ \A other \in Statuses : (to_error_code(other) = code /\ v # 0) => other = told
<1> DEFINE told == [of |-> s, value |-> v]
           code == to_error_code(told)
           e == as_error_value(v)
<1>1. DomainOf(s) \in Nat \ {0} /\ domain_local(DomainOf(s)) = s
  BY DomainIsOwn
<1>2. v # 0 => e # 0
  BY ErrorValuesDiffer
<1>3. code = IF v = 0 THEN [domain |-> 0, value |-> 0, reserved |-> 0]
             ELSE [domain |-> DomainOf(s), value |-> e, reserved |-> 0]
  BY DEF to_error_code, success
<1> HIDE DEF e, code
<1>4. is_canonical(code) /\ (is_success(code) <=> v = 0)
  BY <1>1, <1>2, <1>3 DEF is_canonical, is_success
<1>5. ASSUME NEW other \in Statuses, to_error_code(other) = code, v # 0
      PROVE  other = told
  <2>1. other.of \in Subsystems /\ other.value \in 0..(Byte - 1) /\ other = [of |-> other.of, value |-> other.value]
    BY DEF Statuses
  <2>2. code = [domain |-> DomainOf(s), value |-> e, reserved |-> 0]
    BY <1>3, <1>5
  <2>3. other.value # 0
    <3>1. code.value # 0
      BY <1>2, <1>5, <2>2
    <3> QED BY <1>5, <3>1 DEF to_error_code, success
  <2>4. code = [domain |-> DomainOf(other.of), value |-> as_error_value(other.value), reserved |-> 0]
    BY <1>5, <2>3 DEF to_error_code
  <2>5. DomainOf(other.of) = DomainOf(s) /\ as_error_value(other.value) = e
    BY <2>2, <2>4
  <2>6. other.of = s
    BY <1>1, <2>1, <2>5, DomainIsOwn
  <2>7. other.value = v
    BY <2>1, <2>5, ErrorValuesDiffer DEF e
  <2> QED BY <2>1, <2>6, <2>7
<1> QED BY <1>4, <1>5 DEF code

\* Declaration.h: the packed number of a version.
LEMMA VersionsUnpack ==
    ASSUME NEW v \in Versions
    PROVE  /\ VERSION_EXTRACT(VERSION_NUMBER(v)) = v
           /\ \A w \in Versions : Older(v, w) <=> VERSION_NUMBER(v) < VERSION_NUMBER(w)
<1>1. ASSUME NEW w \in Versions
      PROVE  /\ w = [major |-> w.major, minor |-> w.minor, patch |-> w.patch]
             /\ w.major \in Int /\ 0 <= w.major /\ w.major < 100
             /\ w.minor \in Int /\ 0 <= w.minor /\ w.minor < 100
             /\ w.patch \in Int /\ 0 <= w.patch /\ w.patch < 100000
  BY VersionsAssumption
<1>2. ASSUME NEW w \in Versions
      PROVE  VERSION_NUMBER(w) = w.major * 10000000 + w.minor * 100000 + w.patch
  <2>1. w.major % 100 = w.major /\ w.minor % 100 = w.minor /\ w.patch % 100000 = w.patch
    BY <1>1
  <2> QED BY <2>1 DEF VERSION_NUMBER
<1>3. VERSION_EXTRACT(VERSION_NUMBER(v)) = v
  <2> DEFINE n == VERSION_NUMBER(v)
             a == v.major
             b == v.minor
             c == v.patch
  <2>1. n = a * 10000000 + b * 100000 + c
    BY <1>2
  <2>2. /\ v = [major |-> a, minor |-> b, patch |-> c]
        /\ a \in Int /\ 0 <= a /\ a < 100 /\ b \in Int /\ 0 <= b /\ b < 100 /\ c \in Int /\ 0 <= c /\ c < 100000
    BY <1>1
  <2> HIDE DEF n, a, b, c
  <2>3. n \div 10000000 = a
    BY <2>1, <2>2
  <2>4. n \div 100000 = a * 100 + b
    BY <2>1, <2>2
  <2>5. (a * 100 + b) % 100 = b
    BY <2>2
  <2>6. n % 100000 = c
    BY <2>1, <2>2
  <2>7. VERSION_EXTRACT(n) = [major |-> a, minor |-> b, patch |-> c]
    BY <2>3, <2>4, <2>5, <2>6 DEF VERSION_EXTRACT
  <2> QED BY <2>2, <2>7 DEF n
<1>4. ASSUME NEW w \in Versions
      PROVE  Older(v, w) <=> VERSION_NUMBER(v) < VERSION_NUMBER(w)
  <2> DEFINE a == v.major
             b == v.minor
             c == v.patch
             d == w.major
             e == w.minor
             f == w.patch
  <2>1. /\ a \in Int /\ 0 <= a /\ a < 100 /\ b \in Int /\ 0 <= b /\ b < 100 /\ c \in Int /\ 0 <= c /\ c < 100000
        /\ d \in Int /\ 0 <= d /\ d < 100 /\ e \in Int /\ 0 <= e /\ e < 100 /\ f \in Int /\ 0 <= f /\ f < 100000
    BY <1>1
  <2>2. /\ VERSION_NUMBER(v) = a * 10000000 + b * 100000 + c
        /\ VERSION_NUMBER(w) = d * 10000000 + e * 100000 + f
    BY <1>2
  <2>3. Older(v, w) <=> (a < d \/ (a = d /\ b < e) \/ (a = d /\ b = e /\ c < f))
    BY DEF Older
  <2> HIDE DEF a, b, c, d, e, f
  <2>4. b * 100000 + c < 10000000 /\ e * 100000 + f < 10000000
    BY <2>1
  <2>5. (a < d \/ (a = d /\ b < e) \/ (a = d /\ b = e /\ c < f))
            <=> a * 10000000 + b * 100000 + c < d * 10000000 + e * 100000 + f
    <3>1. CASE a < d
      BY <2>1, <2>4, <3>1
    <3>2. CASE d < a
      BY <2>1, <2>4, <3>2
    <3>3. CASE a = d
      BY <2>1, <3>3
    <3> QED BY <2>1, <3>1, <3>2, <3>3
  <2> QED BY <2>2, <2>3, <2>5
<1> QED BY <1>3, <1>4

-----------------------------------------------------------------------------
\* The two backends do the same to the same value, whatever the operation.
LEMMA BackendsDoTheSame ==
    ASSUME NEW op \in Operations, NEW m \in Int
    PROVE  gcc(op, m) = msvc(op, m) /\ gcc(op, m).memory \in Int
<1> DEFINE n == op.name
<1>1. /\ n \in {"load", "store", "inc", "dec", "exchange", "cas"}
      /\ op.value \in Int /\ op.expected \in Int /\ Byte \in Nat \ {0, 1}
  BY Widths DEF Operations
<1>2. \A x \in Int : x % Byte \in Int
  BY <1>1
<1> USE DEF After
<1>3. CASE n = "load"
  <2>1. gcc(op, m) = [memory |-> m % Byte, returned |-> m]
    BY <1>3 DEF gcc
  <2>2. msvc(op, m) = compare_exchange_value(m, 0, 0)
    BY <1>3 DEF msvc
  <2> QED BY <1>2, <2>1, <2>2 DEF compare_exchange_value
<1>4. CASE n = "store"
  <2>1. gcc(op, m) = [memory |-> op.value % Byte, returned |-> 0]
    BY <1>4 DEF gcc
  <2>2. msvc(op, m) = [exchange_value(m, op.value) EXCEPT !.returned = 0]
    BY <1>4 DEF msvc
  <2> QED BY <1>1, <1>2, <2>1, <2>2 DEF exchange_value
<1>5. CASE n = "inc"
  BY <1>2, <1>5 DEF gcc, msvc, add_fetch
<1>6. CASE n = "dec"
  <2>1. m + (Byte - 1) = (m + Byte) - 1 /\ m + (Byte - 1) \in Int
    BY <1>1
  <2> QED BY <1>2, <1>6, <2>1 DEF gcc, msvc, add_fetch
<1>7. CASE n = "exchange"
  BY <1>1, <1>2, <1>7 DEF gcc, msvc, exchange_value
<1>8. CASE n = "cas"
  <2>1. gcc(op, m) = IF m = op.expected THEN [memory |-> op.value % Byte, returned |-> Byte]
                     ELSE [memory |-> m % Byte, returned |-> m]
    BY <1>8 DEF gcc
  <2> DEFINE r == compare_exchange_value(m, op.value, op.expected)
  <2>2. msvc(op, m) = [r EXCEPT !.returned = IF r.returned = op.expected THEN Byte ELSE r.returned]
    BY <1>8 DEF msvc
  <2>3. r = [memory |-> (IF m = op.expected THEN op.value ELSE m) % Byte, returned |-> m]
    BY DEF compare_exchange_value
  <2> HIDE DEF r
  <2>4. msvc(op, m) = [memory |-> (IF m = op.expected THEN op.value ELSE m) % Byte,
                       returned |-> IF m = op.expected THEN Byte ELSE m]
    BY <2>2, <2>3
  <2> QED BY <1>1, <1>2, <2>1, <2>4
<1> QED BY <1>1, <1>3, <1>4, <1>5, <1>6, <1>7, <1>8

\* What is being computed with is one of the inputs; the values of the atomic variable
\* are numbers, and the backends agree on them.
WordsInv ==
    /\ word # NoWord => word \in Computations
    /\ DOMAIN memory = Backends /\ DOMAIN returned = Backends /\ memory["gcc"] \in Int
    /\ BackendsAgree

LEMMA WordsInvHolds == WordsInv => WordsExact
<1> SUFFICES ASSUME WordsInv
             PROVE  WordsExact
  OBVIOUS
<1> USE DEF Kind
<1>1. word # NoWord => word \in Computations
  BY DEF WordsInv
<1>2. DeadlineOnTime
  <2> SUFFICES ASSUME Kind("deadline")
               PROVE  DeadlineOnTime
    BY DEF DeadlineOnTime
  <2>1. word.now \in 1..(Word - 1) /\ word.ms \in Nat
    BY <1>1 DEF Computations
  <2> QED BY <2>1, DeadlinesOnTime DEF DeadlineOnTime
<1>3. NanosecondsExact
  <2> SUFFICES ASSUME Kind("ticks")
               PROVE  NanosecondsExact
    BY DEF NanosecondsExact
  <2>1. word.ticks \in Nat /\ word.frequency \in Frequencies
    BY <1>1 DEF Computations
  <2>2. word.frequency \in 1..Word /\ (word.frequency - 1) * Giga < Word
    BY <2>1, WordsAssumption
  <2> QED BY <2>1, <2>2, TicksExact DEF NanosecondsExact
<1>4. ArrayHasRoom
  <2> SUFFICES ASSUME Kind("array")
               PROVE  ArrayHasRoom
    BY DEF ArrayHasRoom
  <2>1. word.count \in Nat /\ word.elem \in Nat
    BY <1>1 DEF Computations
  <2> QED BY <2>1, ArraysHaveRoom DEF ArrayHasRoom
<1>5. ErrorsKeepIdentity
  <2> SUFFICES ASSUME Kind("status")
               PROVE  ErrorsKeepIdentity
    BY DEF ErrorsKeepIdentity
  <2>1. word.of \in Subsystems /\ word.value \in 0..(Byte - 1)
    BY <1>1 DEF Computations, Kind
  <2>2. /\ domain_module(DomainOf(word.of)) = 2 /\ domain_local(DomainOf(word.of)) = word.of
        /\ domain_owner(DomainOf(word.of)) = 1
    BY <2>1, DomainIsOwn
  <2> QED BY <2>1, <2>2, ErrorsKept DEF ErrorsKeepIdentity
<1>6. VersionsOrdered
  <2> SUFFICES ASSUME Kind("version")
               PROVE  VersionsOrdered
    BY DEF VersionsOrdered
  <2>1. word.of \in Versions
    BY <1>1 DEF Computations
  <2> QED BY <2>1, VersionsUnpack DEF VersionsOrdered
<1> QED BY <1>2, <1>3, <1>4, <1>5, <1>6 DEF WordsInv, WordsExact

\* Whatever the width of the word: deadlines, nanoseconds, array sizes, error codes and
\* packed versions are what they stand for, and no sequence of operations tells the two
\* backends of the atomics apart.
THEOREM WordsStayExact == WordsSpec => []WordsExact
<1>1. WordsInit => WordsInv
  BY DEF WordsInit, WordsInv, Backends, BackendsAgree
<1>2. WordsInv /\ [WordsNext]_wordVars => WordsInv'
  <2> SUFFICES ASSUME WordsInv, [WordsNext]_wordVars
               PROVE  WordsInv'
    OBVIOUS
  <2>1. CASE Compute
    BY <2>1 DEF WordsInv, Compute, BackendsAgree
  <2>2. CASE Operate
    <3>1. PICK op \in Operations :
            LET g == gcc(op, memory["gcc"])
                m == msvc(op, memory["msvc"])
            IN /\ memory' = [b \in Backends |-> IF b = "gcc" THEN g.memory ELSE m.memory]
               /\ returned' = [b \in Backends |-> IF b = "gcc" THEN g.returned ELSE m.returned]
      BY <2>2 DEF Operate
    <3>2. memory["gcc"] \in Int /\ memory["msvc"] = memory["gcc"]
      BY DEF WordsInv, BackendsAgree
    <3>3. gcc(op, memory["gcc"]) = msvc(op, memory["msvc"]) /\ gcc(op, memory["gcc"]).memory \in Int
      BY <3>2, BackendsDoTheSame
    <3>4. /\ DOMAIN memory' = Backends /\ DOMAIN returned' = Backends /\ memory'["gcc"] \in Int
          /\ memory'["gcc"] = memory'["msvc"] /\ returned'["gcc"] = returned'["msvc"]
      BY <3>1, <3>3 DEF Backends
    <3>5. word' = word
      BY <2>2 DEF Operate
    <3> QED BY <3>4, <3>5 DEF WordsInv, BackendsAgree
  <2>3. CASE UNCHANGED wordVars
    BY <2>3 DEF wordVars, WordsInv, BackendsAgree
  <2> QED BY <2>1, <2>2, <2>3 DEF WordsNext
<1> QED BY <1>1, <1>2, WordsInvHolds, PTL DEF WordsSpec
-----------------------------------------------------------------------------
(***************************************************************************)
(* Identities.  A text is pieces put together.  If no piece is the end of  *)
(* another, and what stands before the pieces ends in none of them, there  *)
(* is one way to take it apart, from the last piece on (PiecesUnique).     *)
(***************************************************************************)

\* What is where in two sequences put together.
LEMMA ConcatAt ==
    ASSUME NEW A, NEW s, NEW t, s \in Seq(A), t \in Seq(A)
    PROVE  /\ s \o t \in Seq(A) /\ Len(s) \in Nat /\ Len(t) \in Nat /\ Len(s \o t) = Len(s) + Len(t)
           /\ \A i \in 1..Len(s) : (s \o t)[i] = s[i]
           /\ \A i \in 1..Len(t) : (s \o t)[Len(s) + i] = t[i]
<1>1. Len(s) \in Nat /\ Len(t) \in Nat
  BY LenProperties
<1>2. /\ s \o t \in Seq(A) /\ Len(s \o t) = Len(s) + Len(t)
      /\ \A i \in 1..(Len(s) + Len(t)) : (s \o t)[i] = IF i <= Len(s) THEN s[i] ELSE t[i - Len(s)]
  BY ConcatProperties
<1>3. ASSUME NEW i \in 1..Len(s)
      PROVE  (s \o t)[i] = s[i]
  <2>1. i \in 1..(Len(s) + Len(t)) /\ i <= Len(s)
    BY <1>1
  <2> QED BY <1>2, <2>1
<1>4. ASSUME NEW i \in 1..Len(t)
      PROVE  (s \o t)[Len(s) + i] = t[i]
  <2>1. Len(s) + i \in 1..(Len(s) + Len(t)) /\ ~(Len(s) + i <= Len(s)) /\ (Len(s) + i) - Len(s) = i
    BY <1>1
  <2>2. (s \o t)[Len(s) + i] = t[(Len(s) + i) - Len(s)]
    BY <1>2, <2>1
  <2> QED BY <2>1, <2>2
<1> QED BY <1>1, <1>2, <1>3, <1>4

\* Two ways to cut a sequence in two.
Cut(A, x, a, y, b) ==
    x \in Seq(A) /\ a \in Seq(A) /\ y \in Seq(A) /\ b \in Seq(A) /\ x \o a = y \o b

NoLonger(a, b) == Len(a) <= Len(b)
EndsIn(A, x, a, y, b) == \E z \in Seq(A) : b = z \o a /\ x = y \o z

\* The longer end has the shorter one at its end.
LEMMA SuffixOf ==
    ASSUME NEW A, NEW x, NEW a, NEW y, NEW b, Cut(A, x, a, y, b), NoLonger(a, b)
    PROVE  EndsIn(A, x, a, y, b)
<1> DEFINE d == Len(b) - Len(a)
           z == SubSeq(b, 1, d)
           t == x \o a
<1>0. x \in Seq(A) /\ a \in Seq(A) /\ y \in Seq(A) /\ b \in Seq(A) /\ t = x \o a /\ t = y \o b
  BY DEF Cut
<1> HIDE DEF t
<1>1. /\ Len(x) \in Nat /\ Len(a) \in Nat /\ Len(t) = Len(x) + Len(a)
      /\ \A i \in 1..Len(x) : t[i] = x[i]
      /\ \A i \in 1..Len(a) : t[Len(x) + i] = a[i]
  <2>1. /\ Len(x) \in Nat /\ Len(a) \in Nat /\ Len(x \o a) = Len(x) + Len(a)
        /\ \A i \in 1..Len(x) : (x \o a)[i] = x[i]
        /\ \A i \in 1..Len(a) : (x \o a)[Len(x) + i] = a[i]
    <3>1. x \in Seq(A) /\ a \in Seq(A)
      BY <1>0
    <3> QED BY ONLY <3>1, ConcatAt
  <2> QED BY ONLY <1>0, <2>1, Zenon
<1>2. /\ Len(y) \in Nat /\ Len(b) \in Nat /\ Len(t) = Len(y) + Len(b)
      /\ \A i \in 1..Len(y) : t[i] = y[i]
      /\ \A i \in 1..Len(b) : t[Len(y) + i] = b[i]
  <2>1. /\ Len(y) \in Nat /\ Len(b) \in Nat /\ Len(y \o b) = Len(y) + Len(b)
        /\ \A i \in 1..Len(y) : (y \o b)[i] = y[i]
        /\ \A i \in 1..Len(b) : (y \o b)[Len(y) + i] = b[i]
    <3>1. y \in Seq(A) /\ b \in Seq(A)
      BY <1>0
    <3> QED BY ONLY <3>1, ConcatAt
  <2> QED BY ONLY <1>0, <2>1, Zenon
<1>3. d \in Nat /\ Len(x) = Len(y) + d /\ d + Len(a) = Len(b)
  <2>1. /\ Len(x) \in Nat /\ Len(a) \in Nat /\ Len(t) = Len(x) + Len(a)
        /\ Len(y) \in Nat /\ Len(b) \in Nat /\ Len(t) = Len(y) + Len(b) /\ Len(a) <= Len(b)
    BY <1>1, <1>2 DEF NoLonger
  <2> QED BY ONLY <2>1
<1>4. z \in Seq(A) /\ Len(z) = d /\ \A i \in 1..d : z[i] = b[i]
  <2>1. \A i \in 1..d : b[i] \in A
    <3>1. \A i \in 1..d : i \in 1..Len(b)
      BY <1>1, <1>2, <1>3
    <3> QED BY <1>0, <3>1, ElementOfSeq
  <2>2. /\ z \in Seq(A) /\ Len(z) = IF 1 <= d THEN d - 1 + 1 ELSE 0
        /\ \A i \in 1..(d - 1 + 1) : z[i] = b[1 + i - 1]
    BY <1>3, <2>1, SubSeqProperties
  <2>3. \A i \in 1..d : i \in 1..(d - 1 + 1) /\ 1 + i - 1 = i
    BY <1>3
  <2> QED BY <1>3, <2>2, <2>3
<1> HIDE DEF z
<1>5. b = z \o a
  <2>1. /\ z \o a \in Seq(A) /\ Len(z \o a) = Len(z) + Len(a)
        /\ \A i \in 1..Len(z) : (z \o a)[i] = z[i]
        /\ \A i \in 1..Len(a) : (z \o a)[Len(z) + i] = a[i]
    BY ONLY <1>0, <1>4, ConcatAt
  <2>2. ASSUME NEW i \in 1..Len(b)
        PROVE  b[i] = (z \o a)[i]
    <3>1. CASE i <= d
      <4>1. i \in 1..d /\ i \in 1..Len(z)
        BY <1>3, <1>4, <3>1
      <4> QED BY <1>4, <2>1, <4>1
    <3>2. CASE ~(i <= d)
      <4>1. i - d \in 1..Len(a) /\ Len(z) + (i - d) = i /\ Len(y) + i = Len(x) + (i - d)
        BY <1>1, <1>2, <1>3, <1>4, <3>2
      <4>2. t[Len(x) + (i - d)] = a[i - d] /\ (z \o a)[Len(z) + (i - d)] = a[i - d]
        BY <1>1, <2>1, <4>1
      <4>3. t[Len(y) + i] = b[i]
        BY <1>2
      <4> QED BY <4>1, <4>2, <4>3
    <3> QED BY <3>1, <3>2
  <2>3. Len(b) = Len(z \o a)
    BY <1>3, <1>4, <2>1
  <2> QED BY <1>0, <2>1, <2>2, <2>3, SeqEqual
<1>6. x = y \o z
  <2>1. /\ y \o z \in Seq(A) /\ Len(y \o z) = Len(y) + Len(z)
        /\ \A i \in 1..Len(y) : (y \o z)[i] = y[i]
        /\ \A i \in 1..Len(z) : (y \o z)[Len(y) + i] = z[i]
    BY ONLY <1>0, <1>4, ConcatAt
  <2>2. ASSUME NEW i \in 1..Len(x)
        PROVE  x[i] = (y \o z)[i]
    <3>1. CASE i <= Len(y)
      <4>1. i \in 1..Len(y)
        BY <1>2, <3>1
      <4> QED BY <1>1, <1>2, <2>1, <4>1
    <3>2. CASE ~(i <= Len(y))
      <4>1. /\ i - Len(y) \in 1..d /\ i - Len(y) \in 1..Len(z) /\ i - Len(y) \in 1..Len(b)
            /\ Len(y) + (i - Len(y)) = i
        BY <1>1, <1>2, <1>3, <1>4, <3>2
      <4>2. (y \o z)[Len(y) + (i - Len(y))] = z[i - Len(y)] /\ z[i - Len(y)] = b[i - Len(y)]
        BY <1>4, <2>1, <4>1
      <4>3. t[Len(y) + (i - Len(y))] = b[i - Len(y)] /\ t[i] = x[i]
        BY <1>1, <1>2, <4>1
      <4> QED BY <4>1, <4>2, <4>3
    <3> QED BY <3>1, <3>2
  <2>3. Len(x) = Len(y \o z)
    BY <1>3, <1>4, <2>1
  <2> QED BY <1>0, <2>1, <2>2, <2>3, SeqEqual
<1> QED BY <1>4, <1>5, <1>6 DEF EndsIn

\* Cut at the same place, both parts are the same.
LEMMA SameEnds ==
    ASSUME NEW A, NEW x, NEW a, NEW y, NEW b, Cut(A, x, a, y, b), Len(a) = Len(b)
    PROVE  x = y /\ a = b
<1>0. x \in Seq(A) /\ a \in Seq(A) /\ y \in Seq(A) /\ b \in Seq(A)
  BY DEF Cut
<1>1. Len(a) \in Nat /\ Len(a) <= Len(b)
  BY <1>0, LenProperties
<1>2. PICK z \in Seq(A) : b = z \o a /\ x = y \o z
  <2>1. Cut(A, x, a, y, b) /\ NoLonger(a, b)
    BY <1>1 DEF NoLonger
  <2>2. EndsIn(A, x, a, y, b)
    BY ONLY <2>1, SuffixOf
  <2> QED BY <2>2 DEF EndsIn
<1>3. Len(z) \in Nat /\ Len(b) = Len(z) + Len(a)
  BY <1>0, <1>2, ConcatAt
<1>4. z = <<>>
  <2>1. Len(z) = 0
    BY <1>1, <1>3
  <2> QED BY <2>1, EmptySeq
<1>5. z \o a = a /\ y \o z = y
  BY <1>0, <1>4, ConcatEmptySeq
<1> QED BY <1>2, <1>5

\* What starts alike has one front.
LEMMA SameFronts ==
    ASSUME NEW A, NEW x, NEW a, NEW y, NEW b, Cut(A, x, a, y, b), Len(x) = Len(y)
    PROVE  x = y /\ a = b
<1>1. Len(a) = Len(b)
  <2>0. x \in Seq(A) /\ a \in Seq(A) /\ y \in Seq(A) /\ b \in Seq(A) /\ x \o a = y \o b
    BY DEF Cut
  <2>1. Len(x \o a) = Len(x) + Len(a) /\ Len(x) \in Nat /\ Len(a) \in Nat
    BY ONLY <2>0, ConcatAt
  <2>2. Len(y \o b) = Len(y) + Len(b) /\ Len(y) \in Nat /\ Len(b) \in Nat
    BY ONLY <2>0, ConcatAt
  <2> QED BY <2>0, <2>1, <2>2
<1> QED BY <1>1, SameEnds

\* Which two of three are put together first does not matter.
LEMMA Regrouped ==
    ASSUME NEW A
    PROVE  \A x, y, z \in Seq(A) : x \o (y \o z) = (x \o y) \o z
BY ConcatAssociative

\* Pieces of which none is the end of another, and what ends in none of them.
SuffixFree(C, A) == <<>> \notin C /\ \A c, e \in C, x \in Seq(A) : c = x \o e => x = <<>>
Unended(b, C, A) == \A x \in Seq(A), c \in C : b # x \o c

\* The last piece of two equal sequences is one piece.
LEMMA LastPiece ==
    ASSUME NEW A, NEW C, C \subseteq Seq(A), SuffixFree(C, A), NEW x, NEW y, NEW a, NEW b,
           a \in C, b \in C, Cut(A, x, a, y, b)
    PROVE  x = y /\ a = b
<1>0. Cut(A, x, a, y, b)
  OBVIOUS
<1>1. x \in Seq(A) /\ y \in Seq(A) /\ a \in Seq(A) /\ b \in Seq(A) /\ x \o a = y \o b
  BY DEF Cut
<1>2. Len(a) \in Nat /\ Len(b) \in Nat
  BY <1>1, LenProperties
<1>3. CASE Len(a) <= Len(b)
  <2>0. NoLonger(a, b)
    BY <1>3 DEF NoLonger
  <2>1. EndsIn(A, x, a, y, b)
    BY ONLY <1>0, <2>0, SuffixOf
  <2>4. PICK z \in Seq(A) : b = z \o a /\ x = y \o z
    BY <2>1 DEF EndsIn
  <2>2. z = <<>>
    BY <2>4 DEF SuffixFree
  <2>3. z \o a = a /\ y \o z = y
    BY <1>1, <2>2, ConcatEmptySeq
  <2> QED BY <2>4, <2>3
<1>4. CASE Len(b) <= Len(a)
  <2>0. Cut(A, y, b, x, a) /\ NoLonger(b, a)
    BY <1>4 DEF Cut, NoLonger
  <2>1. EndsIn(A, y, b, x, a)
    BY ONLY <2>0, SuffixOf
  <2>4. PICK z \in Seq(A) : a = z \o b /\ y = x \o z
    BY <2>1 DEF EndsIn
  <2>2. z = <<>>
    BY <2>4 DEF SuffixFree
  <2>3. z \o b = b /\ x \o z = x
    BY <1>1, <2>2, ConcatEmptySeq
  <2> QED BY <2>4, <2>3
<1> QED BY <1>2, <1>3, <1>4

\* The loop behind Each, step by step.
LEMMA EachLoop ==
    ASSUME NEW A, NEW ss, Len(ss) \in Nat, \A k \in 1..Len(ss) : ss[k] \in Seq(A)
    PROVE  \E g : /\ g \in [0..Len(ss) -> Seq(A)] /\ g[0] = <<>> /\ Each(ss) = g[Len(ss)]
                  /\ \A k \in 1..Len(ss) : g[k] = g[k - 1] \o ss[k]
<1> DEFINE n == Len(ss)
           step == [x \in Seq(A) \X (1..n) |-> x[1] \o ss[x[2]]]
           Upto(g) == g = [k \in 0..n |-> IF k = 0 THEN <<>> ELSE g[k - 1] \o ss[k]]
<1>1. <<>> \in Seq(A)
  OBVIOUS
<1>2. step \in [Seq(A) \X (1..n) -> Seq(A)]
  <2>1. ASSUME NEW x \in Seq(A) \X (1..n)
        PROVE  x[1] \o ss[x[2]] \in Seq(A)
    <3>1. x[1] \in Seq(A) /\ ss[x[2]] \in Seq(A)
      OBVIOUS
    <3> QED BY <3>1, ConcatProperties
  <2> QED BY <2>1
<1>3. \A y \in Seq(A), k \in 1..n : step[<<y, k>>] = y \o ss[k]
  OBVIOUS
<1> HIDE DEF step
<1>4. PICK g : Loop(g, Seq(A), <<>>, n, step)
  BY <1>1, <1>2, LoopExists
<1>5. /\ g \in [0..n -> Seq(A)] /\ g[0] = <<>>
      /\ \A k \in 1..n : g[k] = g[k - 1] \o ss[k]
  <2>1. /\ g \in [0..n -> Seq(A)] /\ g[0] = <<>>
        /\ \A k \in 1..n : g[k] = step[<<g[k - 1], k>>]
    BY <1>4 DEF Loop
  <2>2. \A k \in 1..n : k - 1 \in 0..n
    OBVIOUS
  <2> QED BY <1>3, <2>1, <2>2
<1>6. Upto(g)
  <2>1. \A k \in 0..n : k # 0 => k \in 1..n
    OBVIOUS
  <2>2. \A k \in 0..n : g[k] = IF k = 0 THEN <<>> ELSE g[k - 1] \o ss[k]
    BY <1>5, <2>1
  <2>3. g = [k \in 0..n |-> g[k]]
    BY <1>5
  <2> QED BY <2>2, <2>3
<1>7. ASSUME NEW h, Upto(h)
      PROVE  h[n] = g[n]
  <2> DEFINE P == {k \in Nat : k <= n => h[k] = g[k]}
  <2>0. \A k \in 0..n : h[k] = IF k = 0 THEN <<>> ELSE h[k - 1] \o ss[k]
    BY <1>7
  <2>1. 0 \in P
    BY <1>5, <2>0
  <2>2. ASSUME NEW k \in Nat, k \in P
        PROVE  k + 1 \in P
    <3> SUFFICES ASSUME k + 1 <= n
                 PROVE  h[k + 1] = g[k + 1]
      OBVIOUS
    <3>1. k + 1 \in 1..n /\ k + 1 \in 0..n /\ k + 1 # 0 /\ (k + 1) - 1 = k /\ k <= n
      OBVIOUS
    <3>2. h[k] = g[k]
      BY <2>2, <3>1
    <3>3. h[k + 1] = h[k] \o ss[k + 1]
      BY <2>0, <3>1
    <3>4. g[k + 1] = g[k] \o ss[k + 1]
      BY <1>5, <3>1
    <3> QED BY <3>2, <3>3, <3>4
  <2> HIDE DEF P
  <2>3. n \in P
    <3>1. Nat \subseteq P
      BY <2>1, <2>2, NumbersByInduction
    <3> QED BY <3>1
  <2> QED BY <2>3 DEF P
<1>8. Each(ss) = g[n]
  <2> DEFINE u == CHOOSE h : Upto(h)
  <2>1. Each(ss) = u[n]
    BY DEF Each
  <2>2. Upto(u)
    BY <1>6
  <2> HIDE DEF u
  <2> QED BY <1>7, <2>1, <2>2
<1> QED BY <1>5, <1>8


\* What is put together of such pieces behind such a beginning can be taken apart.
Together(A, C, b, d, ss, tt) ==
    /\ C \subseteq Seq(A) /\ SuffixFree(C, A)
    /\ b \in Seq(A) /\ d \in Seq(A) /\ Unended(b, C, A) /\ Unended(d, C, A)
    /\ ss \in Seq(C) /\ tt \in Seq(C) /\ b \o Each(ss) = d \o Each(tt)

\* What is put together can be taken apart in one way.
LEMMA PiecesUnique ==
    ASSUME NEW A, NEW C, NEW b, NEW d, NEW ss, NEW tt, Together(A, C, b, d, ss, tt)
    PROVE  b = d /\ ss = tt
<1>0. /\ C \subseteq Seq(A) /\ SuffixFree(C, A)
      /\ b \in Seq(A) /\ d \in Seq(A) /\ Unended(b, C, A) /\ Unended(d, C, A)
      /\ ss \in Seq(C) /\ tt \in Seq(C) /\ b \o Each(ss) = d \o Each(tt)
  BY DEF Together
<1> USE <1>0
<1> DEFINE m == Len(ss)
           n == Len(tt)
<1>1. /\ m \in Nat /\ n \in Nat
      /\ \A k \in 1..m : ss[k] \in C
      /\ \A k \in 1..n : tt[k] \in C
  BY ElementOfSeq, LenProperties
<1>2. PICK g : /\ g \in [0..m -> Seq(A)] /\ g[0] = <<>> /\ Each(ss) = g[m]
               /\ \A k \in 1..m : g[k] = g[k - 1] \o ss[k]
  <2>1. Len(ss) \in Nat /\ \A k \in 1..Len(ss) : ss[k] \in Seq(A)
    BY <1>1
  <2> QED BY <2>1, EachLoop
<1>3. PICK h : /\ h \in [0..n -> Seq(A)] /\ h[0] = <<>> /\ Each(tt) = h[n]
               /\ \A k \in 1..n : h[k] = h[k - 1] \o tt[k]
  <2>1. Len(tt) \in Nat /\ \A k \in 1..Len(tt) : tt[k] \in Seq(A)
    BY <1>1
  <2> QED BY <2>1, EachLoop
<1>4. ASSUME NEW k \in 1..m
      PROVE  /\ k - 1 \in 0..m /\ b \o g[k - 1] \in Seq(A) /\ ss[k] \in C
             /\ b \o g[k] = (b \o g[k - 1]) \o ss[k]
  <2>1. k - 1 \in 0..m /\ k \in 0..m /\ ss[k] \in C /\ ss[k] \in Seq(A)
    BY <1>1
  <2>2. g[k - 1] \in Seq(A) /\ g[k] = g[k - 1] \o ss[k]
    BY <1>2, <2>1
  <2>0. b \in Seq(A)
    OBVIOUS
  <2>3. b \o g[k - 1] \in Seq(A)
    BY ONLY <2>0, <2>2, ConcatAt
  <2>4. b \o (g[k - 1] \o ss[k]) = (b \o g[k - 1]) \o ss[k]
    <3>1. ss[k] \in Seq(A) /\ g[k - 1] \in Seq(A) /\ b \in Seq(A)
      BY <2>0, <2>1, <2>2
    <3>2. \A u, v \in Seq(A) : b \o (u \o v) = (b \o u) \o v
      BY ONLY <2>0, Regrouped
    <3> QED BY ONLY <3>1, <3>2
  <2> QED BY <2>1, <2>2, <2>3, <2>4
<1>5. ASSUME NEW k \in 1..n
      PROVE  /\ k - 1 \in 0..n /\ d \o h[k - 1] \in Seq(A) /\ tt[k] \in C
             /\ d \o h[k] = (d \o h[k - 1]) \o tt[k]
  <2>1. k - 1 \in 0..n /\ k \in 0..n /\ tt[k] \in C /\ tt[k] \in Seq(A)
    BY <1>1
  <2>2. h[k - 1] \in Seq(A) /\ h[k] = h[k - 1] \o tt[k]
    BY <1>3, <2>1
  <2>0. d \in Seq(A)
    OBVIOUS
  <2>3. d \o h[k - 1] \in Seq(A)
    BY ONLY <2>0, <2>2, ConcatAt
  <2>4. d \o (h[k - 1] \o tt[k]) = (d \o h[k - 1]) \o tt[k]
    <3>1. tt[k] \in Seq(A) /\ h[k - 1] \in Seq(A) /\ d \in Seq(A)
      BY <2>0, <2>1, <2>2
    <3>2. \A u, v \in Seq(A) : d \o (u \o v) = (d \o u) \o v
      BY ONLY <2>0, Regrouped
    <3> QED BY ONLY <3>1, <3>2
  <2> QED BY <2>1, <2>2, <2>3, <2>4
<1>6. b \o g[0] = b /\ d \o h[0] = d
  BY <1>2, <1>3, ConcatEmptySeq
<1> DEFINE Same(k, l) == k = l /\ b = d /\ \A i \in 1..k : ss[i] = tt[i]
           P == {k \in Nat : k <= m => \A l \in 0..n : b \o g[k] = d \o h[l] => Same(k, l)}
<1>7. 0 \in P
  <2> SUFFICES ASSUME NEW l \in 0..n, b \o g[0] = d \o h[l]
               PROVE  Same(0, l)
    OBVIOUS
  <2>1. CASE l = 0
    <3>1. b = d
      BY <1>6, <2>1
    <3>2. \A i \in 1..0 : FALSE
      OBVIOUS
    <3> QED BY <2>1, <3>1, <3>2
  <2>2. CASE l # 0
    <3>1. l \in 1..n
      BY <1>1, <2>2
    <3>2. b = (d \o h[l - 1]) \o tt[l] /\ d \o h[l - 1] \in Seq(A) /\ tt[l] \in C
      BY <1>5, <1>6, <3>1
    <3> QED BY <3>2 DEF Unended
  <2> QED BY <2>1, <2>2
<1>8. ASSUME NEW k \in Nat, k \in P
      PROVE  k + 1 \in P
  <2> SUFFICES ASSUME k + 1 <= m, NEW l \in 0..n, b \o g[k + 1] = d \o h[l]
               PROVE  Same(k + 1, l)
    <3>1. k + 1 \in Nat
      OBVIOUS
    <3> HIDE DEF Same
    <3> QED BY <3>1
  <2>0. k + 1 \in 1..m /\ (k + 1) - 1 = k /\ k <= m
    <3>1. k + 1 <= m
      OBVIOUS
    <3>2. k \in Nat
      OBVIOUS
    <3> QED BY ONLY <1>1, <3>1, <3>2
  <2>1. b \o g[k] \in Seq(A) /\ ss[k + 1] \in C /\ b \o g[k + 1] = (b \o g[k]) \o ss[k + 1]
    BY <1>4, <2>0
  <2>2. CASE l = 0
    <3>1. d = (b \o g[k]) \o ss[k + 1]
      BY <1>6, <2>1, <2>2
    <3> QED BY <2>1, <3>1 DEF Unended
  <2>3. CASE l # 0
    <3>1. l \in 1..n
      BY <1>1, <2>3
    <3>2. /\ l - 1 \in 0..n /\ d \o h[l - 1] \in Seq(A) /\ tt[l] \in C
          /\ d \o h[l] = (d \o h[l - 1]) \o tt[l]
      BY <1>5, <3>1
    <3>3. b \o g[k] = d \o h[l - 1] /\ ss[k + 1] = tt[l]
      <4>1. (b \o g[k]) \o ss[k + 1] = (d \o h[l - 1]) \o tt[l]
        BY <2>1, <3>2
      <4>2. ss[k + 1] \in Seq(A) /\ tt[l] \in Seq(A)
        BY <2>1, <3>2
      <4>3. Cut(A, b \o g[k], ss[k + 1], d \o h[l - 1], tt[l])
        BY <2>1, <3>2, <4>1, <4>2 DEF Cut
      <4>4. C \subseteq Seq(A) /\ SuffixFree(C, A)
        OBVIOUS
      <4>5. \A x, y \in Seq(A), a, e \in C : Cut(A, x, a, y, e) => x = y /\ a = e
        BY ONLY <4>4, LastPiece, Zenon
      <4> QED BY ONLY <2>1, <3>2, <4>3, <4>5
    <3>4. Same(k, l - 1)
      BY <1>8, <2>0, <3>2, <3>3
    <3>5. l = k + 1
      BY <3>1, <3>4
    <3>6. ASSUME NEW i \in 1..(k + 1)
          PROVE  ss[i] = tt[i]
      <4>1. i \in 1..k \/ i = k + 1
        OBVIOUS
      <4> QED BY <3>3, <3>4, <3>5, <4>1
    <3> QED BY <3>4, <3>5, <3>6
  <2> QED BY <2>2, <2>3
<1> HIDE DEF P
<1>9. m \in P
  <2>1. Nat \subseteq P
    BY <1>7, <1>8, NumbersByInduction
  <2> QED BY <1>1, <2>1
<1>10. Same(m, n)
  <2>1. n \in 0..n /\ b \o g[m] = d \o h[n] /\ m <= m
    BY <1>1, <1>2, <1>3
  <2> QED BY <1>9, <2>1 DEF P
<1> QED BY <1>10, SeqEqual

\* The digits of a number are as Text says: one, or those of its tenth and the last.
Digits == Seq(48..57)
DigitsUpTo(f, n) ==
    f = [k \in 0..n |-> IF k < 10 THEN <<48 + k>> ELSE f[k \div 10] \o <<48 + (k % 10)>>]

\* The digits of a number are well defined, ...
LEMMA DigitsExist ==
    ASSUME NEW n \in Nat
    PROVE  \E f \in [0..n -> Digits] : DigitsUpTo(f, n)
<1> DEFINE P == {k \in Nat : \E f \in [0..k -> Digits] : DigitsUpTo(f, k)}
<1>0. \A k \in Nat : <<48 + (k % 10)>> \in Digits
  <2>1. \A k \in Nat : 48 + (k % 10) \in 48..57
    OBVIOUS
  <2> QED BY <2>1 DEF Digits
<1>1. 0 \in P
  <2> DEFINE f == [k \in 0..0 |-> <<48>>]
  <2>1. <<48>> \in Digits
    BY DEF Digits
  <2>2. f \in [0..0 -> Digits]
    BY <2>1
  <2>3. \A k \in 0..0 : k < 10 /\ 48 + k = 48
    OBVIOUS
  <2>4. DigitsUpTo(f, 0)
    BY <2>3 DEF DigitsUpTo
  <2> QED BY <2>2, <2>4
<1>2. ASSUME NEW k \in Nat, k \in P
      PROVE  k + 1 \in P
  <2>1. PICK f \in [0..k -> Digits] : DigitsUpTo(f, k)
    BY <1>2
  <2>2. \A i \in 0..k : f[i] = IF i < 10 THEN <<48 + i>> ELSE f[i \div 10] \o <<48 + (i % 10)>>
    BY <2>1 DEF DigitsUpTo
  <2> DEFINE last == IF k + 1 < 10 THEN <<48 + (k + 1)>>
                     ELSE f[(k + 1) \div 10] \o <<48 + ((k + 1) % 10)>>
             g == [i \in 0..(k + 1) |-> IF i = k + 1 THEN last ELSE f[i]]
  <2>3. \A i \in 0..(k + 1) : i # k + 1 => i \in 0..k
    OBVIOUS
  <2>4. \A i \in 0..(k + 1) : i >= 10 => i \div 10 \in 0..k /\ i \div 10 \in 0..(k + 1) /\ i \div 10 # k + 1
    OBVIOUS
  <2>5. last \in Digits
    <3>1. CASE k + 1 < 10
      <4>1. 48 + (k + 1) \in 48..57
        BY <3>1
      <4> QED BY <3>1, <4>1 DEF Digits
    <3>2. CASE ~(k + 1 < 10)
      <4>1. k + 1 \in 0..(k + 1) /\ k + 1 >= 10
        BY <3>2
      <4>2. f[(k + 1) \div 10] \in Digits
        BY <2>4, <4>1
      <4>3. <<48 + ((k + 1) % 10)>> \in Digits
        BY <1>0
      <4>4. f[(k + 1) \div 10] \o <<48 + ((k + 1) % 10)>> \in Digits
        BY ONLY <4>2, <4>3, ConcatProperties DEF Digits
      <4> QED BY <3>2, <4>4
    <3> QED BY <3>1, <3>2
  <2> HIDE DEF last
  <2>6. g \in [0..(k + 1) -> Digits]
    BY <2>3, <2>5
  <2>7. \A i \in 0..(k + 1) : g[i] = IF i < 10 THEN <<48 + i>> ELSE g[i \div 10] \o <<48 + (i % 10)>>
    <3> SUFFICES ASSUME NEW i \in 0..(k + 1)
                 PROVE  g[i] = IF i < 10 THEN <<48 + i>> ELSE g[i \div 10] \o <<48 + (i % 10)>>
      OBVIOUS
    <3>1. i >= 10 => g[i \div 10] = f[i \div 10]
      BY <2>4
    <3>2. i < 10 \/ i >= 10
      OBVIOUS
    <3>3. CASE i = k + 1
      <4>1. g[i] = last
        BY <3>3
      <4>2. last = IF i < 10 THEN <<48 + i>> ELSE f[i \div 10] \o <<48 + (i % 10)>>
        BY <3>3 DEF last
      <4> HIDE DEF g
      <4> QED BY <3>1, <3>2, <4>1, <4>2
    <3>4. CASE i # k + 1
      <4>1. i \in 0..k /\ g[i] = f[i]
        BY <2>3, <3>4
      <4> HIDE DEF g
      <4> QED BY <2>2, <3>1, <3>2, <4>1
    <3> QED BY <3>3, <3>4
  <2>8. g = [i \in 0..(k + 1) |-> g[i]]
    OBVIOUS
  <2> HIDE DEF g
  <2>9. DigitsUpTo(g, k + 1)
    BY <2>7, <2>8 DEF DigitsUpTo
  <2> QED BY <2>6, <2>9
<1> HIDE DEF P
<1>3. Nat \subseteq P
  BY <1>1, <1>2, NumbersByInduction
<1> QED BY <1>3 DEF P

\* However far they go, two such functions agree.
LEMMA DigitsAgree ==
    ASSUME NEW m \in Nat, NEW n \in Nat, NEW f, NEW g, DigitsUpTo(f, m), DigitsUpTo(g, n)
    PROVE  \A k \in Nat : k <= m /\ k <= n => f[k] = g[k]
<1> DEFINE P == {k \in Nat : \A i \in 0..k : i <= m /\ i <= n => f[i] = g[i]}
<1>1. \A i \in 0..m : f[i] = IF i < 10 THEN <<48 + i>> ELSE f[i \div 10] \o <<48 + (i % 10)>>
  BY DEF DigitsUpTo
<1>2. \A i \in 0..n : g[i] = IF i < 10 THEN <<48 + i>> ELSE g[i \div 10] \o <<48 + (i % 10)>>
  BY DEF DigitsUpTo
<1>3. 0 \in P
  <2>1. 0 \in 0..m /\ 0 \in 0..n /\ 0 < 10 /\ \A i \in 0..0 : i = 0
    OBVIOUS
  <2>2. f[0] = <<48 + 0>> /\ g[0] = <<48 + 0>>
    BY <1>1, <1>2, <2>1
  <2> QED BY <2>1, <2>2
<1>4. ASSUME NEW k \in Nat, k \in P
      PROVE  k + 1 \in P
  <2> SUFFICES ASSUME k + 1 <= m, k + 1 <= n
               PROVE  f[k + 1] = g[k + 1]
    <3>1. \A i \in 0..(k + 1) : i = k + 1 \/ i \in 0..k
      OBVIOUS
    <3> QED BY <1>4, <3>1
  <2>1. k + 1 \in 0..m /\ k + 1 \in 0..n
    OBVIOUS
  <2>2. CASE k + 1 < 10
    <3>1. f[k + 1] = <<48 + (k + 1)>>
      BY ONLY <1>1, <2>1, <2>2
    <3>2. g[k + 1] = <<48 + (k + 1)>>
      BY ONLY <1>2, <2>1, <2>2
    <3> QED BY <3>1, <3>2
  <2>3. CASE ~(k + 1 < 10)
    <3>1. (k + 1) \div 10 \in 0..k /\ (k + 1) \div 10 <= m /\ (k + 1) \div 10 <= n
      BY <2>3
    <3>2. f[(k + 1) \div 10] = g[(k + 1) \div 10]
      BY <1>4, <3>1
    <3> QED BY <1>1, <1>2, <2>1, <2>3, <3>2
  <2> QED BY <2>2, <2>3
<1> HIDE DEF P
<1>5. Nat \subseteq P
  BY <1>3, <1>4, NumbersByInduction
<1>6. \A k \in Nat : k \in 0..k
  OBVIOUS
<1> QED BY <1>5, <1>6 DEF P

\* What is written of a number: its digits, and for ten and more those of its tenth.
LEMMA DigitsText ==
    ASSUME NEW v \in Nat
    PROVE  /\ interface_hash_u64(v) \in Digits
           /\ v < 10 => interface_hash_u64(v) = <<48 + v>>
           /\ v >= 10 => interface_hash_u64(v) = interface_hash_u64(v \div 10) \o <<48 + (v % 10)>>
<1>1. \A n \in Nat : \E f : /\ f \in [0..n -> Digits] /\ DigitsUpTo(f, n)
                           /\ interface_hash_u64(n) = f[n]
  <2> TAKE n \in Nat
  <2> DEFINE f == CHOOSE h : DigitsUpTo(h, n)
  <2>1. interface_hash_u64(n) = f[n]
    BY DEF interface_hash_u64, DigitsUpTo
  <2>2. PICK g \in [0..n -> Digits] : DigitsUpTo(g, n)
    BY DigitsExist
  <2>3. DigitsUpTo(f, n)
    BY <2>2
  <2> HIDE DEF f
  <2>4. f = g
    <3>1. \A k \in 0..n : f[k] = g[k]
      <4>1. \A k \in Nat : k <= n /\ k <= n => f[k] = g[k]
        BY <2>2, <2>3, DigitsAgree
      <4>2. \A k \in 0..n : k \in Nat /\ k <= n
        OBVIOUS
      <4> QED BY <4>1, <4>2
    <3>2. f = [k \in 0..n |-> f[k]]
      BY <2>3 DEF DigitsUpTo
    <3> QED BY <2>2, <3>1, <3>2
  <2> QED BY <2>1, <2>2, <2>4
<1>2. PICK f : f \in [0..v -> Digits] /\ DigitsUpTo(f, v) /\ interface_hash_u64(v) = f[v]
  BY <1>1
<1>3. v \in 0..v
  OBVIOUS
<1>4. f[v] = IF v < 10 THEN <<48 + v>> ELSE f[v \div 10] \o <<48 + (v % 10)>>
  BY <1>2, <1>3 DEF DigitsUpTo
<1>5. ASSUME v >= 10
      PROVE  interface_hash_u64(v \div 10) = f[v \div 10]
  <2> DEFINE w == v \div 10
  <2>1. w \in Nat /\ w <= v /\ w <= w
    OBVIOUS
  <2> HIDE DEF w
  <2>2. PICK g : DigitsUpTo(g, w) /\ interface_hash_u64(w) = g[w]
    BY <1>1, <2>1
  <2>3. g[w] = f[w]
    BY <1>2, <2>1, <2>2, DigitsAgree
  <2> QED BY <2>2, <2>3 DEF w
<1>6. interface_hash_u64(v) \in Digits
  BY <1>2, <1>3
<1>7. v < 10 => interface_hash_u64(v) = <<48 + v>>
  BY <1>2, <1>4
<1>8. ASSUME v >= 10
      PROVE  interface_hash_u64(v) = interface_hash_u64(v \div 10) \o <<48 + (v % 10)>>
  <2>1. ~(v < 10)
    BY <1>8
  <2>2. f[v] = f[v \div 10] \o <<48 + (v % 10)>>
    BY ONLY <1>4, <2>1
  <2>3. interface_hash_u64(v \div 10) = f[v \div 10]
    BY <1>5, <1>8
  <2> QED BY ONLY <1>2, <2>2, <2>3
<1> QED BY <1>6, <1>7, <1>8

\* The decimal text of a number is never empty, and no other number has it.
LEMMA DigitsNonempty ==
    ASSUME NEW v \in Nat
    PROVE  Len(interface_hash_u64(v)) \in Nat \ {0}
<1>1. CASE v < 10
  <2>1. interface_hash_u64(v) = <<48 + v>>
    BY <1>1, DigitsText
  <2> QED BY <2>1
<1>2. CASE v >= 10
  <2> DEFINE w == v \div 10
  <2>1. w \in Nat
    OBVIOUS
  <2>2. 48 + (v % 10) \in 48..57
    OBVIOUS
  <2>3. interface_hash_u64(v) = interface_hash_u64(w) \o <<48 + (v % 10)>>
    BY <1>2, DigitsText
  <2> HIDE DEF w
  <2>4. interface_hash_u64(w) \in Seq(48..57)
    BY <2>1, DigitsText DEF Digits
  <2>5. <<48 + (v % 10)>> \in Seq(48..57) /\ Len(<<48 + (v % 10)>>) = 1
    BY <2>2
  <2>6. Len(interface_hash_u64(v)) = Len(interface_hash_u64(w)) + 1 /\ Len(interface_hash_u64(w)) \in Nat
    BY <2>3, <2>4, <2>5, ConcatProperties, LenProperties
  <2> QED BY <2>6
<1> QED BY <1>1, <1>2

\* Two numbers have two texts.
LEMMA DigitsInjective ==
    ASSUME NEW u \in Nat, NEW v \in Nat, interface_hash_u64(u) = interface_hash_u64(v)
    PROVE  u = v
<1> DEFINE H(n) == interface_hash_u64(n)
           P == {n \in Nat : \A k \in 0..n, w \in Nat : H(k) = H(w) => k = w}
<1>1. ASSUME NEW n \in Nat
      PROVE  /\ H(n) \in Seq(48..57) /\ Len(H(n)) \in Nat \ {0}
             /\ n < 10 => H(n) = <<48 + n>>
             /\ n >= 10 => /\ n \div 10 \in Nat /\ n \div 10 < n
                           /\ H(n) = H(n \div 10) \o <<48 + (n % 10)>>
                           /\ <<48 + (n % 10)>> \in Seq(48..57)
  <2>1. /\ H(n) \in Seq(48..57) /\ Len(H(n)) \in Nat \ {0}
        /\ n < 10 => H(n) = <<48 + n>>
        /\ n >= 10 => H(n) = H(n \div 10) \o <<48 + (n % 10)>>
    BY DigitsText, DigitsNonempty DEF Digits
  <2>2. n >= 10 => n \div 10 \in Nat /\ n \div 10 < n
    OBVIOUS
  <2>3. 48 + (n % 10) \in 48..57
    OBVIOUS
  <2>4. <<48 + (n % 10)>> \in Seq(48..57)
    BY <2>3
  <2> QED BY <2>1, <2>2, <2>4
<1> HIDE DEF H
<1>2. ASSUME NEW n \in Nat, NEW w \in Nat, H(n) = H(w), n < 10
      PROVE  n = w
  <2>1. H(n) = <<48 + n>> /\ Len(H(n)) = 1
    <3>1. H(n) = <<48 + n>>
      BY <1>1, <1>2
    <3> QED BY ONLY <3>1
  <2>2. CASE w < 10
    <3>1. H(w) = <<48 + w>>
      BY <1>1, <2>2
    <3>2. <<48 + n>> = <<48 + w>>
      BY <1>2, <2>1, <3>1
    <3>3. 48 + n = 48 + w
      BY <3>2
    <3> QED BY <3>3
  <2>3. CASE w >= 10
    <3> DEFINE q == w \div 10
               e == <<48 + (w % 10)>>
    <3>1. q \in Nat /\ H(w) = H(q) \o e /\ e \in Seq(48..57) /\ Len(e) = 1
      BY <1>1, <2>3
    <3>2. H(q) \in Seq(48..57) /\ Len(H(q)) \in Nat \ {0}
      BY <1>1, <3>1
    <3> HIDE DEF q, e
    <3>3. Len(H(w)) = Len(H(q)) + Len(e)
      BY <3>1, <3>2, ConcatProperties
    <3>4. FALSE
      BY <1>2, <2>1, <3>1, <3>2, <3>3
    <3> QED BY <3>4
  <2> QED BY <2>2, <2>3
<1>3. 0 \in P
  <2>1. \A k \in 0..0 : k \in Nat /\ k < 10
    OBVIOUS
  <2> QED BY <1>2, <2>1
<1>4. ASSUME NEW n \in Nat, n \in P
      PROVE  n + 1 \in P
  <2> SUFFICES ASSUME NEW w \in Nat, H(n + 1) = H(w)
               PROVE  n + 1 = w
    <3>1. \A k \in 0..(n + 1) : k = n + 1 \/ k \in 0..n
      OBVIOUS
    <3> QED BY <1>4, <3>1
  <2> DEFINE k == n + 1
  <2>1. k \in Nat
    OBVIOUS
  <2>2. CASE k < 10
    BY <1>2, <2>1, <2>2
  <2>3. CASE w < 10
    BY <1>2, <2>1, <2>3
  <2>4. CASE k >= 10 /\ w >= 10
    <3> DEFINE q == k \div 10
               e == <<48 + (k % 10)>>
               r == w \div 10
               f == <<48 + (w % 10)>>
    <3>1. q \in Nat /\ q < k /\ H(k) = H(q) \o e /\ e \in Seq(48..57) /\ Len(e) = 1
      BY <1>1, <2>1, <2>4
    <3>2. r \in Nat /\ H(w) = H(r) \o f /\ f \in Seq(48..57) /\ Len(f) = 1
      BY <1>1, <2>4
    <3>3. H(q) \in Seq(48..57) /\ H(r) \in Seq(48..57)
      BY <1>1, <3>1, <3>2
    <3>4. Cut(48..57, H(q), e, H(r), f) /\ Len(e) = Len(f)
      <4>1. H(q) \o e = H(r) \o f
        BY <3>1, <3>2
      <4> HIDE DEF q, e, r, f
      <4> QED BY <3>1, <3>2, <3>3, <4>1 DEF Cut
    <3>5. H(q) = H(r) /\ e = f
      <4> HIDE DEF q, e, r, f
      <4> QED BY <3>4, SameEnds
    <3>6. q = r
      <4>1. q \in 0..n
        <5> HIDE DEF q
        <5> QED BY <3>1
      <4> QED BY <1>4, <3>2, <3>5, <4>1
    <3>7. k % 10 = w % 10
      <4>1. 48 + (k % 10) = 48 + (w % 10)
        BY <3>5
      <4>2. k % 10 \in Int /\ w % 10 \in Int
        OBVIOUS
      <4> QED BY ONLY <4>1, <4>2
    <3>8. k = 10 * (k \div 10) + (k % 10) /\ w = 10 * (w \div 10) + (w % 10)
      BY <2>1
    <3> QED BY <3>6, <3>7, <3>8
  <2> QED BY <2>1, <2>2, <2>3, <2>4
<1> HIDE DEF P
<1>5. Nat \subseteq P
  BY <1>3, <1>4, NumbersByInduction
<1>6. u \in 0..u /\ H(u) = H(v)
  BY DEF H
<1> QED BY <1>5, <1>6 DEF P

\* A number in bytes: as many for all of them, and no two have the same.
LEMMA Bytes32 ==
    ASSUME NEW v \in Nat
    PROVE  /\ canonical_hash_u32_be(v) \in Seq(Nat) /\ Len(canonical_hash_u32_be(v)) = 4
           /\ v = 16777216 * canonical_hash_u32_be(v)[1] + 65536 * canonical_hash_u32_be(v)[2]
                  + 256 * canonical_hash_u32_be(v)[3] + canonical_hash_u32_be(v)[4]
<1> DEFINE a == v \div 16777216
           b == (v \div 65536) % 256
           c == (v \div 256) % 256
           d == v % 256
<1>1. a \in Nat /\ b \in Nat /\ c \in Nat /\ d \in Nat
  BY SMT
<1>2. v = 16777216 * a + 65536 * b + 256 * c + d
  <2>1. v = 256 * (v \div 256) + (v % 256)
    BY SMT
  <2>2. v \div 256 = 256 * (v \div 65536) + ((v \div 256) % 256)
    BY SMT
  <2>3. v \div 65536 = 256 * (v \div 16777216) + ((v \div 65536) % 256)
    BY SMT
  <2> QED BY <2>1, <2>2, <2>3, SMT
<1>3. canonical_hash_u32_be(v) = <<a, b, c, d>>
  BY SMT DEF canonical_hash_u32_be
<1> HIDE DEF a, b, c, d
<1>4. /\ <<a, b, c, d>> \in Seq(Nat) /\ Len(<<a, b, c, d>>) = 4
      /\ <<a, b, c, d>>[1] = a /\ <<a, b, c, d>>[2] = b
      /\ <<a, b, c, d>>[3] = c /\ <<a, b, c, d>>[4] = d
  BY <1>1, SMT
<1> DEFINE t == canonical_hash_u32_be(v)
<1>5. t[1] = a /\ t[2] = b /\ t[3] = c /\ t[4] = d /\ t \in Seq(Nat) /\ Len(t) = 4
  BY ONLY <1>3, <1>4
<1> HIDE DEF t
<1>6. v = 16777216 * t[1] + 65536 * t[2] + 256 * t[3] + t[4]
  BY ONLY <1>2, <1>5, SMT
<1> QED BY ONLY <1>5, <1>6, SMT DEF t

\* Four bytes decide a number.
LEMMA SameBytes32 ==
    ASSUME NEW v \in Nat, NEW w \in Nat, canonical_hash_u32_be(v) = canonical_hash_u32_be(w)
    PROVE  v = w
<1> DEFINE Number(s) == 16777216 * s[1] + 65536 * s[2] + 256 * s[3] + s[4]
<1>1. v = Number(canonical_hash_u32_be(v))
  BY Bytes32, SMT
<1>2. w = Number(canonical_hash_u32_be(w))
  BY Bytes32, SMT
<1> HIDE DEF Number
<1> QED BY <1>1, <1>2, SMT

\* And so do eight.
LEMMA Bytes64 ==
    ASSUME NEW v \in Nat
    PROVE  /\ canonical_hash_u64_be(v) \in Seq(Nat) /\ Len(canonical_hash_u64_be(v)) = 8
           /\ \A w \in Nat : canonical_hash_u64_be(v) = canonical_hash_u64_be(w) => v = w
<1> DEFINE z == <<0, 0, 0, 0>>
           U(n) == canonical_hash_u32_be(n)
<1>0. z \in Seq(Nat) /\ Len(z) = 4
  OBVIOUS
<1> HIDE DEF z
<1>1. \A n \in Nat : /\ canonical_hash_u64_be(n) = z \o U(n) /\ U(n) \in Seq(Nat) /\ Len(U(n)) = 4
  BY Bytes32 DEF canonical_hash_u64_be, z
<1> HIDE DEF U
<1>2. canonical_hash_u64_be(v) \in Seq(Nat) /\ Len(canonical_hash_u64_be(v)) = 8
  <2>1. Len(z \o U(v)) = Len(z) + Len(U(v)) /\ z \o U(v) \in Seq(Nat)
    <3>1. z \in Seq(Nat) /\ U(v) \in Seq(Nat)
      BY <1>0, <1>1
    <3> QED BY ONLY <3>1, ConcatAt
  <2>2. canonical_hash_u64_be(v) = z \o U(v) /\ Len(z) = 4 /\ Len(U(v)) = 4
    BY <1>0, <1>1
  <2> QED BY ONLY <2>1, <2>2
<1>3. ASSUME NEW w \in Nat, canonical_hash_u64_be(v) = canonical_hash_u64_be(w)
      PROVE  v = w
  <2>1. z \o U(v) = z \o U(w)
    BY <1>1, <1>3
  <2>2. Cut(Nat, z, U(v), z, U(w)) /\ Len(z) = Len(z)
    BY <1>0, <1>1, <2>1 DEF Cut
  <2>3. U(v) = U(w)
    BY ONLY <2>2, SameFronts
  <2> QED BY <2>3, SameBytes32 DEF U
<1> QED BY <1>2, <1>3

\* What is put together of two parts, the first of one length for all.
Parts2(A, x, a, y, b, n) ==
    x \in Seq(A) /\ a \in Seq(A) /\ y \in Seq(A) /\ b \in Seq(A) /\ Len(x) = n /\ Len(y) = n

\* With fronts of one length, equal wholes have equal parts; ...
LEMMA FrontsDecide ==
    ASSUME NEW A, NEW x, NEW a, NEW y, NEW b, NEW n, Parts2(A, x, a, y, b, n), x \o a = y \o b
    PROVE  x = y /\ a = b
<1>1. Cut(A, x, a, y, b) /\ Len(x) = Len(y)
  BY DEF Parts2, Cut
<1> QED BY ONLY <1>1, SameFronts

\* ... and with ends of one length.
LEMMA EndsDecide ==
    ASSUME NEW A, NEW x, NEW a, NEW y, NEW b, NEW n, Parts2(A, a, x, b, y, n), x \o a = y \o b
    PROVE  x = y /\ a = b
<1>1. Cut(A, x, a, y, b) /\ Len(a) = Len(b)
  BY DEF Parts2, Cut
<1> QED BY ONLY <1>1, SameEnds

\* Pieces of one length are no ends of each other.
Even(n, A) == {s \in Seq(A) : Len(s) = n}

\* Such pieces can be taken apart.
LEMMA EvenPieces ==
    ASSUME NEW A, NEW n \in Nat \ {0}
    PROVE  /\ Even(n, A) \subseteq Seq(A) /\ SuffixFree(Even(n, A), A)
           /\ <<>> \in Seq(A) /\ Unended(<<>>, Even(n, A), A)
<1>1. \A s \in Even(n, A) : s \in Seq(A) /\ Len(s) = n
  BY DEF Even
<1>2. <<>> \notin Even(n, A)
  <2>1. Len(<<>>) = 0
    OBVIOUS
  <2> QED BY <1>1, <2>1
<1>3. ASSUME NEW c \in Even(n, A), NEW e \in Even(n, A), NEW x \in Seq(A), c = x \o e
      PROVE  x = <<>>
  <2>1. x \in Seq(A) /\ e \in Seq(A)
    BY <1>1
  <2>2. Len(x \o e) = Len(x) + Len(e) /\ Len(x) \in Nat
    BY ONLY <2>1, ConcatAt
  <2>3. Len(x) = 0
    <3>1. Len(x \o e) = n /\ Len(e) = n /\ n \in Nat
      BY <1>1, <1>3
    <3> QED BY ONLY <2>2, <3>1
  <2> QED BY <2>1, <2>3, EmptySeq
<1>4. ASSUME NEW c \in Even(n, A), NEW x \in Seq(A)
      PROVE  <<>> # x \o c
  <2>1. x \in Seq(A) /\ c \in Seq(A)
    BY <1>1
  <2>2. Len(x \o c) = Len(x) + Len(c) /\ Len(x) \in Nat
    BY ONLY <2>1, ConcatAt
  <2>3. Len(<<>>) = 0
    OBVIOUS
  <2> QED BY <1>1, <2>2, <2>3
<1>5. <<>> \in Seq(A)
  OBVIOUS
<1> QED BY <1>1, <1>2, <1>3, <1>4, <1>5 DEF SuffixFree, Unended

\* Pieces put together are a sequence.
LEMMA EachIsSequence ==
    ASSUME NEW A, NEW n, NEW ss \in Seq(Even(n, A))
    PROVE  Each(ss) \in Seq(A)
<1>1. Len(ss) \in Nat /\ \A i \in 1..Len(ss) : ss[i] \in Seq(A)
  <2>1. \A i \in 1..Len(ss) : ss[i] \in Even(n, A)
    BY ElementOfSeq
  <2> QED BY <2>1, LenProperties DEF Even
<1>2. PICK g : g \in [0..Len(ss) -> Seq(A)] /\ Each(ss) = g[Len(ss)]
  BY <1>1, EachLoop
<1>3. Len(ss) \in 0..Len(ss)
  BY <1>1
<1> QED BY <1>2, <1>3

\* Pieces of one length are decided by what they are put together to.
LEMMA EvenDecide ==
    ASSUME NEW A, NEW n \in Nat \ {0}, NEW ss \in Seq(Even(n, A)), NEW tt \in Seq(Even(n, A)),
           Each(ss) = Each(tt)
    PROVE  ss = tt
<1> DEFINE C == Even(n, A)
           e == <<>>
<1>1. /\ C \subseteq Seq(A) /\ SuffixFree(C, A)
      /\ e \in Seq(A) /\ Unended(e, C, A)
  BY EvenPieces
<1>2. e \o Each(ss) = Each(ss) /\ e \o Each(tt) = Each(tt)
  BY EachIsSequence, ConcatEmptySeq
<1>3. ss \in Seq(C) /\ tt \in Seq(C) /\ e \o Each(ss) = e \o Each(tt)
  BY <1>2
<1> HIDE DEF C, e
<1>4. Together(A, C, e, e, ss, tt)
  BY ONLY <1>1, <1>3 DEF Together
<1> QED BY ONLY <1>4, PiecesUnique

-----------------------------------------------------------------------------
\* The fields of a layout and the head before them.
LEMMA FlagsDecide ==
    ASSUME NEW f \in SUBSET {0, 1, 2, 16}, NEW g \in SUBSET {0, 1, 2, 16}
    PROVE  /\ FlagWord(canonical_layout_flags(f)) \in Seq(Nat)
           /\ Len(FlagWord(canonical_layout_flags(f))) = 4
           /\ (FlagWord(canonical_layout_flags(f)) = FlagWord(canonical_layout_flags(g)) <=> f \ {2} = g \ {2})
<1> DEFINE N(h) == (IF 0 \in h THEN 1 ELSE 0) + (IF 1 \in h THEN 2 ELSE 0)
                   + (IF 2 \in h THEN 4 ELSE 0) + (IF 16 \in h THEN 65536 ELSE 0)
           c(h) == canonical_layout_flags(h)
<1>1. \A h : N(h) \in Nat /\ FlagWord(h) = canonical_hash_u32_be(N(h))
  BY SMT DEF FlagWord
<1>2. \A h : 2 \notin c(h) /\ (0 \in c(h) <=> 0 \in h) /\ (1 \in c(h) <=> 1 \in h) /\ (16 \in c(h) <=> 16 \in h)
  BY DEF canonical_layout_flags
<1>3. ASSUME N(c(f)) = N(c(g))
      PROVE  (0 \in f <=> 0 \in g) /\ (1 \in f <=> 1 \in g) /\ (16 \in f <=> 16 \in g)
  <2> HIDE DEF c
  <2> QED BY <1>2, <1>3, SMT
<1> HIDE DEF N
<1>4. ASSUME FlagWord(c(f)) = FlagWord(c(g))
      PROVE  f \ {2} = g \ {2}
  <2> HIDE DEF c
  <2>1. N(c(f)) = N(c(g))
    BY <1>1, <1>4, SameBytes32
  <2>2. (0 \in f <=> 0 \in g) /\ (1 \in f <=> 1 \in g) /\ (16 \in f <=> 16 \in g)
    BY <1>3, <2>1
  <2>3. \A x \in f \union g : x = 0 \/ x = 1 \/ x = 2 \/ x = 16
    OBVIOUS
  <2> QED BY <2>2, <2>3
<1>5. ASSUME f \ {2} = g \ {2}
      PROVE  c(f) = c(g)
  <2>1. \A x : x \in c(f) <=> x \in c(g)
    BY <1>5 DEF canonical_layout_flags
  <2> QED BY <2>1 DEF canonical_layout_flags
<1>6. FlagWord(c(f)) \in Seq(Nat) /\ Len(FlagWord(c(f))) = 4
  <2> HIDE DEF c
  <2> QED BY <1>1, Bytes32
<1> QED BY <1>4, <1>5, <1>6

\* Two texts of even parts are the same only if the parts are.
Paired(A, p, q, n, x, a, y, b) ==
    /\ p \in Nat /\ q \in Nat /\ n = p + q
    /\ x \in Even(p, A) /\ y \in Even(p, A) /\ a \in Even(q, A) /\ b \in Even(q, A)

\* Two parts of fixed lengths make one of a fixed length, and it decides them.
LEMMA EvenConcat ==
    ASSUME NEW A, NEW p, NEW q, NEW n, NEW x, NEW a, NEW y, NEW b, Paired(A, p, q, n, x, a, y, b)
    PROVE  /\ x \o a \in Even(n, A) /\ y \o b \in Even(n, A)
           /\ (x \o a = y \o b <=> x = y /\ a = b)
<1>0. /\ p \in Nat /\ q \in Nat /\ n = p + q
      /\ x \in Seq(A) /\ y \in Seq(A) /\ a \in Seq(A) /\ b \in Seq(A)
      /\ Len(x) = p /\ Len(y) = p /\ Len(a) = q /\ Len(b) = q
  BY DEF Paired, Even
<1>1. Parts2(A, x, a, y, b, p)
  BY <1>0 DEF Parts2
<1>2. x \o a = y \o b => x = y /\ a = b
  BY ONLY <1>1, FrontsDecide
<1>3. x \o a \in Even(n, A)
  <2>1. x \in Seq(A) /\ a \in Seq(A)
    BY <1>0
  <2>2. x \o a \in Seq(A) /\ Len(x \o a) = Len(x) + Len(a)
    BY ONLY <2>1, ConcatAt
  <2> QED BY ONLY <1>0, <2>2 DEF Even
<1>4. y \o b \in Even(n, A)
  <2>1. y \in Seq(A) /\ b \in Seq(A)
    BY <1>0
  <2>2. y \o b \in Seq(A) /\ Len(y \o b) = Len(y) + Len(b)
    BY ONLY <2>1, ConcatAt
  <2> QED BY ONLY <1>0, <2>2 DEF Even
<1> QED BY <1>2, <1>3, <1>4

\* Numbers as bytes.
LEMMA EvenBytes ==
    ASSUME NEW v \in Nat, NEW w \in Nat
    PROVE  /\ canonical_hash_u32_be(v) \in Even(4, Nat) /\ canonical_hash_u64_be(v) \in Even(8, Nat)
           /\ TypeBytes(v) \in Even(16, Nat)
           /\ canonical_hash_u32_be(v) = canonical_hash_u32_be(w) => v = w
           /\ canonical_hash_u64_be(v) = canonical_hash_u64_be(w) => v = w
           /\ TypeBytes(v) = TypeBytes(w) => v = w
<1>1. /\ canonical_hash_u32_be(v) \in Even(4, Nat)
      /\ canonical_hash_u32_be(v) = canonical_hash_u32_be(w) => v = w
  BY Bytes32, SameBytes32 DEF Even
<1>2. \A n \in Nat : canonical_hash_u64_be(n) \in Even(8, Nat)
  BY Bytes64 DEF Even
<1>3. canonical_hash_u64_be(v) = canonical_hash_u64_be(w) => v = w
  BY Bytes64
<1> DEFINE E(n) == canonical_hash_u64_be(n)
<1>4. \A n \in Nat : TypeBytes(n) = E(n) \o E(0)
  BY DEF TypeBytes
<1>5. E(v) \in Even(8, Nat) /\ E(w) \in Even(8, Nat) /\ E(0) \in Even(8, Nat)
  BY <1>2
<1> HIDE DEF E
<1>6. E(v) \o E(0) \in Even(16, Nat) /\ (E(v) \o E(0) = E(w) \o E(0) => E(v) = E(w))
  <2>1. Paired(Nat, 8, 8, 16, E(v), E(0), E(w), E(0))
    BY <1>5 DEF Paired
  <2> QED BY ONLY <2>1, EvenConcat
<1>7. TypeBytes(v) \in Even(16, Nat)
  BY <1>4, <1>6
<1>8. TypeBytes(v) = TypeBytes(w) => E(v) = E(w)
  BY ONLY <1>4, <1>6, v \in Nat, w \in Nat
<1> QED BY <1>1, <1>2, <1>3, <1>7, <1>8 DEF E

FieldTypes == [type : Nat, offset : Nat, flags : SUBSET {0, 1, 2, 16}]
Bare(f) == [f EXCEPT !.flags = @ \ {2}]

\* The bytes of a field decide all of it but its visibility.
LEMMA FieldsDecide ==
    ASSUME NEW f \in FieldTypes, NEW g \in FieldTypes
    PROVE  LayoutField(f) \in Even(24, Nat) /\ (LayoutField(f) = LayoutField(g) <=> Bare(f) = Bare(g))
<1> DEFINE T(h) == TypeBytes(h.type)
           O(h) == canonical_hash_u32_be(h.offset)
           F(h) == FlagWord(canonical_layout_flags(h.flags))
<1>1. /\ f.type \in Nat /\ f.offset \in Nat /\ f.flags \in SUBSET {0, 1, 2, 16}
      /\ g.type \in Nat /\ g.offset \in Nat /\ g.flags \in SUBSET {0, 1, 2, 16}
  BY DEF FieldTypes
<1>2. /\ T(f) \in Even(16, Nat) /\ T(g) \in Even(16, Nat) /\ (T(f) = T(g) => f.type = g.type)
      /\ O(f) \in Even(4, Nat) /\ O(g) \in Even(4, Nat) /\ (O(f) = O(g) => f.offset = g.offset)
  BY <1>1, EvenBytes
<1>3. /\ F(f) \in Even(4, Nat) /\ F(g) \in Even(4, Nat)
      /\ (F(f) = F(g) <=> f.flags \ {2} = g.flags \ {2})
  BY <1>1, FlagsDecide DEF Even
<1>4. LayoutField(f) = (T(f) \o O(f)) \o F(f) /\ LayoutField(g) = (T(g) \o O(g)) \o F(g)
  BY DEF LayoutField
<1>5. Bare(f) = Bare(g) <=> f.type = g.type /\ f.offset = g.offset /\ f.flags \ {2} = g.flags \ {2}
  <2>1. /\ f = [type |-> f.type, offset |-> f.offset, flags |-> f.flags]
        /\ g = [type |-> g.type, offset |-> g.offset, flags |-> g.flags]
    BY DEF FieldTypes
  <2>2. /\ Bare(f) = [type |-> f.type, offset |-> f.offset, flags |-> f.flags \ {2}]
        /\ Bare(g) = [type |-> g.type, offset |-> g.offset, flags |-> g.flags \ {2}]
    BY DEF FieldTypes, Bare
  <2> QED BY ONLY <2>2
<1>6. f.type = g.type /\ f.offset = g.offset => T(f) = T(g) /\ O(f) = O(g)
  OBVIOUS
<1> HIDE DEF T, O, F
<1>7. Paired(Nat, 16, 4, 20, T(f), O(f), T(g), O(g))
  BY <1>2 DEF Paired
<1>8. /\ T(f) \o O(f) \in Even(20, Nat) /\ T(g) \o O(g) \in Even(20, Nat)
      /\ (T(f) \o O(f) = T(g) \o O(g) <=> T(f) = T(g) /\ O(f) = O(g))
  BY ONLY <1>7, EvenConcat
<1> DEFINE X(h) == T(h) \o O(h)
<1>9. /\ X(f) \in Even(20, Nat) /\ X(g) \in Even(20, Nat) /\ (X(f) = X(g) <=> T(f) = T(g) /\ O(f) = O(g))
      /\ LayoutField(f) = X(f) \o F(f) /\ LayoutField(g) = X(g) \o F(g)
  BY <1>4, <1>8
<1> HIDE DEF X
<1>10. Paired(Nat, 20, 4, 24, X(f), F(f), X(g), F(g))
  BY <1>3, <1>9 DEF Paired
<1>11. /\ X(f) \o F(f) \in Even(24, Nat)
       /\ (X(f) \o F(f) = X(g) \o F(g) <=> X(f) = X(g) /\ F(f) = F(g))
  BY ONLY <1>10, EvenConcat
<1>12. LayoutField(f) \in Even(24, Nat) /\ (LayoutField(f) = LayoutField(g) <=> X(f) = X(g) /\ F(f) = F(g))
  BY ONLY <1>9, <1>11
<1> QED BY ONLY <1>2, <1>3, <1>5, <1>6, <1>9, <1>12

\* The bytes of the head decide what stands in it.
LEMMA HeadsDecide ==
    ASSUME NEW l, NEW m, \A x \in {l, m} : /\ x.context \in Nat /\ x.type \in Nat /\ x.size \in Nat
                                           /\ x.align \in Nat /\ Len(x.fields) \in Nat
    PROVE  /\ LayoutHead(l) \in Even(32, Nat) /\ LayoutHead(m) \in Even(32, Nat)
           /\ LayoutHead(l) = LayoutHead(m) <=> /\ l.context = m.context /\ l.type = m.type /\ l.size = m.size
                                              /\ l.align = m.align /\ Len(l.fields) = Len(m.fields)
<1> DEFINE U(n) == canonical_hash_u32_be(n)
           a(x) == U(x.context)
           b(x) == TypeBytes(x.type)
           c(x) == U(x.size)
           d(x) == U(x.align)
           e(x) == U(Len(x.fields))
           ab(x) == a(x) \o b(x)
           abc(x) == ab(x) \o c(x)
           abcd(x) == abc(x) \o d(x)
           all(x) == abcd(x) \o e(x)
<1>1. \A x \in {l, m} : /\ a(x) \in Even(4, Nat) /\ b(x) \in Even(16, Nat) /\ c(x) \in Even(4, Nat)
                        /\ d(x) \in Even(4, Nat) /\ e(x) \in Even(4, Nat)
  BY EvenBytes
<1>2. LayoutHead(l) = all(l) /\ LayoutHead(m) = all(m)
  BY DEF LayoutHead
<1>3. (a(l) = a(m) <=> l.context = m.context)
  BY EvenBytes
<1>4. (b(l) = b(m) <=> l.type = m.type)
  BY EvenBytes
<1>5. (c(l) = c(m) <=> l.size = m.size)
  BY EvenBytes
<1>6. (d(l) = d(m) <=> l.align = m.align)
  BY EvenBytes
<1>7. (e(l) = e(m) <=> Len(l.fields) = Len(m.fields))
  BY EvenBytes
<1> HIDE DEF a, b, c, d, e
<1>8. ab(l) \in Even(20, Nat) /\ ab(m) \in Even(20, Nat) /\ (ab(l) = ab(m) <=> a(l) = a(m) /\ b(l) = b(m))
  <2>1. Paired(Nat, 4, 16, 20, a(l), b(l), a(m), b(m))
    BY <1>1 DEF Paired
  <2> QED BY ONLY <2>1, EvenConcat
<1> HIDE DEF ab
<1>9. abc(l) \in Even(24, Nat) /\ abc(m) \in Even(24, Nat) /\ (abc(l) = abc(m) <=> ab(l) = ab(m) /\ c(l) = c(m))
  <2>1. Paired(Nat, 20, 4, 24, ab(l), c(l), ab(m), c(m))
    BY <1>1, <1>8 DEF Paired
  <2> QED BY ONLY <2>1, EvenConcat
<1> HIDE DEF abc
<1>10. abcd(l) \in Even(28, Nat) /\ abcd(m) \in Even(28, Nat) /\ (abcd(l) = abcd(m) <=> abc(l) = abc(m) /\ d(l) = d(m))
  <2>1. Paired(Nat, 24, 4, 28, abc(l), d(l), abc(m), d(m))
    BY <1>1, <1>9 DEF Paired
  <2> QED BY ONLY <2>1, EvenConcat
<1> HIDE DEF abcd
<1>11. all(l) \in Even(32, Nat) /\ all(m) \in Even(32, Nat) /\ (all(l) = all(m) <=> abcd(l) = abcd(m) /\ e(l) = e(m))
  <2>1. Paired(Nat, 28, 4, 32, abcd(l), e(l), abcd(m), e(m))
    BY <1>1, <1>10 DEF Paired
  <2> QED BY ONLY <2>1, EvenConcat
<1> HIDE DEF all
<1>12. LayoutHead(l) \in Even(32, Nat) /\ LayoutHead(m) \in Even(32, Nat)
  BY ONLY <1>2, <1>11
<1>13. (LayoutHead(l) = LayoutHead(m) <=> a(l) = a(m) /\ b(l) = b(m) /\ c(l) = c(m) /\ d(l) = d(m) /\ e(l) = e(m))
  BY ONLY <1>2, <1>8, <1>9, <1>10, <1>11
<1> QED BY ONLY <1>3, <1>4, <1>5, <1>6, <1>7, <1>12, <1>13

FieldPieces(l) == [i \in 1..Len(l.fields) |-> LayoutField(l.fields[i])]

\* What a layout holds, and how long its pieces are.
LEMMA LayoutBytes ==
    ASSUME NEW l \in Layouts
    PROVE  /\ l.context \in Nat /\ l.type \in Nat /\ l.size \in Nat /\ l.align \in Nat
           /\ l.given \in BOOLEAN /\ l.fields \in Seq(FieldTypes) /\ Len(l.fields) \in Nat
           /\ \A i \in 1..Len(l.fields) : l.fields[i] \in FieldTypes
           /\ LayoutHead(l) \in Even(32, Nat) /\ FieldPieces(l) \in Seq(Even(24, Nat))
           /\ Each(FieldPieces(l)) \in Seq(Nat)
<1>1. /\ l.context \in Nat /\ l.type \in Nat /\ l.size \in Nat /\ l.align \in Nat
      /\ l.given \in BOOLEAN /\ l.fields \in Seq(FieldTypes)
  BY LayoutsAssumption DEF FieldTypes
<1>2. Len(l.fields) \in Nat /\ \A i \in 1..Len(l.fields) : l.fields[i] \in FieldTypes
  BY <1>1, ElementOfSeq, LenProperties
<1>3. LayoutHead(l) \in Even(32, Nat)
  BY <1>1, <1>2, HeadsDecide
<1>4. FieldPieces(l) \in Seq(Even(24, Nat))
  <2>1. \A i \in 1..Len(l.fields) : LayoutField(l.fields[i]) \in Even(24, Nat)
    BY <1>2, FieldsDecide
  <2>2. FieldPieces(l) \in [1..Len(l.fields) -> Even(24, Nat)]
    BY <2>1 DEF FieldPieces
  <2> QED BY <1>2, <2>2, SeqDef
<1>5. Each(FieldPieces(l)) \in Seq(Nat)
  BY <1>4, EachIsSequence
<1> QED BY <1>1, <1>2, <1>3, <1>4, <1>5

\* The pieces decide the fields.
LEMMA FieldsSame ==
    ASSUME NEW l \in Layouts, NEW m \in Layouts, Len(l.fields) = Len(m.fields)
    PROVE  FieldPieces(l) = FieldPieces(m) <=>
               [i \in 1..Len(l.fields) |-> Bare(l.fields[i])] = [i \in 1..Len(m.fields) |-> Bare(m.fields[i])]
<1> DEFINE n == Len(l.fields)
           B(x) == [i \in 1..Len(x.fields) |-> Bare(x.fields[i])]
<1>1. \A i \in 1..n : l.fields[i] \in FieldTypes /\ m.fields[i] \in FieldTypes
  BY LayoutBytes
<1>2. \A i \in 1..n : (LayoutField(l.fields[i]) = LayoutField(m.fields[i]) <=> Bare(l.fields[i]) = Bare(m.fields[i]))
  BY <1>1, FieldsDecide
<1>3. FieldPieces(l) = FieldPieces(m) <=> \A i \in 1..n : LayoutField(l.fields[i]) = LayoutField(m.fields[i])
  <2>1. /\ FieldPieces(l) = [i \in 1..n |-> LayoutField(l.fields[i])]
        /\ FieldPieces(m) = [i \in 1..n |-> LayoutField(m.fields[i])]
    BY DEF FieldPieces
  <2> QED BY ONLY <2>1
<1>4. B(l) = B(m) <=> \A i \in 1..n : Bare(l.fields[i]) = Bare(m.fields[i])
  <2>1. /\ B(l) = [i \in 1..n |-> Bare(l.fields[i])]
        /\ B(m) = [i \in 1..n |-> Bare(m.fields[i])]
    OBVIOUS
  <2> QED BY ONLY <2>1
<1> QED BY ONLY <1>2, <1>3, <1>4

\* The encoding decides the facts of a layout.
LEMMA LayoutsDecide ==
    ASSUME NEW l \in Layouts, NEW m \in Layouts, l.given, m.given
    PROVE  canonical_layout_hash(l) = canonical_layout_hash(m) <=> Facts(l) = Facts(m)
<1> DEFINE H(x) == LayoutHead(x)
           E(x) == Each(FieldPieces(x))
           B(x) == [i \in 1..Len(x.fields) |-> Bare(x.fields[i])]
<1>1. \A x \in {l, m} : canonical_layout_hash(x) = [domain |-> "LAYOUTV1", bytes |-> <<>> \o (H(x) \o E(x))]
  <2> SUFFICES ASSUME NEW x \in {l, m}
               PROVE  canonical_layout_hash(x) = [domain |-> "LAYOUTV1", bytes |-> <<>> \o (H(x) \o E(x))]
    OBVIOUS
  <2>1. x.given
    OBVIOUS
  <2>2. visit_canonical_layout(x) = [bytes |-> H(x) \o E(x), ok |-> TRUE]
    BY <2>1 DEF visit_canonical_layout, FieldPieces
  <2> HIDE DEF H, E
  <2>3. canonical_layout_hash(x) = LayoutHashSink(H(x) \o E(x))
    BY ONLY <2>2 DEF canonical_layout_hash
  <2>4. \A bytes : LayoutHashSink(bytes) = [domain |-> "LAYOUTV1", bytes |-> <<>> \o bytes]
    BY DEF LayoutHashSink, canonical_hash_bytes, canonical_hash_begin
  <2> QED BY ONLY <2>3, <2>4
<1>2. \A x \in {l, m} : H(x) \in Even(32, Nat) /\ H(x) \in Seq(Nat) /\ E(x) \in Seq(Nat) /\ Len(H(x)) = 32
                        /\ FieldPieces(x) \in Seq(Even(24, Nat))
  BY LayoutBytes DEF Even
<1>3. H(l) = H(m) <=> /\ l.context = m.context /\ l.type = m.type /\ l.size = m.size
                      /\ l.align = m.align /\ Len(l.fields) = Len(m.fields)
  BY LayoutBytes, HeadsDecide
<1>4. E(l) = E(m) => FieldPieces(l) = FieldPieces(m)
  <2>1. 24 \in Nat \ {0} /\ FieldPieces(l) \in Seq(Even(24, Nat)) /\ FieldPieces(m) \in Seq(Even(24, Nat))
    BY <1>2
  <2> QED BY <2>1, EvenDecide
<1>5. FieldPieces(l) = FieldPieces(m) => E(l) = E(m)
  OBVIOUS
<1> HIDE DEF H, E
<1>6. (H(l) \o E(l) = H(m) \o E(m) <=> H(l) = H(m) /\ E(l) = E(m))
  <2>1. Parts2(Nat, H(l), E(l), H(m), E(m), 32)
    BY <1>2 DEF Parts2
  <2> QED BY ONLY <2>1, FrontsDecide
<1>7. canonical_layout_hash(l) = canonical_layout_hash(m) <=> H(l) \o E(l) = H(m) \o E(m)
  <2>1. \A x \in {l, m} : <<>> \o (H(x) \o E(x)) = H(x) \o E(x)
    <3>1. \A x \in {l, m} : H(x) \o E(x) \in Seq(Nat)
      BY ONLY <1>2, ConcatProperties
    <3> QED BY <3>1, ConcatEmptySeq
  <2>2. \A x \in {l, m} : canonical_layout_hash(x) = [domain |-> "LAYOUTV1", bytes |-> H(x) \o E(x)]
    BY ONLY <1>1, <2>1
  <2>3. /\ canonical_layout_hash(l) = [domain |-> "LAYOUTV1", bytes |-> H(l) \o E(l)]
        /\ canonical_layout_hash(m) = [domain |-> "LAYOUTV1", bytes |-> H(m) \o E(m)]
    BY <2>2
  <2>4. \A x, y : ([domain |-> "LAYOUTV1", bytes |-> x] = [domain |-> "LAYOUTV1", bytes |-> y] <=> x = y)
    OBVIOUS
  <2> QED BY ONLY <2>3, <2>4
<1>8. Len(l.fields) = Len(m.fields) => (FieldPieces(l) = FieldPieces(m) <=> B(l) = B(m))
  BY FieldsSame
<1>9. Facts(l) = Facts(m) <=> /\ l.context = m.context /\ l.type = m.type /\ l.size = m.size
                             /\ l.align = m.align /\ B(l) = B(m)
  <2>1. \A x \in {l, m} : Facts(x) = [context |-> x.context, type |-> x.type, size |-> x.size,
                                       align |-> x.align, fields |-> B(x)]
    BY DEF Facts, Bare
  <2> HIDE DEF B
  <2> QED BY ONLY <2>1
<1>10. B(l) = B(m) => Len(l.fields) = Len(m.fields)
  <2>1. DOMAIN B(l) = 1..Len(l.fields) /\ DOMAIN B(m) = 1..Len(m.fields)
    OBVIOUS
  <2>2. Len(l.fields) \in Nat /\ Len(m.fields) \in Nat
    BY LayoutBytes
  <2> HIDE DEF B
  <2>3. ASSUME B(l) = B(m)
        PROVE  Len(l.fields) = Len(m.fields)
    <3>1. 1..Len(l.fields) = 1..Len(m.fields)
      BY <2>1, <2>3
    <3> QED BY ONLY <2>2, <3>1
  <2> QED BY <2>3
<1> HIDE DEF B
<1> QED BY ONLY <1>3, <1>4, <1>5, <1>6, <1>7, <1>8, <1>9, <1>10

\* compare() says identical of those layouts only.
LEMMA CompareDecides ==
    ASSUME NEW l \in Layouts, NEW m \in Layouts, l.given, m.given
    PROVE  compare(l, m, TRUE) = "identical" <=> Facts(l) = Facts(m)
<1>1. canonical_layout_hash(l) = canonical_layout_hash(m) <=> Facts(l) = Facts(m)
  BY LayoutsDecide
<1>2. compare(l, m, TRUE) = "identical" <=> l.type = m.type /\ canonical_layout_hash(l) = canonical_layout_hash(m)
  BY DEF compare
<1>3. Facts(l) = Facts(m) => l.type = m.type
  <2>1. Facts(l).type = l.type /\ Facts(m).type = m.type
    BY DEF Facts
  <2> QED BY ONLY <2>1
<1> QED BY ONLY <1>1, <1>2, <1>3

\* An encoding is the whole of what the visit gives, or its front.
LEMMA EncodingWhole ==
    ASSUME NEW l \in Layouts, NEW capacity \in Buffers8
    PROVE  LET e == encode_canonical_layout(l, capacity)
           IN /\ Len(e.written) <= capacity
              /\ e.size # 0 => /\ e.size = Len(e.written)
                               /\ e.written = canonical_layout_hash(l).bytes
<1> DEFINE v == visit_canonical_layout(l)
           t == v.bytes
           n == Len(t)
           k == IF n < capacity THEN n ELSE capacity
           w == SubSeq(t, 1, k)
           e == encode_canonical_layout(l, capacity)
<1>1. t \in Seq(Nat)
  <2>1. LayoutHead(l) \in Seq(Nat) /\ Each(FieldPieces(l)) \in Seq(Nat) /\ <<>> \in Seq(Nat) /\ l.given \in BOOLEAN
    <3>1. LayoutHead(l) \in Even(32, Nat) /\ Each(FieldPieces(l)) \in Seq(Nat) /\ l.given \in BOOLEAN
      BY LayoutBytes
    <3>2. \A s \in Even(32, Nat) : s \in Seq(Nat)
      BY DEF Even
    <3>3. <<>> \in Seq(Nat)
      OBVIOUS
    <3> QED BY ONLY <3>1, <3>2, <3>3
  <2> DEFINE r == IF l.given THEN Each(FieldPieces(l)) ELSE <<>>
  <2>2. t = LayoutHead(l) \o r
    BY DEF visit_canonical_layout, FieldPieces
  <2>3. r \in Seq(Nat)
    BY <2>1
  <2> HIDE DEF r, t
  <2> QED BY ONLY <2>1, <2>2, <2>3, ConcatProperties
<1>2. /\ e.written = w
      /\ e.size = IF v.ok /\ n <= capacity THEN n ELSE 0
  BY DEF encode_canonical_layout
<1>3. v.ok => canonical_layout_hash(l).bytes = <<>> \o t
  <2>1. v.ok => canonical_layout_hash(l) = LayoutHashSink(t)
    BY DEF canonical_layout_hash
  <2>2. \A bytes : LayoutHashSink(bytes).bytes = <<>> \o bytes
    BY DEF LayoutHashSink, canonical_hash_bytes, canonical_hash_begin
  <2> QED BY ONLY <2>1, <2>2
<1> HIDE DEF v, t, e
<1>4. n \in Nat /\ capacity \in Nat /\ <<>> \o t = t
  BY <1>1, LayoutsAssumption, LenProperties, ConcatEmptySeq
<1>5. k \in Nat /\ k <= n /\ k <= capacity /\ (n <= capacity => k = n)
  <2> HIDE DEF n
  <2> QED BY <1>4
<1> HIDE DEF k, n
<1>6. Len(w) = k /\ (k = n => w = t)
  <2>1. \A i \in 1..k : t[i] \in Nat
    <3>1. \A i \in 1..k : i \in 1..n
      BY <1>4, <1>5
    <3> QED BY <1>1, <3>1, ElementOfSeq DEF n
  <2>2. w \in Seq(Nat) /\ Len(w) = (IF 1 <= k THEN k - 1 + 1 ELSE 0) /\ \A i \in 1..(k - 1 + 1) : w[i] = t[1 + i - 1]
    BY <1>5, <2>1, SubSeqProperties
  <2>3. (IF 1 <= k THEN k - 1 + 1 ELSE 0) = k /\ \A i \in 1..k : i \in 1..(k - 1 + 1) /\ 1 + i - 1 = i
    BY <1>5
  <2>4. Len(w) = k /\ \A i \in 1..k : w[i] = t[i]
    BY ONLY <2>2, <2>3
  <2>5. ASSUME k = n
        PROVE  w = t
    <3>1. w \in Seq(Nat) /\ t \in Seq(Nat) /\ Len(w) = Len(t) /\ \A i \in 1..Len(w) : w[i] = t[i]
      BY <1>1, <2>2, <2>4, <2>5 DEF n
    <3> HIDE DEF w
    <3> QED BY ONLY <3>1, SeqEqual
  <2> QED BY ONLY <2>4, <2>5
<1> HIDE DEF w
<1>7. Len(e.written) <= capacity
  BY ONLY <1>2, <1>5, <1>6
<1>8. ASSUME e.size # 0
      PROVE  e.size = Len(e.written) /\ e.written = canonical_layout_hash(l).bytes
  <2>1. v.ok /\ n <= capacity /\ e.size = n
    BY ONLY <1>2, <1>8
  <2>2. k = n /\ w = t
    BY ONLY <1>5, <1>6, <2>1
  <2> QED BY ONLY <1>2, <1>3, <1>4, <1>6, <2>1, <2>2
<1> QED BY <1>7, <1>8 DEF e

-----------------------------------------------------------------------------
\* The calls of an ABI.
LEMMA IdBytesDecide ==
    ASSUME NEW t \in TypeIds, NEW u \in TypeIds
    PROVE  IdBytes(t) \in Even(16, Nat) /\ (IdBytes(t) = IdBytes(u) <=> t = u)
<1> DEFINE E(n) == canonical_hash_u64_be(n)
<1>1. t.lo \in Nat /\ t.hi \in Nat /\ u.lo \in Nat /\ u.hi \in Nat
  BY DEF TypeIds
<1>2. /\ E(t.lo) \in Even(8, Nat) /\ E(t.hi) \in Even(8, Nat)
      /\ E(u.lo) \in Even(8, Nat) /\ E(u.hi) \in Even(8, Nat)
      /\ (E(t.lo) = E(u.lo) => t.lo = u.lo) /\ (E(t.hi) = E(u.hi) => t.hi = u.hi)
  BY <1>1, EvenBytes
<1>3. IdBytes(t) = E(t.lo) \o E(t.hi) /\ IdBytes(u) = E(u.lo) \o E(u.hi)
  BY DEF IdBytes
<1> DEFINE a == E(t.lo)
           b == E(t.hi)
           c == E(u.lo)
           d == E(u.hi)
<1>4. Paired(Nat, 8, 8, 16, a, b, c, d) /\ IdBytes(t) = a \o b /\ IdBytes(u) = c \o d
  BY <1>2, <1>3 DEF Paired
<1>5. IdBytes(t) \in Even(16, Nat) /\ (IdBytes(t) = IdBytes(u) <=> a = c /\ b = d)
  <2> HIDE DEF a, b, c, d
  <2>1. a \o b \in Even(16, Nat) /\ (a \o b = c \o d <=> a = c /\ b = d)
    <3>1. Paired(Nat, 8, 8, 16, a, b, c, d)
      BY <1>4
    <3> QED BY ONLY <3>1, EvenConcat
  <2> QED BY ONLY <1>4, <2>1
<1>6. t = [lo |-> t.lo, hi |-> t.hi] /\ u = [lo |-> u.lo, hi |-> u.hi]
  BY DEF TypeIds
<1>7. t.lo = u.lo /\ t.hi = u.hi => t = u
  BY ONLY <1>6
<1> QED BY ONLY <1>2, <1>5, <1>7

CallPieces(c) == [i \in 1..Len(c.params) |-> IdBytes(c.params[i])]

\* What a call holds; its pieces decide its parameters.
LEMMA CallPiecesDecide ==
    ASSUME NEW c \in Calls, NEW d \in Calls
    PROVE  /\ c.ret \in TypeIds /\ c.cc \in Nat /\ c.qualifiers \in Nat /\ c.params \in Seq(TypeIds)
           /\ c = [ret |-> c.ret, params |-> c.params, cc |-> c.cc, qualifiers |-> c.qualifiers]
           /\ Len(c.params) \in Nat
           /\ CallPieces(c) \in Seq(Even(16, Nat)) /\ Each(CallPieces(c)) \in Seq(Nat)
           /\ Len(c.params) = Len(d.params) /\ Each(CallPieces(c)) = Each(CallPieces(d)) => c.params = d.params
<1>1. \A x \in Calls : /\ x.ret \in TypeIds /\ x.cc \in Nat /\ x.qualifiers \in Nat /\ x.params \in Seq(TypeIds)
                       /\ x = [ret |-> x.ret, params |-> x.params, cc |-> x.cc, qualifiers |-> x.qualifiers]
  BY LayoutsAssumption
<1>2. \A x \in Calls : Len(x.params) \in Nat /\ \A i \in 1..Len(x.params) : x.params[i] \in TypeIds
  BY <1>1, ElementOfSeq, LenProperties
<1>3. \A x \in Calls : CallPieces(x) \in Seq(Even(16, Nat))
  <2> SUFFICES ASSUME NEW x \in Calls
               PROVE  CallPieces(x) \in Seq(Even(16, Nat))
    OBVIOUS
  <2>1. \A i \in 1..Len(x.params) : IdBytes(x.params[i]) \in Even(16, Nat)
    BY <1>2, IdBytesDecide
  <2>2. CallPieces(x) \in [1..Len(x.params) -> Even(16, Nat)]
    BY <2>1 DEF CallPieces
  <2> QED BY <1>2, <2>2, SeqDef
<1>4. Each(CallPieces(c)) \in Seq(Nat)
  BY <1>3, EachIsSequence
<1>5. ASSUME Len(c.params) = Len(d.params), Each(CallPieces(c)) = Each(CallPieces(d))
      PROVE  c.params = d.params
  <2>1. CallPieces(c) = CallPieces(d)
    <3>1. 16 \in Nat \ {0} /\ CallPieces(c) \in Seq(Even(16, Nat)) /\ CallPieces(d) \in Seq(Even(16, Nat))
      BY <1>3
    <3> QED BY <1>5, <3>1, EvenDecide
  <2>2. \A i \in 1..Len(c.params) : c.params[i] = d.params[i]
    <3> SUFFICES ASSUME NEW i \in 1..Len(c.params)
                 PROVE  c.params[i] = d.params[i]
      OBVIOUS
    <3>1. c.params[i] \in TypeIds /\ d.params[i] \in TypeIds
      BY <1>2, <1>5
    <3>2. CallPieces(c)[i] = IdBytes(c.params[i]) /\ CallPieces(d)[i] = IdBytes(d.params[i])
      BY <1>5 DEF CallPieces
    <3>3. IdBytes(c.params[i]) = IdBytes(d.params[i])
      BY ONLY <2>1, <3>2
    <3> QED BY <3>1, <3>3, IdBytesDecide
  <2>3. c.params \in Seq(TypeIds) /\ d.params \in Seq(TypeIds)
    BY <1>1
  <2> QED BY <1>5, <2>2, <2>3, SeqEqual
<1> QED BY <1>1, <1>2, <1>3, <1>4, <1>5

\* The ABI signature decides the call.
LEMMA CallsDecide ==
    ASSUME NEW c \in Calls, NEW d \in Calls
    PROVE  abi_signature_hash(c) = abi_signature_hash(d) <=> c = d
<1> DEFINE r(x) == IdBytes(x.ret)
           l(x) == canonical_hash_u64_be(Len(x.params))
           e(x) == Each(CallPieces(x))
           v(x) == canonical_hash_u32_be(x.cc)
           q(x) == canonical_hash_u32_be(x.qualifiers)
           rl(x) == r(x) \o l(x)
           rle(x) == rl(x) \o e(x)
           rlev(x) == rle(x) \o v(x)
           all(x) == rlev(x) \o q(x)
<1> USE CallPiecesDecide
<1>1. r(c) \in Even(16, Nat) /\ r(d) \in Even(16, Nat) /\ (r(c) = r(d) => c.ret = d.ret)
  BY IdBytesDecide
<1>2. l(c) \in Even(8, Nat) /\ l(d) \in Even(8, Nat) /\ (l(c) = l(d) => Len(c.params) = Len(d.params))
  BY EvenBytes
<1>3. v(c) \in Even(4, Nat) /\ v(d) \in Even(4, Nat) /\ (v(c) = v(d) => c.cc = d.cc)
  BY EvenBytes
<1>4. q(c) \in Even(4, Nat) /\ q(d) \in Even(4, Nat) /\ (q(c) = q(d) => c.qualifiers = d.qualifiers)
  BY EvenBytes
<1>5. e(c) \in Seq(Nat) /\ e(d) \in Seq(Nat)
  OBVIOUS
<1>6. \A x : abi_signature_hash(x) = [domain |-> "ABISIG_1", bytes |-> <<>> \o all(x)]
  <2>1. \A x : abi_signature_hash(x) = canonical_hash_bytes(canonical_hash_begin("ABISIG_1"), all(x))
    BY ONLY Zenon DEF abi_signature_hash, CallPieces
  <2>2. \A b : canonical_hash_bytes(canonical_hash_begin("ABISIG_1"), b) = [domain |-> "ABISIG_1", bytes |-> <<>> \o b]
    BY ONLY SMT DEF canonical_hash_bytes, canonical_hash_begin
  <2> HIDE DEF all
  <2> QED BY ONLY <2>1, <2>2
<1>7. Len(c.params) = Len(d.params) /\ e(c) = e(d) => c.params = d.params
  OBVIOUS
<1>8. c.ret = d.ret /\ c.params = d.params /\ c.cc = d.cc /\ c.qualifiers = d.qualifiers => c = d
  <2>1. /\ c = [ret |-> c.ret, params |-> c.params, cc |-> c.cc, qualifiers |-> c.qualifiers]
        /\ d = [ret |-> d.ret, params |-> d.params, cc |-> d.cc, qualifiers |-> d.qualifiers]
    OBVIOUS
  <2> QED BY ONLY <2>1
<1> HIDE CallPiecesDecide DEF r, l, e, v, q
<1>9. rl(c) \in Even(24, Nat) /\ rl(d) \in Even(24, Nat) /\ (rl(c) = rl(d) <=> r(c) = r(d) /\ l(c) = l(d))
  <2>1. Paired(Nat, 16, 8, 24, r(c), l(c), r(d), l(d))
    BY <1>1, <1>2 DEF Paired
  <2> QED BY ONLY <2>1, EvenConcat
<1> HIDE DEF rl
<1>10. rle(c) = rle(d) => rl(c) = rl(d) /\ e(c) = e(d)
  <2>1. Parts2(Nat, rl(c), e(c), rl(d), e(d), 24)
    BY <1>5, <1>9 DEF Parts2, Even
  <2> QED BY ONLY <2>1, FrontsDecide
<1>11. rle(c) \in Seq(Nat) /\ rle(d) \in Seq(Nat)
  <2>1. rl(c) \in Seq(Nat) /\ rl(d) \in Seq(Nat)
    BY <1>9 DEF Even
  <2> QED BY <1>5, <2>1, ConcatProperties
<1> HIDE DEF rle
<1>12. rlev(c) = rlev(d) => rle(c) = rle(d) /\ v(c) = v(d)
  <2>1. Parts2(Nat, v(c), rle(c), v(d), rle(d), 4)
    BY <1>3, <1>11 DEF Parts2, Even
  <2> QED BY ONLY <2>1, EndsDecide
<1>13. rlev(c) \in Seq(Nat) /\ rlev(d) \in Seq(Nat)
  <2>1. v(c) \in Seq(Nat) /\ v(d) \in Seq(Nat)
    BY <1>3 DEF Even
  <2> QED BY <1>11, <2>1, ConcatProperties
<1> HIDE DEF rlev
<1>14. all(c) = all(d) => rlev(c) = rlev(d) /\ q(c) = q(d)
  <2>1. Parts2(Nat, q(c), rlev(c), q(d), rlev(d), 4)
    BY <1>4, <1>13 DEF Parts2, Even
  <2> QED BY ONLY <2>1, EndsDecide
<1>15. <<>> \o all(c) = all(c) /\ <<>> \o all(d) = all(d)
  <2>1. q(c) \in Seq(Nat) /\ q(d) \in Seq(Nat)
    BY <1>4 DEF Even
  <2>2. all(c) \in Seq(Nat) /\ all(d) \in Seq(Nat)
    BY <1>13, <2>1, ConcatProperties
  <2> HIDE DEF all
  <2> QED BY <2>2, ConcatEmptySeq
<1> HIDE DEF all
<1>16. abi_signature_hash(c) = abi_signature_hash(d) => all(c) = all(d)
  <2>1. abi_signature_hash(c).bytes = all(c) /\ abi_signature_hash(d).bytes = all(d)
    BY ONLY <1>6, <1>15
  <2> QED BY ONLY <2>1
<1> QED BY ONLY <1>1, <1>2, <1>3, <1>4, <1>7, <1>8, <1>9, <1>10, <1>12, <1>14, <1>16

\* What a hash is of, is in its domain.
LEMMA DomainsApart ==
    ASSUME NEW c, NEW n, NEW r, NEW p, NEW l
    PROVE  method_signature(n, r, p) # abi_signature_hash(c) /\ canonical_layout_hash(l) # abi_signature_hash(c)
<1>1. abi_signature_hash(c).domain = "ABISIG_1"
  BY DEF abi_signature_hash, canonical_hash_bytes, canonical_hash_begin
<1>2. method_signature(n, r, p).domain = "SIGNATUR"
  BY DEF method_signature, canonical_hash_bytes, canonical_hash_begin
<1>3. canonical_layout_hash(l).domain \in {"LAYOUTV1", "zero"}
  <2>1. \A bytes : LayoutHashSink(bytes).domain = "LAYOUTV1"
    BY DEF LayoutHashSink, canonical_hash_bytes, canonical_hash_begin
  <2>2. canonical_hash_begin("zero").domain = "zero"
    BY DEF canonical_hash_begin
  <2> QED BY ONLY <2>1, <2>2 DEF canonical_layout_hash
<1>4. "ABISIG_1" # "SIGNATUR" /\ "ABISIG_1" # "LAYOUTV1" /\ "ABISIG_1" # "zero"
  OBVIOUS
<1> QED BY ONLY <1>1, <1>2, <1>3, <1>4

-----------------------------------------------------------------------------
\* Signatures of functions.
Value(t) == <<t.base, t.base = "reference" /\ t.const>>

\* The signature of a type decides it up to const values, ...
LEMMA TypeSigDecides ==
    ASSUME NEW t \in SigTypes, NEW u \in SigTypes
    PROVE  (type_sig(t) = type_sig(u) <=> Value(t) = Value(u))
<1>1. /\ t = [base |-> t.base, const |-> t.const] /\ u = [base |-> u.base, const |-> u.const]
      /\ t.const \in BOOLEAN /\ u.const \in BOOLEAN
  BY DEF SigTypes
<1>2. /\ type_sig(t) = [base |-> t.base, const |-> (t.base = "reference" /\ t.const)]
      /\ type_sig(u) = [base |-> u.base, const |-> (u.base = "reference" /\ u.const)]
  <2>1. ASSUME NEW x \in SigTypes
        PROVE  type_sig(x) = [base |-> x.base, const |-> (x.base = "reference" /\ x.const)]
    <3>1. x = [base |-> x.base, const |-> x.const] /\ x.const \in BOOLEAN
      BY DEF SigTypes
    <3>2. CASE x.base = "reference"
      <4>1. (x.base = "reference" /\ x.const) = x.const
        BY <3>1, <3>2
      <4> QED BY <3>1, <3>2, <4>1 DEF type_sig
    <3>3. CASE x.base # "reference"
      <4>1. (x.base = "reference" /\ x.const) = FALSE
        BY <3>3
      <4>2. type_sig(x) = [x EXCEPT !.const = FALSE]
        BY <3>3 DEF type_sig
      <4>3. [x EXCEPT !.const = FALSE] = [base |-> x.base, const |-> FALSE]
        <5>1. \A f : [x EXCEPT !.const = f] = [base |-> x.base, const |-> f]
          BY DEF SigTypes
        <5> QED BY <5>1
      <4> QED BY <4>1, <4>2, <4>3
    <3> QED BY <3>2, <3>3
  <2> QED BY <2>1
<1> DEFINE a == t.base = "reference" /\ t.const
           b == u.base = "reference" /\ u.const
<1>3. Value(t) = <<t.base, a>> /\ Value(u) = <<u.base, b>>
  BY DEF Value
<1> HIDE DEF a, b
<1>4. Value(t) = Value(u) <=> t.base = u.base /\ a = b
  BY ONLY <1>3
<1>5. type_sig(t) = [base |-> t.base, const |-> a] /\ type_sig(u) = [base |-> u.base, const |-> b]
  BY <1>2 DEF a, b
<1>6. type_sig(t) = type_sig(u) <=> t.base = u.base /\ a = b
  BY ONLY <1>5
<1> QED BY ONLY <1>4, <1>6

\* ... and that of a function its types and its convention.
LEMMA SignaturesDecide ==
    ASSUME NEW s \in Signatures, NEW t \in Signatures
    PROVE  FnSigImpl(s) = FnSigImpl(t) <=>
               <<s.cc, Value(s.ret), [i \in 1..Len(s.args) |-> Value(s.args[i])]>>
                   = <<t.cc, Value(t.ret), [i \in 1..Len(t.args) |-> Value(t.args[i])]>>
<1>1. \A x \in {s, t} : x.ret \in SigTypes /\ x.args \in Seq(SigTypes)
  BY SignaturesAssumption
<1>2. \A x \in {s, t} : Len(x.args) \in Nat /\ \A i \in 1..Len(x.args) : x.args[i] \in SigTypes
  BY <1>1, ElementOfSeq, LenProperties
<1> DEFINE S(x) == [i \in 1..Len(x.args) |-> type_sig(x.args[i])]
           V(x) == [i \in 1..Len(x.args) |-> Value(x.args[i])]
<1>3. S(s) = S(t) <=> V(s) = V(t)
  <2> DEFINE n == Len(s.args)
  <2>1. (S(s) = S(t) => n = Len(t.args)) /\ (V(s) = V(t) => n = Len(t.args))
    <3>1. /\ DOMAIN S(s) = 1..n /\ DOMAIN S(t) = 1..Len(t.args)
          /\ DOMAIN V(s) = 1..n /\ DOMAIN V(t) = 1..Len(t.args)
      OBVIOUS
    <3>2. n \in Nat /\ Len(t.args) \in Nat
      BY <1>2
    <3> HIDE DEF S, V, n
    <3>3. 1..n = 1..Len(t.args) => n = Len(t.args)
      BY ONLY <3>2
    <3> QED BY ONLY <3>1, <3>3
  <2>2. ASSUME n = Len(t.args)
        PROVE  S(s) = S(t) <=> V(s) = V(t)
    <3>1. \A i \in 1..n : (type_sig(s.args[i]) = type_sig(t.args[i]) <=> Value(s.args[i]) = Value(t.args[i]))
      BY <1>2, <2>2, TypeSigDecides
    <3>2. S(t) = [i \in 1..n |-> type_sig(t.args[i])] /\ V(t) = [i \in 1..n |-> Value(t.args[i])]
      BY <2>2
    <3>3. S(s) = S(t) <=> \A i \in 1..n : type_sig(s.args[i]) = type_sig(t.args[i])
      BY ONLY <3>2
    <3>4. V(s) = V(t) <=> \A i \in 1..n : Value(s.args[i]) = Value(t.args[i])
      BY ONLY <3>2
    <3> QED BY ONLY <3>1, <3>3, <3>4
  <2> HIDE DEF S, V, n
  <2> QED BY <2>1, <2>2
<1>4. type_sig(s.ret) = type_sig(t.ret) <=> Value(s.ret) = Value(t.ret)
  BY <1>1, TypeSigDecides
<1>5. /\ FnSigImpl(s) = <<type_sig(s.ret), S(s), s.cc>>
      /\ FnSigImpl(t) = <<type_sig(t.ret), S(t), t.cc>>
  BY DEF FnSigImpl
<1> HIDE DEF S
<1>6. FnSigImpl(s) = FnSigImpl(t) <=> type_sig(s.ret) = type_sig(t.ret) /\ S(s) = S(t) /\ s.cc = t.cc
  BY ONLY <1>5
<1> HIDE DEF V
<1>7. <<s.cc, Value(s.ret), V(s)>> = <<t.cc, Value(t.ret), V(t)>> <=>
          s.cc = t.cc /\ Value(s.ret) = Value(t.ret) /\ V(s) = V(t)
  OBVIOUS
<1>8. FnSigImpl(s) = FnSigImpl(t) <=> <<s.cc, Value(s.ret), V(s)>> = <<t.cc, Value(t.ret), V(t)>>
  BY ONLY <1>3, <1>4, <1>6, <1>7
<1> QED BY <1>8 DEF V

\* The aliases of a machine.
LEMMA AliasesHold ==
    ASSUME NEW m \in Machines
    PROVE  /\ isize(m).bits = 8 * m.pointer /\ usize(m).bits = 8 * m.pointer
           /\ wint(m).bits = 8 * m.wint_size /\ wint(m).signed = m.wint
           /\ isize(m) # usize(m)
           /\ nchar(m) \notin {integer_type_id(1, TRUE), integer_type_id(1, FALSE)}
           /\ wchar(m) # wint(m)
           /\ ldouble(m).class = "ieee" <=> m.digits \in {53, 113}
<1>1. /\ m.pointer \in {4, 8} /\ m.wint_size \in {1, 2, 4, 8} /\ m.digits \in {53, 64, 106, 113}
  BY SignaturesAssumption
<1>2. \A c, s, b : Key(c, s, b).class = c /\ Key(c, s, b).signed = s /\ Key(c, s, b).bits = b
  BY DEF Key
<1>3. ASSUME NEW n \in {1, 2, 4, 8}, NEW s
      PROVE  /\ integer_type_id(n, s).bits = 8 * n /\ integer_type_id(n, s).signed = s
             /\ integer_type_id(n, s).class = "int"
  <2>1. n = 1 \/ n = 2 \/ n = 4 \/ n = 8
    OBVIOUS
  <2>2. CASE n = 1
    BY <1>2, <2>2 DEF integer_type_id
  <2>3. CASE n = 2
    BY <1>2, <2>3 DEF integer_type_id
  <2>4. CASE n = 4
    BY <1>2, <2>4 DEF integer_type_id
  <2>5. CASE n = 8
    BY <1>2, <2>5 DEF integer_type_id
  <2> QED BY <2>1, <2>2, <2>3, <2>4, <2>5
<1>4. isize(m).bits = 8 * m.pointer /\ usize(m).bits = 8 * m.pointer /\ isize(m).signed = TRUE /\ usize(m).signed = FALSE
  <2>1. CASE m.pointer = 4
    BY <1>3, <2>1 DEF isize, usize
  <2>2. CASE m.pointer = 8
    BY <1>3, <2>2 DEF isize, usize
  <2> QED BY <1>1, <2>1, <2>2
<1>5. wint(m).bits = 8 * m.wint_size /\ wint(m).signed = m.wint /\ wint(m).class = "int"
  BY <1>1, <1>3 DEF wint
<1>6. wchar(m).class = "wchar" /\ nchar(m).class = "char"
  BY <1>2 DEF wchar, nchar
<1>7. integer_type_id(1, TRUE).class = "int" /\ integer_type_id(1, FALSE).class = "int"
  BY <1>3
<1>8. isize(m) # usize(m) /\ wchar(m) # wint(m)
  BY ONLY <1>4, <1>5, <1>6
<1>9. nchar(m) \notin {integer_type_id(1, TRUE), integer_type_id(1, FALSE)}
  BY ONLY <1>6, <1>7
<1>10. ldouble(m).class = "ieee" <=> m.digits \in {53, 113}
  <2>0. "ieee" # "x87" /\ "ieee" # "ppc"
    OBVIOUS
  <2>1. CASE m.digits = 53
    <3>1. ldouble(m) = Key("ieee", TRUE, 64)
      BY ONLY <2>1 DEF ldouble
    <3>2. ldouble(m).class = "ieee"
      BY ONLY <3>1 DEF Key
    <3> QED BY ONLY <2>0, <2>1, <3>2
  <2>2. CASE m.digits = 64
    <3>1. ldouble(m) = Key("x87", TRUE, 80)
      BY ONLY <2>2 DEF ldouble
    <3>2. ldouble(m).class = "x87"
      BY ONLY <3>1 DEF Key
    <3> QED BY ONLY <2>0, <2>2, <3>2
  <2>3. CASE m.digits = 106
    <3>1. ldouble(m) = Key("ppc", TRUE, 128)
      BY ONLY <2>3 DEF ldouble
    <3>2. ldouble(m).class = "ppc"
      BY ONLY <3>1 DEF Key
    <3> QED BY ONLY <2>0, <2>3, <3>2
  <2>4. CASE m.digits = 113
    <3>1. ldouble(m) = Key("ieee", TRUE, 128)
      BY ONLY <2>4 DEF ldouble
    <3>2. ldouble(m).class = "ieee"
      BY ONLY <3>1 DEF Key
    <3> QED BY ONLY <2>0, <2>4, <3>2
  <2> QED BY <1>1, <2>1, <2>2, <2>3, <2>4
<1> QED BY ONLY <1>4, <1>5, <1>8, <1>9, <1>10

-----------------------------------------------------------------------------
\* The methods of a contract, sorted by slot.
SlotMethods == [slot : Nat, lo : Nat, hi : Nat]
Rising(s) == \A i, j \in 1..Len(s) : i < j => s[i].slot < s[j].slot
AllIn(s, t) == \A i \in 1..Len(s) : \E j \in 1..Len(t) : s[i] = t[j]

\* The place to insert at exists, and is where it should be.
LEMMA PlaceFound ==
    ASSUME NEW list \in Seq(SlotMethods), NEW m \in SlotMethods
    PROVE  /\ Place(list, m) \in 0..Len(list)
           /\ Place(list, m) > 0 => list[Place(list, m)].slot <= m.slot
           /\ \A i \in (Place(list, m) + 1)..Len(list) : list[i].slot > m.slot
<1> DEFINE n == Len(list)
           Later(j) == \A i \in (j + 1)..n : list[i].slot > m.slot
           S == {j \in 0..n : Later(j)}
<1>1. n \in Nat /\ \A i \in 1..n : list[i].slot \in Nat
  <2>1. n \in Nat /\ \A i \in 1..n : list[i] \in SlotMethods
    BY ElementOfSeq, LenProperties
  <2> QED BY <2>1 DEF SlotMethods
<1>2. m.slot \in Nat
  BY DEF SlotMethods
<1> HIDE DEF n
<1>3. n \in S
  <2>1. n \in 0..n /\ \A i \in (n + 1)..n : FALSE
    BY <1>1
  <2> QED BY <2>1
<1>4. PICK j \in S : \A k \in S : j <= k
  <2>1. S \subseteq Nat /\ S # {}
    BY <1>3
  <2> HIDE DEF S
  <2> QED BY <2>1, LeastElement
<1>5. j > 0 => list[j].slot <= m.slot
  <2> SUFFICES ASSUME j > 0, ~(list[j].slot <= m.slot)
               PROVE  FALSE
    OBVIOUS
  <2>1. j \in 1..n /\ j - 1 \in 0..n /\ ~(j <= j - 1)
    BY <1>1
  <2>2. list[j].slot > m.slot
    BY <1>1, <1>2, <2>1
  <2>3. ASSUME NEW i \in ((j - 1) + 1)..n
        PROVE  list[i].slot > m.slot
    <3>1. i = j \/ i \in (j + 1)..n
      BY <1>1, <2>1
    <3> QED BY <2>2, <3>1
  <2>4. j - 1 \in S
    BY <2>1, <2>3
  <2> QED BY <1>4, <2>1, <2>4
<1> DEFINE Q(k) == (k > 0 => list[k].slot <= m.slot) /\ Later(k)
<1>6. j \in 0..n /\ Q(j)
  BY <1>5
<1>7. Place(list, m) = CHOOSE k \in 0..n : Q(k)
  BY DEF Place, n
<1> HIDE DEF Q
<1>8. Place(list, m) \in 0..n /\ Q(Place(list, m))
  BY <1>6, <1>7
<1> QED BY <1>8 DEF Q, n

\* What insertion gives: the elements before the place, the new one, and the others.
LEMMA InsertedAt ==
    ASSUME NEW list \in Seq(SlotMethods), NEW m \in SlotMethods
    PROVE  \E j \in 0..Len(list) :
               /\ j > 0 => list[j].slot <= m.slot
               /\ \A i \in (j + 1)..Len(list) : list[i].slot > m.slot
               /\ InsertedBySlot(list, m) \in Seq(SlotMethods)
               /\ Len(InsertedBySlot(list, m)) = Len(list) + 1
               /\ \A i \in 1..j : InsertedBySlot(list, m)[i] = list[i]
               /\ InsertedBySlot(list, m)[j + 1] = m
               /\ \A i \in (j + 1)..Len(list) : InsertedBySlot(list, m)[i + 1] = list[i]
<1> DEFINE n == Len(list)
           j == Place(list, m)
           a == SubSeq(list, 1, j)
           b == <<m>>
           c == SubSeq(list, j + 1, n)
           ab == a \o b
           r == ab \o c
<1>1. n \in Nat /\ \A i \in 1..n : list[i] \in SlotMethods
  BY ElementOfSeq, LenProperties
<1>2. /\ j \in 0..n /\ (j > 0 => list[j].slot <= m.slot)
      /\ \A i \in (j + 1)..n : list[i].slot > m.slot
  BY PlaceFound
<1>3. InsertedBySlot(list, m) = r
  BY DEF InsertedBySlot
<1> HIDE DEF j, n
<1>4. a \in Seq(SlotMethods) /\ Len(a) = j /\ \A i \in 1..j : a[i] = list[i]
  <2>1. j \in Nat /\ \A i \in 1..j : list[i] \in SlotMethods
    BY <1>1, <1>2
  <2>2. a \in Seq(SlotMethods) /\ Len(a) = (IF 1 <= j THEN j - 1 + 1 ELSE 0) /\ \A i \in 1..(j - 1 + 1) : a[i] = list[1 + i - 1]
    BY <2>1, SubSeqProperties
  <2>3. (IF 1 <= j THEN j - 1 + 1 ELSE 0) = j /\ \A i \in 1..j : i \in 1..(j - 1 + 1) /\ 1 + i - 1 = i
    BY <2>1
  <2> QED BY ONLY <2>2, <2>3
<1>5. c \in Seq(SlotMethods) /\ Len(c) = n - j /\ \A i \in 1..(n - j) : c[i] = list[j + i]
  <2>1. j + 1 \in Int /\ n \in Int /\ \A i \in (j + 1)..n : list[i] \in SlotMethods
    BY <1>1, <1>2
  <2>2. /\ c \in Seq(SlotMethods) /\ Len(c) = (IF j + 1 <= n THEN n - (j + 1) + 1 ELSE 0)
        /\ \A i \in 1..(n - (j + 1) + 1) : c[i] = list[(j + 1) + i - 1]
    BY <2>1, SubSeqProperties
  <2>3. /\ (IF j + 1 <= n THEN n - (j + 1) + 1 ELSE 0) = n - j
        /\ \A i \in 1..(n - j) : i \in 1..(n - (j + 1) + 1) /\ (j + 1) + i - 1 = j + i
    BY <1>1, <1>2
  <2> QED BY ONLY <2>2, <2>3
<1>6. b \in Seq(SlotMethods) /\ Len(b) = 1 /\ b[1] = m
  OBVIOUS
<1> HIDE DEF a, b, c
<1>7. /\ ab \in Seq(SlotMethods) /\ Len(ab) = j + 1 /\ ab[j + 1] = m
      /\ \A i \in 1..j : ab[i] = list[i]
  <2>1. a \in Seq(SlotMethods) /\ b \in Seq(SlotMethods)
    BY <1>4, <1>6
  <2>2. /\ ab \in Seq(SlotMethods) /\ Len(ab) = Len(a) + Len(b)
        /\ \A i \in 1..Len(a) : ab[i] = a[i]
        /\ \A i \in 1..Len(b) : ab[Len(a) + i] = b[i]
    BY ONLY <2>1, ConcatAt
  <2>3. 1 \in 1..Len(b)
    BY <1>6
  <2> QED BY ONLY <1>4, <1>6, <2>2, <2>3
<1> HIDE DEF ab
<1>8. /\ r \in Seq(SlotMethods) /\ Len(r) = n + 1
      /\ \A i \in 1..(j + 1) : r[i] = ab[i]
      /\ \A i \in 1..(n - j) : r[(j + 1) + i] = c[i]
  <2>1. ab \in Seq(SlotMethods) /\ c \in Seq(SlotMethods)
    BY <1>5, <1>7
  <2>2. /\ r \in Seq(SlotMethods) /\ Len(r) = Len(ab) + Len(c)
        /\ \A i \in 1..Len(ab) : r[i] = ab[i]
        /\ \A i \in 1..Len(c) : r[Len(ab) + i] = c[i]
    BY ONLY <2>1, ConcatAt
  <2>3. (j + 1) + (n - j) = n + 1
    BY <1>1, <1>2
  <2> QED BY ONLY <1>5, <1>7, <2>2, <2>3
<1> HIDE DEF r
<1>9. \A i \in 1..j : r[i] = list[i]
  <2>1. \A i \in 1..j : i \in 1..(j + 1)
    BY <1>2
  <2> QED BY ONLY <1>7, <1>8, <2>1
<1>10. r[j + 1] = m
  <2>1. j + 1 \in 1..(j + 1)
    BY <1>2
  <2> QED BY ONLY <1>7, <1>8, <2>1
<1>11. \A i \in (j + 1)..n : r[i + 1] = list[i]
  <2> SUFFICES ASSUME NEW i \in (j + 1)..n
               PROVE  r[i + 1] = list[i]
    OBVIOUS
  <2>1. i - j \in 1..(n - j) /\ (j + 1) + (i - j) = i + 1 /\ j + (i - j) = i
    BY <1>1, <1>2
  <2>2. r[(j + 1) + (i - j)] = c[i - j] /\ c[i - j] = list[j + (i - j)]
    BY ONLY <1>5, <1>8, <2>1
  <2> QED BY ONLY <2>1, <2>2
<1>12. /\ j \in 0..n /\ (j > 0 => list[j].slot <= m.slot)
       /\ \A i \in (j + 1)..n : list[i].slot > m.slot
       /\ r \in Seq(SlotMethods) /\ Len(r) = n + 1
  BY <1>2, <1>8
<1> QED BY <1>3, <1>9, <1>10, <1>11, <1>12 DEF n

\* Insertion keeps a list rising, and adds nothing but the new element.
LEMMA InsertedRises ==
    ASSUME NEW list \in Seq(SlotMethods), NEW m \in SlotMethods, Rising(list),
           \A i \in 1..Len(list) : list[i].slot # m.slot
    PROVE  /\ InsertedBySlot(list, m) \in Seq(SlotMethods) /\ Len(InsertedBySlot(list, m)) = Len(list) + 1
           /\ Rising(InsertedBySlot(list, m))
           /\ \A i \in 1..(Len(list) + 1) : \/ InsertedBySlot(list, m)[i] = m
                                          \/ \E k \in 1..Len(list) : InsertedBySlot(list, m)[i] = list[k]
           /\ \E i \in 1..(Len(list) + 1) : InsertedBySlot(list, m)[i] = m
           /\ \A k \in 1..Len(list) : \E i \in 1..(Len(list) + 1) : InsertedBySlot(list, m)[i] = list[k]
<1> DEFINE n == Len(list)
           r == InsertedBySlot(list, m)
<1>1. n \in Nat /\ m.slot \in Nat /\ \A i \in 1..n : list[i].slot \in Nat
  <2>1. n \in Nat /\ \A i \in 1..n : list[i] \in SlotMethods
    BY ElementOfSeq, LenProperties
  <2> QED BY <2>1 DEF SlotMethods
<1>2. \A i \in 1..n : list[i].slot # m.slot
  OBVIOUS
<1>3. \A i, k \in 1..n : i < k => list[i].slot < list[k].slot
  BY DEF Rising
<1>4. PICK j \in 0..n :
          /\ j > 0 => list[j].slot <= m.slot
          /\ \A i \in (j + 1)..n : list[i].slot > m.slot
          /\ r \in Seq(SlotMethods) /\ Len(r) = n + 1
          /\ \A i \in 1..j : r[i] = list[i]
          /\ r[j + 1] = m
          /\ \A i \in (j + 1)..n : r[i + 1] = list[i]
  BY InsertedAt
<1> HIDE DEF n, r
<1>5. ASSUME NEW i \in 1..j
      PROVE  i \in 1..n /\ r[i] = list[i] /\ list[i].slot < m.slot
  <2>1. i \in 1..n /\ j \in 1..n /\ j > 0
    BY <1>1
  <2>2. list[j].slot < m.slot
    BY <1>1, <1>2, <1>4, <2>1
  <2>3. i = j \/ i < j
    OBVIOUS
  <2>4. list[i].slot < m.slot
    <3>1. CASE i = j
      BY <2>2, <3>1
    <3>2. CASE i < j
      <4>1. list[i].slot < list[j].slot
        BY <1>3, <2>1, <3>2
      <4>2. list[i].slot \in Nat /\ list[j].slot \in Nat
        BY <1>1, <2>1
      <4> QED BY ONLY <1>1, <2>2, <4>1, <4>2
    <3> QED BY <2>3, <3>1, <3>2
  <2> QED BY <1>4, <2>1, <2>4
<1>6. ASSUME NEW i \in (j + 2)..(n + 1)
      PROVE  i - 1 \in 1..n /\ r[i] = list[i - 1] /\ list[i - 1].slot > m.slot
  <2>1. i - 1 \in (j + 1)..n /\ (i - 1) + 1 = i /\ i - 1 \in 1..n
    BY <1>1
  <2>2. r[(i - 1) + 1] = list[i - 1] /\ list[i - 1].slot > m.slot
    BY ONLY <1>4, <2>1
  <2> QED BY ONLY <2>1, <2>2
<1>7. \A i \in 1..(n + 1) : i \in 1..j \/ i = j + 1 \/ i \in (j + 2)..(n + 1)
  BY <1>1
<1>8. ASSUME NEW i \in 1..(n + 1), NEW k \in 1..(n + 1), i < k
      PROVE  r[i].slot < r[k].slot
  <2>1. CASE k \in 1..j
    <3>1. i \in 1..j
      BY <1>8, <2>1
    <3>2. r[i] = list[i] /\ r[k] = list[k] /\ list[i].slot < list[k].slot
      BY <1>3, <1>5, <1>8, <2>1, <3>1
    <3> QED BY ONLY <3>2
  <2>2. CASE k = j + 1
    <3>1. i \in 1..j
      BY <1>8, <2>2
    <3>2. r[i] = list[i] /\ r[k] = m /\ list[i].slot < m.slot
      BY <1>4, <1>5, <2>2, <3>1
    <3> QED BY ONLY <3>2
  <2>3. CASE k \in (j + 2)..(n + 1)
    <3>0. k - 1 \in 1..n /\ r[k] = list[k - 1] /\ list[k - 1].slot > m.slot /\ list[k - 1].slot \in Nat
      BY <1>1, <1>6, <2>3
    <3>1. CASE i \in 1..j
      <4>1. r[i] = list[i] /\ list[i].slot < m.slot /\ list[i].slot \in Nat
        BY <1>1, <1>5, <3>1
      <4>2. m.slot \in Nat
        BY <1>1
      <4> QED BY ONLY <3>0, <4>1, <4>2
    <3>2. CASE i = j + 1
      <4>1. r[i] = m
        BY <1>4, <3>2
      <4> QED BY ONLY <1>1, <3>0, <4>1
    <3>3. CASE i \in (j + 2)..(n + 1)
      <4>1. i - 1 \in 1..n /\ r[i] = list[i - 1] /\ i - 1 < k - 1
        BY <1>6, <1>8, <3>3
      <4>2. list[i - 1].slot < list[k - 1].slot
        BY ONLY <1>3, <3>0, <4>1
      <4> QED BY ONLY <3>0, <4>1, <4>2
    <3> QED BY <1>7, <3>1, <3>2, <3>3
  <2> QED BY <1>7, <2>1, <2>2, <2>3
<1>9. Rising(r)
  <2>1. Len(r) = n + 1
    BY <1>4
  <2> QED BY ONLY <1>8, <2>1 DEF Rising
<1>10. ASSUME NEW i \in 1..(n + 1)
       PROVE  r[i] = m \/ \E k \in 1..n : r[i] = list[k]
  <2>1. CASE i \in 1..j
    BY <1>5, <2>1
  <2>2. CASE i = j + 1
    BY <1>4, <2>2
  <2>3. CASE i \in (j + 2)..(n + 1)
    BY <1>6, <2>3
  <2> QED BY <1>7, <2>1, <2>2, <2>3
<1>11. \E i \in 1..(n + 1) : r[i] = m
  <2>1. j + 1 \in 1..(n + 1)
    BY <1>1
  <2> QED BY <1>4, <2>1
<1>12. ASSUME NEW k \in 1..n
       PROVE  \E i \in 1..(n + 1) : r[i] = list[k]
  <2>1. CASE k <= j
    <3>1. k \in 1..j /\ k \in 1..(n + 1)
      BY <1>1, <2>1
    <3> QED BY <1>4, <3>1
  <2>2. CASE ~(k <= j)
    <3>1. k \in (j + 1)..n /\ k + 1 \in 1..(n + 1)
      BY <1>1, <2>2
    <3> QED BY <1>4, <3>1
  <2> QED BY <2>1, <2>2
<1>13. r \in Seq(SlotMethods) /\ Len(r) = n + 1
  BY <1>4
<1> QED BY ONLY <1>9, <1>10, <1>11, <1>12, <1>13 DEF n, r

\* The sort goes through the methods.
LEMMA SortLoop ==
    ASSUME NEW ms \in Seq(SlotMethods)
    PROVE  \E g : /\ g \in [0..Len(ms) -> Seq(SlotMethods)] /\ g[0] = <<>> /\ sorted(ms) = g[Len(ms)]
                  /\ \A k \in 1..Len(ms) : g[k] = InsertedBySlot(g[k - 1], ms[k])
<1> DEFINE n == Len(ms)
           L == Seq(SlotMethods)
           step == [x \in L \X (1..n) |-> InsertedBySlot(x[1], ms[x[2]])]
           Upto(g) == g = [k \in 0..n |-> IF k = 0 THEN <<>> ELSE InsertedBySlot(g[k - 1], ms[k])]
<1>0. n \in Nat /\ \A k \in 1..n : ms[k] \in SlotMethods
  BY ElementOfSeq, LenProperties
<1>1. <<>> \in L
  OBVIOUS
<1> HIDE DEF n
<1>2. step \in [L \X (1..n) -> L]
  <2>1. ASSUME NEW x \in L \X (1..n)
        PROVE  InsertedBySlot(x[1], ms[x[2]]) \in L
    <3>1. x[1] \in Seq(SlotMethods) /\ ms[x[2]] \in SlotMethods
      BY <1>0
    <3> QED BY <3>1, InsertedAt
  <2> QED BY <2>1
<1>3. \A y \in L, k \in 1..n : step[<<y, k>>] = InsertedBySlot(y, ms[k])
  OBVIOUS
<1> HIDE DEF step, L
<1>4. PICK g : Loop(g, L, <<>>, n, step)
  BY <1>0, <1>1, <1>2, LoopExists
<1>5. /\ g \in [0..n -> L] /\ g[0] = <<>>
      /\ \A k \in 1..n : g[k] = InsertedBySlot(g[k - 1], ms[k])
  <2>1. /\ g \in [0..n -> L] /\ g[0] = <<>>
        /\ \A k \in 1..n : g[k] = step[<<g[k - 1], k>>]
    BY <1>4 DEF Loop
  <2>2. \A k \in 1..n : k - 1 \in 0..n
    BY <1>0
  <2> QED BY <1>3, <2>1, <2>2
<1>6. Upto(g)
  <2>1. \A k \in 0..n : k # 0 => k \in 1..n
    BY <1>0
  <2>2. \A k \in 0..n : g[k] = IF k = 0 THEN <<>> ELSE InsertedBySlot(g[k - 1], ms[k])
    BY <1>5, <2>1
  <2>3. g = [k \in 0..n |-> g[k]]
    BY <1>5
  <2> QED BY <2>2, <2>3
<1>7. ASSUME NEW h, Upto(h)
      PROVE  h[n] = g[n]
  <2> DEFINE P == {k \in Nat : k <= n => h[k] = g[k]}
  <2>0. \A k \in 0..n : h[k] = IF k = 0 THEN <<>> ELSE InsertedBySlot(h[k - 1], ms[k])
    BY <1>7
  <2>1. 0 \in P
    BY <1>5, <2>0
  <2>2. ASSUME NEW k \in Nat, k \in P
        PROVE  k + 1 \in P
    <3> SUFFICES ASSUME k + 1 <= n
                 PROVE  h[k + 1] = g[k + 1]
      OBVIOUS
    <3>1. k + 1 \in 1..n /\ k + 1 \in 0..n /\ k + 1 # 0 /\ (k + 1) - 1 = k /\ k <= n
      BY <1>0
    <3>2. h[k] = g[k]
      BY <2>2, <3>1
    <3>3. h[k + 1] = InsertedBySlot(h[k], ms[k + 1])
      BY <2>0, <3>1
    <3>4. g[k + 1] = InsertedBySlot(g[k], ms[k + 1])
      BY <1>5, <3>1
    <3> QED BY <3>2, <3>3, <3>4
  <2> HIDE DEF P
  <2>3. n \in P
    <3>1. Nat \subseteq P
      BY <2>1, <2>2, NumbersByInduction
    <3> QED BY <1>0, <3>1
  <2> QED BY <1>0, <2>3 DEF P
<1>8. sorted(ms) = g[n]
  <2> DEFINE u == CHOOSE h : Upto(h)
  <2>1. sorted(ms) = u[n]
    BY DEF sorted, n
  <2>2. Upto(u)
    BY <1>6
  <2> HIDE DEF u
  <2> QED BY <1>7, <2>1, <2>2
<1> QED BY <1>5, <1>8 DEF n, L

\* The insertion sort gives the methods in slot order.
LEMMA SortedIs ==
    ASSUME NEW ms \in Seq(SlotMethods), \A i, j \in 1..Len(ms) : ms[i].slot = ms[j].slot => i = j
    PROVE  /\ sorted(ms) \in Seq(SlotMethods) /\ Len(sorted(ms)) = Len(ms)
           /\ Rising(sorted(ms)) /\ AllIn(sorted(ms), ms) /\ AllIn(ms, sorted(ms))
<1> DEFINE n == Len(ms)
<1>1. n \in Nat /\ \A k \in 1..n : ms[k] \in SlotMethods
  BY ElementOfSeq, LenProperties
<1>2. PICK g : /\ g \in [0..n -> Seq(SlotMethods)] /\ g[0] = <<>> /\ sorted(ms) = g[n]
               /\ \A k \in 1..n : g[k] = InsertedBySlot(g[k - 1], ms[k])
  BY SortLoop
<1>3. \A i, j \in 1..n : ms[i].slot = ms[j].slot => i = j
  OBVIOUS
<1> HIDE DEF n
<1> DEFINE Reached(k) == /\ g[k] \in Seq(SlotMethods) /\ Len(g[k]) = k /\ Rising(g[k])
                         /\ \A i \in 1..k : \E j \in 1..k : g[k][i] = ms[j]
                         /\ \A j \in 1..k : \E i \in 1..k : g[k][i] = ms[j]
           P == {k \in Nat : k <= n => Reached(k)}
<1>4. 0 \in P
  <2>1. g[0] = <<>> /\ <<>> \in Seq(SlotMethods) /\ Len(<<>>) = 0 /\ \A i \in 1..0 : FALSE
    BY <1>2
  <2>2. Rising(<<>>)
    BY <2>1 DEF Rising
  <2>3. Reached(0)
    BY ONLY <2>1, <2>2
  <2> HIDE DEF Reached
  <2> QED BY <2>3
<1>5. ASSUME NEW k \in Nat, k \in P
      PROVE  k + 1 \in P
  <2> SUFFICES ASSUME k + 1 <= n
               PROVE  Reached(k + 1)
    <3> HIDE DEF Reached
    <3> QED OBVIOUS
  <2>1. k + 1 \in 1..n /\ (k + 1) - 1 = k /\ k <= n /\ ms[k + 1] \in SlotMethods
    BY <1>1
  <2>2. Reached(k)
    <3> HIDE DEF Reached
    <3> QED BY <1>5, <2>1
  <2> DEFINE list == g[k]
             m == ms[k + 1]
             r == g[k + 1]
  <2>3. r = InsertedBySlot(list, m)
    BY <1>2, <2>1
  <2>4. /\ list \in Seq(SlotMethods) /\ m \in SlotMethods /\ Rising(list) /\ Len(list) = k
        /\ \A i \in 1..k : \E j \in 1..k : list[i] = ms[j]
        /\ \A j \in 1..k : \E i \in 1..k : list[i] = ms[j]
    BY <2>1, <2>2
  <2>5. \A i \in 1..Len(list) : list[i].slot # m.slot
    <3> SUFFICES ASSUME NEW i \in 1..k, list[i].slot = m.slot
                 PROVE  FALSE
      BY <2>4
    <3>1. PICK j \in 1..k : list[i] = ms[j]
      BY <2>4
    <3>2. j \in 1..n /\ k + 1 \in 1..n /\ j # k + 1
      BY <1>1, <2>1
    <3> QED BY <1>3, <3>1, <3>2
  <2> HIDE DEF list, m, r
  <2>6. /\ r \in Seq(SlotMethods) /\ Len(r) = k + 1 /\ Rising(r)
        /\ \A i \in 1..(k + 1) : r[i] = m \/ \E j \in 1..k : r[i] = list[j]
        /\ \E i \in 1..(k + 1) : r[i] = m
        /\ \A j \in 1..k : \E i \in 1..(k + 1) : r[i] = list[j]
    <3> DEFINE q == InsertedBySlot(list, m)
    <3>1. list \in Seq(SlotMethods) /\ m \in SlotMethods /\ Rising(list)
      BY <2>4
    <3>2. /\ q \in Seq(SlotMethods) /\ Len(q) = Len(list) + 1 /\ Rising(q)
          /\ \A i \in 1..(Len(list) + 1) : q[i] = m \/ \E j \in 1..Len(list) : q[i] = list[j]
          /\ \E i \in 1..(Len(list) + 1) : q[i] = m
          /\ \A j \in 1..Len(list) : \E i \in 1..(Len(list) + 1) : q[i] = list[j]
      BY ONLY <2>5, <3>1, InsertedRises
    <3>3. Len(list) = k /\ r = q
      BY <2>3, <2>4
    <3> HIDE DEF q
    <3> QED BY ONLY <3>2, <3>3
  <2>7. \A j \in 1..(k + 1) : j \in 1..k \/ j = k + 1
    OBVIOUS
  <2>8. k + 1 \in 1..(k + 1) /\ \A j \in 1..k : j \in 1..(k + 1)
    OBVIOUS
  <2>9. ASSUME NEW i \in 1..(k + 1)
        PROVE  \E j \in 1..(k + 1) : r[i] = ms[j]
    <3>1. CASE r[i] = m
      BY <2>8, <3>1 DEF m
    <3>2. CASE \E j \in 1..k : r[i] = list[j]
      <4>1. PICK j \in 1..k : r[i] = list[j]
        BY <3>2
      <4>2. PICK l \in 1..k : list[j] = ms[l]
        BY <2>4
      <4> QED BY <2>8, <4>1, <4>2
    <3> QED BY <2>6, <3>1, <3>2
  <2>10. ASSUME NEW j \in 1..(k + 1)
         PROVE  \E i \in 1..(k + 1) : r[i] = ms[j]
    <3>1. CASE j \in 1..k
      <4>1. PICK l \in 1..k : list[l] = ms[j]
        BY <2>4, <3>1
      <4> QED BY <2>6, <4>1
    <3>2. CASE j = k + 1
      BY <2>6, <3>2 DEF m
    <3> QED BY <2>7, <3>1, <3>2
  <2> QED BY <2>6, <2>9, <2>10 DEF r
<1> HIDE DEF P
<1>6. Nat \subseteq P
  BY <1>4, <1>5, NumbersByInduction
<1>7. Reached(n)
  <2> HIDE DEF Reached
  <2> QED BY <1>1, <1>6 DEF P
<1>8. AllIn(g[n], ms)
  BY <1>7 DEF AllIn, n
<1>9. AllIn(ms, g[n])
  <2>1. ASSUME NEW j \in 1..Len(ms)
        PROVE  \E i \in 1..Len(g[n]) : ms[j] = g[n][i]
    <3>1. PICK i \in 1..n : g[n][i] = ms[j]
      BY <1>7 DEF n
    <3> QED BY <1>7, <3>1
  <2> QED BY <2>1 DEF AllIn
<1> QED BY <1>2, <1>7, <1>8, <1>9 DEF n

\* There is one way to put elements in rising order.
BothOrders(n, s, t) ==
    /\ n \in Nat /\ s \in [1..n -> SlotMethods] /\ t \in [1..n -> SlotMethods]
    /\ \A i, j \in 1..n : i < j => s[i].slot < s[j].slot
    /\ \A i, j \in 1..n : i < j => t[i].slot < t[j].slot
    /\ \A i \in 1..n : \E j \in 1..n : s[i] = t[j]
    /\ \A i \in 1..n : \E j \in 1..n : t[i] = s[j]

\* There is one order by rising slots.
LEMMA RisingUnique ==
    ASSUME NEW n, NEW s, NEW t, BothOrders(n, s, t)
    PROVE  s = t
<1> USE DEF BothOrders
<1> DEFINE P == {k \in Nat : \A i \in 1..n : i <= k => s[i] = t[i]}
<1>0. \A i \in 1..n : s[i].slot \in Nat /\ t[i].slot \in Nat
  BY DEF SlotMethods
<1>1. 0 \in P
  OBVIOUS
<1>2. ASSUME NEW k \in Nat, k \in P
      PROVE  k + 1 \in P
  <2> SUFFICES ASSUME k + 1 \in 1..n
               PROVE  s[k + 1] = t[k + 1]
    <3>1. ASSUME NEW i \in 1..n, i <= k + 1
          PROVE  s[i] = t[i]
      <4>1. CASE i <= k
        BY <1>2, <4>1
      <4>2. CASE i = k + 1
        BY <4>2
      <4> QED BY <3>1, <4>1, <4>2
    <3> QED BY <3>1
  <2> DEFINE c == k + 1
  <2>1. c \in 1..n /\ \A i \in 1..n : i < c => s[i] = t[i]
    BY <1>2
  <2> HIDE DEF c, P
  <2>2. PICK j \in 1..n : s[c] = t[j]
    BY <2>1
  <2>3. PICK l \in 1..n : t[c] = s[l]
    BY <2>1
  <2>4. ~(j < c)
    <3> SUFFICES ASSUME j < c
                 PROVE  FALSE
      OBVIOUS
    <3>1. s[j] = t[j] /\ s[j].slot < s[c].slot
      BY <2>1
    <3>2. s[j].slot = s[c].slot /\ s[c].slot \in Nat
      BY <1>0, <2>1, <2>2, <3>1
    <3> QED BY ONLY <3>1, <3>2
  <2>5. ~(l < c)
    <3> SUFFICES ASSUME l < c
                 PROVE  FALSE
      OBVIOUS
    <3>1. s[l] = t[l] /\ t[l].slot < t[c].slot
      BY <2>1
    <3>2. t[l].slot = t[c].slot /\ t[c].slot \in Nat
      BY <1>0, <2>1, <2>3, <3>1
    <3> QED BY ONLY <3>1, <3>2
  <2>6. ~(c < j)
    <3> SUFFICES ASSUME c < j
                 PROVE  FALSE
      OBVIOUS
    <3>1. t[c].slot < t[j].slot /\ t[j].slot = s[c].slot /\ t[c].slot = s[l].slot
      BY <2>1, <2>2, <2>3
    <3>2. s[c].slot <= s[l].slot
      <4>1. c = l \/ c < l
        BY <2>1, <2>5
      <4>2. s[c].slot \in Nat /\ s[l].slot \in Nat /\ (c < l => s[c].slot < s[l].slot)
        BY <1>0, <2>1
      <4>3. CASE c = l
        <5>1. s[c].slot = s[l].slot
          BY <4>3
        <5> QED BY ONLY <4>2, <5>1
      <4>4. CASE c < l
        BY ONLY <4>2, <4>4
      <4> QED BY ONLY <4>1, <4>3, <4>4
    <3>3. t[c].slot \in Nat /\ s[c].slot \in Nat
      BY <1>0, <2>1
    <3> QED BY ONLY <3>1, <3>2, <3>3
  <2>7. j = c
    BY <2>1, <2>4, <2>6
  <2> QED BY <2>2, <2>7 DEF c
<1> HIDE DEF P
<1>3. n \in P
  <2>1. Nat \subseteq P
    BY <1>1, <1>2, NumbersByInduction
  <2> QED BY <2>1
<1>4. \A i \in 1..n : s[i] = t[i]
  <2>1. \A i \in 1..n : i <= n
    OBVIOUS
  <2> QED BY <1>3, <2>1 DEF P
<1> QED BY <1>4

\* So the methods in slot order are those the sort gives.
InSlotOrder(s, ms) ==
    /\ \A i, j \in 1..Len(ms) : i < j => s[i].slot < s[j].slot
    /\ \A i \in 1..Len(ms) : \E j \in 1..Len(ms) : s[j] = ms[i]

\* So the sort computes it.
LEMMA OrderIsSorted ==
    ASSUME NEW ms \in Seq(SlotMethods), \A i, j \in 1..Len(ms) : ms[i].slot = ms[j].slot => i = j
    PROVE  (CHOOSE s \in [1..Len(ms) -> {ms[i] : i \in 1..Len(ms)}] : InSlotOrder(s, ms)) = sorted(ms)
<1> DEFINE n == Len(ms)
           E == {ms[i] : i \in 1..n}
           t == sorted(ms)
           u == CHOOSE s \in [1..n -> E] : InSlotOrder(s, ms)
<1>1. n \in Nat /\ \A k \in 1..n : ms[k] \in SlotMethods
  BY ElementOfSeq, LenProperties
<1>2. t \in Seq(SlotMethods) /\ Len(t) = n /\ Rising(t) /\ AllIn(t, ms) /\ AllIn(ms, t)
  BY SortedIs
<1>3. t \in [1..n -> SlotMethods]
  BY <1>2, LenProperties
<1> HIDE DEF t
<1>4. /\ \A i, j \in 1..n : i < j => t[i].slot < t[j].slot
      /\ \A i \in 1..n : \E j \in 1..n : t[i] = ms[j]
      /\ \A i \in 1..n : \E j \in 1..n : t[j] = ms[i]
  BY <1>2 DEF Rising, AllIn
<1>5. t \in [1..n -> E] /\ InSlotOrder(t, ms)
  <2>1. \A i \in 1..n : t[i] \in E
    BY ONLY <1>4
  <2>2. t \in [1..n -> E]
    BY ONLY <1>3, <2>1
  <2>3. InSlotOrder(t, ms)
    BY ONLY <1>4 DEF InSlotOrder
  <2> QED BY ONLY <2>2, <2>3
<1>6. u \in [1..n -> E] /\ InSlotOrder(u, ms)
  BY <1>5
<1> HIDE DEF u
<1>7. u \in [1..n -> SlotMethods]
  BY <1>1, <1>6
<1>8. /\ \A i, j \in 1..n : i < j => u[i].slot < u[j].slot
      /\ \A i \in 1..n : \E j \in 1..n : u[j] = ms[i]
  BY <1>6 DEF InSlotOrder
<1>9. \A i \in 1..n : \E j \in 1..n : u[i] = ms[j]
  BY <1>6
<1>10. \A i \in 1..n : \E j \in 1..n : t[i] = u[j]
  <2> SUFFICES ASSUME NEW i \in 1..n
               PROVE  \E j \in 1..n : t[i] = u[j]
    OBVIOUS
  <2>1. PICK k \in 1..n : t[i] = ms[k]
    BY <1>4
  <2>2. PICK j \in 1..n : u[j] = ms[k]
    BY <1>8
  <2> QED BY <2>1, <2>2
<1>11. \A i \in 1..n : \E j \in 1..n : u[i] = t[j]
  <2> SUFFICES ASSUME NEW i \in 1..n
               PROVE  \E j \in 1..n : u[i] = t[j]
    OBVIOUS
  <2>1. PICK k \in 1..n : u[i] = ms[k]
    BY <1>9
  <2>2. PICK j \in 1..n : t[j] = ms[k]
    BY <1>4
  <2> QED BY <2>1, <2>2
<1> HIDE DEF n
<1>12. u = t
  <2>1. BothOrders(n, u, t)
    BY ONLY <1>1, <1>3, <1>4, <1>7, <1>8, <1>10, <1>11, <1>6 DEF BothOrders, InSlotOrder
  <2> QED BY ONLY <2>1, RisingUnique
<1> QED BY <1>12 DEF u, t, n

-----------------------------------------------------------------------------
\* A colon and digits, and two of these.
Numbered == {<<58>> \o d : d \in Digits}
NumberedPairs == {p \in Seq(Nat) : \E c, e \in Numbered : p = c \o e}

\* Digits are characters from '0' to '9'.
LEMMA DigitsAreNumbers ==
    ASSUME NEW d \in Digits
    PROVE  d \in Seq(Nat) /\ \A i \in 1..Len(d) : d[i] \in 48..57
<1>1. \A i \in 1..Len(d) : d[i] \in 48..57
  BY ElementOfSeq DEF Digits
<1>2. Len(d) \in Nat /\ d \in [1..Len(d) -> 48..57]
  BY LenProperties DEF Digits
<1>3. d \in [1..Len(d) -> Nat]
  <2>1. \A i \in 1..Len(d) : d[i] \in Nat
    BY <1>1
  <2> QED BY <1>2, <2>1
<1> QED BY <1>1, <1>2, <1>3, SeqDef

\* A colon, and then digits only.
LEMMA NumberedShape ==
    ASSUME NEW c \in Numbered
    PROVE  /\ c \in Seq(Nat) /\ Len(c) \in Nat /\ Len(c) >= 1 /\ c[1] = 58
           /\ \A i \in 2..Len(c) : c[i] \in 48..57
<1>1. PICK d \in Digits : c = <<58>> \o d
  BY DEF Numbered
<1> DEFINE b == <<58>>
<1>2. b \in Seq(Nat) /\ Len(b) = 1 /\ b[1] = 58 /\ c = b \o d
  BY <1>1
<1> HIDE DEF b
<1>3. d \in Seq(Nat) /\ Len(d) \in Nat /\ \A i \in 1..Len(d) : d[i] \in 48..57
  BY DigitsAreNumbers, LenProperties
<1>4. /\ b \o d \in Seq(Nat) /\ Len(b \o d) = Len(b) + Len(d)
      /\ \A i \in 1..Len(b) : (b \o d)[i] = b[i]
      /\ \A i \in 1..Len(d) : (b \o d)[Len(b) + i] = d[i]
  <2>1. b \in Seq(Nat) /\ d \in Seq(Nat)
    BY <1>2, <1>3
  <2> QED BY ONLY <2>1, ConcatAt
<1>5. /\ c \in Seq(Nat) /\ Len(c) = 1 + Len(d) /\ c[1] = 58 /\ \A i \in 1..Len(d) : c[1 + i] = d[i]
  <2>1. 1 \in 1..Len(b)
    BY <1>2
  <2> QED BY ONLY <1>2, <1>4, <2>1
<1>6. ASSUME NEW i \in 2..Len(c)
      PROVE  c[i] \in 48..57
  <2>1. i - 1 \in 1..Len(d) /\ 1 + (i - 1) = i
    BY <1>3, <1>5
  <2>2. c[1 + (i - 1)] = d[i - 1] /\ d[i - 1] \in 48..57
    BY ONLY <1>3, <1>5, <2>1
  <2> QED BY ONLY <2>1, <2>2
<1> QED BY <1>3, <1>5, <1>6

\* No numbered piece is the end of another.
LEMMA NumberedFree ==
    Numbered \subseteq Seq(Nat) /\ SuffixFree(Numbered, Nat)
<1>1. \A c \in Numbered : /\ c \in Seq(Nat) /\ Len(c) \in Nat /\ Len(c) >= 1 /\ c[1] = 58
                          /\ \A i \in 2..Len(c) : c[i] \in 48..57
  BY NumberedShape
<1>2. <<>> \notin Numbered
  <2>1. Len(<<>>) = 0
    OBVIOUS
  <2> QED BY <1>1, <2>1
<1>3. ASSUME NEW c \in Numbered, NEW e \in Numbered, NEW x \in Seq(Nat), c = x \o e
      PROVE  x = <<>>
  <2>1. x \in Seq(Nat) /\ e \in Seq(Nat)
    BY <1>1
  <2>2. /\ Len(x) \in Nat /\ Len(x \o e) = Len(x) + Len(e)
        /\ \A i \in 1..Len(e) : (x \o e)[Len(x) + i] = e[i]
    BY ONLY <2>1, ConcatAt
  <2>3. /\ Len(c) = Len(x) + Len(e) /\ c[Len(x) + 1] = 58 /\ Len(e) \in Nat /\ Len(e) >= 1
    <3>1. Len(e) \in Nat /\ Len(e) >= 1 /\ e[1] = 58 /\ c = x \o e
      BY <1>1, <1>3
    <3>2. 1 \in 1..Len(e)
      BY ONLY <3>1
    <3> QED BY ONLY <2>2, <3>1, <3>2
  <2>4. CASE Len(x) # 0
    <3>1. Len(x) + 1 \in 2..Len(c)
      BY ONLY <2>2, <2>3, <2>4
    <3>2. c[Len(x) + 1] \in 48..57
      BY <1>1, <3>1
    <3> QED BY ONLY <2>3, <3>2
  <2>5. CASE Len(x) = 0
    BY <2>1, <2>5, EmptySeq
  <2> QED BY <2>4, <2>5
<1>4. Numbered \subseteq Seq(Nat)
  BY <1>1
<1>5. \A c, e \in Numbered, x \in Seq(Nat) : c = x \o e => x = <<>>
  BY <1>3
<1> QED BY ONLY <1>2, <1>4, <1>5 DEF SuffixFree

EndNumbered(x, a, y, b) ==
    x \in Seq(Nat) /\ y \in Seq(Nat) /\ a \in Numbered /\ b \in Numbered /\ x \o a = y \o b

\* The last numbered piece of a text is one piece.
LEMMA LastNumbered ==
    ASSUME NEW x, NEW y, NEW a, NEW b, EndNumbered(x, a, y, b)
    PROVE  x = y /\ a = b
<1> USE DEF EndNumbered
<1>1. Numbered \subseteq Seq(Nat) /\ SuffixFree(Numbered, Nat)
  BY NumberedFree
<1>2. Cut(Nat, x, a, y, b)
  BY <1>1 DEF Cut
<1>3. a \in Numbered /\ b \in Numbered
  OBVIOUS
<1> QED BY ONLY <1>1, <1>2, <1>3, LastPiece

\* No pair of them is the end of another.
LEMMA PairsFree ==
    NumberedPairs \subseteq Seq(Nat) /\ SuffixFree(NumberedPairs, Nat)
<1>0. \A c \in Numbered : c \in Seq(Nat) /\ Len(c) \in Nat /\ Len(c) >= 1
  BY NumberedShape
<1>1. ASSUME NEW p \in NumberedPairs
      PROVE  \E c, e \in Numbered : p = c \o e
  BY DEF NumberedPairs
<1>2. ASSUME NEW p \in NumberedPairs
      PROVE  p \in Seq(Nat) /\ p # <<>>
  <2>1. PICK c \in Numbered, e \in Numbered : p = c \o e
    BY <1>1
  <2>2. c \in Seq(Nat) /\ e \in Seq(Nat) /\ Len(c) \in Nat /\ Len(e) \in Nat /\ Len(c) >= 1
    BY <1>0
  <2>3. p \in Seq(Nat) /\ Len(p) = Len(c) + Len(e)
    BY ONLY <2>1, <2>2, ConcatProperties
  <2>4. Len(<<>>) = 0
    OBVIOUS
  <2> QED BY ONLY <2>2, <2>3, <2>4
<1>3. ASSUME NEW p \in NumberedPairs, NEW q \in NumberedPairs, NEW x \in Seq(Nat), p = x \o q
      PROVE  x = <<>>
  <2>1. PICK a \in Numbered, b \in Numbered : p = a \o b
    BY <1>1
  <2>2. PICK c \in Numbered, e \in Numbered : q = c \o e
    BY <1>1
  <2>3. a \in Seq(Nat) /\ b \in Seq(Nat) /\ c \in Seq(Nat) /\ e \in Seq(Nat) /\ x \in Seq(Nat)
    BY <1>0
  <2>4. x \o (c \o e) = (x \o c) \o e
    <3>1. x \in Seq(Nat) /\ c \in Seq(Nat) /\ e \in Seq(Nat)
      BY <2>3
    <3> QED BY ONLY <3>1, ConcatAssociative
  <2>5. x \o c \in Seq(Nat)
    BY ONLY <2>3, ConcatProperties
  <2>6. a \o b = (x \o c) \o e
    BY <1>3, <2>1, <2>2, <2>4
  <2>7. a = x \o c
    <3>1. EndNumbered(a, b, x \o c, e)
      BY <2>3, <2>5, <2>6 DEF EndNumbered
    <3> QED BY ONLY <3>1, LastNumbered
  <2> QED BY <2>7, NumberedFree DEF SuffixFree
<1>4. NumberedPairs \subseteq Seq(Nat) /\ <<>> \notin NumberedPairs
  BY <1>2
<1>5. \A p, q \in NumberedPairs, x \in Seq(Nat) : p = x \o q => x = <<>>
  BY <1>3
<1> QED BY ONLY <1>4, <1>5 DEF SuffixFree

\* The texts of contracts.
LEMMA ColonNumbers ==
    ASSUME NEW v \in Nat, NEW w \in Nat
    PROVE  ColonNumber(v) \in Numbered /\ (ColonNumber(v) = ColonNumber(w) => v = w)
<1> DEFINE b == <<58>>
           H(n) == interface_hash_u64(n)
<1>1. H(v) \in Digits /\ H(w) \in Digits
  BY DigitsText
<1>2. ColonNumber(v) = b \o H(v) /\ ColonNumber(w) = b \o H(w)
  BY DEF ColonNumber, Colon
<1>3. ColonNumber(v) \in Numbered
  BY <1>1, <1>2 DEF Numbered
<1>4. b \in Seq(Nat) /\ Len(b) = 1
  OBVIOUS
<1>5. H(v) \in Seq(Nat) /\ H(w) \in Seq(Nat)
  BY <1>1, DigitsAreNumbers
<1> HIDE DEF b
<1>6. ASSUME ColonNumber(v) = ColonNumber(w)
      PROVE  v = w
  <2> HIDE DEF H
  <2>1. Parts2(Nat, b, H(v), b, H(w), 1) /\ b \o H(v) = b \o H(w)
    BY <1>2, <1>4, <1>5, <1>6 DEF Parts2
  <2>2. H(v) = H(w)
    BY ONLY <2>1, FrontsDecide
  <2> QED BY <2>2, DigitsInjective DEF H
<1> QED BY <1>3, <1>6

\* No name of an interface ends in one.
LEMMA NamesUnended ==
    ASSUME NEW c \in Contracts
    PROVE  c.name \in Seq(Nat) /\ Unended(c.name, Numbered, Nat)
<1> DEFINE t == c.name
<1>1. t \in Seq(Nat) /\ \E p \in 1..Len(t) : t[p] \notin 48..58 /\ \A q \in (p + 1)..Len(t) : t[q] # 58
  BY ContractsAssumption
<1> HIDE DEF t
<1>2. PICK p \in 1..Len(t) : t[p] \notin 48..58 /\ \A q \in (p + 1)..Len(t) : t[q] # 58
  BY <1>1
<1>3. ASSUME NEW x \in Seq(Nat), NEW e \in Numbered, t = x \o e
      PROVE  FALSE
  <2> DEFINE n == Len(x)
             k == Len(e)
  <2>1. /\ e \in Seq(Nat) /\ k \in Nat /\ k >= 1 /\ e[1] = 58 /\ \A i \in 2..k : e[i] \in 48..57
    BY NumberedShape
  <2>2. /\ n \in Nat /\ Len(t) = n + k /\ \A i \in 1..k : t[n + i] = e[i]
    <3>1. x \in Seq(Nat) /\ e \in Seq(Nat)
      BY <2>1
    <3>2. /\ n \in Nat /\ Len(x \o e) = n + k /\ \A i \in 1..k : (x \o e)[n + i] = e[i]
      BY ONLY <3>1, ConcatAt
    <3> QED BY ONLY <1>3, <3>2
  <2> HIDE DEF n, k
  <2>3. p \in 1..(n + k)
    BY ONLY <2>2, p \in 1..Len(t)
  <2>4. CASE p <= n
    <3>1. n + 1 \in (p + 1)..Len(t) /\ 1 \in 1..k
      BY ONLY <2>1, <2>2, <2>3, <2>4
    <3>2. t[n + 1] = 58
      BY ONLY <2>1, <2>2, <3>1
    <3> QED BY <1>2, <3>1, <3>2
  <2>5. CASE p = n + 1
    <3>1. 1 \in 1..k /\ 58 \in 48..58
      BY ONLY <2>1
    <3>2. t[n + 1] = 58
      BY ONLY <2>1, <2>2, <3>1
    <3> QED BY <1>2, <2>5, <3>1, <3>2
  <2>6. CASE p > n + 1
    <3>1. p - n \in 2..k /\ p - n \in 1..k /\ n + (p - n) = p
      BY ONLY <2>1, <2>2, <2>3, <2>6
    <3>2. t[n + (p - n)] = e[p - n] /\ e[p - n] \in 48..57
      BY ONLY <2>1, <2>2, <3>1
    <3>3. t[p] \in 48..57
      BY ONLY <3>1, <3>2
    <3>4. t[p] \in 48..58
      BY ONLY <3>3
    <3> QED BY <1>2, <3>4
  <2> QED BY ONLY <2>2, <2>3, <2>4, <2>5, <2>6
<1>4. Unended(t, Numbered, Nat)
  BY <1>3 DEF Unended
<1> QED BY <1>1, <1>4 DEF t

Front(c) == c.name \o ColonNumber(c.version)
MethodPieces(ms) == [i \in 1..Len(ms) |-> ColonNumber(ms[i].lo) \o ColonNumber(ms[i].hi)]

\* What the pairs are.
LEMMA PairsAre ==
    /\ \A p \in NumberedPairs : \E c, e \in Numbered : p = c \o e
    /\ \A c, e \in Numbered : c \o e \in NumberedPairs
<1>1. \A p \in NumberedPairs : \E c, e \in Numbered : p = c \o e
  BY DEF NumberedPairs
<1>2. ASSUME NEW c \in Numbered, NEW e \in Numbered
      PROVE  c \o e \in NumberedPairs
  <2>1. c \in Seq(Nat) /\ e \in Seq(Nat)
    BY NumberedShape
  <2>2. c \o e \in Seq(Nat)
    BY ONLY <2>1, ConcatProperties
  <2> QED BY <2>2 DEF NumberedPairs
<1> QED BY <1>1, <1>2

\* Name and version end in no pair.
LEMMA FrontsUnended ==
    ASSUME NEW c \in Contracts
    PROVE  Front(c) \in Seq(Nat) /\ Unended(Front(c), NumberedPairs, Nat)
<1> DEFINE t == c.name
           b == ColonNumber(c.version)
<1>1. t \in Seq(Nat) /\ Unended(t, Numbered, Nat)
  BY NamesUnended
<1>2. b \in Numbered /\ b \in Seq(Nat)
  <2>1. c.version \in Nat
    BY ContractsAssumption
  <2> QED BY <2>1, ColonNumbers, NumberedShape
<1>3. Front(c) = t \o b
  BY DEF Front
<1> HIDE DEF t, b
<1>4. t \o b \in Seq(Nat)
  BY ONLY <1>1, <1>2, ConcatProperties
<1>5. ASSUME NEW x \in Seq(Nat), NEW p \in NumberedPairs, t \o b = x \o p
      PROVE  FALSE
  <2>1. PICK d \in Numbered, e \in Numbered : p = d \o e
    <3>1. p \in NumberedPairs
      OBVIOUS
    <3> QED BY ONLY <3>1, PairsAre
  <2>2. x \in Seq(Nat) /\ d \in Seq(Nat) /\ e \in Seq(Nat)
    BY NumberedShape
  <2>3. x \o (d \o e) = (x \o d) \o e
    <3>1. \A u, v, w \in Seq(Nat) : u \o (v \o w) = (u \o v) \o w
      BY Regrouped
    <3> QED BY ONLY <2>2, <3>1
  <2>4. x \o d \in Seq(Nat)
    BY ONLY <2>2, ConcatProperties
  <2>5. EndNumbered(t, b, x \o d, e)
    BY <1>1, <1>2, <1>5, <2>1, <2>3, <2>4 DEF EndNumbered
  <2>6. t = x \o d
    BY ONLY <2>5, LastNumbered
  <2> QED BY <1>1, <2>6 DEF Unended
<1>6. Unended(t \o b, NumberedPairs, Nat)
  BY <1>5 DEF Unended
<1> QED BY <1>3, <1>4, <1>6

\* The pieces of the methods decide their signatures.
LEMMA MethodPiecesDecide ==
    ASSUME NEW ms \in Seq(SlotMethods), NEW ns \in Seq(SlotMethods)
    PROVE  /\ MethodPieces(ms) \in Seq(NumberedPairs)
           /\ MethodPieces(ms) = MethodPieces(ns) <=>
                  /\ Len(ms) = Len(ns)
                  /\ [i \in 1..Len(ms) |-> <<ms[i].lo, ms[i].hi>>] = [i \in 1..Len(ns) |-> <<ns[i].lo, ns[i].hi>>]
<1> DEFINE C(v) == ColonNumber(v)
           pair(s) == [i \in 1..Len(s) |-> <<s[i].lo, s[i].hi>>]
<1>1. \A s \in {ms, ns} : /\ Len(s) \in Nat
                          /\ \A i \in 1..Len(s) : s[i].lo \in Nat /\ s[i].hi \in Nat
  <2> SUFFICES ASSUME NEW s \in {ms, ns}
               PROVE  Len(s) \in Nat /\ \A i \in 1..Len(s) : s[i].lo \in Nat /\ s[i].hi \in Nat
    OBVIOUS
  <2>1. s \in Seq(SlotMethods)
    OBVIOUS
  <2>2. Len(s) \in Nat /\ \A i \in 1..Len(s) : s[i] \in SlotMethods
    BY <2>1, ElementOfSeq, LenProperties
  <2> QED BY <2>2 DEF SlotMethods
<1>2. \A v \in Nat : C(v) \in Numbered
  BY ColonNumbers
<1>3. MethodPieces(ms) \in Seq(NumberedPairs)
  <2>1. \A i \in 1..Len(ms) : C(ms[i].lo) \o C(ms[i].hi) \in NumberedPairs
    <3> HIDE DEF C
    <3> QED BY <1>1, <1>2, PairsAre
  <2>2. MethodPieces(ms) \in [1..Len(ms) -> NumberedPairs]
    BY <2>1 DEF MethodPieces
  <2> QED BY <1>1, <2>2, SeqDef
<1>4. DOMAIN MethodPieces(ms) = 1..Len(ms) /\ DOMAIN MethodPieces(ns) = 1..Len(ns)
  BY DEF MethodPieces
<1>5. ASSUME MethodPieces(ms) = MethodPieces(ns)
      PROVE  Len(ms) = Len(ns) /\ pair(ms) = pair(ns)
  <2>1. Len(ms) = Len(ns)
    <3>1. 1..Len(ms) = 1..Len(ns)
      BY ONLY <1>4, <1>5
    <3>2. Len(ms) \in Nat /\ Len(ns) \in Nat
      BY <1>1
    <3> QED BY ONLY <3>1, <3>2
  <2>2. ASSUME NEW i \in 1..Len(ms)
        PROVE  ms[i].lo = ns[i].lo /\ ms[i].hi = ns[i].hi
    <3> DEFINE a == ms[i].lo
               b == ms[i].hi
               d == ns[i].lo
               e == ns[i].hi
    <3>1. a \in Nat /\ b \in Nat /\ d \in Nat /\ e \in Nat
      BY <1>1, <2>1
    <3>2. MethodPieces(ms)[i] = C(a) \o C(b) /\ MethodPieces(ns)[i] = C(d) \o C(e)
      BY <2>1 DEF MethodPieces
    <3> HIDE DEF a, b, d, e
    <3>3. C(a) \in Numbered /\ C(b) \in Numbered /\ C(d) \in Numbered /\ C(e) \in Numbered
      BY ONLY <1>2, <3>1
    <3>4. C(a) \in Seq(Nat) /\ C(d) \in Seq(Nat)
      BY <3>3, NumberedShape
    <3>5. C(a) \o C(b) = C(d) \o C(e)
      BY ONLY <1>5, <3>2
    <3>6. EndNumbered(C(a), C(b), C(d), C(e))
      BY ONLY <3>3, <3>4, <3>5 DEF EndNumbered
    <3>7. C(a) = C(d) /\ C(b) = C(e)
      BY ONLY <3>6, LastNumbered
    <3> QED BY <3>1, <3>7, ColonNumbers DEF a, b, d, e
  <2> QED BY <2>1, <2>2
<1>6. ASSUME Len(ms) = Len(ns), pair(ms) = pair(ns)
      PROVE  MethodPieces(ms) = MethodPieces(ns)
  <2>1. \A i \in 1..Len(ms) : ms[i].lo = ns[i].lo /\ ms[i].hi = ns[i].hi
    <3> SUFFICES ASSUME NEW i \in 1..Len(ms)
                 PROVE  ms[i].lo = ns[i].lo /\ ms[i].hi = ns[i].hi
      OBVIOUS
    <3>1. pair(ms)[i] = <<ms[i].lo, ms[i].hi>> /\ pair(ns)[i] = <<ns[i].lo, ns[i].hi>>
      BY <1>6
    <3>2. <<ms[i].lo, ms[i].hi>> = <<ns[i].lo, ns[i].hi>>
      BY ONLY <1>6, <3>1
    <3> QED BY ONLY <3>2
  <2> QED BY <1>6, <2>1 DEF MethodPieces
<1> HIDE DEF pair
<1>7. MethodPieces(ms) = MethodPieces(ns) <=> Len(ms) = Len(ns) /\ pair(ms) = pair(ns)
  BY <1>5, <1>6
<1> QED BY <1>3, <1>7 DEF pair

\* An interface id is of what the contract says, and of nothing else.
LEMMA IdsDecide ==
    ASSUME NEW c \in Contracts, NEW d \in Contracts
    PROVE  interface_id(c) = interface_id(d) <=>
               /\ c.name = d.name /\ c.version = d.version /\ Len(c.methods) = Len(d.methods)
               /\ [i \in 1..Len(c.methods) |-> <<sorted(c.methods)[i].lo, sorted(c.methods)[i].hi>>]
                      = [i \in 1..Len(d.methods) |-> <<sorted(d.methods)[i].lo, sorted(d.methods)[i].hi>>]
<1> DEFINE S(x) == sorted(x.methods)
           F(x) == Front(x)
           M(x) == MethodPieces(S(x))
           E(x) == Each(M(x))
           pair(x) == [i \in 1..Len(x.methods) |-> <<S(x)[i].lo, S(x)[i].hi>>]
<1>1. \A x \in {c, d} : /\ S(x) \in Seq(SlotMethods) /\ Len(S(x)) = Len(x.methods)
                        /\ x.version \in Nat
  <2> SUFFICES ASSUME NEW x \in {c, d}
               PROVE  S(x) \in Seq(SlotMethods) /\ Len(S(x)) = Len(x.methods) /\ x.version \in Nat
    OBVIOUS
  <2>1. x \in Contracts
    OBVIOUS
  <2>2. /\ x.version \in Nat /\ x.methods \in Seq(SlotMethods)
        /\ \A i, j \in 1..Len(x.methods) : x.methods[i].slot = x.methods[j].slot => i = j
    BY <2>1, ContractsAssumption DEF SlotMethods
  <2> QED BY <2>2, SortedIs
<1>2. \A x \in {c, d} : interface_id(x) = [domain |-> "INTERFAC", bytes |-> <<>> \o (F(x) \o E(x))]
  <2>1. \A x : interface_id(x) = canonical_hash_bytes(canonical_hash_begin("INTERFAC"), F(x) \o E(x))
    BY ONLY Zenon DEF interface_id, interface_text, Front, MethodPieces
  <2>2. \A b : canonical_hash_bytes(canonical_hash_begin("INTERFAC"), b) = [domain |-> "INTERFAC", bytes |-> <<>> \o b]
    BY ONLY SMT DEF canonical_hash_bytes, canonical_hash_begin
  <2> HIDE DEF F, E
  <2> QED BY ONLY <2>1, <2>2
<1>3. \A x \in {c, d} : F(x) \in Seq(Nat) /\ Unended(F(x), NumberedPairs, Nat)
  BY FrontsUnended
<1>4. \A x \in {c, d} : M(x) \in Seq(NumberedPairs)
  BY <1>1, MethodPiecesDecide
<1>5. M(c) = M(d) <=> Len(c.methods) = Len(d.methods) /\ pair(c) = pair(d)
  <2> DEFINE sc == S(c)
             sd == S(d)
  <2>1. sc \in Seq(SlotMethods) /\ sd \in Seq(SlotMethods)
    BY <1>1
  <2> HIDE DEF sc, sd
  <2>2. MethodPieces(sc) = MethodPieces(sd) <=>
            /\ Len(sc) = Len(sd)
            /\ [i \in 1..Len(sc) |-> <<sc[i].lo, sc[i].hi>>] = [i \in 1..Len(sd) |-> <<sd[i].lo, sd[i].hi>>]
    BY <2>1, MethodPiecesDecide
  <2>3. Len(sc) = Len(c.methods) /\ Len(sd) = Len(d.methods)
    BY <1>1 DEF sc, sd
  <2> QED BY ONLY <2>2, <2>3 DEF sc, sd
<1>6. E(c) \in Seq(Nat) /\ E(d) \in Seq(Nat)
  <2>1. ASSUME NEW x \in {c, d}
        PROVE  E(x) \in Seq(Nat)
    <3> DEFINE ss == M(x)
    <3>1. ss \in Seq(NumberedPairs)
      BY <1>4
    <3> HIDE DEF ss
    <3>2. Len(ss) \in Nat /\ \A k \in 1..Len(ss) : ss[k] \in Seq(Nat)
      <4>1. \A k \in 1..Len(ss) : ss[k] \in NumberedPairs
        BY <3>1, ElementOfSeq
      <4> QED BY <3>1, <4>1, PairsFree, LenProperties
    <3>3. PICK g : g \in [0..Len(ss) -> Seq(Nat)] /\ Each(ss) = g[Len(ss)]
      BY <3>2, EachLoop
    <3>4. Len(ss) \in 0..Len(ss)
      BY <3>2
    <3>5. Each(ss) \in Seq(Nat)
      BY ONLY <3>3, <3>4
    <3> QED BY <3>5 DEF ss
  <2> QED BY <2>1
<1> HIDE DEF S, F, M
<1>7. F(c) \o E(c) = F(d) \o E(d) => F(c) = F(d) /\ M(c) = M(d)
  <2>1. ASSUME F(c) \o E(c) = F(d) \o E(d)
        PROVE  Together(Nat, NumberedPairs, F(c), F(d), M(c), M(d))
    BY <1>3, <1>4, <2>1, PairsFree DEF Together
  <2>2. Together(Nat, NumberedPairs, F(c), F(d), M(c), M(d)) => F(c) = F(d) /\ M(c) = M(d)
    BY ONLY PiecesUnique
  <2> QED BY <2>1, <2>2
<1>8. M(c) = M(d) => E(c) = E(d)
  OBVIOUS
<1> HIDE DEF E
<1>9. interface_id(c) = interface_id(d) <=> F(c) \o E(c) = F(d) \o E(d)
  <2>1. F(c) \o E(c) \in Seq(Nat) /\ F(d) \o E(d) \in Seq(Nat)
    BY ONLY <1>3, <1>6, ConcatProperties
  <2> DEFINE tc == F(c) \o E(c)
             td == F(d) \o E(d)
  <2>2. interface_id(c) = [domain |-> "INTERFAC", bytes |-> <<>> \o tc]
    BY ONLY <1>2
  <2>3. interface_id(d) = [domain |-> "INTERFAC", bytes |-> <<>> \o td]
    BY ONLY <1>2
  <2> HIDE DEF tc, td
  <2>4. <<>> \o tc = tc /\ <<>> \o td = td
    BY <2>1, ConcatEmptySeq DEF tc, td
  <2>5. \A x, y : ([domain |-> "INTERFAC", bytes |-> x] = [domain |-> "INTERFAC", bytes |-> y] <=> x = y)
    OBVIOUS
  <2>6. interface_id(c) = interface_id(d) <=> tc = td
    BY ONLY <2>2, <2>3, <2>4, <2>5
  <2> QED BY ONLY <2>6 DEF tc, td
<1>10. F(c) = F(d) <=> c.name = d.name /\ c.version = d.version
  <2>1. c.name \in Seq(Nat) /\ d.name \in Seq(Nat)
    BY NamesUnended
  <2>2. /\ ColonNumber(c.version) \in Numbered /\ ColonNumber(d.version) \in Numbered
        /\ ColonNumber(c.version) = ColonNumber(d.version) => c.version = d.version
    BY <1>1, ColonNumbers
  <2>3. F(c) = c.name \o ColonNumber(c.version) /\ F(d) = d.name \o ColonNumber(d.version)
    BY DEF F, Front
  <2>4. ASSUME F(c) = F(d)
        PROVE  c.name = d.name /\ c.version = d.version
    <3>1. EndNumbered(c.name, ColonNumber(c.version), d.name, ColonNumber(d.version))
      BY ONLY <2>1, <2>2, <2>3, <2>4 DEF EndNumbered
    <3>2. c.name = d.name /\ ColonNumber(c.version) = ColonNumber(d.version)
      BY ONLY <3>1, LastNumbered
    <3> QED BY ONLY <2>2, <3>2
  <2>5. c.name = d.name /\ c.version = d.version => F(c) = F(d)
    BY ONLY <2>3
  <2> QED BY <2>4, <2>5
<1> HIDE DEF pair
<1>11. interface_id(c) = interface_id(d) <=>
           c.name = d.name /\ c.version = d.version /\ Len(c.methods) = Len(d.methods) /\ pair(c) = pair(d)
  BY ONLY <1>5, <1>7, <1>8, <1>9, <1>10
<1> QED BY <1>11 DEF pair, S

\* So says the property, in whatever order the methods stand.
LEMMA ContractsDecide ==
    ASSUME NEW c \in Contracts, NEW d \in Contracts
    PROVE  LET inOrder(x) == CHOOSE s \in [1..Len(x.methods) -> {x.methods[i] : i \in 1..Len(x.methods)}] :
                               /\ \A i, j \in 1..Len(x.methods) : i < j => s[i].slot < s[j].slot
                               /\ \A i \in 1..Len(x.methods) : \E j \in 1..Len(x.methods) : s[j] = x.methods[i]
               shape(x) == [i \in 1..Len(x.methods) |-> <<inOrder(x)[i].lo, inOrder(x)[i].hi>>]
           IN interface_id(c) = interface_id(d) <=> /\ c.name = d.name /\ c.version = d.version
                                                    /\ Len(c.methods) = Len(d.methods)
                                                    /\ shape(c) = shape(d)
<1> DEFINE inOrder(x) == CHOOSE s \in [1..Len(x.methods) -> {x.methods[i] : i \in 1..Len(x.methods)}] :
                             /\ \A i, j \in 1..Len(x.methods) : i < j => s[i].slot < s[j].slot
                             /\ \A i \in 1..Len(x.methods) : \E j \in 1..Len(x.methods) : s[j] = x.methods[i]
           shape(x) == [i \in 1..Len(x.methods) |-> <<inOrder(x)[i].lo, inOrder(x)[i].hi>>]
<1>1. ASSUME NEW x \in Contracts
      PROVE  inOrder(x) = sorted(x.methods)
  <2> DEFINE ms == x.methods
  <2>1. ms \in Seq(SlotMethods) /\ \A i, j \in 1..Len(ms) : ms[i].slot = ms[j].slot => i = j
    BY ContractsAssumption DEF SlotMethods
  <2>2. inOrder(x) = CHOOSE s \in [1..Len(ms) -> {ms[i] : i \in 1..Len(ms)}] : InSlotOrder(s, ms)
    BY DEF InSlotOrder
  <2> HIDE DEF ms
  <2>3. (CHOOSE s \in [1..Len(ms) -> {ms[i] : i \in 1..Len(ms)}] : InSlotOrder(s, ms)) = sorted(ms)
    BY <2>1, OrderIsSorted
  <2> QED BY ONLY <2>2, <2>3 DEF ms
<1> HIDE DEF inOrder
<1>2. /\ shape(c) = [i \in 1..Len(c.methods) |-> <<sorted(c.methods)[i].lo, sorted(c.methods)[i].hi>>]
      /\ shape(d) = [i \in 1..Len(d.methods) |-> <<sorted(d.methods)[i].lo, sorted(d.methods)[i].hi>>]
  <2>1. inOrder(c) = sorted(c.methods) /\ inOrder(d) = sorted(d.methods)
    BY <1>1
  <2> QED BY ONLY <2>1
<1> HIDE DEF shape
<1>3. interface_id(c) = interface_id(d) <=>
          c.name = d.name /\ c.version = d.version /\ Len(c.methods) = Len(d.methods) /\ shape(c) = shape(d)
  BY <1>2, IdsDecide
<1> QED BY <1>3 DEF shape, inOrder

-----------------------------------------------------------------------------
\* The texts of methods.
TypesOf(m) == <<m.ret>> \o m.params
TextPieces(m) == [i \in 1..Len(TypesOf(m)) |-> TypeText(TypesOf(m)[i])]
DigitsOf(n) == {s \in Seq(Nat) : Len(s) = n /\ \A i \in 1..n : s[i] \in 48..57}

\* What a method holds.
LEMMA MethodTypes ==
    ASSUME NEW m \in Methods
    PROVE  /\ m.name \in Seq(Nat) /\ m.ret \in TypeIds /\ m.params \in Seq(TypeIds)
           /\ m = [name |-> m.name, ret |-> m.ret, params |-> m.params]
           /\ TypesOf(m) \in Seq(TypeIds) /\ Len(m.params) \in Nat /\ Len(TypesOf(m)) = 1 + Len(m.params)
           /\ TypesOf(m)[1] = m.ret /\ \A i \in 1..Len(m.params) : TypesOf(m)[1 + i] = m.params[i]
           /\ \A i \in 1..Len(TypesOf(m)) : /\ TypesOf(m)[i] \in TypeIds
                                           /\ TypesOf(m)[i].lo \in Halves /\ TypesOf(m)[i].hi \in Halves
<1>1. /\ m.name \in Seq(Nat) /\ m.ret \in TypeIds /\ m.params \in Seq(TypeIds)
      /\ m = [name |-> m.name, ret |-> m.ret, params |-> m.params]
  BY LayoutsAssumption
<1> DEFINE a == <<m.ret>>
           b == m.params
           t == a \o b
<1>2. a \in Seq(TypeIds) /\ Len(a) = 1 /\ a[1] = m.ret /\ b \in Seq(TypeIds)
  BY <1>1
<1>3. TypesOf(m) = t
  BY DEF TypesOf
<1> HIDE DEF a
<1>4. /\ t \in Seq(TypeIds) /\ Len(a) \in Nat /\ Len(b) \in Nat /\ Len(t) = Len(a) + Len(b)
      /\ \A i \in 1..Len(a) : t[i] = a[i]
      /\ \A i \in 1..Len(b) : t[Len(a) + i] = b[i]
  <2>1. a \in Seq(TypeIds) /\ b \in Seq(TypeIds)
    BY <1>2
  <2> HIDE DEF b
  <2> QED BY ONLY <2>1, ConcatAt
<1> HIDE DEF t
<1>5. /\ t \in Seq(TypeIds) /\ Len(b) \in Nat /\ Len(t) = 1 + Len(b)
      /\ t[1] = m.ret /\ \A i \in 1..Len(b) : t[1 + i] = b[i]
  <2>1. 1 \in 1..Len(a)
    BY <1>2
  <2> HIDE DEF b
  <2> QED BY ONLY <1>2, <1>4, <2>1
<1> DEFINE Used(x) == {x.ret} \union {x.params[i] : i \in 1..Len(x.params)}
<1>6. ASSUME NEW u \in Used(m)
      PROVE  u.lo \in Halves /\ u.hi \in Halves
  <2>1. u \in UNION {Used(x) : x \in Methods}
    <3> HIDE DEF Used
    <3> QED OBVIOUS
  <2> DEFINE All == UNION {Used(x) : x \in Methods}
  <2>2. Halves = UNION {{v.lo, v.hi} : v \in All}
    BY DEF Halves
  <2> HIDE DEF All
  <2>3. u \in All
    BY <2>1 DEF All
  <2> QED BY <2>2, <2>3
<1>7. ASSUME NEW i \in 1..Len(t)
      PROVE  t[i] \in TypeIds /\ t[i] \in Used(m)
  <2>1. t[i] \in TypeIds
    BY <1>5, ElementOfSeq
  <2>2. CASE i = 1
    BY <1>5, <2>2
  <2>3. CASE i # 1
    <3>1. i - 1 \in 1..Len(b) /\ 1 + (i - 1) = i
      <4> HIDE DEF b
      <4> QED BY <1>5, <2>3
    <3>2. t[1 + (i - 1)] = b[i - 1]
      BY ONLY <1>5, <3>1
    <3>3. t[i] = m.params[i - 1] /\ i - 1 \in 1..Len(m.params)
      BY ONLY <3>1, <3>2 DEF b
    <3> QED BY <2>1, <3>3
  <2> QED BY <2>1, <2>2, <2>3
<1>8. \A i \in 1..Len(t) : t[i] \in TypeIds /\ t[i].lo \in Halves /\ t[i].hi \in Halves
  <2> HIDE DEF Used
  <2> QED BY <1>6, <1>7
<1> QED BY <1>1, <1>3, <1>5, <1>8

\* The halves of type ids are numbers.
LEMMA HalvesAreNumbers == Halves \subseteq Nat
<1> SUFFICES ASSUME NEW h \in Halves
             PROVE  h \in Nat
  OBVIOUS
<1> DEFINE Used(x) == {x.ret} \union {x.params[i] : i \in 1..Len(x.params)}
           All == UNION {Used(x) : x \in Methods}
<1>1. All \subseteq TypeIds
  <2> SUFFICES ASSUME NEW m \in Methods, NEW u \in Used(m)
               PROVE  u \in TypeIds
    OBVIOUS
  <2>1. m.ret \in TypeIds /\ m.params \in Seq(TypeIds)
    BY LayoutsAssumption
  <2>2. \A i \in 1..Len(m.params) : m.params[i] \in TypeIds
    BY <2>1, ElementOfSeq
  <2> QED BY <2>1, <2>2
<1>2. h \in UNION {{v.lo, v.hi} : v \in All}
  BY DEF Halves
<1> HIDE DEF All
<1>3. PICK v \in All : h = v.lo \/ h = v.hi
  BY <1>2
<1>4. v.lo \in Nat /\ v.hi \in Nat
  BY <1>1 DEF TypeIds
<1> QED BY <1>3, <1>4

\* With as many digits for every half, a text is read in one way.
LEMMA TextsDecide ==
    ASSUME NEW w \in Nat, \A h \in Halves : Len(interface_hash_u64(h)) = w,
           NEW t \in TypeIds, NEW u \in TypeIds,
           t.lo \in Halves, t.hi \in Halves, u.lo \in Halves, u.hi \in Halves
    PROVE  TypeText(t) \in DigitsOf(w + w) /\ (TypeText(t) = TypeText(u) => t = u)
<1> DEFINE H(n) == interface_hash_u64(n)
           a == H(t.lo)
           b == H(t.hi)
           c == H(u.lo)
           d == H(u.hi)
<1>1. \A h \in Halves : H(h) \in DigitsOf(w) /\ H(h) \in Even(w, Nat)
  <2> SUFFICES ASSUME NEW h \in Halves
               PROVE  H(h) \in DigitsOf(w) /\ H(h) \in Even(w, Nat)
    OBVIOUS
  <2>1. h \in Nat /\ Len(H(h)) = w
    BY HalvesAreNumbers
  <2>2. H(h) \in Digits
    BY <2>1, DigitsText
  <2> HIDE DEF H
  <2>3. H(h) \in Seq(Nat) /\ \A i \in 1..Len(H(h)) : H(h)[i] \in 48..57
    BY <2>2, DigitsAreNumbers
  <2> QED BY ONLY <2>1, <2>3 DEF DigitsOf, Even
<1>2. TypeText(t) = a \o b /\ TypeText(u) = c \o d
  BY DEF TypeText
<1>3. a = c /\ b = d => t = u
  <2>1. t.lo \in Nat /\ t.hi \in Nat /\ u.lo \in Nat /\ u.hi \in Nat
    BY DEF TypeIds
  <2>2. t = [lo |-> t.lo, hi |-> t.hi] /\ u = [lo |-> u.lo, hi |-> u.hi]
    BY DEF TypeIds
  <2>3. a = c => t.lo = u.lo
    BY <2>1, DigitsInjective
  <2>4. b = d => t.hi = u.hi
    BY <2>1, DigitsInjective
  <2> QED BY ONLY <2>2, <2>3, <2>4
<1>4. /\ a \in DigitsOf(w) /\ b \in DigitsOf(w)
      /\ a \in Even(w, Nat) /\ b \in Even(w, Nat) /\ c \in Even(w, Nat) /\ d \in Even(w, Nat)
  <2> HIDE DEF H
  <2> QED BY <1>1
<1> HIDE DEF a, b, c, d
<1>5. Paired(Nat, w, w, w + w, a, b, c, d)
  BY <1>4 DEF Paired
<1>6. (a \o b = c \o d <=> a = c /\ b = d)
  BY ONLY <1>5, EvenConcat
<1>7. a \o b \in DigitsOf(w + w)
  <2>1. /\ a \in Seq(Nat) /\ Len(a) = w /\ \A i \in 1..w : a[i] \in 48..57
        /\ b \in Seq(Nat) /\ Len(b) = w /\ \A i \in 1..w : b[i] \in 48..57
    BY <1>4 DEF DigitsOf
  <2>2. /\ a \o b \in Seq(Nat) /\ Len(a \o b) = Len(a) + Len(b)
        /\ \A i \in 1..Len(a) : (a \o b)[i] = a[i]
        /\ \A i \in 1..Len(b) : (a \o b)[Len(a) + i] = b[i]
    <3>1. a \in Seq(Nat) /\ b \in Seq(Nat)
      BY <2>1
    <3> QED BY ONLY <3>1, ConcatAt
  <2> DEFINE r == a \o b
  <2>3. /\ r \in Seq(Nat) /\ Len(r) = w + w
        /\ \A i \in 1..w : r[i] \in 48..57
        /\ \A i \in 1..w : r[w + i] \in 48..57
    BY ONLY <2>1, <2>2
  <2> HIDE DEF r
  <2>4. ASSUME NEW i \in 1..(w + w)
        PROVE  r[i] \in 48..57
    <3>1. CASE i \in 1..w
      BY <2>3, <3>1
    <3>2. CASE i \notin 1..w
      <4>1. i - w \in 1..w /\ w + (i - w) = i
        BY <3>2
      <4>2. r[w + (i - w)] \in 48..57
        BY ONLY <2>3, <4>1
      <4> QED BY ONLY <4>1, <4>2
    <3> QED BY <3>1, <3>2
  <2> QED BY <2>3, <2>4 DEF r, DigitsOf
<1> QED BY ONLY <1>2, <1>3, <1>6, <1>7

\* Digits of one number are pieces that can be taken apart.
LEMMA DigitPieces ==
    ASSUME NEW n \in Nat \ {0}
    PROVE  DigitsOf(n) \subseteq Seq(Nat) /\ SuffixFree(DigitsOf(n), Nat)
<1>1. DigitsOf(n) \subseteq Even(n, Nat)
  BY DEF DigitsOf, Even
<1>2. Even(n, Nat) \subseteq Seq(Nat) /\ SuffixFree(Even(n, Nat), Nat)
  BY EvenPieces
<1>3. <<>> \notin Even(n, Nat) /\ \A c, e \in Even(n, Nat), x \in Seq(Nat) : c = x \o e => x = <<>>
  BY <1>2 DEF SuffixFree
<1>4. <<>> \notin DigitsOf(n) /\ \A c, e \in DigitsOf(n), x \in Seq(Nat) : c = x \o e => x = <<>>
  BY ONLY <1>1, <1>3
<1> QED BY <1>1, <1>2, <1>4 DEF SuffixFree

\* A readable signature decides its method.
LEMMA MethodsDecide ==
    ASSUME MethodsReadable, NEW m \in Methods, NEW n \in Methods
    PROVE  method_signature(m.name, m.ret, m.params) = method_signature(n.name, n.ret, n.params) <=> m = n
<1> DEFINE w == Len(interface_hash_u64(m.ret.lo))
           C == DigitsOf(w + w)
<1>1. m.ret.lo \in Halves
  <2>1. 1 \in 1..Len(TypesOf(m)) /\ TypesOf(m)[1] = m.ret
    BY MethodTypes
  <2>2. TypesOf(m)[1].lo \in Halves
    BY <2>1, MethodTypes
  <2> QED BY ONLY <2>1, <2>2
<1>2. w \in Nat \ {0} /\ \A h \in Halves : Len(interface_hash_u64(h)) = w
  <2>1. m.ret.lo \in Nat
    BY <1>1, HalvesAreNumbers
  <2>2. w \in Nat \ {0}
    BY <2>1, DigitsNonempty
  <2>3. \A h \in Halves : Len(interface_hash_u64(h)) = w
    BY <1>1 DEF MethodsReadable
  <2> QED BY ONLY <2>2, <2>3
<1>3. \A x \in Methods : \E p \in 1..Len(x.name) : x.name[p] \notin 48..57 /\ p + 2 * w > Len(x.name)
  BY <1>1 DEF MethodsReadable
<1> HIDE DEF w
<1>4. w + w \in Nat \ {0} /\ C \subseteq Seq(Nat) /\ SuffixFree(C, Nat)
  <2>1. w + w \in Nat \ {0}
    BY <1>2
  <2> QED BY <2>1, DigitPieces
<1>5. ASSUME NEW x \in Methods
      PROVE  x.name \in Seq(Nat) /\ Unended(x.name, C, Nat)
  <2> DEFINE t == x.name
  <2>1. t \in Seq(Nat)
    BY MethodTypes
  <2>2. PICK p \in 1..Len(t) : t[p] \notin 48..57 /\ p + 2 * w > Len(t)
    BY <1>3
  <2> HIDE DEF t
  <2>3. ASSUME NEW y \in Seq(Nat), NEW e \in C, t = y \o e
        PROVE  FALSE
    <3>1. e \in Seq(Nat) /\ Len(e) = w + w /\ \A i \in 1..(w + w) : e[i] \in 48..57
      BY DEF DigitsOf
    <3>2. /\ Len(y) \in Nat /\ Len(y \o e) = Len(y) + Len(e)
          /\ \A i \in 1..Len(e) : (y \o e)[Len(y) + i] = e[i]
      <4>1. y \in Seq(Nat) /\ e \in Seq(Nat)
        BY <3>1
      <4> QED BY ONLY <4>1, ConcatAt
    <3>3. /\ Len(y) \in Nat /\ Len(t) = Len(y) + (w + w)
          /\ \A i \in 1..(w + w) : t[Len(y) + i] = e[i]
      BY ONLY <2>3, <3>1, <3>2
    <3>4. p - Len(y) \in 1..(w + w) /\ Len(y) + (p - Len(y)) = p
      <4>1. p \in 1..(Len(y) + (w + w)) /\ p + 2 * w > Len(y) + (w + w)
        BY <2>2, <3>3
      <4> QED BY ONLY <1>2, <3>3, <4>1
    <3>5. t[Len(y) + (p - Len(y))] = e[p - Len(y)] /\ e[p - Len(y)] \in 48..57
      BY ONLY <3>1, <3>3, <3>4
    <3>6. t[p] \in 48..57
      BY ONLY <3>4, <3>5
    <3> QED BY <2>2, <3>6
  <2> HIDE DEF C
  <2>4. Unended(t, C, Nat)
    BY <2>3 DEF Unended
  <2> QED BY <2>1, <2>4 DEF t
<1>6. ASSUME NEW x \in Methods
      PROVE  /\ \A i \in 1..Len(TypesOf(x)) : TypeText(TypesOf(x)[i]) \in C
             /\ TextPieces(x) \in Seq(C)
  <2>1. ASSUME NEW i \in 1..Len(TypesOf(x))
        PROVE  TypeText(TypesOf(x)[i]) \in C
    <3> DEFINE t == TypesOf(x)[i]
    <3>1. t \in TypeIds /\ t.lo \in Halves /\ t.hi \in Halves
      BY MethodTypes
    <3> HIDE DEF t
    <3>2. w \in Nat
      BY <1>2
    <3>3. TypeText(t) \in DigitsOf(w + w)
      BY <1>2, <3>1, <3>2, TextsDecide
    <3> QED BY <3>3 DEF t
  <2> HIDE DEF C
  <2>2. TextPieces(x) \in [1..Len(TypesOf(x)) -> C]
    BY <2>1 DEF TextPieces
  <2>3. Len(TypesOf(x)) \in Nat
    BY MethodTypes, LenProperties
  <2>4. TextPieces(x) \in Seq(C)
    BY <2>2, <2>3, SeqDef
  <2> QED BY <2>1, <2>4
<1> HIDE DEF C
<1>7. \A x \in Methods : method_signature(x.name, x.ret, x.params)
                          = [domain |-> "SIGNATUR", bytes |-> <<>> \o (x.name \o Each(TextPieces(x)))]
  <2>1. \A x : method_signature(x.name, x.ret, x.params)
               = canonical_hash_bytes(canonical_hash_begin("SIGNATUR"), x.name \o Each(TextPieces(x)))
    BY ONLY Zenon DEF method_signature, TextPieces, TypesOf
  <2>2. \A b : canonical_hash_bytes(canonical_hash_begin("SIGNATUR"), b) = [domain |-> "SIGNATUR", bytes |-> <<>> \o b]
    BY ONLY SMT DEF canonical_hash_bytes, canonical_hash_begin
  <2> QED BY ONLY <2>1, <2>2
<1>8. ASSUME NEW x \in Methods
      PROVE  <<>> \o (x.name \o Each(TextPieces(x))) = x.name \o Each(TextPieces(x))
  <2> DEFINE ss == TextPieces(x)
  <2>1. ss \in Seq(C)
    BY <1>6
  <2> HIDE DEF ss
  <2>2. Len(ss) \in Nat /\ \A k \in 1..Len(ss) : ss[k] \in Seq(Nat)
    <3>1. \A k \in 1..Len(ss) : ss[k] \in C
      BY <2>1, ElementOfSeq
    <3> QED BY <1>4, <2>1, <3>1, LenProperties
  <2>3. PICK g : g \in [0..Len(ss) -> Seq(Nat)] /\ Each(ss) = g[Len(ss)]
    BY <2>2, EachLoop
  <2>4. Len(ss) \in 0..Len(ss)
    BY <2>2
  <2>5. Each(ss) \in Seq(Nat)
    BY ONLY <2>3, <2>4
  <2>6. x.name \in Seq(Nat)
    BY <1>5
  <2>7. x.name \o Each(ss) \in Seq(Nat)
    BY ONLY <2>5, <2>6, ConcatProperties
  <2> QED BY <2>7, ConcatEmptySeq DEF ss
<1>9. ASSUME method_signature(m.name, m.ret, m.params) = method_signature(n.name, n.ret, n.params)
      PROVE  m = n
  <2>1. m.name \o Each(TextPieces(m)) = n.name \o Each(TextPieces(n))
    <3>1. /\ method_signature(m.name, m.ret, m.params).bytes = m.name \o Each(TextPieces(m))
          /\ method_signature(n.name, n.ret, n.params).bytes = n.name \o Each(TextPieces(n))
      <4>1. ASSUME NEW x \in Methods
            PROVE  method_signature(x.name, x.ret, x.params).bytes = x.name \o Each(TextPieces(x))
        <5>1. method_signature(x.name, x.ret, x.params)
                  = [domain |-> "SIGNATUR", bytes |-> x.name \o Each(TextPieces(x))]
          BY <1>7, <1>8
        <5> DEFINE t == x.name \o Each(TextPieces(x))
                   h == method_signature(x.name, x.ret, x.params)
        <5>2. h = [domain |-> "SIGNATUR", bytes |-> t]
          BY <5>1
        <5> HIDE DEF t, h
        <5>3. h.bytes = t
          BY ONLY <5>2
        <5> QED BY ONLY <5>3 DEF t, h
      <4> QED BY <4>1
    <3> QED BY ONLY <1>9, <3>1
  <2>2. Together(Nat, C, m.name, n.name, TextPieces(m), TextPieces(n))
    BY <1>4, <1>5, <1>6, <2>1 DEF Together
  <2>3. m.name = n.name /\ TextPieces(m) = TextPieces(n)
    BY ONLY <2>2, PiecesUnique
  <2>4. Len(TypesOf(m)) = Len(TypesOf(n))
    <3>1. DOMAIN TextPieces(m) = 1..Len(TypesOf(m)) /\ DOMAIN TextPieces(n) = 1..Len(TypesOf(n))
      BY DEF TextPieces
    <3>2. 1..Len(TypesOf(m)) = 1..Len(TypesOf(n))
      BY ONLY <2>3, <3>1
    <3>3. Len(TypesOf(m)) \in Nat /\ Len(TypesOf(n)) \in Nat
      BY MethodTypes, LenProperties
    <3> QED BY ONLY <3>2, <3>3
  <2>5. ASSUME NEW i \in 1..Len(TypesOf(m))
        PROVE  TypesOf(m)[i] = TypesOf(n)[i]
    <3> DEFINE t == TypesOf(m)[i]
               u == TypesOf(n)[i]
    <3>1. t \in TypeIds /\ t.lo \in Halves /\ t.hi \in Halves
      BY MethodTypes
    <3>2. u \in TypeIds /\ u.lo \in Halves /\ u.hi \in Halves
      BY <2>4, MethodTypes
    <3>3. TextPieces(m)[i] = TypeText(t) /\ TextPieces(n)[i] = TypeText(u)
      BY <2>4 DEF TextPieces
    <3> HIDE DEF t, u
    <3>4. TypeText(t) = TypeText(u)
      BY ONLY <2>3, <3>3
    <3>5. w \in Nat
      BY <1>2
    <3>6. t = u
      BY <1>2, <3>1, <3>2, <3>4, <3>5, TextsDecide
    <3> QED BY <3>6 DEF t, u
  <2>6. m.ret = n.ret
    <3>1. /\ TypesOf(m)[1] = m.ret /\ TypesOf(n)[1] = n.ret
          /\ Len(m.params) \in Nat /\ Len(TypesOf(m)) = 1 + Len(m.params)
      BY MethodTypes
    <3>2. 1 \in 1..Len(TypesOf(m))
      BY ONLY <3>1
    <3>3. TypesOf(m)[1] = TypesOf(n)[1]
      BY <2>5, <3>2
    <3> QED BY ONLY <3>1, <3>3
  <2>7. m.params = n.params
    <3>1. /\ Len(m.params) \in Nat /\ Len(TypesOf(m)) = 1 + Len(m.params)
          /\ \A i \in 1..Len(m.params) : TypesOf(m)[1 + i] = m.params[i]
      BY MethodTypes
    <3>2. /\ Len(n.params) \in Nat /\ Len(TypesOf(n)) = 1 + Len(n.params)
          /\ \A i \in 1..Len(n.params) : TypesOf(n)[1 + i] = n.params[i]
      BY MethodTypes
    <3>3. Len(m.params) = Len(n.params)
      <4>1. /\ Len(m.params) \in Nat /\ Len(n.params) \in Nat
            /\ 1 + Len(m.params) = 1 + Len(n.params)
        BY <2>4, <3>1, <3>2
      <4> QED BY ONLY <4>1
    <3>4. \A i \in 1..Len(m.params) : 1 + i \in 1..Len(TypesOf(m)) /\ i \in 1..Len(n.params)
      BY ONLY <3>1, <3>3
    <3>5. \A i \in 1..Len(m.params) : m.params[i] = n.params[i]
      BY ONLY <2>5, <3>1, <3>2, <3>4
    <3>6. m.params \in Seq(TypeIds) /\ n.params \in Seq(TypeIds)
      BY MethodTypes
    <3> QED BY <3>3, <3>5, <3>6, SeqEqual
  <2>8. /\ m = [name |-> m.name, ret |-> m.ret, params |-> m.params]
        /\ n = [name |-> n.name, ret |-> n.ret, params |-> n.params]
    BY MethodTypes
  <2> QED BY ONLY <2>3, <2>6, <2>7, <2>8
<1>10. m = n => method_signature(m.name, m.ret, m.params) = method_signature(n.name, n.ret, n.params)
  BY Zenon
<1> QED BY ONLY <1>9, <1>10

-----------------------------------------------------------------------------
\* What is identified is one of the things that there are.
SubjectInv ==
    subject # NoSubject =>
        subject \in Subjects("contract", Contracts) \union Subjects("method", Methods)
                   \union Subjects("layout", Layouts) \union Subjects("call", Calls)
                   \union Subjects("signature", Signatures) \union Subjects("machine", Machines)

\* What is identified is one of its kind.
LEMMA SubjectOfKind ==
    ASSUME SubjectInv
    PROVE  /\ Is("contract") => subject.of \in Contracts
           /\ Is("method") => subject.of \in Methods
           /\ Is("layout") => subject.of \in Layouts
           /\ Is("call") => subject.of \in Calls
           /\ Is("signature") => subject.of \in Signatures
           /\ Is("machine") => subject.of \in Machines
<1>1. ASSUME NEW kind, NEW set, subject \in Subjects(kind, set)
      PROVE  subject.kind = kind /\ subject.of \in set
  <2>1. PICK x \in set : subject = [kind |-> kind, of |-> x]
    BY <1>1 DEF Subjects
  <2> QED BY <2>1
<1> SUFFICES ASSUME subject # NoSubject
             PROVE  /\ subject.kind = "contract" => subject.of \in Contracts
                    /\ subject.kind = "method" => subject.of \in Methods
                    /\ subject.kind = "layout" => subject.of \in Layouts
                    /\ subject.kind = "call" => subject.of \in Calls
                    /\ subject.kind = "signature" => subject.of \in Signatures
                    /\ subject.kind = "machine" => subject.of \in Machines
  BY DEF Is
<1>2. \/ subject \in Subjects("contract", Contracts) \/ subject \in Subjects("method", Methods)
      \/ subject \in Subjects("layout", Layouts) \/ subject \in Subjects("call", Calls)
      \/ subject \in Subjects("signature", Signatures) \/ subject \in Subjects("machine", Machines)
  BY DEF SubjectInv
<1>3. CASE subject \in Subjects("contract", Contracts)
  <2>1. subject.kind = "contract" /\ subject.of \in Contracts
    BY <1>1, <1>3
  <2> QED BY ONLY <2>1
<1>4. CASE subject \in Subjects("method", Methods)
  <2>1. subject.kind = "method" /\ subject.of \in Methods
    BY <1>1, <1>4
  <2> QED BY ONLY <2>1
<1>5. CASE subject \in Subjects("layout", Layouts)
  <2>1. subject.kind = "layout" /\ subject.of \in Layouts
    BY <1>1, <1>5
  <2> QED BY ONLY <2>1
<1>6. CASE subject \in Subjects("call", Calls)
  <2>1. subject.kind = "call" /\ subject.of \in Calls
    BY <1>1, <1>6
  <2> QED BY ONLY <2>1
<1>7. CASE subject \in Subjects("signature", Signatures)
  <2>1. subject.kind = "signature" /\ subject.of \in Signatures
    BY <1>1, <1>7
  <2> QED BY ONLY <2>1
<1>8. CASE subject \in Subjects("machine", Machines)
  <2>1. subject.kind = "machine" /\ subject.of \in Machines
    BY <1>1, <1>8
  <2> QED BY ONLY <2>1
<1> QED BY <1>2, <1>3, <1>4, <1>5, <1>6, <1>7, <1>8

\* Two sides of a boundary compute one identity exactly when they mean one thing, whatever
\* the contracts, layouts, calls, signatures and machines are; of methods, when their
\* texts without separators can be read in one way (Contract.h, Compat.h, TypeSig.h, ABI.h).
THEOREM IdentitiesStayFaithful ==
    ASSUME MethodsReadable
    PROVE  IdentitySpec => []IdentitiesFaithful
<1>1. IdentityInit => SubjectInv
  BY DEF IdentityInit, SubjectInv
<1>2. SubjectInv /\ [Identify]_identityVars => SubjectInv'
  <2> SUFFICES ASSUME SubjectInv, [Identify]_identityVars
               PROVE  SubjectInv'
    OBVIOUS
  <2>1. CASE Identify
    BY <2>1 DEF Identify, SubjectInv
  <2>2. CASE UNCHANGED identityVars
    BY <2>2 DEF SubjectInv, identityVars
  <2> QED BY <2>1, <2>2
<1>3. SubjectInv => IdentitiesFaithful
  <2> SUFFICES ASSUME SubjectInv
               PROVE  IdentitiesFaithful
    OBVIOUS
  <2>1. InterfaceIdIsContract
    <3> SUFFICES ASSUME Is("contract"), NEW d \in Contracts
                 PROVE  LET c == subject.of
                            inOrder(x) == CHOOSE s \in [1..Len(x.methods) -> {x.methods[i] : i \in 1..Len(x.methods)}] :
                               /\ \A i, j \in 1..Len(x.methods) : i < j => s[i].slot < s[j].slot
                               /\ \A i \in 1..Len(x.methods) : \E j \in 1..Len(x.methods) : s[j] = x.methods[i]
                            shape(x) == [i \in 1..Len(x.methods) |-> <<inOrder(x)[i].lo, inOrder(x)[i].hi>>]
                        IN interface_id(c) = interface_id(d) <=> /\ c.name = d.name /\ c.version = d.version
                                                                 /\ Len(c.methods) = Len(d.methods)
                                                                 /\ shape(c) = shape(d)
      BY DEF InterfaceIdIsContract
    <3>1. subject.of \in Contracts
      BY SubjectOfKind
    <3> QED BY <3>1, ContractsDecide
  <2>2. MethodSignatureIsMethod
    <3>1. ASSUME Is("method"), NEW n \in Methods
          PROVE  method_signature(subject.of.name, subject.of.ret, subject.of.params)
                     = method_signature(n.name, n.ret, n.params) <=> subject.of = n
      <4>1. subject.of \in Methods
        BY <3>1, SubjectOfKind
      <4> QED BY <4>1, MethodsDecide
    <3> QED BY <3>1 DEF MethodSignatureIsMethod
  <2>3. LayoutHashIsLayout
    <3>1. ASSUME Is("layout"), NEW m \in Layouts, subject.of.given, m.given
          PROVE  /\ canonical_layout_hash(subject.of) = canonical_layout_hash(m) <=> Facts(subject.of) = Facts(m)
                 /\ compare(subject.of, m, TRUE) = "identical" <=> Facts(subject.of) = Facts(m)
      <4>1. subject.of \in Layouts
        BY <3>1, SubjectOfKind
      <4> QED BY <3>1, <4>1, LayoutsDecide, CompareDecides
    <3> QED BY <3>1 DEF LayoutHashIsLayout
  <2>4. AbiSignatureIsCall
    <3>1. ASSUME Is("call")
          PROVE  /\ \A c \in Calls : abi_signature_hash(c) = abi_signature_hash(subject.of) <=> c = subject.of
                 /\ \A m \in Methods : method_signature(m.name, m.ret, m.params) # abi_signature_hash(subject.of)
                 /\ \A l \in Layouts : canonical_layout_hash(l) # abi_signature_hash(subject.of)
      <4>1. subject.of \in Calls
        BY <3>1, SubjectOfKind
      <4>2. \A c \in Calls : abi_signature_hash(c) = abi_signature_hash(subject.of) <=> c = subject.of
        BY <4>1, CallsDecide
      <4> QED BY <4>2, DomainsApart
    <3> QED BY <3>1 DEF AbiSignatureIsCall
  <2>5. EncodingFits
    <3>1. ASSUME Is("layout"), NEW capacity \in Buffers8
          PROVE  LET e == encode_canonical_layout(subject.of, capacity)
                 IN /\ Len(e.written) <= capacity
                    /\ e.size # 0 => /\ e.size = Len(e.written)
                                     /\ e.written = canonical_layout_hash(subject.of).bytes
      <4>1. subject.of \in Layouts
        BY <3>1, SubjectOfKind
      <4> QED BY <4>1, EncodingWhole
    <3> QED BY <3>1 DEF EncodingFits
  <2>6. SignatureIsType
    <3>1. ASSUME Is("signature"), NEW t \in Signatures
          PROVE  FnSigImpl(subject.of) = FnSigImpl(t) <=>
                     <<subject.of.cc, Value(subject.of.ret),
                       [i \in 1..Len(subject.of.args) |-> Value(subject.of.args[i])]>>
                     = <<t.cc, Value(t.ret), [i \in 1..Len(t.args) |-> Value(t.args[i])]>>
      <4>1. subject.of \in Signatures
        BY <3>1, SubjectOfKind
      <4> QED BY <4>1, SignaturesDecide
    <3> QED BY <3>1 DEF SignatureIsType, Value
  <2>7. AliasesKeepRepresentation
    <3>1. ASSUME Is("machine")
          PROVE  subject.of \in Machines
      BY <3>1, SubjectOfKind
    <3> QED BY <3>1, AliasesHold DEF AliasesKeepRepresentation
  <2> QED BY <2>1, <2>2, <2>3, <2>4, <2>5, <2>6, <2>7 DEF IdentitiesFaithful
<1> QED BY <1>1, <1>2, <1>3, PTL DEF IdentitySpec
=============================================================================
