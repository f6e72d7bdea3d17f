------------------------ MODULE ModuleRegistryProofs ------------------------
(***************************************************************************)
(* What is proved of poly::ModuleRegistry (ModuleRegistry): its two arrays *)
(* stay consistent through registrations and compactions, and a binding    *)
(* under a lease names a module that is still registered.                  *)
(***************************************************************************)
EXTENDS ModuleRegistry, Induction, FiniteSetTheorems, SequenceTheorems, TLAPS

-----------------------------------------------------------------------------
(***************************************************************************)
(* Free slots, and pieces of sequences.                                    *)
(***************************************************************************)
LEMMA FreeSlotFound ==
    ASSUME \E s \in Slots : ~Used(s)
    PROVE  SlotFor \in Slots /\ ~Used(SlotFor)
<1> DEFINE F == {s \in Slots : ~Used(s)}
<1>1. F # {} /\ F \subseteq Nat
  BY CapacityAssumption DEF Slots
<1>2. Min(F) \in F
  BY <1>1, LeastIsElement
<1> QED BY <1>2 DEF SlotFor

\* The bindings that register_module() appends for a manifest.
LEMMA BindingsAreSeq ==
    ASSUME NEW m \in Controls, NEW n \in Nat
    PROVE  LET E == Manifest[m].entries
               B == [i \in DOMAIN E |-> Binding(m, n, E[i])]
           IN /\ Len(E) \in Nat /\ DOMAIN E = 1..Len(E)
              /\ B \in Seq(Bindings) /\ Len(B) = Len(E)
              /\ \A i \in 1..Len(E) : B[i] = Binding(m, n, E[i])
<1> DEFINE E == Manifest[m].entries
           B == [i \in DOMAIN E |-> Binding(m, n, E[i])]
<1>1. E \in Seq([key : Keys, version : Versions])
  BY ManifestAssumption
<1>2. Len(E) \in Nat /\ DOMAIN E = 1..Len(E)
  BY <1>1, LenProperties
<1>3. \A i \in 1..Len(E) : E[i] \in [key : Keys, version : Versions]
  BY <1>1, ElementOfSeq
<1>4. \A i \in 1..Len(E) : Binding(m, n, E[i]) \in Bindings
  BY <1>3 DEF Binding, Bindings
<1>5. B = [i \in 1..Len(E) |-> Binding(m, n, E[i])]
  BY <1>2
<1>6. B \in Seq(Bindings)
  <2> DEFINE e(i) == Binding(m, n, E[i])
  <2>1. \A i \in 1..Len(E) : e(i) \in Bindings
    BY <1>4
  <2> HIDE DEF e
  <2>2. [i \in 1..Len(E) |-> e(i)] \in Seq(Bindings)
    BY <1>2, <2>1, IsASeq
  <2> QED BY <1>5, <2>2 DEF e
<1>7. Len(B) = Len(E)
  <2>1. DOMAIN B = 1..Len(B) /\ DOMAIN B = 1..Len(E) /\ Len(B) \in Nat
    BY <1>5, <1>6, LenProperties
  <2> DEFINE a == Len(B)
             b == Len(E)
  <2>2. a \in Nat /\ b \in Nat /\ 1..a = 1..b
    BY <1>2, <2>1
  <2> HIDE DEF a, b
  <2>3. a <= b /\ b <= a
    <3>1. (a > 0 => a \in 1..a) /\ (b > 0 => b \in 1..b)
      BY <2>2
    <3>2. (a > 0 => a \in 1..b) /\ (b > 0 => b \in 1..a)
      BY <2>2, <3>1
    <3> QED BY ONLY <2>2, <3>2
  <2>4. a = b
    BY <2>2, <2>3
  <2> QED BY <2>4 DEF a, b
<1> QED BY <1>2, <1>5, <1>6, <1>7

\* unregister_module(): what the interface array holds after the compaction.
LEMMA Compacted ==
    ASSUME RegistryTypes, NEW b \in Nat, NEW c \in Nat, b + c <= Len(interfaces)
    PROVE  /\ Compact(b, c) \in Seq(Bindings)
           /\ Len(Compact(b, c)) = Len(interfaces) - c
           /\ \A i \in 1..(Len(interfaces) - c) :
                Compact(b, c)[i] = IF i <= b THEN interfaces[i] ELSE interfaces[i + c]
<1> DEFINE n == Len(interfaces)
           low == SubSeq(interfaces, 1, b)
           high == SubSeq(interfaces, b + c + 1, n)
<1>1. n \in Nat /\ \A i \in 1..n : interfaces[i] \in Bindings
  BY ElementOfSeq, LenProperties DEF RegistryTypes
<1>2. /\ low \in Seq(Bindings) /\ Len(low) = b
      /\ \A i \in 1..b : low[i] = interfaces[i]
  <2>1. \A i \in 1..b : interfaces[i] \in Bindings
    BY <1>1
  <2> QED BY <2>1, SubSeqProperties
<1>3. /\ high \in Seq(Bindings) /\ Len(high) = n - b - c
      /\ \A i \in 1..(n - b - c) : high[i] = interfaces[b + c + i]
  <2>1. \A i \in (b + c + 1)..n : interfaces[i] \in Bindings
    BY <1>1
  <2>2. /\ high \in Seq(Bindings)
        /\ Len(high) = IF b + c + 1 <= n THEN n - (b + c + 1) + 1 ELSE 0
        /\ \A i \in 1..(n - (b + c + 1) + 1) : high[i] = interfaces[b + c + 1 + i - 1]
    BY <1>1, <2>1, SubSeqProperties
  <2> HIDE DEF high, n
  <2> QED BY <1>1, <2>2 DEF n
<1>4. Compact(b, c) = low \o high
  BY DEF Compact
<1> HIDE DEF low, high
<1>5. /\ low \o high \in Seq(Bindings) /\ Len(low \o high) = Len(low) + Len(high)
      /\ \A i \in 1..(Len(low) + Len(high)) :
           (low \o high)[i] = IF i <= Len(low) THEN low[i] ELSE high[i - Len(low)]
  BY SMTT(30), <1>2, <1>3, ConcatProperties
<1> HIDE DEF n
<1>6. Len(low \o high) = n - c
  BY <1>1, <1>2, <1>3, <1>5
<1>7. ASSUME NEW i \in 1..(n - c)
      PROVE  (low \o high)[i] = IF i <= b THEN interfaces[i] ELSE interfaces[i + c]
  <2>1. (low \o high)[i] = IF i <= b THEN low[i] ELSE high[i - b]
    BY <1>1, <1>2, <1>3, <1>5
  <2>2. CASE i <= b
    BY <1>1, <1>2, <2>1, <2>2
  <2>3. CASE ~(i <= b)
    <3>1. i - b \in 1..(n - b - c) /\ b + c + (i - b) = i + c
      BY <1>1, <2>3
    <3> QED BY <1>3, <2>1, <2>3, <3>1
  <2> QED BY <2>2, <2>3
<1> QED BY <1>4, <1>5, <1>6, <1>7 DEF n

-----------------------------------------------------------------------------
(***************************************************************************)
(* register_module().                                                      *)
(***************************************************************************)
\* None of the early returns was taken.
LEMMA RegisterOk ==
    ASSUME NEW m \in Controls, RegisterStatus(m) = "ok"
    PROVE  /\ \A s \in Slots : slots[s].control # m
           /\ ~(Len(interfaces) + Len(Manifest[m].entries) > InterfaceCapacity)
           /\ \E s \in Slots : ~Used(s)
           /\ state[m] = "loading"
  BY DEF RegisterStatus

\* The number of used slots is a number.
LEMMA UsedFinite ==
    /\ IsFiniteSet({s \in Slots : Used(s)})
    /\ Cardinality({s \in Slots : Used(s)}) \in Nat
<1>1. IsFiniteSet(Slots)
  BY CapacityAssumption, FS_Interval DEF Slots
<1>2. {s \in Slots : Used(s)} \subseteq Slots
  OBVIOUS
<1> QED BY <1>1, <1>2, FS_Subset, FS_CardinalityType

\* What a registration that succeeds leaves behind.
LEMMA RegisterEffect ==
    ASSUME RegistryInv, NEW m \in Controls, register_module(m), status' = "ok"
    PROVE  /\ SlotFor \in Slots /\ ~Used(SlotFor)
           /\ state[m] = "loading" /\ m \notin Registered
           /\ state' = [state EXCEPT ![m] = "active"]
           /\ lastId' = lastId + 1 /\ id' = [id EXCEPT ![m] = lastId + 1]
           /\ slots' = [slots EXCEPT ![SlotFor] =
                  [control |-> m, begin |-> Len(interfaces), count |-> Len(Manifest[m].entries)]]
           /\ moduleCount' = moduleCount + 1
           /\ interfaces' \in Seq(Bindings)
           /\ Len(interfaces') = Len(interfaces) + Len(Manifest[m].entries)
           /\ Len(interfaces') <= InterfaceCapacity
           /\ \A i \in 1..Len(interfaces) : interfaces'[i] = interfaces[i]
           /\ \A i \in 1..Len(Manifest[m].entries) : interfaces'[Len(interfaces) + i] =
                  Binding(m, lastId + 1, Manifest[m].entries[i])
<1> DEFINE E == Manifest[m].entries
           B == [i \in DOMAIN E |-> Binding(m, lastId + 1, E[i])]
           n == Len(interfaces)
           k == Len(E)
<1>1. status' = RegisterStatus(m)
  BY DEF register_module
<1>2. /\ \A s \in Slots : slots[s].control # m
      /\ ~(n + k > InterfaceCapacity)
      /\ \E s \in Slots : ~Used(s)
      /\ state[m] = "loading"
  BY <1>1, RegisterOk
<1>3. SlotFor \in Slots /\ ~Used(SlotFor) /\ m \notin Registered
  BY <1>2, FreeSlotFound DEF Registered
<1>4. /\ state' = [state EXCEPT ![m] = "active"]
      /\ lastId' = lastId + 1 /\ id' = [id EXCEPT ![m] = lastId']
      /\ slots' = [slots EXCEPT ![SlotFor] =
             [control |-> m, begin |-> Len(interfaces), count |-> Len(E)]]
      /\ moduleCount' = moduleCount + 1
      /\ interfaces' = interfaces \o [i \in DOMAIN E |-> Binding(m, id'[m], E[i])]
  BY DEF register_module, next_module_instance_id
<1>5. id'[m] = lastId + 1 /\ lastId + 1 \in Nat
  BY <1>4 DEF RegistryInv, RegistryTypes
<1>6. /\ k \in Nat /\ B \in Seq(Bindings) /\ Len(B) = k
      /\ \A i \in 1..k : B[i] = Binding(m, lastId + 1, E[i])
  BY <1>5, BindingsAreSeq
<1>7. interfaces' = interfaces \o B
  <2>1. [i \in DOMAIN E |-> Binding(m, id'[m], E[i])] = B
    <3> DEFINE j == id'[m]
    <3>1. j = lastId + 1
      BY <1>5
    <3> HIDE DEF j
    <3>2. [i \in DOMAIN E |-> Binding(m, j, E[i])] = B
      BY <3>1
    <3> QED BY <3>2 DEF j
  <2> HIDE DEF B
  <2> QED BY <1>4, <2>1
<1>8. interfaces \in Seq(Bindings) /\ n \in Nat
  BY LenProperties DEF RegistryInv, RegistryTypes
<1> HIDE DEF B
<1>9. /\ interfaces \o B \in Seq(Bindings) /\ Len(interfaces \o B) = n + Len(B)
      /\ \A i \in 1..(n + Len(B)) :
           (interfaces \o B)[i] = IF i <= n THEN interfaces[i] ELSE B[i - n]
  BY ZenonT(30), <1>6, <1>8, ConcatProperties
<1>10. /\ \A i \in 1..n : interfaces'[i] = interfaces[i]
       /\ \A i \in 1..k : interfaces'[n + i] = B[i]
  <2> HIDE DEF n, k
  <2>1. \A i \in 1..n : i \in 1..(n + k) /\ i <= n
    BY <1>6, <1>8
  <2>2. \A i \in 1..k : n + i \in 1..(n + k) /\ ~(n + i <= n) /\ (n + i) - n = i
    BY <1>6, <1>8
  <2> QED BY <1>6, <1>7, <1>9, <2>1, <2>2
<1>11. Len(interfaces') = n + k /\ Len(interfaces') <= InterfaceCapacity
  BY <1>2, <1>6, <1>7, <1>8, <1>9, CapacityAssumption
<1> QED BY <1>2, <1>3, <1>4, <1>5, <1>6, <1>7, <1>9, <1>10, <1>11

LEMMA RegisterKeeps ==
    ASSUME RegistryInv, NEW m \in Controls, register_module(m), status' = "ok",
           waiting = NoControl
    PROVE  RegistryInv'
<1> USE ControlsAssumption DEF RegistryInv
<1>1. PICK f \in Slots : f = SlotFor
  BY RegisterEffect
<1> DEFINE n == Len(interfaces)
           k == Len(Manifest[m].entries)
<1>2. n \in Nat /\ k \in Nat /\ lastId \in Nat
  BY BindingsAreSeq, LenProperties DEF RegistryTypes
<1>3. /\ ~Used(f) /\ state[m] = "loading" /\ m \notin Registered /\ id[m] = 0
      /\ waiting' = NoControl /\ lastId' = lastId + 1
  BY <1>1, RegisterEffect DEF ModulesOnce, register_module
<1>4. /\ state' \in [Controls -> {"loading", "active", "draining", "unloaded"}]
      /\ state'[m] = "active" /\ \A o \in Controls : o # m => state'[o] = state[o]
      /\ id' \in [Controls -> Nat] /\ id'[m] = lastId + 1
      /\ \A o \in Controls : o # m => id'[o] = id[o]
  <2>1. state' = [state EXCEPT ![m] = "active"] /\ id' = [id EXCEPT ![m] = lastId + 1]
    BY RegisterEffect
  <2>2. /\ state \in [Controls -> {"loading", "active", "draining", "unloaded"}]
        /\ id \in [Controls -> Nat] /\ lastId + 1 \in Nat
    BY <1>2 DEF RegistryTypes
  <2> QED BY ONLY m \in Controls, <2>1, <2>2
<1>5. /\ slots' \in [Slots -> [control : Controls \union {NoControl}, begin : Nat, count : Nat]]
      /\ slots'[f].control = m /\ slots'[f].begin = n /\ slots'[f].count = k
      /\ \A s \in Slots : s # f => slots'[s] = slots[s]
  <2>1. slots' = [slots EXCEPT ![SlotFor] = [control |-> m, begin |-> n, count |-> k]]
    BY RegisterEffect
  <2>2. slots' = [slots EXCEPT ![f] = [control |-> m, begin |-> n, count |-> k]]
    BY <1>1, <2>1
  <2>3. slots \in [Slots -> [control : Controls \union {NoControl}, begin : Nat, count : Nat]]
    BY DEF RegistryTypes
  <2> HIDE DEF n, k
  <2> QED BY ONLY m \in Controls, f \in Slots, <1>2, <2>2, <2>3
<1>6. /\ interfaces' \in Seq(Bindings) /\ Len(interfaces') = n + k
      /\ Len(interfaces') <= InterfaceCapacity
      /\ \A i \in 1..n : interfaces'[i] = interfaces[i]
      /\ \A i \in 1..k : interfaces'[n + i] = Binding(m, lastId + 1, Manifest[m].entries[i])
      /\ moduleCount' = moduleCount + 1
  BY RegisterEffect
<1>7. /\ Used(f)' /\ \A s \in Slots : s # f => (Used(s)' <=> Used(s))
      /\ \A s \in Slots : Used(s) => slots[s].control \in Controls /\ slots[s].control # m
  BY <1>3, <1>5 DEF Used, Registered, RegistryTypes
<1>8. Registered' = Registered \union {m}
  BY <1>3, <1>5 DEF Registered, Used
<1>9. RegistryTypes'
  BY <1>3, <1>4, <1>5, <1>6 DEF RegistryTypes
<1>10. ModulesOnce'
  <2>1. \A s, t \in Slots : Used(s)' /\ slots'[s].control = slots'[t].control => s = t
    BY <1>5, <1>7 DEF ModulesOnce, Used
  <2>2. ASSUME NEW o \in Controls
        PROVE  /\ o \in Registered' <=> state'[o] \in {"active", "draining"}
               /\ IF state'[o] = "loading" THEN id'[o] = 0 ELSE id'[o] \in 1..lastId'
    BY <1>2, <1>3, <1>4, <1>8 DEF ModulesOnce
  <2>3. \A o \in Controls : id[o] <= lastId /\ id[o] \in Nat
    BY <1>2 DEF ModulesOnce, RegistryTypes
  <2>4. \A o, p \in Controls : id'[o] = id'[p] /\ id'[o] # 0 => o = p
    BY <1>2, <1>4, <2>3 DEF ModulesOnce
  <2> QED BY <1>3, <2>1, <2>2, <2>4 DEF ModulesOnce
<1>11. ASSUME NEW s \in Slots, Used(s)'
       PROVE  Piece(s)'
  <2>1. CASE s = f
    <3>1. /\ slots'[s].control = m /\ slots'[s].begin = n /\ slots'[s].count = k
          /\ id'[slots'[s].control] = lastId + 1
      BY <1>4, <1>5, <2>1
    <3>2. slots'[s].begin + slots'[s].count <= Len(interfaces')
      BY <1>2, <1>6, <3>1
    <3>3. \A i \in 1..slots'[s].count : interfaces'[slots'[s].begin + i] =
            Binding(slots'[s].control, id'[slots'[s].control],
                    Manifest[slots'[s].control].entries[i])
      BY <1>6, <3>1
    <3> QED BY <3>1, <3>2, <3>3 DEF Piece
  <2>2. CASE s # f
    <3>1. Used(s) /\ Piece(s) /\ slots'[s] = slots[s]
      BY <1>5, <1>7, <1>11, <2>2
    <3>2. id'[slots[s].control] = id[slots[s].control]
      BY <1>4, <1>7, <3>1
    <3>3. slots[s].begin \in Nat /\ slots[s].count \in Nat
      BY DEF RegistryTypes
    <3>4. slots[s].begin + slots[s].count <= Len(interfaces')
      <4>1. slots[s].begin + slots[s].count <= n /\ Len(interfaces') = n + k
        BY <1>6, <3>1 DEF Piece
      <4> HIDE DEF n, k
      <4> QED BY ONLY <1>2, <3>3, <4>1
    <3>5. ASSUME NEW i \in 1..slots[s].count
          PROVE  interfaces'[slots[s].begin + i] = interfaces[slots[s].begin + i]
      <4>1. slots[s].begin + i \in 1..n
        BY <1>2, <3>1, <3>3 DEF Piece
      <4> QED BY <1>6, <4>1
    <3> QED BY <3>1, <3>2, <3>4, <3>5 DEF Piece
  <2> QED BY <2>1, <2>2
<1>12. PiecesApart'
  <2>1. \A s \in Slots : Used(s) => slots[s].begin + slots[s].count <= n
    BY DEF Piece
  <2> QED BY <1>2, <1>5, <1>7, <2>1 DEF PiecesApart
<1>13. IsFiniteSet(Registered)' /\ CountsAgree'
  <2> DEFINE U == {s \in Slots : Used(s)}
             V == {s \in Slots : Used(s)'}
  <2>1. V = U \union {f} /\ f \notin U
    BY <1>3, <1>7
  <2>2. IsFiniteSet(U) /\ Cardinality(U) = moduleCount
    BY UsedFinite DEF CountsAgree
  <2>3. Cardinality(V) = moduleCount + 1
    <3> HIDE DEF U, V
    <3> QED BY <2>1, <2>2, FS_AddElement
  <2>4. IsFiniteSet(Registered') /\ Cardinality(Registered') = moduleCount + 1
    BY <1>3, <1>8, FS_AddElement DEF CountsAgree
  <2> QED BY <1>6, <2>3, <2>4 DEF CountsAgree
<1>14. ArrayInOrder'
  <2>1. ASSUME NEW i \in 1..n
        PROVE  interfaces[i].module \in Nat /\ interfaces[i].module <= lastId
    <3>1. PICK s \in Slots :
            Used(s) /\ slots[s].begin < i /\ i <= slots[s].begin + slots[s].count
      BY DEF ArrayInOrder
    <3>2. PICK o \in Controls, b \in Nat, c \in Nat :
            o = slots[s].control /\ b = slots[s].begin /\ c = slots[s].count
      BY <3>1 DEF RegistryTypes, Used
    <3>3. i - b \in 1..c /\ b + (i - b) = i
      BY <1>2, <3>1, <3>2
    <3>4. interfaces[i] = Binding(o, id[o], Manifest[o].entries[i - b])
      BY <3>1, <3>2, <3>3 DEF Piece
    <3>5. id[o] \in Nat /\ id[o] <= lastId
      BY <1>2 DEF ModulesOnce, RegistryTypes
    <3> QED BY <3>4, <3>5 DEF Binding
  <2>2. ASSUME NEW i \in 1..(n + k), ~(i <= n)
        PROVE  interfaces'[i].module = lastId + 1
    <3>1. i - n \in 1..k /\ n + (i - n) = i
      BY <1>2, <2>2
    <3>2. PICK d \in 1..k : d = i - n
      BY <3>1
    <3>3. interfaces'[n + d] = Binding(m, lastId + 1, Manifest[m].entries[d])
      BY <1>6
    <3> HIDE DEF n, k
    <3>4. interfaces'[i] = Binding(m, lastId + 1, Manifest[m].entries[d])
      BY <3>1, <3>2, <3>3
    <3> QED BY <3>4 DEF Binding
  <2>3. ASSUME NEW i \in 1..(n + k), NEW j \in 1..(n + k), i <= j
        PROVE  interfaces'[i].module <= interfaces'[j].module
    <3>1. CASE j <= n
      <4>1. i \in 1..n /\ j \in 1..n
        BY <1>2, <2>3, <3>1
      <4> QED BY <1>6, <2>3, <4>1 DEF ArrayInOrder
    <3>2. CASE i <= n /\ ~(j <= n)
      <4>1. i \in 1..n
        BY <1>2, <3>2
      <4>2. interfaces'[i].module \in Nat /\ interfaces'[i].module <= lastId
        BY <1>6, <2>1, <4>1
      <4> QED BY ONLY <1>2, <2>2, <3>2, <4>2, j \in 1..(n + k)
    <3>3. CASE ~(i <= n)
      <4>1. ~(j <= n)
        BY <1>2, <2>3, <3>3
      <4> QED BY <1>2, <2>2, <3>3, <4>1
    <3> QED BY <3>1, <3>2, <3>3
  <2>4. ASSUME NEW i \in 1..(n + k)
        PROVE  \E s \in Slots : /\ Used(s)' /\ slots'[s].begin < i
                                /\ i <= slots'[s].begin + slots'[s].count
    <3>1. CASE i <= n
      <4>1. i \in 1..n
        BY <1>2, <3>1
      <4>2. PICK s \in Slots :
              Used(s) /\ slots[s].begin < i /\ i <= slots[s].begin + slots[s].count
        BY <4>1 DEF ArrayInOrder
      <4> QED BY <1>3, <1>5, <1>7, <4>2
    <3>2. CASE ~(i <= n)
      BY <1>2, <1>5, <1>7, <3>2
    <3> QED BY <3>1, <3>2
  <2>5. ~Duplicates(Manifest[m].entries)
    BY DEF register_module, RegisterStatus
  <2>6. \A o \in Registered' : ~Duplicates(Manifest[o].entries)
    BY <1>8, <2>5 DEF ArrayInOrder
  <2> HIDE DEF n, k
  <2> QED BY <1>6, <2>3, <2>4, <2>6 DEF ArrayInOrder
<1> QED BY <1>9, <1>10, <1>11, <1>12, <1>13, <1>14

-----------------------------------------------------------------------------
(***************************************************************************)
(* unregister_module().                                                    *)
(***************************************************************************)
\* Calls that leave the arrays and the states alone.
LEMMA RegistryFrame ==
    ASSUME RegistryInv, UNCHANGED <<state, id, lastId, slots, moduleCount, interfaces>>,
           waiting' = waiting \/ waiting' = NoControl
    PROVE  RegistryInv'
<1>1. Registered' = Registered /\ \A s \in Slots : Used(s)' <=> Used(s)
  BY DEF Registered, Used
<1>2. RegistryTypes'
  BY DEF RegistryInv, RegistryTypes
<1>3. ModulesOnce'
  BY <1>1 DEF RegistryInv, ModulesOnce
<1>4. \A s \in Slots : Used(s)' => Piece(s)'
  BY <1>1 DEF RegistryInv, Piece
<1>5. PiecesApart'
  BY <1>1 DEF RegistryInv, PiecesApart
<1>6. IsFiniteSet(Registered)' /\ CountsAgree'
  BY <1>1 DEF RegistryInv, CountsAgree
<1>7. ArrayInOrder'
  BY <1>1 DEF RegistryInv, ArrayInOrder
<1> QED BY <1>2, <1>3, <1>4, <1>5, <1>6, <1>7 DEF RegistryInv

LEMMA BeginKeeps ==
    ASSUME RegistryInv, NEW i \in Nat, BeginUnload(i)
    PROVE  RegistryInv'
<1> USE ControlsAssumption DEF RegistryInv
<1>1. PICK s \in Slots : /\ Used(s) /\ waiting' = slots[s].control
                         /\ state' = [state EXCEPT ![slots[s].control] = "draining"]
  BY DEF BeginUnload, FindSlot
<1>2. PICK m \in Controls : m = slots[s].control
  BY <1>1 DEF RegistryTypes, Used
<1>3. UNCHANGED <<id, lastId, slots, moduleCount, interfaces>>
  BY DEF BeginUnload
<1>4. Registered' = Registered /\ \A t \in Slots : Used(t)' <=> Used(t)
  BY <1>3 DEF Registered, Used
<1>5. m \in Registered /\ state[m] \in {"active", "draining"}
  BY <1>2 DEF Registered, ModulesOnce
<1>6. /\ state' \in [Controls -> {"loading", "active", "draining", "unloaded"}]
      /\ state'[m] = "draining" /\ \A o \in Controls : o # m => state'[o] = state[o]
  BY <1>1, <1>2 DEF RegistryTypes
<1>7. RegistryTypes'
  BY <1>1, <1>2, <1>3, <1>6 DEF RegistryTypes
<1>8. ModulesOnce'
  <2>1. \A o \in Controls :
          /\ o \in Registered' <=> state'[o] \in {"active", "draining"}
          /\ IF state'[o] = "loading" THEN id'[o] = 0 ELSE id'[o] \in 1..lastId'
    BY <1>3, <1>4, <1>5, <1>6 DEF ModulesOnce
  <2>2. waiting' # NoControl => waiting' \in Controls /\ state'[waiting'] = "draining"
    BY <1>1, <1>2, <1>6
  <2> QED BY <1>3, <1>4, <2>1, <2>2 DEF ModulesOnce
<1>9. \A t \in Slots : Used(t)' => Piece(t)'
  BY <1>3, <1>4 DEF Piece
<1>10. PiecesApart'
  BY <1>3, <1>4 DEF PiecesApart
<1>11. IsFiniteSet(Registered)' /\ CountsAgree'
  BY <1>3, <1>4 DEF CountsAgree
<1>12. ArrayInOrder'
  BY <1>3, <1>4 DEF ArrayInOrder
<1> QED BY <1>7, <1>8, <1>9, <1>10, <1>11, <1>12

\* Where the piece at b is taken out, the pieces behind it move down by its length c
\* and all stay apart.
LEMMA ShiftApart ==
    ASSUME NEW b \in Nat, NEW c \in Nat, NEW x \in Nat, NEW p \in Nat, NEW y \in Nat, NEW q \in Nat,
           b + c <= x \/ x + p <= b, b + c <= y \/ y + q <= b,
           x + p <= y \/ y + q <= x
    PROVE  LET u == IF x > b THEN x - c ELSE x
               v == IF y > b THEN y - c ELSE y
           IN  u \in Nat /\ v \in Nat /\ (u + p <= v \/ v + q <= u)
<1>1. CASE x > b /\ y > b
  BY <1>1
<1>2. CASE x > b /\ ~(y > b)
  BY <1>2
<1>3. CASE ~(x > b) /\ y > b
  BY <1>3
<1>4. CASE ~(x > b) /\ ~(y > b)
  BY <1>4
<1> QED BY <1>1, <1>2, <1>3, <1>4

LEMMA UnregisterKeeps ==
    ASSUME RegistryInv, Unregister
    PROVE  RegistryInv'
<1> USE ControlsAssumption DEF RegistryInv
<1>1. PICK m \in Controls : m = waiting
  BY DEF Unregister, ModulesOnce
<1>2. PICK s \in Slots :
        /\ Used(s) /\ id[m] # 0 /\ id[slots[s].control] = id[m]
        /\ interfaces' = Compact(slots[s].begin, slots[s].count)
        /\ slots' = [t \in Slots |->
               IF t = s THEN FreeSlot ELSE Shifted(slots[t], slots[s].begin, slots[s].count)]
  BY <1>1 DEF Unregister, FindSlot
<1>3. slots[s].control = m
  BY <1>2 DEF ModulesOnce, RegistryTypes, Used
<1>4. PICK b \in Nat, c \in Nat : b = slots[s].begin /\ c = slots[s].count
  BY DEF RegistryTypes
<1> DEFINE n == Len(interfaces)
<1>5. /\ n \in Nat /\ b + c <= n
      /\ UNCHANGED <<id, lastId>> /\ waiting' = NoControl
      /\ moduleCount' = moduleCount - 1 /\ state' = [state EXCEPT ![m] = "unloaded"]
  BY <1>1, <1>2, <1>4, LenProperties DEF Unregister, Piece, RegistryTypes
<1>6. /\ interfaces' \in Seq(Bindings) /\ Len(interfaces') = n - c
      /\ \A i \in 1..(n - c) :
           interfaces'[i] = IF i <= b THEN interfaces[i] ELSE interfaces[i + c]
  BY <1>2, <1>4, <1>5, Compacted
\* The other slots.
<1> DEFINE Moved(t) == IF slots[t].begin > b THEN slots[t].begin - c ELSE slots[t].begin
<1>7. /\ slots'[s] = FreeSlot
      /\ \A t \in Slots : t # s /\ ~Used(t) => slots'[t] = slots[t]
      /\ \A t \in Slots : t # s /\ Used(t) =>
           /\ slots'[t].control = slots[t].control /\ slots'[t].count = slots[t].count
           /\ slots'[t].begin = Moved(t)
           /\ slots'[t] \in [control : Controls \union {NoControl}, begin : Int, count : Nat]
  <2>1. \A t \in Slots :
          slots[t] \in [control : Controls \union {NoControl}, begin : Nat, count : Nat]
    BY DEF RegistryTypes
  <2>2. \A t \in Slots : slots'[t] = IF t = s THEN FreeSlot ELSE Shifted(slots[t], b, c)
    BY <1>2, <1>4
  <2>3. ASSUME NEW t \in Slots, t # s, Used(t)
        PROVE  /\ slots'[t].control = slots[t].control /\ slots'[t].count = slots[t].count
               /\ slots'[t].begin = Moved(t)
               /\ slots'[t] \in [control : Controls \union {NoControl}, begin : Int, count : Nat]
    <3>1. slots'[t] = IF slots[t].begin > b THEN [slots[t] EXCEPT !.begin = @ - c] ELSE slots[t]
      BY <2>2, <2>3 DEF Shifted, Used
    <3> QED BY <2>1, <3>1
  <2>4. ASSUME NEW t \in Slots, t # s, ~Used(t)
        PROVE  slots'[t] = slots[t]
    BY <2>2, <2>4 DEF Shifted, Used
  <2> QED BY <2>2, <2>3, <2>4
<1>8. /\ ~Used(s)' /\ \A t \in Slots : t # s => (Used(t)' <=> Used(t))
      /\ \A t \in Slots : t # s => slots'[t].control = slots[t].control
  BY <1>7 DEF Used, FreeSlot
<1>9. \A t \in Slots : t # s /\ Used(t) =>
        b + c <= slots[t].begin \/ slots[t].begin + slots[t].count <= b
  BY <1>2, <1>4 DEF PiecesApart
<1>10. \A t \in Slots : t # s /\ Used(t) => Moved(t) \in Nat
  <2>1. ASSUME NEW t \in Slots, t # s, Used(t)
        PROVE  Moved(t) \in Nat
    <3>1. PICK x \in Nat, k \in Nat : x = slots[t].begin /\ k = slots[t].count
      BY DEF RegistryTypes
    <3>2. b + c <= x \/ x + k <= b
      BY <1>9, <2>1, <3>1
    <3>3. (IF x > b THEN x - c ELSE x) \in Nat
      BY ONLY <3>2, b \in Nat, c \in Nat, x \in Nat, k \in Nat
    <3> QED BY <3>1, <3>3
  <2> QED BY <2>1
<1>11. slots' \in [Slots -> [control : Controls \union {NoControl}, begin : Nat, count : Nat]]
  <2>1. ASSUME NEW t \in Slots
        PROVE  slots'[t] \in [control : Controls \union {NoControl}, begin : Nat, count : Nat]
    <3>1. CASE t = s
      BY <1>7, <3>1 DEF FreeSlot
    <3>2. CASE t # s /\ ~Used(t)
      BY <1>7, <3>2 DEF RegistryTypes
    <3>3. CASE t # s /\ Used(t)
      BY <1>7, <1>10, <3>3
    <3> QED BY <3>1, <3>2, <3>3
  <2>2. slots' = [t \in Slots |-> slots'[t]]
    BY <1>2
  <2> QED BY <2>1, <2>2
<1>12. Registered' = Registered \ {m} /\ m \in Registered
  <2>1. \A t \in Slots : slots[t].control = m => t = s
    BY <1>2, <1>3 DEF ModulesOnce
  <2>2. slots'[s].control = NoControl
    BY <1>7 DEF FreeSlot
  <2> QED BY <1>3, <1>8, <2>1, <2>2 DEF Registered
<1>13. /\ state' \in [Controls -> {"loading", "active", "draining", "unloaded"}]
       /\ state'[m] = "unloaded" /\ \A o \in Controls : o # m => state'[o] = state[o]
       /\ state[m] = "draining"
  BY <1>1, <1>5 DEF RegistryTypes, ModulesOnce
<1>14. IsFiniteSet(Registered)' /\ CountsAgree' /\ moduleCount' \in Nat
  <2> DEFINE U == {t \in Slots : Used(t)}
             V == {t \in Slots : Used(t)'}
  <2>1. V = U \ {s} /\ s \in U
    BY <1>2, <1>8
  <2>2. IsFiniteSet(U) /\ Cardinality(U) = moduleCount
    BY UsedFinite DEF CountsAgree
  <2>3. Cardinality(V) = moduleCount - 1 /\ IsFiniteSet(V)
    <3> HIDE DEF U, V
    <3> QED BY <2>1, <2>2, FS_RemoveElement
  <2>4. IsFiniteSet(Registered') /\ Cardinality(Registered') = moduleCount - 1
    BY <1>12, FS_RemoveElement DEF CountsAgree
  <2>5. moduleCount - 1 \in Nat
    <3> HIDE DEF V
    <3> QED BY <2>3, FS_CardinalityType
  <2>6. Len(interfaces') <= InterfaceCapacity
    BY <1>5, <1>6, CapacityAssumption DEF CountsAgree
  <2> QED BY <1>5, <2>3, <2>4, <2>5, <2>6 DEF CountsAgree
<1>15. RegistryTypes'
  BY <1>5, <1>6, <1>11, <1>13, <1>14 DEF RegistryTypes
<1>16. ModulesOnce'
  <2>1. \A t, u \in Slots : Used(t)' /\ slots'[t].control = slots'[u].control => t = u
    <3>1. slots'[s].control = NoControl
      BY <1>7 DEF FreeSlot
    <3> QED BY <1>8, <3>1 DEF ModulesOnce, Used
  <2>2. ASSUME NEW o \in Controls
        PROVE  /\ o \in Registered' <=> state'[o] \in {"active", "draining"}
               /\ IF state'[o] = "loading" THEN id'[o] = 0 ELSE id'[o] \in 1..lastId'
    BY <1>5, <1>12, <1>13 DEF ModulesOnce
  <2> QED BY <1>5, <2>1, <2>2 DEF ModulesOnce
<1>17. ASSUME NEW t \in Slots, Used(t)'
       PROVE  Piece(t)'
  <2>1. t # s /\ Used(t) /\ Piece(t)
    BY <1>8, <1>17
  <2>2. PICK x \in Nat, k \in Nat : x = slots[t].begin /\ k = slots[t].count
    BY DEF RegistryTypes
  <2>3. PICK o \in Controls : o = slots[t].control
    BY <2>1 DEF RegistryTypes, Used
  <2>4. /\ k = Len(Manifest[o].entries) /\ x + k <= n
        /\ \A i \in 1..k : interfaces[x + i] = Binding(o, id[o], Manifest[o].entries[i])
    BY <2>1, <2>2, <2>3 DEF Piece
  <2>5. PICK y \in Nat : y = IF x > b THEN x - c ELSE x
    BY <1>10, <2>1, <2>2
  <2>6. slots'[t].begin = y /\ slots'[t].count = k /\ slots'[t].control = o /\ id' = id
    BY <1>5, <1>7, <2>1, <2>2, <2>3, <2>5
  <2>7. b + c <= x \/ x + k <= b
    BY <1>9, <2>1, <2>2
  <2>8. y + k <= n - c
    <3>1. n \in Nat /\ b + c <= n /\ x + k <= n
      BY <1>5, <2>4
    <3> HIDE DEF n
    <3>2. CASE x > b
      <4>1. y = x - c
        BY <2>5, <3>2
      <4> QED BY ONLY <3>1, <4>1, c \in Nat, x \in Nat, k \in Nat
    <3>3. CASE ~(x > b)
      <4>1. y = x /\ (x + k <= b \/ c = 0)
        BY <2>5, <2>7, <3>3
      <4> QED BY ONLY <3>1, <4>1, b \in Nat, c \in Nat, x \in Nat, k \in Nat
    <3> QED BY <3>2, <3>3
  <2>9. ASSUME NEW i \in 1..k
        PROVE  interfaces'[y + i] = interfaces[x + i]
    <3> HIDE DEF n
    <3>1. y + i \in 1..(n - c)
      BY <1>5, <2>8
    <3>2. interfaces'[y + i] = IF y + i <= b THEN interfaces[y + i] ELSE interfaces[(y + i) + c]
      BY <1>6, <3>1
    <3>3. CASE x > b
      <4>1. b + c <= x /\ y = x - c
        BY <2>5, <2>7, <3>3
      <4>2. ~(y + i <= b) /\ (y + i) + c = x + i
        BY <4>1
      <4> QED BY <3>2, <4>2
    <3>4. CASE ~(x > b) /\ x + k <= b
      <4>1. y + i <= b /\ y + i = x + i
        BY <2>5, <3>4
      <4> QED BY <3>2, <4>1
    <3>5. CASE ~(x > b) /\ ~(x + k <= b)
      <4>1. y = b /\ x = b /\ c = 0
        BY <2>5, <2>7, <3>5
      <4>2. ~(y + i <= b) /\ (y + i) + c = x + i
        BY <4>1
      <4> QED BY <3>2, <4>2
    <3> QED BY <3>3, <3>4, <3>5
  <2> HIDE DEF n
  <2> QED BY <1>6, <2>4, <2>6, <2>8, <2>9 DEF Piece
<1>18. PiecesApart'
  <2>1. ASSUME NEW t \in Slots, NEW u \in Slots, Used(t)', Used(u)', t # u
        PROVE  \/ slots'[t].begin + slots'[t].count <= slots'[u].begin
               \/ slots'[u].begin + slots'[u].count <= slots'[t].begin
    <3>1. t # s /\ u # s /\ Used(t) /\ Used(u)
      BY <1>8, <2>1
    <3>2. PICK x \in Nat, p \in Nat : x = slots[t].begin /\ p = slots[t].count
      BY DEF RegistryTypes
    <3>3. PICK y \in Nat, q \in Nat : y = slots[u].begin /\ q = slots[u].count
      BY DEF RegistryTypes
    <3>4. (b + c <= x \/ x + p <= b) /\ (b + c <= y \/ y + q <= b)
      BY <1>9, <3>1, <3>2, <3>3
    <3>5. x + p <= y \/ y + q <= x
      BY <2>1, <3>1, <3>2, <3>3 DEF PiecesApart
    <3>6. LET v == IF x > b THEN x - c ELSE x
              w == IF y > b THEN y - c ELSE y
          IN  v + p <= w \/ w + q <= v
      BY ONLY <3>4, <3>5, ShiftApart
    <3>7. /\ slots'[t].begin = (IF x > b THEN x - c ELSE x) /\ slots'[t].count = p
          /\ slots'[u].begin = (IF y > b THEN y - c ELSE y) /\ slots'[u].count = q
      BY <1>7, <3>1, <3>2, <3>3
    <3> QED BY <3>6, <3>7
  <2> QED BY <2>1 DEF PiecesApart
<1>19. ArrayInOrder'
  <2> DEFINE From(i) == IF i <= b THEN i ELSE i + c
  <2>1. \A i \in 1..(n - c) : From(i) \in 1..n /\ interfaces'[i] = interfaces[From(i)]
    <3>1. \A i \in 1..(n - c) : From(i) \in 1..n
      BY <1>5
    <3> QED BY <1>6, <3>1
  <2>2. ASSUME NEW i \in 1..(n - c), NEW j \in 1..(n - c), i <= j
        PROVE  interfaces'[i].module <= interfaces'[j].module
    <3>1. From(i) <= From(j)
      BY <1>5, <2>2
    <3> HIDE DEF From
    <3> QED BY <2>1, <3>1 DEF ArrayInOrder
  <2>3. ASSUME NEW i \in 1..(n - c)
        PROVE  \E t \in Slots : /\ Used(t)' /\ slots'[t].begin < i
                                /\ i <= slots'[t].begin + slots'[t].count
    <3>1. PICK t \in Slots : /\ Used(t) /\ slots[t].begin < From(i)
                             /\ From(i) <= slots[t].begin + slots[t].count
      <4> HIDE DEF From
      <4> QED BY <2>1 DEF ArrayInOrder
    <3>2. PICK x \in Nat, k \in Nat : x = slots[t].begin /\ k = slots[t].count
      BY DEF RegistryTypes
    <3>3. x < From(i) /\ From(i) <= x + k
      BY <3>1, <3>2
    <3>4. t # s
      <4>1. SUFFICES ASSUME t = s PROVE FALSE
        OBVIOUS
      <4>2. x = b /\ k = c
        BY <1>4, <3>2, <4>1
      <4> QED BY <1>5, <3>3, <4>2
    <3>5. b + c <= x \/ x + k <= b
      BY <1>9, <3>1, <3>2, <3>4
    <3>6. /\ slots'[t].begin = (IF x > b THEN x - c ELSE x) /\ slots'[t].count = k /\ Used(t)'
      BY <1>7, <1>8, <3>1, <3>2, <3>4
    <3>7. i \in Nat
      BY <1>5
    <3>8. (IF x > b THEN x - c ELSE x) < i /\ i <= (IF x > b THEN x - c ELSE x) + k
      BY ONLY <3>3, <3>5, <3>7, b \in Nat, c \in Nat, x \in Nat, k \in Nat
    <3> QED BY <3>6, <3>8
  <2>4. \A o \in Registered' : ~Duplicates(Manifest[o].entries)
    BY <1>12 DEF ArrayInOrder
  <2> HIDE DEF n
  <2> QED BY <1>6, <2>2, <2>3, <2>4 DEF ArrayInOrder
<1> QED BY <1>14, <1>15, <1>16, <1>17, <1>18, <1>19

-----------------------------------------------------------------------------
(***************************************************************************)
(* The invariant of the arrays.                                            *)
(***************************************************************************)
LEMMA RegistryInit == Init => RegistryInv
<1> SUFFICES ASSUME Init PROVE RegistryInv
  OBVIOUS
<1> USE ControlsAssumption DEF Init
<1>1. \A s \in Slots : ~Used(s)
  BY DEF Used, FreeSlot
<1>2. Registered = {}
  BY DEF Registered, FreeSlot
<1>3. RegistryTypes
  <2>1. <<>> \in Seq(Bindings)
    BY EmptySeq
  <2> QED BY <2>1 DEF RegistryTypes, FreeSlot
<1>4. ModulesOnce
  BY <1>1, <1>2 DEF ModulesOnce
<1>5. PiecesApart
  BY <1>1 DEF PiecesApart
<1>6. IsFiniteSet(Registered) /\ CountsAgree
  <2>1. {s \in Slots : Used(s)} = {}
    BY <1>1
  <2>2. IsFiniteSet({}) /\ Cardinality({}) = 0
    BY FS_EmptySet
  <2>3. Len(interfaces) <= InterfaceCapacity
    BY CapacityAssumption
  <2> QED BY <1>2, <2>1, <2>2, <2>3 DEF CountsAgree
<1>7. ArrayInOrder
  <2>1. Len(interfaces) = 0
    BY EmptySeq
  <2> QED BY <1>2, <2>1 DEF ArrayInOrder
<1> QED BY <1>1, <1>3, <1>4, <1>5, <1>6, <1>7 DEF RegistryInv

LEMMA RegistryStep == RegistryInv /\ [Next]_vars => RegistryInv'
<1> SUFFICES ASSUME RegistryInv, [Next]_vars PROVE RegistryInv'
  OBVIOUS
<1>1. ASSUME NEW m \in Controls, register_module(m), waiting = NoControl
      PROVE  RegistryInv'
  <2>1. CASE status' = "ok"
    BY <1>1, <2>1, RegisterKeeps
  <2>2. CASE status' # "ok"
    <3>1. UNCHANGED <<state, id, lastId, slots, moduleCount, interfaces, waiting>>
      BY <1>1, <2>2 DEF register_module
    <3> QED BY <3>1, RegistryFrame
  <2> QED BY <2>1, <2>2
<1>2. ASSUME NEW m \in Controls, Register(m) \/ Discover(m)
      PROVE  RegistryInv'
  BY <1>1, <1>2 DEF Register, Discover
<1>3. ASSUME NEW m \in Controls, DiscoverNothing(m)
      PROVE  RegistryInv'
  BY <1>3, RegistryFrame DEF DiscoverNothing, registryVars
<1>4. ASSUME NEW i \in 0..lastId, UnregisterUnknown(i)
      PROVE  RegistryInv'
  BY <1>4, RegistryFrame DEF UnregisterUnknown, registryVars
<1>5. ASSUME NEW i \in 0..lastId, BeginUnload(i)
      PROVE  RegistryInv'
  <2>1. i \in Nat
    BY DEF RegistryInv, RegistryTypes
  <2> QED BY <1>5, <2>1, BeginKeeps
<1>6. CASE Busy
  BY <1>6, RegistryFrame DEF Busy, registryVars
<1>7. CASE Unregister
  BY <1>7, UnregisterKeeps
<1>8. ASSUME NEW c \in Clients, NEW key \in Keys, NEW version \in Versions \union {0},
             Lookup(c, key, version)
      PROVE  RegistryInv'
  BY <1>8, RegistryFrame DEF Lookup, registryVars
<1>9. ASSUME NEW c \in Clients, BindInterface(c) \/ Unbind(c)
      PROVE  RegistryInv'
  BY <1>9, RegistryFrame DEF BindInterface, Unbind, registryVars
<1>10. CASE UNCHANGED vars
  BY <1>10, RegistryFrame DEF vars
<1> QED BY <1>2, <1>3, <1>4, <1>5, <1>6, <1>7, <1>8, <1>9, <1>10 DEF Next

\* A piece is the sequence of its module's bindings.
LEMMA PieceDelimits ==
    ASSUME RegistryInv, NEW s \in Slots, Used(s)
    PROVE  /\ slots[s].begin + slots[s].count <= Len(interfaces)
           /\ SubSeq(interfaces, slots[s].begin + 1, slots[s].begin + slots[s].count)
                  = BindingsOf(slots[s].control)
<1> USE DEF RegistryInv
<1>1. PICK m \in Controls : m = slots[s].control
  BY DEF RegistryTypes, Used
<1>2. PICK b \in Nat, c \in Nat : b = slots[s].begin /\ c = slots[s].count
  BY DEF RegistryTypes
<1> DEFINE E == Manifest[m].entries
           B == [i \in DOMAIN E |-> Binding(m, id[m], E[i])]
           n == Len(interfaces)
           part == SubSeq(interfaces, b + 1, b + c)
<1>3. /\ c = Len(E) /\ b + c <= n /\ n \in Nat
      /\ \A i \in 1..c : interfaces[b + i] = Binding(m, id[m], E[i])
  BY <1>1, <1>2, LenProperties DEF Piece, RegistryTypes
<1>4. id[m] \in Nat
  BY DEF RegistryTypes
<1>5. B \in Seq(Bindings) /\ Len(B) = c /\ \A i \in 1..c : B[i] = Binding(m, id[m], E[i])
  BY <1>3, <1>4, BindingsAreSeq
<1>6. /\ part \in Seq(Bindings) /\ Len(part) = c
      /\ \A i \in 1..c : part[i] = interfaces[b + i]
  <2>1. \A i \in (b + 1)..(b + c) : interfaces[i] \in Bindings
    <3>1. \A i \in 1..n : interfaces[i] \in Bindings
      BY ElementOfSeq DEF RegistryTypes
    <3> HIDE DEF n
    <3> QED BY <1>3, <3>1
  <2>2. /\ part \in Seq(Bindings)
        /\ Len(part) = IF b + 1 <= b + c THEN (b + c) - (b + 1) + 1 ELSE 0
        /\ \A i \in 1..((b + c) - (b + 1) + 1) : part[i] = interfaces[b + 1 + i - 1]
    BY <2>1, SubSeqProperties
  <2> HIDE DEF part
  <2> QED BY <2>2
<1> HIDE DEF part, B, n
<1>7. part = B
  BY <1>3, <1>5, <1>6, SeqEqual
<1> QED BY <1>1, <1>2, <1>3, <1>7 DEF part, B, n, BindingsOf

\* Registrations and compactions in every order leave the slots, the interface
\* array and the counts of the registry in agreement: a used slot delimits the
\* bindings of its own module, whatever was taken out in front of it.
THEOREM SlotsStayConsistent == Spec => []SlotsConsistent
<1>1. Init => RegistryInv
  BY RegistryInit
<1>2. RegistryInv /\ [Next]_vars => RegistryInv'
  BY RegistryStep
<1>3. RegistryInv => SlotsConsistent
  BY PieceDelimits DEF SlotsConsistent, SlotsDelimitBindings, RegistryInv
<1> QED BY <1>1, <1>2, <1>3, PTL DEF Spec

-----------------------------------------------------------------------------
(***************************************************************************)
(* find_first() and find_interface().                                      *)
(***************************************************************************)
\* The loop of find_first(): best[i] is what it has after i elements.
LEMMA FindFirstLoop ==
    ASSUME RegistryTypes, NEW key, NEW version
    PROVE  \E best : /\ FindFirst(key, version) = best[Len(interfaces)]
                     /\ best[0] = <<>>
                     /\ \A i \in 1..Len(interfaces) : best[i] =
                            IF Matches(interfaces[i], key, version)
                                 /\ Better(best[i - 1], interfaces[i])
                              THEN interfaces[i] ELSE best[i - 1]
<1> DEFINE n == Len(interfaces)
           S == Bindings \union {<<>>}
           step == [p \in S \X (1..n) |->
                      IF Matches(interfaces[p[2]], key, version)
                           /\ Better(p[1], interfaces[p[2]])
                        THEN interfaces[p[2]] ELSE p[1]]
           Rec(g) == g = [i \in 0..n |->
                      IF i = 0 THEN <<>>
                      ELSE IF Matches(interfaces[i], key, version)
                                /\ Better(g[i - 1], interfaces[i])
                             THEN interfaces[i] ELSE g[i - 1]]
<1>1. n \in Nat /\ \A i \in 1..n : interfaces[i] \in Bindings
  BY ElementOfSeq, LenProperties DEF RegistryTypes
<1>2. step \in [S \X (1..n) -> S]
  <2> HIDE DEF n
  <2> QED BY <1>1
<1>3. \A v \in S, i \in 1..n : step[<<v, i>>] =
        IF Matches(interfaces[i], key, version) /\ Better(v, interfaces[i])
          THEN interfaces[i] ELSE v
  <2> HIDE DEF n, S
  <2> QED OBVIOUS
<1>4. \E g : Rec(g)
  <2> HIDE DEF step
  <2>1. <<>> \in S
    OBVIOUS
  <2> HIDE DEF S, n
  <2>2. PICK g : Loop(g, S, <<>>, n, step)
    BY <1>1, <1>2, <2>1, LoopExists
  <2>3. \A i \in 1..n : i \in 0..n /\ i # 0 /\ i - 1 \in 0..n /\ g[i - 1] \in S
    BY <1>1, <2>2 DEF Loop
  <2>4. \A i \in 0..n : i # 0 => i \in 1..n
    BY <1>1
  <2>5. \A i \in 1..n : g[i] = IF Matches(interfaces[i], key, version)
                                    /\ Better(g[i - 1], interfaces[i])
                                 THEN interfaces[i] ELSE g[i - 1]
    BY <1>3, <2>2, <2>3 DEF Loop
  <2>6. Rec(g)
    BY <2>2, <2>4, <2>5 DEF Loop
  <2> QED BY <2>6
<1> DEFINE best == CHOOSE g : Rec(g)
<1>5. Rec(best)
  BY <1>4
<1>6. FindFirst(key, version) = best[n]
  BY DEF FindFirst
<1>7. best[0] = <<>> /\ \A i \in 1..n : best[i] =
        IF Matches(interfaces[i], key, version) /\ Better(best[i - 1], interfaces[i])
          THEN interfaces[i] ELSE best[i - 1]
  <2> HIDE DEF best, n
  <2>1. 0 \in 0..n /\ \A i \in 1..n : i \in 0..n /\ i # 0
    BY <1>1
  <2> QED BY <1>5, <2>1
<1> HIDE DEF best
<1> QED BY <1>6, <1>7

\* The loop of find_interface().
LEMMA FindInterfaceLoop ==
    ASSUME RegistryTypes, NEW key, NEW version, NEW max
    PROVE  \E found : /\ FindInterface(key, version, max) = found[Len(interfaces)]
                      /\ found[0] = <<>>
                      /\ \A i \in 1..Len(interfaces) : found[i] =
                            IF Matches(interfaces[i], key, version) /\ Len(found[i - 1]) < max
                              THEN Append(found[i - 1], interfaces[i]) ELSE found[i - 1]
<1> DEFINE n == Len(interfaces)
           S == Seq(Bindings)
           step == [p \in S \X (1..n) |->
                      IF Matches(interfaces[p[2]], key, version) /\ Len(p[1]) < max
                        THEN Append(p[1], interfaces[p[2]]) ELSE p[1]]
           Rec(g) == g = [i \in 0..n |->
                      IF i = 0 THEN <<>>
                      ELSE IF Matches(interfaces[i], key, version) /\ Len(g[i - 1]) < max
                             THEN Append(g[i - 1], interfaces[i]) ELSE g[i - 1]]
<1>1. n \in Nat /\ \A i \in 1..n : interfaces[i] \in Bindings
  BY ElementOfSeq, LenProperties DEF RegistryTypes
<1>2. step \in [S \X (1..n) -> S]
  <2>1. \A v \in S, b \in Bindings : Append(v, b) \in S
    BY AppendProperties
  <2> HIDE DEF n, S
  <2> QED BY <1>1, <2>1
<1>3. \A v \in S, i \in 1..n : step[<<v, i>>] =
        IF Matches(interfaces[i], key, version) /\ Len(v) < max
          THEN Append(v, interfaces[i]) ELSE v
  <2> HIDE DEF n, S
  <2> QED OBVIOUS
<1>4. \E g : Rec(g)
  <2> HIDE DEF step
  <2>1. <<>> \in S
    BY EmptySeq
  <2> HIDE DEF S, n
  <2>2. PICK g : Loop(g, S, <<>>, n, step)
    BY <1>1, <1>2, <2>1, LoopExists
  <2>3. \A i \in 1..n : i \in 0..n /\ i # 0 /\ i - 1 \in 0..n /\ g[i - 1] \in S
    BY <1>1, <2>2 DEF Loop
  <2>4. \A i \in 0..n : i # 0 => i \in 1..n
    BY <1>1
  <2>5. \A i \in 1..n : g[i] = IF Matches(interfaces[i], key, version) /\ Len(g[i - 1]) < max
                                 THEN Append(g[i - 1], interfaces[i]) ELSE g[i - 1]
    BY <1>3, <2>2, <2>3 DEF Loop
  <2>6. Rec(g)
    BY <2>2, <2>4, <2>5 DEF Loop
  <2> QED BY <2>6
<1> DEFINE found == CHOOSE g : Rec(g)
<1>5. Rec(found)
  BY <1>4
<1>6. FindInterface(key, version, max) = found[n]
  BY DEF FindInterface
<1>7. found[0] = <<>> /\ \A i \in 1..n : found[i] =
        IF Matches(interfaces[i], key, version) /\ Len(found[i - 1]) < max
          THEN Append(found[i - 1], interfaces[i]) ELSE found[i - 1]
  <2> HIDE DEF found, n
  <2>1. 0 \in 0..n /\ \A i \in 1..n : i \in 0..n /\ i # 0
    BY <1>1
  <2> QED BY <1>5, <2>1
<1> HIDE DEF found
<1> QED BY <1>6, <1>7

\* The array holds what the registered modules offer, each offer once.
LEMMA ArrayIsOffers ==
    ASSUME RegistryInv
    PROVE  /\ \A key, version, b : b \in Offers(key, version) <=>
                  \E i \in 1..Len(interfaces) : b = interfaces[i] /\ Matches(b, key, version)
           /\ \A i, j \in 1..Len(interfaces) : interfaces[i] = interfaces[j] => i = j
<1> USE DEF RegistryInv
<1> DEFINE n == Len(interfaces)
<1>1. n \in Nat
  BY LenProperties DEF RegistryTypes
<1>2. ASSUME NEW s \in Slots, Used(s)
      PROVE  LET m == slots[s].control
                 E == Manifest[m].entries
             IN  /\ m \in Registered /\ m \in Controls /\ DOMAIN E = 1..slots[s].count
                 /\ \A o \in 1..slots[s].count :
                      /\ slots[s].begin + o \in 1..n
                      /\ interfaces[slots[s].begin + o] = Binding(m, id[m], E[o])
  <2>1. PICK m \in Controls, b \in Nat, c \in Nat :
          m = slots[s].control /\ b = slots[s].begin /\ c = slots[s].count
    BY <1>2 DEF RegistryTypes, Used
  <2>2. m \in Registered
    BY <2>1 DEF Registered
  <2>3. DOMAIN Manifest[m].entries = 1..Len(Manifest[m].entries)
    BY BindingsAreSeq
  <2>4. /\ c = Len(Manifest[m].entries) /\ b + c <= n
        /\ \A o \in 1..c : interfaces[b + o] = Binding(m, id[m], Manifest[m].entries[o])
    BY <1>2, <2>1 DEF Piece
  <2>5. \A o \in 1..c : b + o \in 1..n
    <3> HIDE DEF n
    <3> QED BY <1>1, <2>4
  <2> HIDE DEF n
  <2> QED BY <2>1, <2>2, <2>3, <2>4, <2>5
<1>3. ASSUME NEW i \in 1..n
      PROVE  \E s \in Slots : Used(s) /\ \E o \in 1..slots[s].count : i = slots[s].begin + o
  <2>1. PICK s \in Slots :
          Used(s) /\ slots[s].begin < i /\ i <= slots[s].begin + slots[s].count
    BY DEF ArrayInOrder
  <2>2. PICK b \in Nat, c \in Nat : b = slots[s].begin /\ c = slots[s].count
    BY DEF RegistryTypes
  <2>3. i - b \in 1..c /\ i = b + (i - b)
    BY <1>1, <2>1, <2>2
  <2> QED BY <2>1, <2>2, <2>3
<1>4. ASSUME NEW key, NEW version, NEW b, b \in Offers(key, version)
      PROVE  \E i \in 1..n : b = interfaces[i] /\ Matches(b, key, version)
  <2>1. PICK m \in Registered : b \in ToSet(BindingsOf(m)) /\ Matches(b, key, version)
    BY <1>4 DEF Offers
  <2>2. PICK s \in Slots : slots[s].control = m /\ Used(s)
    BY ControlsAssumption DEF Registered, Used
  <2>3. PICK o \in DOMAIN Manifest[m].entries : b = Binding(m, id[m], Manifest[m].entries[o])
    BY <2>1 DEF ToSet, BindingsOf
  <2>4. o \in 1..slots[s].count
    BY <1>2, <2>2, <2>3
  <2>5. b = interfaces[slots[s].begin + o] /\ slots[s].begin + o \in 1..n
    BY <1>2, <2>2, <2>3, <2>4
  <2> QED BY <2>1, <2>5
<1>5. ASSUME NEW key, NEW version, NEW i \in 1..n, Matches(interfaces[i], key, version)
      PROVE  interfaces[i] \in Offers(key, version)
  <2>1. PICK s \in Slots : Used(s) /\ \E o \in 1..slots[s].count : i = slots[s].begin + o
    BY <1>3
  <2>2. PICK o \in 1..slots[s].count : i = slots[s].begin + o
    BY <2>1
  <2> DEFINE m == slots[s].control
  <2>3. /\ m \in Registered /\ o \in DOMAIN Manifest[m].entries
        /\ interfaces[i] = Binding(m, id[m], Manifest[m].entries[o])
    BY <1>2, <2>1, <2>2
  <2> HIDE DEF m
  <2>4. interfaces[i] \in ToSet(BindingsOf(m))
    BY <2>3 DEF ToSet, BindingsOf
  <2> QED BY <1>5, <2>3, <2>4 DEF Offers
<1>6. ASSUME NEW i \in 1..n, NEW j \in 1..n, interfaces[i] = interfaces[j]
      PROVE  i = j
  <2>1. PICK s \in Slots : Used(s) /\ \E o \in 1..slots[s].count : i = slots[s].begin + o
    BY <1>3
  <2>2. PICK o \in 1..slots[s].count : i = slots[s].begin + o
    BY <2>1
  <2>3. PICK t \in Slots : Used(t) /\ \E p \in 1..slots[t].count : j = slots[t].begin + p
    BY <1>3
  <2>4. PICK p \in 1..slots[t].count : j = slots[t].begin + p
    BY <2>3
  <2>5. interfaces[i].control = slots[s].control /\ interfaces[j].control = slots[t].control
    <3>1. interfaces[i] = Binding(slots[s].control, id[slots[s].control],
                                  Manifest[slots[s].control].entries[o])
      BY <1>2, <2>1, <2>2
    <3>2. interfaces[j] = Binding(slots[t].control, id[slots[t].control],
                                  Manifest[slots[t].control].entries[p])
      BY <1>2, <2>3, <2>4
    <3> QED BY ONLY <3>1, <3>2 DEF Binding
  <2>6. s = t
    BY <1>6, <2>1, <2>3, <2>5 DEF ModulesOnce
  <2> DEFINE m == slots[s].control
             E == Manifest[m].entries
  <2>7. /\ Binding(m, id[m], E[o]) = Binding(m, id[m], E[p]) /\ m \in Registered
        /\ m \in Controls /\ o \in DOMAIN E /\ p \in DOMAIN E
    BY <1>2, <1>6, <2>1, <2>2, <2>4, <2>6
  <2>8. E[o] \in [key : Keys, version : Versions] /\ E[p] \in [key : Keys, version : Versions]
    <3> HIDE DEF m
    <3>1. E \in Seq([key : Keys, version : Versions])
      BY <2>7, ManifestAssumption
    <3>2. DOMAIN E = 1..Len(E)
      BY <3>1, LenProperties
    <3> QED BY <2>7, <3>1, <3>2, ElementOfSeq
  <2>9. E[o].key = E[p].key /\ E[o].version = E[p].version
    BY <2>7 DEF Binding
  <2>10. E[o] = E[p]
    BY <2>8, <2>9
  <2>11. o = p
    BY <2>7, <2>10 DEF ArrayInOrder, Duplicates, IsInjective
  <2> QED BY <2>2, <2>4, <2>6, <2>11
<1> QED BY <1>4, <1>5, <1>6

\* find_first(): by induction over the elements it has seen.
LEMMA FindFirstCorrect ==
    ASSUME RegistryInv, NEW key \in Keys, NEW version \in Versions \union {0}
    PROVE  LET offers == Offers(key, version)
               first  == FindFirst(key, version)
           IN  IF offers = {} THEN first = <<>>
               ELSE /\ first \in offers
                    /\ \A b \in offers :
                         \/ b.version < first.version
                         \/ b.version = first.version /\ b.module <= first.module
<1> DEFINE n == Len(interfaces)
           M(i) == Matches(interfaces[i], key, version)
<1>1. n \in Nat /\ \A i \in 1..n : interfaces[i] \in Bindings
  BY ElementOfSeq, LenProperties DEF RegistryInv, RegistryTypes
<1>2. \A b \in Bindings : b.version \in Nat /\ b.module \in Nat /\ b # <<>>
  <2>1. ASSUME NEW b \in Bindings
        PROVE  b # <<>>
    <3>1. "key" \in DOMAIN b
      BY DEF Bindings
    <3> QED BY <3>1
  <2> QED BY <2>1, VersionsAssumption DEF Bindings
<1>3. PICK best : /\ FindFirst(key, version) = best[n] /\ best[0] = <<>>
                  /\ \A i \in 1..n : best[i] =
                       IF M(i) /\ Better(best[i - 1], interfaces[i])
                         THEN interfaces[i] ELSE best[i - 1]
  BY FindFirstLoop DEF RegistryInv
<1> DEFINE Least(k, j) == /\ M(j) /\ best[k] = interfaces[j]
                          /\ \A i \in 1..k : M(i) =>
                               \/ interfaces[i].version < interfaces[j].version
                               \/ interfaces[i].version = interfaces[j].version /\ i <= j
           Seen(k) == \/ best[k] = <<>> /\ \A i \in 1..k : ~M(i)
                      \/ \E j \in 1..k : Least(k, j)
           P == {k \in Nat : k <= n => Seen(k)}
<1> HIDE DEF n, M
<1>4. 0 \in P
  BY <1>3
<1>5. ASSUME NEW k \in Nat, k \in P
      PROVE  k + 1 \in P
  <2>1. SUFFICES ASSUME k + 1 <= n
                 PROVE  Seen(k + 1)
    OBVIOUS
  <2>2. /\ k + 1 \in 1..n /\ (k + 1) - 1 = k /\ k <= n /\ k + 1 \in 1..(k + 1)
        /\ \A i \in 1..(k + 1) : i = k + 1 \/ i \in 1..k
        /\ \A i \in 1..k : i \in 1..(k + 1) /\ i \in 1..n /\ i <= k + 1 /\ i <= n
    BY <1>1, <2>1
  <2>3. best[k + 1] = IF M(k + 1) /\ Better(best[k], interfaces[k + 1])
                        THEN interfaces[k + 1] ELSE best[k]
    BY <1>3, <2>2
  <2>4. Seen(k)
    BY <1>5, <2>2
  <2>5. \A i \in 1..(k + 1) : interfaces[i] \in Bindings /\ interfaces[i].version \in Nat
    BY <1>1, <1>2, <2>2
  <2>6. CASE ~M(k + 1)
    <3>1. best[k + 1] = best[k]
      BY <2>3, <2>6
    <3>2. CASE best[k] = <<>> /\ \A i \in 1..k : ~M(i)
      BY <2>2, <2>6, <3>1, <3>2
    <3>3. ASSUME NEW j \in 1..k, Least(k, j)
          PROVE  Seen(k + 1)
      <4>1. Least(k + 1, j)
        BY <2>2, <2>6, <3>1, <3>3
      <4> QED BY <2>2, <4>1
    <3> QED BY <2>4, <3>2, <3>3
  <2>7. CASE M(k + 1) /\ best[k] = <<>> /\ \A i \in 1..k : ~M(i)
    <3>1. best[k + 1] = interfaces[k + 1]
      BY <2>3, <2>7 DEF Better
    <3>2. Least(k + 1, k + 1)
      BY <2>2, <2>7, <3>1
    <3> QED BY <2>2, <3>2
  <2>8. ASSUME NEW j \in 1..k, Least(k, j), M(k + 1)
        PROVE  Seen(k + 1)
    <3>1. PICK v \in Nat, w \in Nat : v = interfaces[j].version /\ w = interfaces[k + 1].version
      BY <2>2, <2>5
    <3>2. Better(best[k], interfaces[k + 1]) <=> w >= v
      BY <1>2, <2>2, <2>5, <2>8, <3>1 DEF Better
    <3>3. CASE w >= v
      <4>1. best[k + 1] = interfaces[k + 1]
        BY <2>3, <2>8, <3>2, <3>3
      <4>2. ASSUME NEW i \in 1..(k + 1), M(i)
            PROVE  \/ interfaces[i].version < w
                   \/ interfaces[i].version = w /\ i <= k + 1
        <5>1. CASE i = k + 1
          BY <3>1, <5>1
        <5>2. CASE i \in 1..k
          <6>1. PICK u \in Nat : u = interfaces[i].version
            BY <2>5
          <6>2. u < v \/ u = v
            BY <2>8, <3>1, <4>2, <5>2, <6>1
          <6>3. u < w \/ u = w
            BY ONLY <3>3, <6>2, u \in Nat, v \in Nat, w \in Nat
          <6> QED BY <2>2, <5>2, <6>1, <6>3
        <5> QED BY <2>2, <5>1, <5>2
      <4>3. Least(k + 1, k + 1)
        BY <2>8, <3>1, <4>1, <4>2
      <4> QED BY <2>2, <4>3
    <3>4. CASE ~(w >= v)
      <4>1. best[k + 1] = best[k] /\ w < v
        BY <2>3, <3>2, <3>4
      <4>2. Least(k + 1, j)
        BY <2>2, <2>8, <3>1, <4>1
      <4> QED BY <2>2, <4>2
    <3> QED BY <3>3, <3>4
  <2> QED BY <2>4, <2>6, <2>7, <2>8
<1>6. Seen(n)
  <2>1. n \in P
    <3> HIDE DEF P
    <3>1. Nat \subseteq P
      BY <1>4, <1>5, NumbersByInduction
    <3> QED BY <1>1, <3>1
  <2> QED BY <1>1, <2>1
<1>7. \A b : b \in Offers(key, version) <=> \E i \in 1..n : b = interfaces[i] /\ M(i)
  BY ArrayIsOffers DEF n, M
<1>8. CASE best[n] = <<>> /\ \A i \in 1..n : ~M(i)
  <2>1. Offers(key, version) = {}
    BY <1>7, <1>8
  <2> QED BY <1>3, <1>8, <2>1
<1>9. ASSUME NEW j \in 1..n, Least(n, j)
      PROVE  /\ best[n] \in Offers(key, version)
             /\ \A b \in Offers(key, version) :
                  \/ b.version < best[n].version
                  \/ b.version = best[n].version /\ b.module <= best[n].module
  <2>1. best[n] \in Offers(key, version)
    BY <1>7, <1>9
  <2>2. ASSUME NEW b \in Offers(key, version)
        PROVE  \/ b.version < best[n].version
               \/ b.version = best[n].version /\ b.module <= best[n].module
    <3>1. PICK i \in 1..n : b = interfaces[i] /\ M(i)
      BY <1>7
    <3>2. i <= j => interfaces[i].module <= interfaces[j].module
      BY DEF n, RegistryInv, ArrayInOrder
    <3> QED BY <1>9, <3>1, <3>2
  <2> QED BY <2>1, <2>2
<1> QED BY <1>3, <1>6, <1>8, <1>9

\* find_interface(): likewise.
LEMMA FindInterfaceCorrect ==
    ASSUME RegistryInv, NEW key \in Keys, NEW version \in Versions \union {0}, NEW max \in Nat
    PROVE  LET found == FindInterface(key, version, max) IN
           /\ Len(found) <= max
           /\ ToSet(found) \subseteq Offers(key, version)
           /\ Len(found) < max => Offers(key, version) \subseteq ToSet(found)
           /\ IsInjective(found)
           /\ \A i, j \in DOMAIN found : i < j => found[i].module <= found[j].module
<1> DEFINE n == Len(interfaces)
           M(i) == Matches(interfaces[i], key, version)
<1>1. n \in Nat /\ \A i \in 1..n : interfaces[i] \in Bindings
  BY ElementOfSeq, LenProperties DEF RegistryInv, RegistryTypes
<1>2. PICK found : /\ FindInterface(key, version, max) = found[n] /\ found[0] = <<>>
                   /\ \A i \in 1..n : found[i] =
                        IF M(i) /\ Len(found[i - 1]) < max
                          THEN Append(found[i - 1], interfaces[i]) ELSE found[i - 1]
  BY FindInterfaceLoop DEF RegistryInv
<1> DEFINE F(k) == found[k]
           Holds(k) ==
             /\ F(k) \in Seq(Bindings) /\ Len(F(k)) <= max
             /\ \A e \in 1..Len(F(k)) : \E i \in 1..k : M(i) /\ F(k)[e] = interfaces[i]
             /\ Len(F(k)) < max =>
                  \A i \in 1..k : M(i) => \E e \in 1..Len(F(k)) : F(k)[e] = interfaces[i]
             /\ \A d, e \in 1..Len(F(k)) : F(k)[d] = F(k)[e] => d = e
             /\ \A d, e \in 1..Len(F(k)) : d < e => F(k)[d].module <= F(k)[e].module
           P == {k \in Nat : k <= n => Holds(k)}
<1>3. /\ \A i, j \in 1..n : interfaces[i] = interfaces[j] => i = j
      /\ \A i, j \in 1..n : i <= j => interfaces[i].module <= interfaces[j].module
  BY ArrayIsOffers DEF RegistryInv, ArrayInOrder
<1> HIDE DEF n, M
<1>4. 0 \in P
  <2>1. F(0) \in Seq(Bindings) /\ Len(F(0)) = 0
    BY <1>2, EmptySeq
  <2> HIDE DEF F
  <2> QED BY <2>1
<1>5. ASSUME NEW k \in Nat, k \in P
      PROVE  k + 1 \in P
  <2>1. SUFFICES ASSUME k + 1 <= n
                 PROVE  Holds(k + 1)
    OBVIOUS
  <2>2. /\ k + 1 \in 1..n /\ (k + 1) - 1 = k /\ k <= n /\ k + 1 \in 1..(k + 1)
        /\ \A i \in 1..(k + 1) : i = k + 1 \/ i \in 1..k
        /\ \A i \in 1..k : i \in 1..(k + 1) /\ i \in 1..n /\ i <= k + 1 /\ i # k + 1
    BY <1>1, <2>1
  <2>3. F(k + 1) = IF M(k + 1) /\ Len(F(k)) < max
                     THEN Append(F(k), interfaces[k + 1]) ELSE F(k)
    BY <1>2, <2>2
  <2>4. Holds(k)
    BY <1>5, <2>2
  <2> HIDE DEF F
  <2>5. Len(F(k)) \in Nat
    BY <2>4, LenProperties
  <2>6. CASE ~(M(k + 1) /\ Len(F(k)) < max)
    <3>1. F(k + 1) = F(k)
      BY <2>3, <2>6
    <3>2. Len(F(k)) < max =>
            \A i \in 1..(k + 1) : M(i) => \E e \in 1..Len(F(k)) : F(k)[e] = interfaces[i]
      BY <2>2, <2>4, <2>6
    <3>3. \A e \in 1..Len(F(k)) : \E i \in 1..(k + 1) : M(i) /\ F(k)[e] = interfaces[i]
      BY <2>2, <2>4
    <3> QED BY <2>4, <3>1, <3>2, <3>3
  <2>7. CASE M(k + 1) /\ Len(F(k)) < max
    <3> DEFINE l == Len(F(k))
               x == interfaces[k + 1]
    <3>1. F(k + 1) = Append(F(k), x) /\ x \in Bindings
      BY <1>1, <2>2, <2>3, <2>7
    <3>2. /\ F(k + 1) \in Seq(Bindings) /\ Len(F(k + 1)) = l + 1
          /\ \A e \in 1..l : F(k + 1)[e] = F(k)[e]
          /\ F(k + 1)[l + 1] = x
      <4>1. F(k) \in Seq(Bindings)
        BY <2>4
      <4> HIDE DEF x
      <4>2. /\ Append(F(k), x) \in Seq(Bindings) /\ Len(Append(F(k), x)) = Len(F(k)) + 1
            /\ \A e \in 1..Len(F(k)) : Append(F(k), x)[e] = F(k)[e]
            /\ Append(F(k), x)[Len(F(k)) + 1] = x
        BY ONLY <3>1, <4>1, AppendProperties
      <4> QED BY <3>1, <4>2
    <3>3. /\ l \in Nat /\ l < max /\ l + 1 <= max /\ l + 1 \in 1..(l + 1)
          /\ \A e \in 1..(l + 1) : e = l + 1 \/ e \in 1..l
          /\ \A e \in 1..l : e \in 1..(l + 1) /\ e < l + 1 /\ ~(l + 1 < e)
      BY <2>5, <2>7
    <3>4. \A e \in 1..l : \E i \in 1..k : M(i) /\ F(k)[e] = interfaces[i]
      BY <2>4
    <3>5. \A e \in 1..l : F(k)[e] # x /\ F(k)[e].module <= x.module
      BY <1>3, <2>2, <3>4
    <3> HIDE DEF l, x
    <3>6. \A e \in 1..(l + 1) : \E i \in 1..(k + 1) : M(i) /\ F(k + 1)[e] = interfaces[i]
      <4>1. M(k + 1) /\ F(k + 1)[l + 1] = interfaces[k + 1]
        BY <2>7, <3>2 DEF x
      <4> QED BY <2>2, <3>2, <3>3, <3>4, <4>1
    <3>7. \A i \in 1..(k + 1) : M(i) => \E e \in 1..(l + 1) : F(k + 1)[e] = interfaces[i]
      <4>1. F(k + 1)[l + 1] = interfaces[k + 1]
        BY <3>2 DEF x
      <4>2. \A i \in 1..k : M(i) => \E e \in 1..l : F(k)[e] = interfaces[i]
        BY <2>4, <2>7 DEF l
      <4> QED BY <2>2, <3>2, <3>3, <4>1, <4>2
    <3>8. \A d, e \in 1..(l + 1) : F(k + 1)[d] = F(k + 1)[e] => d = e
      <4>1. \A d, e \in 1..l : F(k)[d] = F(k)[e] => d = e
        BY <2>4 DEF l
      <4> QED BY <3>2, <3>3, <3>5, <4>1
    <3>9. \A d, e \in 1..(l + 1) : d < e => F(k + 1)[d].module <= F(k + 1)[e].module
      <4>1. \A d, e \in 1..l : d < e => F(k)[d].module <= F(k)[e].module
        BY <2>4 DEF l
      <4>2. \A d, e \in 1..(l + 1) : d < e => d \in 1..l
        BY <3>3
      <4> QED BY <3>2, <3>3, <3>5, <4>1, <4>2
    <3> QED BY <3>2, <3>3, <3>6, <3>7, <3>8, <3>9
  <2> QED BY <2>6, <2>7
<1>6. Holds(n)
  <2>1. n \in P
    <3> HIDE DEF P
    <3>1. Nat \subseteq P
      BY <1>4, <1>5, NumbersByInduction
    <3> QED BY <1>1, <3>1
  <2> QED BY <1>1, <2>1
<1>7. \A b : b \in Offers(key, version) <=> \E i \in 1..n : b = interfaces[i] /\ M(i)
  BY ArrayIsOffers DEF n, M
<1> DEFINE answer == F(n)
<1>8. answer = FindInterface(key, version, max) /\ DOMAIN answer = 1..Len(answer)
  BY <1>2, <1>6, LenProperties
<1>9. /\ ToSet(answer) \subseteq Offers(key, version)
      /\ Len(answer) < max => Offers(key, version) \subseteq ToSet(answer)
  <2> HIDE DEF F
  <2>1. \A b : b \in ToSet(answer) <=> \E e \in 1..Len(answer) : b = answer[e]
    BY <1>8 DEF ToSet
  <2>2. /\ \A e \in 1..Len(answer) : \E i \in 1..n : M(i) /\ answer[e] = interfaces[i]
        /\ Len(answer) < max =>
             \A i \in 1..n : M(i) => \E e \in 1..Len(answer) : answer[e] = interfaces[i]
    BY <1>6
  <2> HIDE DEF answer
  <2>3. ASSUME NEW b \in ToSet(answer)
        PROVE  b \in Offers(key, version)
    BY <1>7, <2>1, <2>2
  <2>4. ASSUME Len(answer) < max, NEW b \in Offers(key, version)
        PROVE  b \in ToSet(answer)
    BY <1>7, <2>1, <2>2, <2>4
  <2> QED BY <2>3, <2>4
<1>10. /\ Len(answer) <= max /\ IsInjective(answer)
       /\ \A i, j \in DOMAIN answer : i < j => answer[i].module <= answer[j].module
  <2> HIDE DEF F
  <2> QED BY <1>6, <1>8 DEF IsInjective
<1> HIDE DEF answer
<1> QED BY <1>8, <1>9, <1>10

\* Both lookups answer with what the registered modules offer, the newest first
\* and in registration order, however often the array was compacted.
THEOREM LookupsStayExact == Spec => []LookupsExact
<1>1. Init => RegistryInv
  BY RegistryInit
<1>2. RegistryInv /\ [Next]_vars => RegistryInv'
  BY RegistryStep
<1>3. RegistryInv => LookupsExact
  <2> SUFFICES ASSUME RegistryInv PROVE LookupsExact
    OBVIOUS
  <2>1. FindFirstIsNewest
    BY FindFirstCorrect DEF FindFirstIsNewest
  <2>2. \A max \in 0..InterfaceCapacity : max \in Nat
    BY CapacityAssumption
  <2>3. FindInterfaceIsComplete
    BY <2>2, FindInterfaceCorrect DEF FindInterfaceIsComplete
  <2> QED BY <2>1, <2>3 DEF LookupsExact
<1> QED BY <1>1, <1>2, <1>3, PTL DEF Spec

-----------------------------------------------------------------------------
(***************************************************************************)
(* Clients.                                                                *)
(***************************************************************************)
\* A control is loaded and identified once, and stays registered while a client
\* holds a binding of it.
LEMMA ControlsStep ==
    ASSUME RegistryInv, [Next]_vars, NEW m \in Controls
    PROVE  /\ state[m] # "loading" => state'[m] # "loading" /\ id'[m] = id[m]
           /\ m \in Registered /\ Holders(m) # {} => m \in Registered'
<1> DEFINE Goal == /\ state[m] # "loading" => state'[m] # "loading" /\ id'[m] = id[m]
                   /\ m \in Registered /\ Holders(m) # {} => m \in Registered'
           live == {"active", "draining"}
<1>1. RegistryInv'
  BY RegistryStep
<1>2. (m \in Registered <=> state[m] \in live) /\ (m \in Registered' <=> state'[m] \in live)
  BY <1>1 DEF RegistryInv, ModulesOnce
<1>3. state \in [Controls -> {"loading", "active", "draining", "unloaded"}] /\ id \in [Controls -> Nat]
  BY DEF RegistryInv, RegistryTypes
<1>4. CASE UNCHANGED <<state, id>>
  BY <1>2, <1>4
<1>5. ASSUME NEW o \in Controls, register_module(o)
      PROVE  Goal
  <2>1. CASE status' = "ok"
    <3>1. /\ state[o] = "loading" /\ state' = [state EXCEPT ![o] = "active"]
          /\ id' = [id EXCEPT ![o] = lastId + 1]
      BY <1>5, <2>1, RegisterEffect
    <3> QED BY <1>2, <1>3, <3>1
  <2>2. CASE status' # "ok"
    BY <1>4, <1>5, <2>2 DEF register_module
  <2> QED BY <2>1, <2>2
<1>6. ASSUME NEW i \in 0..lastId, BeginUnload(i)
      PROVE  Goal
  <2>1. PICK o : state' = [state EXCEPT ![o] = "draining"] /\ id' = id
                 /\ o \in Registered
    <3>1. PICK s \in Slots : /\ Used(s)
                             /\ state' = [state EXCEPT ![slots[s].control] = "draining"]
      BY <1>6 DEF BeginUnload, FindSlot
    <3>2. slots[s].control \in Registered
      BY <3>1 DEF Registered, RegistryInv, RegistryTypes, Used
    <3> QED BY <1>6, <3>1, <3>2 DEF BeginUnload
  <2>2. o \in Controls /\ state[o] \in live
    BY <2>1 DEF Registered, RegistryInv, ModulesOnce
  <2> QED BY <1>2, <1>3, <2>1, <2>2
<1>7. CASE Unregister
  <2>1. state' = [state EXCEPT ![waiting] = "unloaded"] /\ id' = id /\ Holders(waiting) = {}
    BY <1>7 DEF Unregister, Idle
  <2> QED BY <1>2, <1>3, <2>1
<1>8. CASE Next
  <2>1. CASE \E o \in Controls : Register(o) \/ Discover(o)
    BY <1>5, <2>1 DEF Register, Discover
  <2>2. CASE \E o \in Controls : DiscoverNothing(o)
    BY <1>4, <2>2 DEF DiscoverNothing, registryVars
  <2>3. CASE \E i \in 0..lastId : UnregisterUnknown(i) \/ BeginUnload(i)
    BY <1>4, <1>6, <2>3 DEF UnregisterUnknown, registryVars
  <2>4. CASE Busy
    BY <1>4, <2>4 DEF Busy, registryVars
  <2>5. CASE \E c \in Clients, key \in Keys, version \in Versions \union {0} :
               Lookup(c, key, version)
    BY <1>4, <2>5 DEF Lookup, registryVars
  <2>6. CASE \E c \in Clients : BindInterface(c) \/ Unbind(c)
    BY <1>4, <2>6 DEF BindInterface, Unbind, registryVars
  <2> QED BY <1>7, <1>8, <2>1, <2>2, <2>3, <2>4, <2>5, <2>6 DEF Next
<1>9. CASE UNCHANGED vars
  BY <1>4, <1>9 DEF vars
<1> QED BY <1>8, <1>9

LEMMA BindingKept ==
    ASSUME RegistryInv, [Next]_vars, NEW b, FromRegistered(b)
    PROVE  /\ b.control \in Controls /\ state'[b.control] # "loading"
           /\ b \in ToSet(BindingsOf(b.control))'
<1>1. PICK m \in Controls : m = b.control
  BY DEF FromRegistered
<1>2. state'[m] # "loading" /\ id'[m] = id[m] /\ b \in ToSet(BindingsOf(m))
  BY <1>1, ControlsStep DEF FromRegistered
<1>3. PICK i \in DOMAIN Manifest[m].entries : b = Binding(m, id[m], Manifest[m].entries[i])
  BY <1>2 DEF ToSet, BindingsOf
<1>4. b \in ToSet(BindingsOf(m))'
  BY <1>2, <1>3 DEF ToSet, BindingsOf
<1>5. b \in ToSet(BindingsOf(b.control))'
  BY <1>1, <1>4 DEF BindingsOf
<1> QED BY <1>1, <1>2, <1>5

\* What find_first() returns belongs to a registered module.
LEMMA FoundIsRegistered ==
    ASSUME RegistryInv, NEW key \in Keys, NEW version \in Versions \union {0}
    PROVE  \/ FindFirst(key, version) = <<>>
           \/ FindFirst(key, version) \in Bindings /\ FromRegistered(FindFirst(key, version))
<1> SUFFICES ASSUME FindFirst(key, version) # <<>>
             PROVE  FindFirst(key, version) \in Bindings /\ FromRegistered(FindFirst(key, version))
  OBVIOUS
<1>1. PICK b : b = FindFirst(key, version)
  OBVIOUS
<1>2. b \in Offers(key, version)
  BY <1>1, FindFirstCorrect
<1>3. b \in Bindings
  <2>1. \A i \in 1..Len(interfaces) : interfaces[i] \in Bindings
    BY ElementOfSeq DEF RegistryInv, RegistryTypes
  <2> QED BY <1>2, <2>1, ArrayIsOffers
<1>4. PICK m \in Registered : b \in ToSet(BindingsOf(m))
  BY <1>2 DEF Offers
<1>5. b.control = m
  <2>1. PICK i \in DOMAIN Manifest[m].entries : b = Binding(m, id[m], Manifest[m].entries[i])
    BY <1>4 DEF ToSet, BindingsOf
  <2> QED BY ONLY <2>1 DEF Binding
<1>6. m \in Controls /\ state[m] # "loading"
  BY DEF Registered, RegistryInv, ModulesOnce
<1>7. FromRegistered(b)
  BY <1>4, <1>5, <1>6 DEF FromRegistered
<1> QED BY <1>1, <1>3, <1>7

LEMMA ClientsStep == RegistryInv /\ ClientsInv /\ [Next]_vars => ClientsInv'
<1> SUFFICES ASSUME RegistryInv, ClientsInv, [Next]_vars PROVE ClientsInv'
  OBVIOUS
<1>1. \A b : FromRegistered(b) => FromRegistered(b)'
  BY BindingKept DEF FromRegistered
<1>2. \A c \in Clients : bound[c] # <<>> =>
        /\ FromRegistered(bound[c]) /\ bound[c].control \in Registered
        /\ bound[c].control \in Registered'
  <2>1. ASSUME NEW c \in Clients, bound[c] # <<>>
        PROVE  bound[c].control \in Registered'
    <3>1. c \in Holders(bound[c].control) /\ bound[c].control \in Controls
      BY <2>1 DEF Holders, ClientsInv, FromRegistered
    <3> QED BY <2>1, <3>1, ControlsStep DEF ClientsInv
  <2> QED BY <2>1 DEF ClientsInv
<1>3. CASE UNCHANGED clientVars
  BY <1>1, <1>2, <1>3 DEF clientVars, ClientsInv
<1>4. ASSUME NEW c \in Clients, NEW key \in Keys, NEW version \in Versions \union {0},
             Lookup(c, key, version)
      PROVE  ClientsInv'
  <2>1. PICK b : b = FindFirst(key, version)
    OBVIOUS
  <2>2. b = <<>> \/ (b \in Bindings /\ FromRegistered(b))
    BY <2>1, FoundIsRegistered
  <2>3. seen' = [seen EXCEPT ![c] = b] /\ bound' = bound
    BY <1>4, <2>1 DEF Lookup
  <2>4. seen' \in [Clients -> Bindings \union {<<>>}]
    BY <2>2, <2>3 DEF ClientsInv
  <2>5. \A d \in Clients : seen'[d] # <<>> => FromRegistered(seen'[d])
    BY <2>2, <2>3 DEF ClientsInv
  <2> QED BY <1>1, <1>2, <2>3, <2>4, <2>5 DEF ClientsInv
<1>5. ASSUME NEW c \in Clients, BindInterface(c)
      PROVE  ClientsInv'
  <2>1. PICK b \in Bindings : b = seen[c]
    BY <1>5 DEF BindInterface, ClientsInv
  <2>2. bound' = [bound EXCEPT ![c] = b] /\ seen' = seen /\ state[b.control] = "active"
    BY <1>5, <2>1 DEF BindInterface
  <2>3. FromRegistered(b) /\ b.control \in Controls
    BY <1>5, <2>1 DEF BindInterface, ClientsInv, FromRegistered
  <2>4. b.control \in Registered'
    <3>1. b.control \in Registered
      BY <2>2, <2>3 DEF RegistryInv, ModulesOnce
    <3> QED BY <1>5, <3>1 DEF BindInterface, registryVars, Registered
  <2>5. \A d \in Clients : bound'[d] # <<>> =>
          FromRegistered(bound'[d]) /\ bound'[d].control \in Registered'
    BY <1>2, <2>2, <2>3, <2>4 DEF ClientsInv
  <2>6. bound' \in [Clients -> Bindings \union {<<>>}]
    BY <2>2 DEF ClientsInv
  <2> QED BY <1>1, <2>2, <2>5, <2>6 DEF ClientsInv
<1>6. ASSUME NEW c \in Clients, Unbind(c)
      PROVE  ClientsInv'
  <2>1. bound' = [bound EXCEPT ![c] = <<>>] /\ seen' = seen
    BY <1>6 DEF Unbind
  <2>2. bound' \in [Clients -> Bindings \union {<<>>}]
    BY <2>1 DEF ClientsInv
  <2>3. \A d \in Clients : bound'[d] # <<>> => bound'[d] = bound[d] /\ bound[d] # <<>>
    BY <2>1 DEF ClientsInv
  <2> QED BY <1>1, <1>2, <2>1, <2>2, <2>3 DEF ClientsInv
<1>7. CASE Next
  <2>1. CASE \E m \in Controls : Register(m) \/ DiscoverNothing(m) \/ Discover(m)
    BY <1>3, <2>1 DEF Register, DiscoverNothing, Discover, register_module
  <2>2. CASE \E i \in 0..lastId : UnregisterUnknown(i) \/ BeginUnload(i)
    BY <1>3, <2>2 DEF UnregisterUnknown, BeginUnload
  <2>3. CASE Busy \/ Unregister
    BY <1>3, <2>3 DEF Busy, Unregister
  <2> QED BY <1>4, <1>5, <1>6, <1>7, <2>1, <2>2, <2>3 DEF Next
<1>8. CASE UNCHANGED vars
  BY <1>3, <1>8 DEF vars, clientVars
<1> QED BY <1>7, <1>8

\* A binding under a lease names a registered module, under the instance id that it
\* was looked up with, however stale the copy it was bound from: unregister_module()
\* waits for the lease, and ids and controls are not used twice.
THEOREM BoundStaysLive == Spec => []BoundModulesLive
<1>1. Init => RegistryInv /\ ClientsInv
  BY RegistryInit DEF Init, ClientsInv
<1>2. RegistryInv /\ ClientsInv /\ [Next]_vars => RegistryInv' /\ ClientsInv'
  BY RegistryStep, ClientsStep
<1>3. RegistryInv /\ ClientsInv => BoundModulesLive
  <2> SUFFICES ASSUME RegistryInv, ClientsInv, NEW c \in Clients, bound[c] # <<>>
               PROVE  /\ bound[c].control \in Registered
                      /\ bound[c].module = id[bound[c].control]
                      /\ state[bound[c].control] \in {"active", "draining"}
                      /\ bound[c] \in ToSet(interfaces)
    BY DEF BoundModulesLive
  <2>1. PICK b : b = bound[c]
    OBVIOUS
  <2>2. PICK m \in Registered : m = b.control /\ m \in Controls /\ b \in ToSet(BindingsOf(m))
    BY <2>1 DEF ClientsInv, FromRegistered
  <2>3. b.module = id[m]
    <3>1. PICK i \in DOMAIN Manifest[m].entries : b = Binding(m, id[m], Manifest[m].entries[i])
      BY <2>2 DEF ToSet, BindingsOf
    <3> QED BY ONLY <3>1 DEF Binding
  <2>4. state[m] \in {"active", "draining"}
    BY <2>2 DEF RegistryInv, ModulesOnce
  <2>5. b \in Offers(b.key, 0)
    BY <2>2 DEF Offers, Matches
  <2>6. b \in ToSet(interfaces)
    <3>1. DOMAIN interfaces = 1..Len(interfaces)
      BY LenProperties DEF RegistryInv, RegistryTypes
    <3>2. \E i \in 1..Len(interfaces) : b = interfaces[i]
      BY <2>5, ArrayIsOffers
    <3> QED BY <3>1, <3>2 DEF ToSet
  <2> QED BY <2>1, <2>2, <2>3, <2>4, <2>6
<1> QED BY <1>1, <1>2, <1>3, PTL DEF Spec
=============================================================================
