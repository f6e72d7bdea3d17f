----------------------------- MODULE BenchIndex -----------------------------
(***************************************************************************)
(* The three index layouts that bench/ABIX/hashindex_build_bench.cpp       *)
(* compares and checks against each other before it times them: an explicit *)
(* empty marker (base), index plus one with a bulk clear (zero), and a     *)
(* generation stamp that makes clearing unnecessary (gen).  All three are  *)
(* rebuilt in place for one table after another.                           *)
(***************************************************************************)
EXTENDS NextPow2, Sequences, FiniteSets

CONSTANTS
    BenchTables, \* sequences of names
    BenchHash,   \* the hash of every name
    GenBits      \* the width of IndexGen::gen (32 in the code)

\* Tables in the range where count * 2 and next_pow2 do not wrap around.
ASSUME BenchAssumption ==
    /\ BenchHash \in [DOMAIN BenchHash -> Nat]
    /\ \A t \in BenchTables : t \in Seq(DOMAIN BenchHash) /\ 2 * Len(t) <= Pow2[30]

VARIABLES
    base, zero, \* sequences of [hash, index] and [hash, index_plus1]
    gen,        \* sequence of [hash, index, gen]
    stamp,      \* IndexGen::gen
    names       \* the table they were built for

benchVars == <<base, zero, gen, stamp, names>>

BenchInit == base = <<>> /\ zero = <<>> /\ gen = <<>> /\ stamp = 0 /\ names = <<>>

BenchCapacity(table) == next_pow2(2 * Len(table))

\* Where a probe of n slots is after d steps from hash, and how many steps it is to
\* the first of the stops, n if there is none.
Position(n, hash, d) == ((hash + d) % n) + 1
Steps(n, hash, stops) ==
    CHOOSE d \in 0..n : /\ d = n \/ Position(n, hash, d) \in stops
                       /\ \A e \in 0..(d - 1) : Position(n, hash, e) \notin stops

\* The loop of build(): each entry goes to the first slot that is free.
Inserted(slots, table, Free(_), Slot(_, _)) ==
    LET n == Len(slots)
        upto[i \in 0..Len(table)] ==
            IF i = 0 THEN slots
            ELSE LET hash == BenchHash[table[i]]
                     d == Steps(n, hash, {p \in 1..n : Free(upto[i - 1][p])})
                 IN [upto[i - 1] EXCEPT ![Position(n, hash, d)] = Slot(hash, i)]
    IN upto[Len(table)]

\* SKL_ABIX_HASHSLOT_EMPTY, which is no index; entries are numbered from 0.
EMPTY == -1
BaseFree(slot) == slot.index = EMPTY
BaseSlot(hash, i) == [hash |-> hash, index |-> i - 1]
ZeroFree(slot) == slot.index_plus1 = 0
ZeroSlot(hash, i) == [hash |-> hash, index_plus1 |-> i]
StampedSlots(n) == [k \in 1..n |-> [hash |-> 0, index |-> 0, gen |-> 0]]

BaseFilled(slots, table) == Inserted(slots, table, BaseFree, BaseSlot)
ZeroFilled(slots, table) == Inserted(slots, table, ZeroFree, ZeroSlot)
GenFilled(slots, now, table) ==
    LET Other(slot) == slot.gen # now
        Stamped(hash, i) == [hash |-> hash, index |-> i - 1, gen |-> now]
    IN Inserted(slots, table, Other, Stamped)

\* Mutation of NextGen: the wrapped stamp is used as it is.
NextGenWraps(slots) == <<slots, (stamp + 1) % 2^GenBits>>

\* ++gen; when it wraps to zero, the array is cleared and the stamp is 1.
NextGen(slots) ==
    IF (stamp + 1) % 2^GenBits = 0 THEN <<StampedSlots(Len(slots)), 1>>
    ELSE <<slots, stamp + 1>>

\* build() of all three; reset() when the capacity differs.
BuildIndexes(table) ==
    LET want == BenchCapacity(table)
        next == IF Len(gen) # want THEN <<StampedSlots(want), 1>> ELSE NextGen(gen)
    IN /\ base' = BaseFilled([k \in 1..want |-> BaseSlot(0, 0)], table)
       /\ zero' = ZeroFilled([k \in 1..want |-> ZeroSlot(0, 0)], table)
       /\ gen' = GenFilled(next[1], next[2], table)
       /\ stamp' = next[2]
       /\ names' = table

\* clear() of the generation index, which drops its array.
ClearGen ==
    /\ gen # <<>>
    /\ base' = <<>> /\ zero' = <<>> /\ gen' = <<>> /\ stamp' = 0 /\ names' = <<>>

BenchNext == ClearGen \/ \E table \in BenchTables : BuildIndexes(table)

BenchSpec == BenchInit /\ [][BenchNext]_benchVars
-----------------------------------------------------------------------------
\* lookup(): <<the entry, EMPTY for none, and the number of probes>>.
Lookup(slots, name, Free(_), Index(_)) ==
    LET n == Len(slots)
        hash == BenchHash[name]
        Own(slot) == slot.hash = hash /\ names[Index(slot) + 1] = name
        d == Steps(n, hash, {p \in 1..n : Free(slots[p]) \/ Own(slots[p])})
        slot == slots[Position(n, hash, d)]
    IN <<IF d = n \/ Free(slot) THEN EMPTY ELSE Index(slot), d + 1>>

LookupBase(name) == LET Own(slot) == slot.index IN Lookup(base, name, BaseFree, Own)

LookupZero(name) ==
    LET Less1(slot) == slot.index_plus1 - 1 IN Lookup(zero, name, ZeroFree, Less1)

\* A slot of an older generation ends the probe.
LookupGen(name) ==
    LET Other(slot) == slot.gen # stamp
        Own(slot) == slot.index
    IN Lookup(gen, name, Other, Own)

\* probes_and_mismatches() counts none: the three layouts find the same entry
\* in the same number of probes, for a name of the table and for any other,
\* however often the generation has wrapped.
LayoutsAgree ==
    base # <<>> => \A name \in DOMAIN BenchHash :
        /\ LookupZero(name) = LookupBase(name)
        /\ LookupGen(name) = LookupBase(name)
        /\ LookupBase(name)[1] = EMPTY <=> \A i \in 1..Len(names) : names[i] # name

\* The inductive invariant: the three arrays hold the same entries in the same
\* slots, these are the entries of the table, and each can be reached from its hash.
BaseSlots == [hash : Nat, index : Int]
ZeroSlots == [hash : Nat, index_plus1 : Int]
GenSlots == [hash : Nat, index : Int, gen : Nat]

\* The same entries are in the same slots of the three arrays.
Matching(n, b, z, g, now) ==
    \A p \in 1..n :
        /\ z[p].index_plus1 = b[p].index + 1
        /\ g[p].gen # now <=> b[p].index = -1
        /\ b[p].index # -1 =>
               z[p].hash = b[p].hash /\ g[p].hash = b[p].hash /\ g[p].index = b[p].index

Occupied(n, b) == {p \in 1..n : b[p].index # -1}

\* A probe from its hash comes to entry j, and to no free slot before.
ReachedAt(n, b, h, j, d) ==
    /\ b[Position(n, h, d)].index = j - 1
    /\ \A e \in 0..(d - 1) : b[Position(n, h, e)].index # -1

\* The base array holds the first k entries of the table.
Holding(n, b, t, k) ==
    /\ \A p \in Occupied(n, b) : b[p].index + 1 \in 1..k /\ b[p].hash = BenchHash[t[b[p].index + 1]]
    /\ \A j \in 1..k : \E d \in 0..(n - 1) : ReachedAt(n, b, BenchHash[t[j]], j, d)
    /\ Cardinality(Occupied(n, b)) \in Nat /\ Cardinality(Occupied(n, b)) <= k

BenchInv ==
    /\ stamp \in Nat
    /\ \/ base = <<>> /\ zero = <<>> /\ gen = <<>>
       \/ /\ names \in BenchTables
          /\ LET n == BenchCapacity(names)
             IN  /\ base \in [1..n -> BaseSlots] /\ zero \in [1..n -> ZeroSlots]
                 /\ gen \in [1..n -> GenSlots]
                 /\ Matching(n, base, zero, gen, stamp)
                 /\ Holding(n, base, names, Len(names))
                 /\ \A p \in 1..n : gen[p].gen <= stamp
=============================================================================
