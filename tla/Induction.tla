----------------------------- MODULE Induction -----------------------------
(***************************************************************************)
(* Induction for sets of numbers, and functions defined by recursion over  *)
(* an interval, in a form without operator parameters: a property is given *)
(* as the set of numbers that have it, a recursion step as a function.     *)
(* With it, what MapThenSumSet() of FiniteSetsExt computes.                *)
(***************************************************************************)
EXTENDS Integers, FiniteSetsExt, FiniteSetTheorems, SequenceTheorems, WellFoundedInduction, TLAPS

\* A nonempty set of numbers has a least element.
LEMMA LeastElement ==
    ASSUME NEW S, S \subseteq Nat, S # {}
    PROVE  \E x \in S : \A y \in S : x <= y
<1> DEFINE R == OpToRel(<, Nat)
<1>1. \E x \in S : \A y \in S : ~(<<y, x>> \in R)
  <2>1. IsWellFoundedOn(R, Nat)
    BY NatLessThanWellFounded
  <2> HIDE DEF R
  <2> QED BY <2>1, WFMin
<1>2. PICK x \in S : \A y \in S : ~(<<y, x>> \in R)
  BY <1>1
<1>3. ASSUME NEW y \in S
      PROVE  x <= y
  <2>1. x \in Nat /\ y \in Nat
    OBVIOUS
  <2>2. ~(y < x)
    BY <1>2, <2>1 DEF OpToRel
  <2> QED BY <2>1, <2>2
<1> QED BY <1>3

\* Min() of FiniteSetsExt is an element.
LEMMA LeastIsElement ==
    ASSUME NEW S, S \subseteq Nat, S # {}
    PROVE  Min(S) \in S
<1>1. \E x \in S : \A y \in S : x =< y
  BY LeastElement
<1> QED BY <1>1 DEF Min

\* Induction: a set that has 0, and with each number the next, has them all.
LEMMA NumbersByInduction ==
    ASSUME NEW P, 0 \in P, \A i \in Nat : i \in P => i + 1 \in P
    PROVE  Nat \subseteq P
<1>1. SUFFICES ASSUME Nat \ P # {}
               PROVE  FALSE
  OBVIOUS
<1>2. PICK x \in Nat \ P : \A y \in Nat \ P : x <= y
  <2> DEFINE S == Nat \ P
  <2>1. S \subseteq Nat /\ S # {}
    BY <1>1
  <2> HIDE DEF S
  <2>2. \E x \in S : \A y \in S : x <= y
    BY <2>1, LeastElement
  <2> QED BY <2>2 DEF S
<1>3. x # 0 /\ x \in Nat
  BY <1>2
<1>4. x - 1 \in Nat /\ ~(x <= x - 1) /\ (x - 1) + 1 = x
  BY <1>3
<1>5. x - 1 \in P
  BY <1>2, <1>4
<1> QED BY <1>2, <1>4, <1>5

\* What a loop over 1..n computes that starts with base and makes step at each index.
Loop(g, S, base, n, step) ==
    g \in [0..n -> S] /\ g[0] = base /\ \A i \in 1..n : g[i] = step[<<g[i - 1], i>>]

\* Every such loop computes something.
LEMMA LoopExists ==
    ASSUME NEW S, NEW base \in S, NEW n \in Nat, NEW step \in [S \X (1..n) -> S]
    PROVE  \E g : Loop(g, S, base, n, step)
<1> USE DEF Loop
<1> DEFINE P == {k \in Nat : k <= n => \E g : Loop(g, S, base, k, step)}
<1>1. 0 \in P
  <2>1. Loop([i \in 0..0 |-> base], S, base, 0, step)
    OBVIOUS
  <2> QED BY <2>1
<1>2. ASSUME NEW k \in Nat, k \in P
      PROVE  k + 1 \in P
  <2>1. SUFFICES ASSUME k + 1 <= n
                 PROVE  \E g : Loop(g, S, base, k + 1, step)
    OBVIOUS
  <2>2. k <= n
    BY <2>1
  <2>3. PICK g : Loop(g, S, base, k, step)
    BY <1>2, <2>2
  <2> DEFINE v == step[<<g[k], k + 1>>]
             h == [i \in 0..(k + 1) |-> IF i = k + 1 THEN v ELSE g[i]]
  <2>4. v \in S
    <3>1. g[k] \in S /\ k + 1 \in 1..n
      BY <2>1, <2>3
    <3> QED BY <3>1
  <2> HIDE DEF v
  <2>5. h \in [0..(k + 1) -> S]
    BY <2>3, <2>4
  <2>6. /\ \A i \in 0..k : h[i] = g[i]
        /\ h[k + 1] = v
    OBVIOUS
  <2>7. ASSUME NEW i \in 1..(k + 1)
        PROVE  h[i] = step[<<h[i - 1], i>>]
    <3> HIDE DEF h
    <3>1. CASE i = k + 1
      BY <2>6, <3>1 DEF v
    <3>2. CASE i # k + 1
      <4>1. i \in 1..k /\ i \in 0..k /\ i - 1 \in 0..k
        BY <3>2
      <4> QED BY <2>3, <2>6, <4>1
    <3> QED BY <3>1, <3>2
  <2>8. h[0] = base
    BY <2>3, <2>6
  <2> HIDE DEF h
  <2> QED BY <2>5, <2>7, <2>8
<1>3. n \in P
  <2> HIDE DEF P
  <2>1. Nat \subseteq P
    BY <1>1, <1>2, NumbersByInduction
  <2> QED BY <2>1
<1> QED BY <1>3

\* A function on 1..n is a sequence of length n.
LEMMA FunctionIsSeq ==
    ASSUME NEW S, NEW n \in Nat, NEW f \in [1..n -> S]
    PROVE  f \in Seq(S) /\ Len(f) = n
<1>1. f \in Seq(S)
  <2> DEFINE e(i) == f[i]
  <2>1. \A i \in 1..n : e(i) \in S
    OBVIOUS
  <2> HIDE DEF e
  <2>2. [i \in 1..n |-> e(i)] \in Seq(S)
    BY <2>1, IsASeq
  <2>3. f = [i \in 1..n |-> f[i]]
    OBVIOUS
  <2> QED BY <2>2, <2>3 DEF e
<1>2. PICK l \in Nat : l = Len(f) /\ 1..l = 1..n
  BY <1>1, LenProperties
<1>3. l <= n /\ n <= l
  <2>1. (l > 0 => l \in 1..n) /\ (n > 0 => n \in 1..l)
    <3>1. (l > 0 => l \in 1..l) /\ (n > 0 => n \in 1..n)
      OBVIOUS
    <3> QED BY <1>2, <3>1
  <2> QED BY ONLY <2>1, l \in Nat, n \in Nat
<1>4. l = n
  BY <1>3
<1> QED BY <1>1, <1>2, <1>4

-----------------------------------------------------------------------------
(***************************************************************************)
(* Sums over a finite set, taken one element after another.                *)
(***************************************************************************)
Some(s) == CHOOSE x \in s : TRUE
Less(s) == s \ {Some(s)}

\* A property of the empty set that one more element keeps holds of every finite set.
LEMMA SetsByInduction ==
    ASSUME NEW S, IsFiniteSet(S), NEW P, {} \in P,
           \A s \in SUBSET S : s # {} /\ Less(s) \in P => s \in P
    PROVE  SUBSET S \subseteq P
<1> DEFINE Q == {k \in Nat : \A s \in SUBSET S : Cardinality(s) = k => s \in P}
<1>1. 0 \in Q
  <2>1. \A s \in SUBSET S : Cardinality(s) = 0 => s = {}
    BY FS_Subset, FS_EmptySet
  <2> QED BY <2>1
<1>2. ASSUME NEW k \in Nat, k \in Q
      PROVE  k + 1 \in Q
  <2>1. ASSUME NEW s \in SUBSET S, Cardinality(s) = k + 1
        PROVE  s \in P
    <3>1. IsFiniteSet(s)
      BY FS_Subset
    <3>2. s # {}
      BY <2>1, FS_EmptySet
    <3>3. Some(s) \in s
      BY <3>2 DEF Some
    <3>4. Cardinality(Less(s)) = k /\ Less(s) \in SUBSET S
      <4>1. Cardinality(s \ {Some(s)}) = Cardinality(s) - 1
        BY <3>1, <3>3, FS_RemoveElement
      <4> QED BY <2>1, <4>1 DEF Less
    <3> QED BY <1>2, <3>2, <3>4
  <2> QED BY <2>1
<1>3. Nat \subseteq Q
  <2> HIDE DEF Q
  <2> QED BY <1>1, <1>2, NumbersByInduction
<1>4. ASSUME NEW s \in SUBSET S
      PROVE  s \in P
  <2>1. Cardinality(s) \in Q
    BY <1>3, FS_Subset, FS_CardinalityType
  <2> QED BY <2>1
<1> QED BY <1>4

\* h[s] is the sum of f over s.
Sums(h, f, S) ==
    h = [s \in SUBSET S |-> IF s = {} THEN 0 ELSE f[Some(s)] + h[Less(s)]]

SumOver(f, S) == MapThenSumSet(LAMBDA x : f[x], S)

LEMMA SumsExist ==
    ASSUME NEW S, IsFiniteSet(S), NEW f \in [S -> Int]
    PROVE  \E h \in [SUBSET S -> Int] : Sums(h, f, S)
<1> DEFINE Upto(k) == {s \in SUBSET S : Cardinality(s) <= k}
           Good(h, k) == /\ h \in [Upto(k) -> Int]
                         /\ \A s \in Upto(k) : h[s] = IF s = {} THEN 0 ELSE f[Some(s)] + h[Less(s)]
           P == {k \in Nat : \E h : Good(h, k)}
<1>0. \A s \in SUBSET S : Cardinality(s) \in Nat /\ (Cardinality(s) = 0 <=> s = {})
  BY FS_Subset, FS_CardinalityType, FS_EmptySet
<1>a. ASSUME NEW s \in SUBSET S, s # {}
      PROVE  Some(s) \in S /\ Less(s) \in SUBSET S /\ Cardinality(Less(s)) = Cardinality(s) - 1
  <2>1. Some(s) \in s
    BY <1>a DEF Some
  <2> QED BY <2>1, FS_Subset, FS_RemoveElement DEF Less
<1>1. 0 \in P
  <2> DEFINE h == [s \in Upto(0) |-> 0]
  <2>1. \A s \in Upto(0) : s = {}
    BY <1>0
  <2>2. Good(h, 0)
    BY <2>1
  <2> QED BY <2>2
<1>2. ASSUME NEW k \in Nat, k \in P
      PROVE  k + 1 \in P
  <2>1. PICK h : Good(h, k)
    BY <1>2
  <2> DEFINE g == [s \in Upto(k + 1) |-> IF s = {} THEN 0 ELSE f[Some(s)] + h[Less(s)]]
  <2>2. ASSUME NEW s \in Upto(k + 1), s # {}
        PROVE  Some(s) \in S /\ Less(s) \in Upto(k) /\ Less(s) \in Upto(k + 1) /\ h[Less(s)] \in Int
    <3>1. Less(s) \in Upto(k)
      BY <1>0, <1>a, <2>2
    <3> QED BY <1>0, <1>a, <2>1, <2>2, <3>1
  <2>3. g \in [Upto(k + 1) -> Int]
    <3> HIDE DEF Upto
    <3> QED BY <2>2
  <2>4. \A s \in Upto(k) : s \in Upto(k + 1) /\ g[s] = h[s]
    <3>1. \A s \in Upto(k) : s \in Upto(k + 1)
      BY <1>0
    <3> HIDE DEF Upto
    <3> QED BY <2>1, <3>1
  <2>5. \A s \in Upto(k + 1) : g[s] = IF s = {} THEN 0 ELSE f[Some(s)] + g[Less(s)]
    <3>1. \A s \in Upto(k + 1) : g[s] = IF s = {} THEN 0 ELSE f[Some(s)] + h[Less(s)]
      OBVIOUS
    <3> HIDE DEF Upto, g
    <3> QED BY <2>2, <2>4, <3>1
  <2>6. Good(g, k + 1)
    BY <2>3, <2>5
  <2> HIDE DEF Good
  <2> QED BY <2>6
<1>3. Cardinality(S) \in P
  <2> HIDE DEF P
  <2> QED BY <1>1, <1>2, NumbersByInduction, FS_CardinalityType
<1>4. Upto(Cardinality(S)) = SUBSET S
  BY FS_Subset
<1>5. PICK h : Good(h, Cardinality(S))
  BY <1>3
<1>6. /\ h \in [SUBSET S -> Int]
      /\ \A s \in SUBSET S : h[s] = IF s = {} THEN 0 ELSE f[Some(s)] + h[Less(s)]
  <2> HIDE DEF Upto
  <2> QED BY <1>4, <1>5
<1>7. Sums(h, f, S)
  BY <1>6 DEF Sums
<1> QED BY <1>6, <1>7

Summed(h, f, S) ==
    /\ h \in [SUBSET S -> Int]
    /\ SumOver(f, S) = h[S]
    /\ h[{}] = 0
    /\ \A s \in SUBSET S : s # {} => h[s] = f[Some(s)] + h[Less(s)]

\* So it is what MapThenSumSet() computes.
LEMMA SumIsLast ==
    ASSUME NEW S, IsFiniteSet(S), NEW f \in [S -> Int]
    PROVE  \E h : Summed(h, f, S)
<1> DEFINE h == CHOOSE h : Sums(h, f, S)
<1>1. Sums(h, f, S)
  BY SumsExist
<1>2. SumOver(f, S) = h[S]
  BY DEF SumOver, MapThenSumSet, MapThenFoldSet, Sums, Some, Less
<1> HIDE DEF h
<1>3. \A s \in SUBSET S : h[s] = IF s = {} THEN 0 ELSE f[Some(s)] + h[Less(s)]
  BY <1>1 DEF Sums
<1> DEFINE P == {s \in SUBSET S : h[s] \in Int}
<1>4. {} \in P
  BY <1>3
<1>5. ASSUME NEW s \in SUBSET S, s # {}, Less(s) \in P
      PROVE  s \in P
  <2>1. Some(s) \in S
    BY <1>5 DEF Some
  <2> QED BY <1>3, <1>5, <2>1
<1>6. SUBSET S \subseteq P
  <2> HIDE DEF P
  <2> QED BY <1>4, <1>5, SetsByInduction
<1>7. h \in [SUBSET S -> Int]
  BY <1>1, <1>6 DEF Sums
<1> QED BY <1>2, <1>3, <1>7 DEF Summed

\* The sum of two functions.
LEMMA SumsAdded ==
    ASSUME NEW S, IsFiniteSet(S), NEW f \in [S -> Int], NEW g \in [S -> Int], NEW e \in [S -> Int],
           \A x \in S : e[x] = f[x] + g[x]
    PROVE  SumOver(e, S) = SumOver(f, S) + SumOver(g, S)
<1>1. PICK h : Summed(h, f, S)
  BY SumIsLast
<1>2. PICK k : Summed(k, g, S)
  BY SumIsLast
<1>0. PICK l : Summed(l, e, S)
  BY SumIsLast
<1> DEFINE P == {s \in SUBSET S : l[s] = h[s] + k[s]}
<1>3. {} \in P
  BY <1>0, <1>1, <1>2 DEF Summed
<1>4. ASSUME NEW s \in SUBSET S, s # {}, Less(s) \in P
      PROVE  s \in P
  <2>1. Some(s) \in S
    BY <1>4 DEF Some
  <2> QED BY <1>0, <1>1, <1>2, <1>4, <2>1 DEF Summed
<1>5. SUBSET S \subseteq P
  <2> HIDE DEF P
  <2> QED BY <1>3, <1>4, SetsByInduction
<1> QED BY <1>0, <1>1, <1>2, <1>5 DEF Summed

\* One value of a function changes.
LEMMA SumChanged ==
    ASSUME NEW S, IsFiniteSet(S), NEW f \in [S -> Int], NEW g \in [S -> Int], NEW x \in S,
           \A y \in S : y # x => g[y] = f[y]
    PROVE  /\ SumOver(f, S) \in Int /\ SumOver(g, S) \in Int
           /\ SumOver(g, S) = SumOver(f, S) + (g[x] - f[x])
<1>1. PICK h : Summed(h, f, S)
  BY SumIsLast
<1>2. PICK k : Summed(k, g, S)
  BY SumIsLast
<1> DEFINE P == {s \in SUBSET S : k[s] = h[s] + IF x \in s THEN g[x] - f[x] ELSE 0}
<1>3. {} \in P
  BY <1>1, <1>2 DEF Summed
<1>4. ASSUME NEW s \in SUBSET S, s # {}, Less(s) \in P
      PROVE  s \in P
  <2>1. Some(s) \in S /\ Some(s) \in s
    BY <1>4 DEF Some
  <2>2. Less(s) \in SUBSET S
    BY <1>4
  <2>3. /\ k[s] = g[Some(s)] + k[Less(s)] /\ h[s] = f[Some(s)] + h[Less(s)]
        /\ k[Less(s)] \in Int /\ h[Less(s)] \in Int
    BY <1>1, <1>2, <1>4, <2>2 DEF Summed
  <2>0. g[Some(s)] \in Int /\ f[Some(s)] \in Int /\ g[x] \in Int /\ f[x] \in Int
    BY <2>1
  <2>4. CASE Some(s) = x
    <3>1. x \in s /\ x \notin Less(s)
      BY <2>1, <2>4 DEF Less
    <3>2. k[Less(s)] = h[Less(s)]
      BY <1>4, <2>3, <3>1
    <3> QED BY <2>0, <2>3, <2>4, <3>1, <3>2
  <2>5. CASE Some(s) # x
    <3>1. x \in s <=> x \in Less(s)
      BY <2>5 DEF Less
    <3>2. g[Some(s)] = f[Some(s)]
      BY <2>1, <2>5
    <3>3. k[Less(s)] = h[Less(s)] + IF x \in Less(s) THEN g[x] - f[x] ELSE 0
      BY <1>4
    <3> QED BY <2>0, <2>3, <3>1, <3>2, <3>3
  <2> QED BY <2>4, <2>5
<1>5. SUBSET S \subseteq P
  <2> HIDE DEF P
  <2> QED BY <1>3, <1>4, SetsByInduction
<1> QED BY <1>1, <1>2, <1>5 DEF Summed

\* A sum of ones counts.
LEMMA SumCounts ==
    ASSUME NEW S, IsFiniteSet(S), NEW T, NEW f \in [S -> Int],
           \A x \in S : f[x] = IF x \in T THEN 1 ELSE 0
    PROVE  SumOver(f, S) = Cardinality({x \in S : x \in T})
<1>1. PICK h : Summed(h, f, S)
  BY SumIsLast
<1> DEFINE P == {s \in SUBSET S : h[s] = Cardinality({x \in s : x \in T})}
<1>3. {} \in P
  <2>1. {x \in {} : x \in T} = {}
    OBVIOUS
  <2> QED BY <1>1, <2>1, FS_EmptySet DEF Summed
<1>4. ASSUME NEW s \in SUBSET S, s # {}, Less(s) \in P
      PROVE  s \in P
  <2>1. Some(s) \in S /\ Some(s) \in s
    BY <1>4 DEF Some
  <2> DEFINE C == {x \in Less(s) : x \in T}
             D == {x \in s : x \in T}
  <2>2. Less(s) \in SUBSET S /\ C \in SUBSET S
    BY <1>4
  <2>3. h[s] = f[Some(s)] + Cardinality(C)
    BY <1>1, <1>4 DEF Summed
  <2>4. IsFiniteSet(C) /\ Cardinality(C) \in Nat
    BY <2>2, FS_Subset, FS_CardinalityType
  <2>7. SUFFICES h[s] = Cardinality(D)
    OBVIOUS
  <2>5. CASE Some(s) \in T
    <3>1. D = C \union {Some(s)} /\ Some(s) \notin C
      BY <2>1, <2>5 DEF Less
    <3>2. Cardinality(C \union {Some(s)}) = Cardinality(C) + 1
      BY <2>4, <3>1, FS_AddElement
    <3>3. f[Some(s)] = 1
      BY <2>1, <2>5
    <3> HIDE DEF C, D, P
    <3> QED BY <2>3, <2>4, <3>1, <3>2, <3>3
  <2>6. CASE Some(s) \notin T
    <3>1. D = C
      BY <2>6 DEF Less
    <3>2. f[Some(s)] = 0
      BY <2>1, <2>6
    <3> HIDE DEF C, D, P
    <3> QED BY <2>3, <2>4, <3>1, <3>2
  <2> QED BY <2>5, <2>6
<1>5. SUBSET S \subseteq P
  <2> HIDE DEF P
  <2> QED BY <1>3, <1>4, SetsByInduction
<1> QED BY <1>1, <1>5 DEF Summed

\* A sum of numbers that are bounded.
LEMMA SumBounded ==
    ASSUME NEW S, IsFiniteSet(S), NEW f \in [S -> Int], NEW c \in Nat, \A x \in S : f[x] <= c
    PROVE  SumOver(f, S) <= c * Cardinality(S)
<1>1. PICK h : Summed(h, f, S)
  BY SumIsLast
<1> DEFINE P == {s \in SUBSET S : h[s] <= c * Cardinality(s)}
<1>2. {} \in P
  BY <1>1, FS_EmptySet DEF Summed
<1>3. ASSUME NEW s \in SUBSET S, s # {}, Less(s) \in P
      PROVE  s \in P
  <2>1. Some(s) \in S /\ Some(s) \in s
    BY <1>3 DEF Some
  <2>2. Cardinality(Less(s)) = Cardinality(s) - 1 /\ Cardinality(s) \in Nat /\ Cardinality(Less(s)) \in Nat
    <3>1. IsFiniteSet(s)
      BY FS_Subset
    <3>2. Cardinality(s) \in Nat /\ Cardinality(s \ {Some(s)}) = Cardinality(s) - 1 /\ IsFiniteSet(s \ {Some(s)})
      BY <2>1, <3>1, FS_RemoveElement, FS_CardinalityType
    <3> QED BY <3>2, FS_CardinalityType DEF Less
  <2>3. h[s] = f[Some(s)] + h[Less(s)] /\ h[Less(s)] \in Int /\ f[Some(s)] \in Int
    BY <1>1, <1>3, <2>1 DEF Summed
  <2>4. h[Less(s)] <= c * Cardinality(Less(s)) /\ f[Some(s)] <= c
    BY <1>3, <2>1
  <2>5. \A n \in Nat : c * n = c * (n - 1) + c
    OBVIOUS
  <2>6. c * Cardinality(s) = c * Cardinality(Less(s)) + c
    BY <2>2, <2>5
  <2>7. c * Cardinality(Less(s)) \in Nat
    BY <2>2
  <2>8. h[s] <= c * Cardinality(s)
    BY <2>3, <2>4, <2>6, <2>7
  <2> QED BY <2>8
<1>4. SUBSET S \subseteq P
  <2> HIDE DEF P
  <2> QED BY <1>2, <1>3, SetsByInduction
<1> QED BY <1>1, <1>4 DEF Summed
=============================================================================
