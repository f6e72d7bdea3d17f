------------------------------ MODULE NextPow2 ------------------------------
(***************************************************************************)
(* next_pow2() of Runtime/Search.h, the capacity of every hash index.      *)
(***************************************************************************)
EXTENDS Integers

Pow2[k \in 0..30] == IF k = 0 THEN 1 ELSE 2 * Pow2[k - 1]

\* For numbers up to 2^30, where the result is not above 2^31.
next_pow2(v) == IF v = 0 THEN 1 ELSE CHOOSE c \in {Pow2[k] : k \in 0..30} : c >= v /\ c < 2 * v
=============================================================================
