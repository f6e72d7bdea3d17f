---------------------------- MODULE MCSharedPtr ----------------------------
(***************************************************************************)
(* SharedPtr on its own: two threads, one block, strong and weak           *)
(* variables, and nothing that keeps their operations apart.               *)
(***************************************************************************)
EXTENDS SharedPtr, TLC

Symmetry == Permutations(Workers) \union Permutations(Strongs) \union Permutations(Weaks)
=============================================================================
