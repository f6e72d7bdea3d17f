---------------------------- MODULE MCRcuDomain ----------------------------
(***************************************************************************)
(* RcuDomain on small instances.  Threads and objects are interchangeable  *)
(* (nothing orders them), so the safety runs use both symmetries; the      *)
(* liveness run uses none.                                                 *)
(***************************************************************************)
EXTENDS RcuDomain, TLC

Symmetry == Permutations(Threads) \union Permutations(Objects)
=============================================================================
