--------------------------- MODULE MCModuleLease ---------------------------
(***************************************************************************)
(* ModuleLease on small instances; handles are interchangeable.            *)
(***************************************************************************)
EXTENDS ModuleLease, TLC

Symmetry == Permutations(Handles)
=============================================================================
