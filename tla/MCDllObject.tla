---------------------------- MODULE MCDllObject ----------------------------
(***************************************************************************)
(* DllObject with two images and their indexes.  Threads are               *)
(* interchangeable.                                                        *)
(***************************************************************************)
EXTENDS DllObject, TLC

CONSTANTS a, b, ia, ib

MCIndexOf == a :> ia @@ b :> ib

Symmetry == Permutations(Threads)
=============================================================================
