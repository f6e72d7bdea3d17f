--------------------------- MODULE MCAdvanceProbe ---------------------------
(***************************************************************************)
(* Small instances of AdvanceProbe: two writers and a reader, in a window  *)
(* long enough for waits of two lengths.                                   *)
(***************************************************************************)
EXTENDS AdvanceProbe, TLC

MCProbeSymmetry == Permutations(ProbeWriters)
=============================================================================
