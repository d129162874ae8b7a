------------------------------ MODULE MCIndexSync ------------------------------
(***************************************************************************)
(* Two Cores that share one library's Index.                               *)
(***************************************************************************)
EXTENDS IndexSync, TLC

Symmetry == Permutations(Cores)
=============================================================================
