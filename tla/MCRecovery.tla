------------------------------- MODULE MCRecovery -------------------------------
(***************************************************************************)
(* Local Record recovery on small instances.                               *)
(***************************************************************************)
EXTENDS Recovery, TLC

Symmetry == Permutations(NodeIds)
=============================================================================
