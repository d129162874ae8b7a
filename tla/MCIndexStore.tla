----------------------------- MODULE MCIndexStore -----------------------------
(***************************************************************************)
(* The derived Index on small instances.                                   *)
(***************************************************************************)
EXTENDS IndexStore, TLC

Symmetry == Permutations(NodeIds)
=============================================================================
