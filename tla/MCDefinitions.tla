----------------------------- MODULE MCDefinitions -----------------------------
(***************************************************************************)
(* Property definitions changed through two connections.                   *)
(***************************************************************************)
EXTENDS Definitions, TLC

Symmetry == Permutations(Connections)
=============================================================================
