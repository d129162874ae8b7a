------------------------------ MODULE MCStoreOpen ------------------------------
(***************************************************************************)
(* Opening a store file on small instances.                                *)
(***************************************************************************)
EXTENDS StoreOpen, TLC

Symmetry == Permutations(Connections)
=============================================================================
