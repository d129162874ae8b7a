----------------------------- MODULE MCRecordStore -----------------------------
(***************************************************************************)
(* The Record Store on small instances.                                    *)
(***************************************************************************)
EXTENDS Projection, TLC

Symmetry == Permutations(NodeIds)
=============================================================================
