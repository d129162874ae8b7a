----------------------------- MODULE MCCoreState -----------------------------
(***************************************************************************)
(* Threads that share one CoreState, on small instances.                   *)
(***************************************************************************)
EXTENDS CoreState
=============================================================================
