---------------------------- MODULE IdentityLedger ----------------------------
(***************************************************************************)
(* What the Record Store promises about Node identities, with no tables,   *)
(* transactions or revisions: every UUID has one status, as resolve_identity *)
(* reports it, and a committed batch may move any number of identities      *)
(* several hops at once (create, tombstone and purge fit in one batch), but *)
(* only along the lifecycle.  An issued identity is issued for ever and a   *)
(* retired one never comes back.                                            *)
(***************************************************************************)
CONSTANT NodeIds

VARIABLE status    \* what resolve_identity answers for each UUID

Statuses == {"NeverIssued", "Active", "Tombstoned", "Retired"}

\* Where an identity may be after one commit, given where it was before it.
Reachable(s) ==
    CASE s = "NeverIssued"            -> Statuses
      [] s \in {"Active", "Tombstoned"} -> Statuses \ {"NeverIssued"}
      [] s = "Retired"                -> {"Retired"}

Init == status = [n \in NodeIds |-> "NeverIssued"]

CommitBatch ==
    /\ status' \in [NodeIds -> Statuses]
    /\ \A n \in NodeIds : status'[n] \in Reachable(status[n])

Next == CommitBatch

Spec == Init /\ [][Next]_status
=============================================================================
