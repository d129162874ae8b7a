--------------------------- MODULE CoreStateProofs ---------------------------
(***************************************************************************)
(* Proofs about module CoreState, for any set of threads and any number of *)
(* calls.  The invariant names who is still to bring a lagging store       *)
(* forward: the thread whose mutation committed the current revision and   *)
(* whose follow-up of that store has not run yet.                          *)
(***************************************************************************)
EXTENDS CoreState, TLAPS

\* The thread that committed the current revision is yet to do one of `parts`.
Responsible(parts) == \E t \in Threads : pc[t] \in parts /\ commit[t] = revision

RecoveryIsCovered ==
    \/ "recovery" \in failed
    \/ recovery.newest = revision
    \/ Responsible({"sync_recovery", "barrier"})

IndexIsCovered ==
    \/ "index" \in failed
    \/ index = revision
    \/ Responsible({"sync_recovery", "barrier", "sync_index"})

PurgesAreCommitted == \A p \in purges : p <= revision

ArtifactsReachNoFurther == recovery.newest <= revision

CoreInvariant ==
    /\ CoreTypeOK
    /\ PurgesAreCommitted
    /\ ArtifactsSpanNoPurge
    /\ ArtifactsReachNoFurther
    /\ RecoveryIsCovered
    /\ IndexIsCovered

-----------------------------------------------------------------------------

\* One step keeps the types.
LEMMA TypePreserved == CoreTypeOK /\ [CoreNext]_coreVars => CoreTypeOK'
<1> SUFFICES ASSUME CoreTypeOK, [CoreNext]_coreVars
             PROVE  CoreTypeOK'
    OBVIOUS
<1>1. CASE UNCHANGED coreVars
    BY <1>1 DEF CoreTypeOK, coreVars, stores
<1>2. ASSUME NEW t \in Threads, NEW operation \in Calls, Call(t, operation)
      PROVE  CoreTypeOK'
    BY <1>2 DEF CoreTypeOK, Call, Goto, stores, Answers
<1>3. ASSUME NEW t \in Threads, Step(t)
      PROVE  CoreTypeOK'
  <2>1. CASE Commit(t)
      BY <2>1 DEF CoreTypeOK, Commit, Goto, FollowUps
  <2>2. CASE Reject(t)
      BY <2>2 DEF CoreTypeOK, Reject, Return, ReleaseAndGoto, Goto, Answers, stores
  <2>3. CASE TakeRecord(t)
      BY <2>3 DEF CoreTypeOK, TakeRecord, Take, Locks, stores
  <2>4. CaughtUp \in [oldest : Nat, newest : Nat] /\ Reset \in [oldest : Nat, newest : Nat]
      BY DEF CoreTypeOK, CaughtUp, Reset
  <2>5. CASE SyncRecovery(t)
      BY <2>4, <2>5 DEF CoreTypeOK, SyncRecovery, PartlyCaughtUp, Succeed, Fail, ReleaseAndGoto,
         Goto, FollowUps
  <2>6. ASSUME index' \in PartlySynchronized \cup {revision}
        PROVE  index' \in Nat
      BY <2>6 DEF CoreTypeOK, PartlySynchronized
  <2>7. ASSUME /\ index' \in Nat /\ UNCHANGED <<revision, purges, recovery, commit, calls>>
                /\ failed' \in {failed \ {"index"}, failed \cup {"index"}}
                /\ held' = [held EXCEPT ![t] = {}] /\ pc' = [pc EXCEPT ![t] = "idle"]
                /\ \E result \in {"ok", "error"} : answer' = [answer EXCEPT ![t] = result]
        PROVE  CoreTypeOK'
      BY <2>7 DEF CoreTypeOK, Answers
  <2>8. CASE SyncIndex(t)
      BY <2>8, <2>6, <2>7 DEF SyncIndex, Succeed, Fail, Return, ReleaseAndGoto, Goto
  <2>9. CASE CompleteBarrier(t)
      BY <2>4, <2>9 DEF CoreTypeOK, CompleteBarrier, Succeed, Return, ReleaseAndGoto, Goto,
         FollowUps, Answers
  <2>10. CASE ReconcileIndex(t)
      BY <2>10, <2>6, <2>7 DEF ReconcileIndex, Succeed, Fail, Return, ReleaseAndGoto, Goto
  <2>11. CASE ReconcileRecovery(t)
      BY <2>4, <2>11 DEF CoreTypeOK, ReconcileRecovery, PartlyCaughtUp, Succeed, Fail, Return,
         ReleaseAndGoto, Goto, Answers
  <2>12. CASE StatusTakesIndex(t)
      BY <2>12 DEF CoreTypeOK, StatusTakesIndex, Take, Locks, stores
  <2>13. CASE Status(t) \/ Query(t) \/ Callback(t)
      BY <2>13 DEF CoreTypeOK, Status, Query, Callback, Return, ReleaseAndGoto, Goto, Answers,
         stores
  <2>14. CASE Snapshot(t)
      BY <2>14 DEF CoreTypeOK, Snapshot, Goto, FollowUps, stores
  <2> QED
      BY <1>3, <2>1, <2>2, <2>3, <2>5, <2>8, <2>9, <2>10, <2>11,
         <2>12, <2>13, <2>14 DEF Step
<1> QED
    BY <1>1, <1>2, <1>3 DEF CoreNext

\* Every variable of a shared CoreState keeps its type, in particular failed
\* names stores and a thread holds locks only.
THEOREM CoreTypeCorrect == CoreSpec => []CoreTypeOK
<1>1. CoreInit => CoreTypeOK
    BY DEF CoreInit, CoreTypeOK, Answers
<1> QED
    BY <1>1, TypePreserved, PTL DEF CoreSpec

-----------------------------------------------------------------------------

\* A step that commits nothing and keeps every responsible thread responsible.
LEMMA ResponsibleKept ==
    ASSUME NEW parts, CoreTypeOK, Responsible(parts), revision' = revision,
           NEW t \in Threads,
           \A u \in Threads \ {t} : pc'[u] = pc[u] /\ commit'[u] = commit[u],
           (pc[t] \in parts /\ commit[t] = revision) =>
               (pc'[t] \in parts /\ commit'[t] = commit[t])
    PROVE  Responsible(parts)'
<1>1. PICK u \in Threads : pc[u] \in parts /\ commit[u] = revision
    BY DEF Responsible
<1>2. pc'[u] \in parts /\ commit'[u] = revision'
  <2>1. CASE u = t
      BY <1>1, <2>1
  <2>2. CASE u # t
      BY <1>1, <2>2
  <2> QED
      BY <2>1, <2>2
<1> QED
    BY <1>2 DEF Responsible

\* What a catch-up or a reset makes of the artifacts reaches the current
\* revision and spans no purge.
LEMMA RenewedArtifacts ==
    ASSUME CoreTypeOK, PurgesAreCommitted, ArtifactsSpanNoPurge,
           NEW r \in {CaughtUp, Reset}
    PROVE  /\ r.newest = revision
           /\ \A p \in purges : p <= r.newest => r.oldest >= p
<1>1. \A p \in purges : p \in Nat /\ p <= revision
    BY DEF CoreTypeOK, PurgesAreCommitted
<1>2. CASE r = Reset
    BY <1>1, <1>2 DEF Reset, CoreTypeOK
<1>3. CASE r = [recovery EXCEPT !.newest = revision]
           /\ ~ \E p \in purges : p > recovery.newest
  <2>1. r.newest = revision /\ r.oldest = recovery.oldest
      BY <1>3 DEF CoreTypeOK
  <2>2. \A p \in purges : recovery.oldest >= p
      BY <1>1, <1>3 DEF CoreTypeOK, ArtifactsSpanNoPurge, Protected
  <2> QED
      BY <2>1, <2>2
<1> QED
    BY <1>2, <1>3 DEF CaughtUp

\* A step that keeps the artifacts or renews them, and commits nothing, keeps the
\* facts about them, whether it ends as a success or as a failure.
LEMMA ArtifactsKept ==
    ASSUME CoreTypeOK, PurgesAreCommitted, ArtifactsSpanNoPurge, ArtifactsReachNoFurther,
           UNCHANGED <<revision, purges>>, recovery' \in {recovery, CaughtUp, Reset}
    PROVE  /\ (PurgesAreCommitted /\ ArtifactsSpanNoPurge /\ ArtifactsReachNoFurther)'
           /\ recovery' # recovery => recovery'.newest = revision
<1>1. CASE recovery' = recovery
    BY <1>1 DEF PurgesAreCommitted, ArtifactsSpanNoPurge, ArtifactsReachNoFurther, Protected
<1>2. CASE recovery' \in {CaughtUp, Reset}
  <2>1. /\ recovery'.newest = revision
        /\ \A p \in purges : p <= recovery'.newest => recovery'.oldest >= p
      BY <1>2, RenewedArtifacts
  <2> QED
      BY <2>1 DEF PurgesAreCommitted, ArtifactsSpanNoPurge, ArtifactsReachNoFurther, Protected,
         CoreTypeOK
<1> QED
    BY <1>1, <1>2

LEMMA InvariantPreserved == CoreInvariant /\ [CoreNext]_coreVars => CoreInvariant'
<1> SUFFICES ASSUME CoreInvariant, [CoreNext]_coreVars
             PROVE  CoreInvariant'
    OBVIOUS
<1> USE DEF CoreInvariant
<1>0. CoreTypeOK'
    BY TypePreserved
<1>1. CASE UNCHANGED coreVars
    BY <1>0, <1>1 DEF coreVars, stores, PurgesAreCommitted, ArtifactsSpanNoPurge,
       ArtifactsReachNoFurther, Protected, RecoveryIsCovered, IndexIsCovered, Responsible
<1>2. ASSUME NEW t \in Threads, NEW operation \in Calls, Call(t, operation)
      PROVE  CoreInvariant'
  <2>1. UNCHANGED stores /\ pc[t] = "idle" /\ commit' = commit
      BY <1>2 DEF Call
  <2>2. \A u \in Threads \ {t} : pc'[u] = pc[u]
      BY <1>2 DEF Call, Goto, CoreTypeOK
  <2>3. (PurgesAreCommitted /\ ArtifactsSpanNoPurge /\ ArtifactsReachNoFurther)'
      BY <2>1 DEF stores, PurgesAreCommitted, ArtifactsSpanNoPurge, ArtifactsReachNoFurther,
         Protected
  <2>4. RecoveryIsCovered'
      BY <2>1, <2>2, ResponsibleKept DEF stores, RecoveryIsCovered
  <2>5. IndexIsCovered'
      BY <2>1, <2>2, ResponsibleKept DEF stores, IndexIsCovered
  <2> QED
      BY <1>0, <2>3, <2>4, <2>5
<1>3. ASSUME NEW t \in Threads, Step(t)
      PROVE  CoreInvariant'
  <2>1. CASE Commit(t)
    <3>1. revision' = revision + 1 /\ revision \in Nat /\ UNCHANGED <<recovery, index, failed>>
        BY <2>1 DEF Commit, CoreTypeOK
    <3>2. PurgesAreCommitted'
        BY <2>1, <3>1 DEF Commit, PurgesAreCommitted, CoreTypeOK
    <3>3. ArtifactsSpanNoPurge'
      <4>1. recovery.newest <= revision
          BY DEF ArtifactsReachNoFurther
      <4> QED
          BY <2>1, <3>1, <4>1 DEF Commit, ArtifactsSpanNoPurge, Protected, CoreTypeOK
    <3>4. pc'[t] \in {"sync_recovery", "barrier"} /\ commit'[t] = revision'
        BY <2>1 DEF Commit, Goto, CoreTypeOK
    <3>5. (RecoveryIsCovered /\ IndexIsCovered)'
        BY <3>4 DEF RecoveryIsCovered, IndexIsCovered, Responsible
    <3> QED
        BY <1>0, <3>1, <3>2, <3>3, <3>5 DEF ArtifactsReachNoFurther, CoreTypeOK
  <2>2. CASE SyncRecovery(t)
    <3>1. /\ UNCHANGED <<revision, purges, index, commit>>
          /\ pc[t] = "sync_recovery" /\ pc' = [pc EXCEPT ![t] = "sync_index"]
          /\ recovery' \in {recovery, CaughtUp}
          /\ \/ recovery' = CaughtUp /\ failed' = failed \ {"recovery"}
             \/ failed' = failed \cup {"recovery"}
        BY <2>2 DEF SyncRecovery, PartlyCaughtUp, Succeed, Fail, ReleaseAndGoto, Goto
    <3>2. /\ (PurgesAreCommitted /\ ArtifactsSpanNoPurge /\ ArtifactsReachNoFurther)'
          /\ RecoveryIsCovered'
      <4>1. (PurgesAreCommitted /\ ArtifactsSpanNoPurge /\ ArtifactsReachNoFurther)'
          BY <3>1, ArtifactsKept
      <4>2. CASE recovery' = CaughtUp
          BY <3>1, <4>1, <4>2, RenewedArtifacts DEF RecoveryIsCovered
      <4>3. CASE failed' = failed \cup {"recovery"}
          BY <4>1, <4>3 DEF RecoveryIsCovered
      <4> QED
          BY <3>1, <4>1, <4>2, <4>3
    <3>3. IndexIsCovered'
      <4>1. CASE Responsible({"sync_recovery", "barrier", "sync_index"})
        <5>1. pc'[t] = "sync_index" /\ \A u \in Threads \ {t} : pc'[u] = pc[u]
            BY <3>1 DEF CoreTypeOK
        <5> QED
            BY <3>1, <4>1, <5>1, ResponsibleKept DEF IndexIsCovered
      <4>2. CASE "index" \in failed \/ index = revision
          BY <3>1, <4>2 DEF IndexIsCovered
      <4> QED
          BY <4>1, <4>2 DEF IndexIsCovered
    <3> QED
        BY <1>0, <3>2, <3>3
  <2>3. CASE SyncIndex(t)
    <3>1. /\ UNCHANGED <<revision, purges, recovery, commit>>
          /\ pc[t] = "sync_index" /\ pc' = [pc EXCEPT ![t] = "idle"]
          /\ \/ index' = revision /\ failed' = failed \ {"index"}
             \/ failed' = failed \cup {"index"}
        BY <2>3 DEF SyncIndex, Succeed, Fail, Return, ReleaseAndGoto, Goto
    <3>2. (PurgesAreCommitted /\ ArtifactsSpanNoPurge /\ ArtifactsReachNoFurther)'
        BY <3>1 DEF PurgesAreCommitted, ArtifactsSpanNoPurge, ArtifactsReachNoFurther, Protected
    <3>3. IndexIsCovered'
        BY <3>1 DEF IndexIsCovered
    <3>4. RecoveryIsCovered'
      <4>1. CASE Responsible({"sync_recovery", "barrier"})
        <5>1. \A u \in Threads \ {t} : pc'[u] = pc[u]
            BY <3>1 DEF CoreTypeOK
        <5> QED
            BY <3>1, <4>1, <5>1, ResponsibleKept DEF RecoveryIsCovered
      <4>2. CASE "recovery" \in failed \/ recovery.newest = revision
          BY <3>1, <4>2 DEF RecoveryIsCovered
      <4> QED
          BY <4>1, <4>2 DEF RecoveryIsCovered
    <3> QED
        BY <1>0, <3>2, <3>3, <3>4
  <2>4. CASE CompleteBarrier(t)
    <3>1. UNCHANGED <<revision, purges, index, commit>> /\ pc[t] = "barrier"
        BY <2>4 DEF CompleteBarrier, Return, ReleaseAndGoto
    <3>2. CASE /\ recovery' = Reset /\ failed' = failed \ {"recovery"}
               /\ pc' = [pc EXCEPT ![t] = "sync_index"]
      <4>1. /\ (PurgesAreCommitted /\ ArtifactsSpanNoPurge /\ ArtifactsReachNoFurther)'
            /\ RecoveryIsCovered'
          BY <3>1, <3>2, RenewedArtifacts DEF PurgesAreCommitted, ArtifactsSpanNoPurge,
             ArtifactsReachNoFurther, RecoveryIsCovered, Protected, CoreTypeOK
      <4>2. CASE Responsible({"sync_recovery", "barrier", "sync_index"})
        <5>1. pc'[t] = "sync_index" /\ \A u \in Threads \ {t} : pc'[u] = pc[u]
            BY <3>2 DEF CoreTypeOK
        <5> QED
            BY <1>0, <3>1, <4>1, <4>2, <5>1, ResponsibleKept DEF IndexIsCovered
      <4>3. CASE "index" \in failed \/ index = revision
          BY <1>0, <3>1, <3>2, <4>1, <4>3 DEF IndexIsCovered
      <4> QED
          BY <4>2, <4>3 DEF IndexIsCovered
    <3>3. CASE /\ commit[t] # revision /\ UNCHANGED <<recovery, failed>>
               /\ pc' = [pc EXCEPT ![t] = "idle"]
      <4>1. (PurgesAreCommitted /\ ArtifactsSpanNoPurge /\ ArtifactsReachNoFurther)'
          BY <3>1, <3>3 DEF PurgesAreCommitted, ArtifactsSpanNoPurge, ArtifactsReachNoFurther,
             Protected
      <4>2. \A u \in Threads \ {t} : pc'[u] = pc[u]
          BY <3>3 DEF CoreTypeOK
      <4>3. RecoveryIsCovered'
          BY <3>1, <3>3, <4>2, ResponsibleKept DEF RecoveryIsCovered
      <4>4. IndexIsCovered'
          BY <3>1, <3>3, <4>2, ResponsibleKept DEF IndexIsCovered
      <4> QED
          BY <1>0, <4>1, <4>3, <4>4
    <3>4. CASE recovery' \in {recovery, Reset} /\ failed' = failed \cup {"recovery", "index"}
      <4>1. (PurgesAreCommitted /\ ArtifactsSpanNoPurge /\ ArtifactsReachNoFurther)'
          BY <3>1, <3>4, ArtifactsKept
      <4>2. (RecoveryIsCovered /\ IndexIsCovered)'
          BY <3>4 DEF RecoveryIsCovered, IndexIsCovered
      <4> QED
          BY <1>0, <4>1, <4>2
    <3> QED
        BY <2>4, <3>2, <3>3, <3>4 DEF CompleteBarrier, Succeed, Return, ReleaseAndGoto, Goto
  <2>5. CASE ReconcileRecovery(t)
    <3>1. /\ UNCHANGED <<revision, purges, index, commit>>
          /\ recovery' \in {recovery, CaughtUp, Reset}
          /\ \/ recovery' \in {CaughtUp, Reset} /\ failed' = failed \ {"recovery"}
             \/ failed' = failed \cup {"recovery"}
          /\ pc[t] = "reconcile_recovery" /\ pc' = [pc EXCEPT ![t] = "idle"]
        BY <2>5 DEF ReconcileRecovery, PartlyCaughtUp, Succeed, Fail, Return, ReleaseAndGoto, Goto
    <3>2. /\ (PurgesAreCommitted /\ ArtifactsSpanNoPurge /\ ArtifactsReachNoFurther)'
          /\ RecoveryIsCovered'
      <4>1. (PurgesAreCommitted /\ ArtifactsSpanNoPurge /\ ArtifactsReachNoFurther)'
          BY <3>1, ArtifactsKept
      <4>2. CASE recovery' \in {CaughtUp, Reset}
          BY <3>1, <4>1, <4>2, RenewedArtifacts DEF RecoveryIsCovered
      <4>3. CASE failed' = failed \cup {"recovery"}
          BY <4>1, <4>3 DEF RecoveryIsCovered
      <4> QED
          BY <3>1, <4>1, <4>2, <4>3
    <3>3. \A u \in Threads \ {t} : pc'[u] = pc[u]
        BY <3>1 DEF CoreTypeOK
    <3>4. IndexIsCovered'
        BY <3>1, <3>3, ResponsibleKept DEF IndexIsCovered
    <3> QED
        BY <1>0, <3>2, <3>4
  <2>6. CASE ReconcileIndex(t)
    <3>1. /\ UNCHANGED <<revision, purges, recovery, commit>>
          /\ \/ index' = revision /\ failed' = failed \ {"index"}
             \/ failed' = failed \cup {"index"}
          /\ pc[t] = "reconcile_index" /\ pc' = [pc EXCEPT ![t] = "idle"]
        BY <2>6 DEF ReconcileIndex, Succeed, Fail, Return, ReleaseAndGoto, Goto
    <3>2. /\ (PurgesAreCommitted /\ ArtifactsSpanNoPurge /\ ArtifactsReachNoFurther)'
          /\ IndexIsCovered'
        BY <3>1 DEF PurgesAreCommitted, ArtifactsSpanNoPurge, ArtifactsReachNoFurther,
           IndexIsCovered, Protected
    <3>3. \A u \in Threads \ {t} : pc'[u] = pc[u]
        BY <3>1 DEF CoreTypeOK
    <3>4. RecoveryIsCovered'
        BY <3>1, <3>3, ResponsibleKept DEF RecoveryIsCovered
    <3> QED
        BY <1>0, <3>2, <3>4
  <2>7. CASE TakeRecord(t) \/ StatusTakesIndex(t)
      BY <1>0, <2>7 DEF TakeRecord, StatusTakesIndex, stores, PurgesAreCommitted,
         ArtifactsSpanNoPurge, ArtifactsReachNoFurther, Protected, RecoveryIsCovered,
         IndexIsCovered, Responsible
  <2>8. CASE Status(t) \/ Query(t) \/ Callback(t) \/ Snapshot(t) \/ Reject(t)
    <3>1. /\ UNCHANGED stores /\ commit' = commit
          /\ pc[t] \in {"status", "query", "callback", "snapshot", "mutate", "purge"}
          /\ \E next : pc' = [pc EXCEPT ![t] = next]
        BY <2>8 DEF Status, Reject, Query, Callback, Snapshot, Return, ReleaseAndGoto, Goto
    <3>2. \A u \in Threads \ {t} : pc'[u] = pc[u]
        BY <3>1 DEF CoreTypeOK
    <3>3. (PurgesAreCommitted /\ ArtifactsSpanNoPurge /\ ArtifactsReachNoFurther)'
        BY <3>1 DEF stores, PurgesAreCommitted, ArtifactsSpanNoPurge, ArtifactsReachNoFurther,
           Protected
    <3>4. RecoveryIsCovered'
        BY <3>1, <3>2, ResponsibleKept DEF stores, RecoveryIsCovered
    <3>5. IndexIsCovered'
        BY <3>1, <3>2, ResponsibleKept DEF stores, IndexIsCovered
    <3> QED
        BY <1>0, <3>3, <3>4, <3>5
  <2> QED
      BY <1>3, <2>1, <2>2, <2>3, <2>4, <2>5, <2>6, <2>7, <2>8 DEF Step
<1> QED
    BY <1>1, <1>2, <1>3 DEF CoreNext

\* The invariant holds in every state of the specification.
LEMMA InvariantHolds == CoreSpec => []CoreInvariant
<1>1. CoreInit => CoreInvariant
  <2> SUFFICES ASSUME CoreInit PROVE CoreInvariant
      OBVIOUS
  <2>1. CoreTypeOK
      BY DEF CoreInit, CoreTypeOK, Answers
  <2> QED
      BY <2>1 DEF CoreInit, CoreInvariant, PurgesAreCommitted, ArtifactsSpanNoPurge,
         ArtifactsReachNoFurther, RecoveryIsCovered, IndexIsCovered
<1> QED
    BY <1>1, InvariantPreserved, PTL DEF CoreSpec

\* When no operation is under way, a store whose latest synchronization succeeded
\* is current: nobody is responsible any more, so nothing lags.
THEOREM QuiescenceIsCurrent == CoreSpec => []QuiescentIsCurrent
<1>1. CoreInvariant => QuiescentIsCurrent
    BY DEF CoreInvariant, QuiescentIsCurrent, Quiescent, RecoveryIsCovered, IndexIsCovered,
       Responsible
<1> QED
    BY <1>1, InvariantHolds, PTL

\* No artifact reaches back before a purge it reaches forward to, whichever
\* thread's catch-up, barrier or reconciliation came first and whatever failed.
THEOREM PurgesAreCutOff == CoreSpec => []ArtifactsSpanNoPurge
<1>1. CoreInvariant => ArtifactsSpanNoPurge
    BY DEF CoreInvariant
<1> QED
    BY <1>1, InvariantHolds, PTL
=============================================================================
