------------------------------- MODULE CoreState -------------------------------
(***************************************************************************)
(* Threads that share one CoreState (src/lib.rs).  It has three mutexes;   *)
(* an operation that needs several takes them in the order record, index,  *)
(* recovery.  A mutation gives the Record Store lock up after its commit   *)
(* and takes it again for each follow-up, so other threads come between.   *)
(*                                                                         *)
(* The stores are reduced to revisions here: what a delta, a segment or a  *)
(* reset does to rows and files is in modules IndexStore and Recovery.     *)
(***************************************************************************)
EXTENDS Naturals, FiniteSets

CONSTANTS
    Threads,
    MaxCalls    \* bound: operations one thread performs

ASSUME CallsAssumption == MaxCalls \in Nat

VARIABLES
    revision,   \* the Record Store's committed revision
    purges,     \* the revisions whose batch contained a purge
    index,      \* the Index's applied revision
    recovery,   \* revisions the recovery artifacts reach back and forward to
    failed,     \* the stores whose latest synchronization failed
    pc,         \* what each thread does next
    held,       \* the locks each thread holds
    commit,     \* the revision each thread's latest mutation committed
    answer,     \* how each thread's latest operation ended
    calls       \* operations each thread has begun

stores == <<revision, purges, index, recovery, failed>>
coreVars == <<stores, pc, held, commit, answer, calls>>

Locks == {"record", "index", "recovery"}
Calls == {"mutate", "purge", "reconcile_index", "reconcile_recovery", "status",
          "query", "snapshot"}
\* The follow-ups of a mutation, and a snapshot's callback.
FollowUps == {"sync_recovery", "sync_index", "barrier", "callback"}
Answers == {"none", "ok", "error", "PostCommitFailure"}

Free(lock) == \A t \in Threads : lock \notin held[t]
Holds(t, lock) == lock \in held[t]

CoreInit ==
    /\ revision = 0 /\ purges = {} /\ index = 0
    /\ recovery = [oldest |-> 0, newest |-> 0]
    /\ failed = {}
    /\ pc = [t \in Threads |-> "idle"]
    /\ held = [t \in Threads |-> {}]
    /\ commit = [t \in Threads |-> 0]
    /\ answer = [t \in Threads |-> "none"]
    /\ calls = [t \in Threads |-> 0]

-----------------------------------------------------------------------------
(* Steps of a thread *)

Goto(t, next) == pc' = [pc EXCEPT ![t] = next]

Take(t, lock) == Free(lock) /\ held' = [held EXCEPT ![t] = @ \cup {lock}]

\* The operation's guards are dropped, and it goes on to its next part.
ReleaseAndGoto(t, next) ==
    /\ held' = [held EXCEPT ![t] = {}]
    /\ Goto(t, next)
    /\ UNCHANGED <<commit, calls>>

Return(t, result) ==
    /\ ReleaseAndGoto(t, "idle")
    /\ answer' = [answer EXCEPT ![t] = result]

Call(t, operation) ==
    /\ pc[t] = "idle" /\ calls[t] < MaxCalls
    /\ Goto(t, operation)
    /\ calls' = [calls EXCEPT ![t] = @ + 1]
    /\ answer' = [answer EXCEPT ![t] = "none"]
    /\ UNCHANGED <<stores, held, commit>>

\* self.records()?.apply_batch(..) with an error: the batch is rolled back.
Reject(t) ==
    /\ pc[t] \in {"mutate", "purge"}
    /\ Free("record")
    /\ Return(t, "error")
    /\ UNCHANGED stores

\* self.records()?.apply_batch(..): the guard is dropped with the statement.
Commit(t) ==
    /\ pc[t] \in {"mutate", "purge"}
    /\ Free("record")
    /\ revision' = revision + 1
    /\ purges' = IF pc[t] = "purge" THEN purges \cup {revision'} ELSE purges
    /\ commit' = [commit EXCEPT ![t] = revision']
    /\ Goto(t, IF pc[t] = "purge" THEN "barrier" ELSE "sync_recovery")
    /\ UNCHANGED <<index, recovery, failed, held, answer, calls>>

\* Every operation with several locks takes the Record Store's first.
TakeRecord(t) ==
    /\ pc[t] \in {"sync_recovery", "sync_index", "barrier", "reconcile_index",
                  "reconcile_recovery", "status", "snapshot"}
    /\ ~Holds(t, "record")
    /\ Take(t, "record")
    /\ UNCHANGED <<stores, pc, commit, answer, calls>>

\* Fault: the revision before the current one is kept too.
ResetOffByOne == [oldest |-> revision - 1, newest |-> revision]

\* reset_to_single_baseline: nothing older than the current revision is kept.
Reset == [oldest |-> revision, newest |-> revision]

\* Fault: a purge is appended like any other revision.
CaughtUpAcrossPurge == [recovery EXCEPT !.newest = revision]

\* catch_up: a segment, or a reset across a purge.
CaughtUp ==
    IF \E p \in purges : p > recovery.newest THEN Reset
    ELSE [recovery EXCEPT !.newest = revision]

\* A synchronization of `store` succeeds or fails: a follow-up drops the error,
\* the explicit operations return it.
Succeed(store) == failed' = failed \ {store}
Fail(store) == failed' = failed \cup {store}

\* The recovery artifacts after a failed catch-up: it may have saved the manifest
\* and failed in what follows, the rotation or the removal of old artifacts.
PartlyCaughtUp == {recovery, CaughtUp}

\* The Index after a failed synchronization: a failed rebuild leaves the old
\* file, the new one, or none, and then the next to open it creates an empty one.
PartlySynchronized == {0, index, revision}

SyncRecovery(t) ==
    /\ pc[t] = "sync_recovery" /\ Holds(t, "record") /\ Free("recovery")
    /\ \/ recovery' = CaughtUp /\ Succeed("recovery")
       \/ recovery' \in PartlyCaughtUp /\ Fail("recovery")
    /\ ReleaseAndGoto(t, "sync_index")
    /\ UNCHANGED <<revision, purges, index, answer>>

\* Fault: the Index is taken to the revision this thread committed.
SyncIndexToCommit(t) ==
    /\ pc[t] = "sync_index" /\ Holds(t, "record") /\ Free("index")
    /\ \/ index' = commit[t] /\ Succeed("index")
       \/ index' \in PartlySynchronized /\ Fail("index")
    /\ Return(t, "ok")
    /\ UNCHANGED <<revision, purges, recovery>>

SyncIndex(t) ==
    /\ pc[t] = "sync_index" /\ Holds(t, "record") /\ Free("index")
    /\ \/ index' = revision /\ Succeed("index")
       \/ index' \in PartlySynchronized /\ Fail("index")
    /\ Return(t, "ok")
    /\ UNCHANGED <<revision, purges, recovery>>

\* complete_purge_barrier: refused when there has been a commit since this
\* thread's; refused or failed, the Index is not synchronized either.
CompleteBarrier(t) ==
    /\ pc[t] = "barrier" /\ Holds(t, "record") /\ Free("recovery")
    /\ \/ /\ commit[t] = revision
          /\ recovery' = Reset
          /\ Succeed("recovery")
          /\ ReleaseAndGoto(t, "sync_index")
          /\ UNCHANGED answer
       \/ /\ commit[t] # revision
          /\ Return(t, "PostCommitFailure")
          /\ UNCHANGED <<recovery, failed>>
       \/ /\ commit[t] = revision
          /\ recovery' \in {recovery, Reset}
          /\ failed' = failed \cup {"recovery", "index"}
          /\ Return(t, "PostCommitFailure")
    /\ UNCHANGED <<revision, purges, index>>

\* reconcile_index and rebuild_index: `?` returns the error of either.
ReconcileIndex(t) ==
    /\ pc[t] = "reconcile_index" /\ Holds(t, "record") /\ Free("index")
    /\ \/ index' = revision /\ Succeed("index") /\ Return(t, "ok")
       \/ index' \in PartlySynchronized /\ Fail("index") /\ Return(t, "error")
    /\ UNCHANGED <<revision, purges, recovery>>

\* A reset when the artifacts do not reach what the manifest says, else a catch-up.
ReconcileRecovery(t) ==
    /\ pc[t] = "reconcile_recovery" /\ Holds(t, "record") /\ Free("recovery")
    /\ \/ recovery' \in {CaughtUp, Reset} /\ Succeed("recovery") /\ Return(t, "ok")
       \/ /\ recovery' \in PartlyCaughtUp \cup {Reset}
          /\ Fail("recovery")
          /\ Return(t, "error")
    /\ UNCHANGED <<revision, purges, index>>

\* Fault: status may take the Index lock before the Record Store's.
StatusTakesIndexEarly(t) ==
    /\ pc[t] = "status" /\ ~Holds(t, "index")
    /\ Take(t, "index")
    /\ UNCHANGED <<stores, pc, commit, answer, calls>>

\* status keeps the first two locks while it waits for the third.
StatusTakesIndex(t) ==
    /\ pc[t] = "status" /\ Holds(t, "record") /\ ~Holds(t, "index")
    /\ Take(t, "index")
    /\ UNCHANGED <<stores, pc, commit, answer, calls>>

Status(t) ==
    /\ pc[t] = "status" /\ {"record", "index"} \subseteq held[t] /\ Free("recovery")
    /\ Return(t, "ok")
    /\ UNCHANGED stores

\* search, backlinks, the orphan queries and the content projections: the Index alone.
Query(t) ==
    /\ pc[t] = "query" /\ Free("index")
    /\ Return(t, "ok")
    /\ UNCHANGED stores

\* with_stable_read_snapshot holds the Record Store while the caller's function
\* runs, which may query the Index; it "must not call canonical operations".
Snapshot(t) ==
    /\ pc[t] = "snapshot" /\ Holds(t, "record")
    /\ Goto(t, "callback")
    /\ UNCHANGED <<stores, held, commit, answer, calls>>

Callback(t) ==
    /\ pc[t] = "callback" /\ Free("index")
    /\ Return(t, "ok")
    /\ UNCHANGED stores

Step(t) ==
    \/ Commit(t) \/ Reject(t) \/ TakeRecord(t)
    \/ SyncRecovery(t) \/ SyncIndex(t) \/ CompleteBarrier(t)
    \/ ReconcileIndex(t) \/ ReconcileRecovery(t)
    \/ StatusTakesIndex(t) \/ Status(t)
    \/ Query(t) \/ Snapshot(t) \/ Callback(t)

CoreNext ==
    \E t \in Threads : Step(t) \/ \E operation \in Calls : Call(t, operation)

\* A thread that can go on does: what holds a lock is never interrupted for ever.
CoreFairness == \A t \in Threads : WF_coreVars(Step(t))

CoreSpec == CoreInit /\ [][CoreNext]_coreVars /\ CoreFairness

-----------------------------------------------------------------------------
(* Properties *)

CoreTypeOK ==
    /\ revision \in Nat /\ index \in Nat
    /\ purges \subseteq Nat
    /\ recovery \in [oldest : Nat, newest : Nat]
    /\ failed \subseteq {"index", "recovery"}
    /\ pc \in [Threads -> {"idle"} \cup Calls \cup FollowUps]
    /\ held \in [Threads -> SUBSET Locks]
    /\ commit \in [Threads -> Nat]
    /\ answer \in [Threads -> Answers]
    /\ calls \in [Threads -> Nat]

Quiescent == \A t \in Threads : pc[t] = "idle"

Protected(p) == recovery.oldest >= p

\* However the follow-ups of several mutations interleave, when no operation is
\* under way, each store whose latest synchronization succeeded is current: a barrier
\* refused because of a later commit leaves nothing behind for it.
QuiescentIsCurrent ==
    Quiescent =>
        /\ "recovery" \notin failed => recovery.newest = revision
        /\ "index" \notin failed => index = revision

\* The artifacts never span a purge: what they reach forward to a purge's
\* revision no longer reaches back before it.
ArtifactsSpanNoPurge ==
    \A p \in purges : p <= recovery.newest => Protected(p)

\* No order of lock waits leaves an operation waiting for ever.
EveryCallReturns == \A t \in Threads : (pc[t] # "idle") ~> (pc[t] = "idle")

\* A purge that has committed is protected by its barrier in the end, even if
\* apply_batch answers PostCommitFailure because another thread committed first,
\* unless a follow-up or a reconciliation of the recovery artifacts failed.
PurgesBecomeProtected ==
    \A p \in 1 .. MaxCalls * Cardinality(Threads) :
        (p \in purges) ~> (Protected(p) \/ "recovery" \in failed)
==============================================================================
