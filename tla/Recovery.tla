------------------------------- MODULE Recovery -------------------------------
(***************************************************************************)
(* Local Record recovery (src/recovery/mod.rs): up to two checksummed      *)
(* baseline files, segment files that each carry one delta, and a manifest *)
(* that names them.  Every file is written beside its name and renamed, so *)
(* the steps of an operation are its renames and its deletions, and the    *)
(* process may die, or an I/O error may stop the operation, between two of *)
(* them.  The Record Store lock is held throughout, so no commit of this   *)
(* process comes between the steps of one recovery operation.              *)
(*                                                                         *)
(* An artifact's checksum is represented by the content it was taken of:   *)
(* the manifest's entry is intact while the file still has that content.   *)
(***************************************************************************)
EXTENDS Projection, FiniteSetsExt

CONSTANTS
    SegmentsPerBaseline,    \* SEGMENTS_PER_BASELINE (64 in the code)
    Unlabelled,             \* relationship keys defined without an inverse label
    Faults                  \* which of "io", "damage" and "loss" may happen

ASSUME SegmentsAssumption == SegmentsPerBaseline \in Nat \ {0}
ASSUME UnlabelledAssumption == Unlabelled \subseteq RelationshipKeys
ASSUME FaultsAssumption == Faults \subseteq {"io", "damage", "loss"}
ASSUME NoFileAssumption == None \notin Databases  \* a missing file is not one

VARIABLES
    records,    \* records.sqlite: "intact", or "lost": missing, damaged or refused
    manifest,   \* manifest.json, NoManifest before the first save
    baselines,  \* content of the baseline files, NoFile where there is none
    segments,   \* the intact segment files
    task,       \* what the Core is in the middle of
    purges,     \* committed batches with a purge that await their barrier
    confirmed,  \* Nodes whose purge apply_batch has reported as done
    committed   \* the state committed under each revision

recoveryVars == <<records, manifest, baselines, segments, task, purges, confirmed, committed>>

Slots == {"A", "B"}     \* BASELINE_A, BASELINE_B
NoFile == None
NoManifest == None

\* A baseline, or a state to compare: its journal is never used again.
Frozen(d) == [d EXCEPT !.journal = {}]

-----------------------------------------------------------------------------
(* Artifacts *)

\* Fault: the file's bounds are the wrong way round.
SegmentReversed(d, checkpoint) ==
    [from |-> d.revision, through |-> checkpoint,
     changes |-> ChangesSince(d, checkpoint), source |-> Frozen(d)]

\* Fault: the first revision after the checkpoint is left out.
SegmentFromNextRevision(d, checkpoint) ==
    [from |-> checkpoint, through |-> d.revision,
     changes |-> ChangesSince(d, checkpoint + 1), source |-> Frozen(d)]

\* write_segment: the delta since the checkpoint, with the final states it names.
Segment(d, checkpoint) ==
    [from |-> checkpoint, through |-> d.revision,
     changes |-> ChangesSince(d, checkpoint), source |-> Frozen(d)]

\* Fault: a purge is stored as a segment like any other revision.
CarriesPurgeNever(segment) == FALSE

\* A Node the delta names has no row any more.
CarriesPurge(segment) ==
    \E n \in NamedNodes(segment.changes) : segment.source.lifecycle[n] = "none"

Baseline(slot, d) == [slot |-> slot, store |-> Frozen(d)]

\* load_manifest refuses a manifest that names too many segments.
MaxSegments == 2 * SegmentsPerBaseline
Loadable == manifest # NoManifest /\ Cardinality(manifest.segments) <= MaxSegments

Intact(baseline) == baselines[baseline.slot] = baseline.store

-----------------------------------------------------------------------------
(* Plans and reconstruction *)

\* apply_recovery_patch fails on a foreign revision, and on a relationship
\* definition whose inverse label is None: the column is NOT NULL.
Applies(segment, d) ==
    /\ d.revision = segment.from
    /\ \A k \in NamedRelationshipDefinitions(segment.changes) \cap Unlabelled :
           segment.source.relationshipDefinitions[k].state = "none"

\* The identities the patch lists, and those of the Nodes it carries.
IssuedBy(segment) ==
    {n \in NamedNodes(segment.changes) :
        \/ segment.source.lifecycle[n] # "none"
        \/ \E c \in segment.changes :
               c.kind \in {"node_created", "node_purged"} /\ c.node = n}

Applied(segment, d) ==
    LET content == Patched(Content(d), segment.source, segment.changes)
    IN  [revision |-> segment.through,
         issued |-> d.issued \cup IssuedBy(segment),
         lifecycle |-> content.lifecycle,
         modified |-> content.modified,
         properties |-> content.properties,
         relationships |-> content.relationships,
         propertyDefinitions |-> content.propertyDefinitions,
         relationshipDefinitions |-> content.relationshipDefinitions,
         journal |-> {}]

\* The segments that lead past a baseline.
Past(baseline) == {s \in manifest.segments : s.through > baseline.store.revision}

\* The file passes its checksum, and begins at the baseline or where another ends.
Continues(segment, baseline) ==
    /\ segment \in segments
    /\ \/ segment.from = baseline.store.revision
       \/ \E s \in Past(baseline) : s.through = segment.from

\* Fault: the plan goes on behind a segment that does not follow.
PlannedAcrossGap(baseline) == Past(baseline) \cap segments

\* plan_from_baseline passes over the segments the baseline covers, takes the
\* others in order, and stops at the first that does not follow.  The segments of
\* a manifest never overlap (Chained in RecoveryProofs): t comes before s when it
\* ends before s does.
Planned(baseline) ==
    {s \in Past(baseline) :
        \A t \in Past(baseline) : t.through <= s.through => Continues(t, baseline)}

\* The revisions a replay of the plan passes through, and the one before r.
Stops(baseline) == {baseline.store.revision} \cup {s.through : s \in Planned(baseline)}
StopBefore(baseline, r) == Max({q \in Stops(baseline) : q < r})
RecoveredRevision(baseline) == Max(Stops(baseline))

\* best_plan: among the intact baselines one that reaches furthest, and the
\* newest of those.
BestBaselines ==
    IF ~Loadable THEN {}
    ELSE LET usable == {b \in manifest.baselines : Intact(b)}
             furthest == {b \in usable : \A c \in usable :
                             RecoveredRevision(b) >= RecoveredRevision(c)}
         IN  {b \in furthest : \A c \in furthest : b.store.revision >= c.store.revision}

Recoverable == BestBaselines # {}

\* The candidate at each stop: the baseline, then the segments applied to it.
Candidate(baseline) ==
    LET candidate[r \in Stops(baseline)] ==
            IF r = baseline.store.revision THEN baseline.store
            ELSE Applied(CHOOSE s \in Planned(baseline) : s.through = r,
                         candidate[StopBefore(baseline, r)])
    IN  candidate

CanReplay(baseline) ==
    \A s \in Planned(baseline) :
        Applies(s, Candidate(baseline)[StopBefore(baseline, s.through)])

-----------------------------------------------------------------------------
(* Steps of a recovery operation *)

Closed == [at |-> "closed"]
Idle == [at |-> "idle"]
\* Steps of reset_to_single_baseline; `confirms` are the Nodes whose purge the
\* caller reports as done once it returns, `opening` whether open called it.
Resetting(at, barrier, confirms, opening) ==
    [at |-> at, barrier |-> barrier, confirms |-> confirms, opening |-> opening]
CatchingUp(at, opening) == [at |-> at, opening |-> opening]

Opening == task.at \notin {"closed", "idle"} /\ task.opening

RecoveryInit ==
    /\ Init
    /\ records = "intact"
    /\ manifest = NoManifest
    /\ baselines = [slot \in Slots |-> NoFile]
    /\ segments = {}
    /\ task = Closed
    /\ purges = {}
    /\ confirmed = {}
    /\ committed = [r \in 0 .. MaxRevision |-> IF r = 0 THEN Frozen(db) ELSE NoFile]

Quiet == UNCHANGED <<vars, records, purges, committed>>

\* reset_to_single_baseline
ResetBaseline ==
    /\ task.at = "reset"
    /\ baselines' = [baselines EXCEPT !["A"] = Frozen(db)]
    /\ task' = [task EXCEPT !.at = "reset_save"]
    /\ Quiet /\ UNCHANGED <<manifest, segments, confirmed>>

\* Fault: the other baseline and the segments stay in the manifest.
ResetSaveKeepingArtifacts ==
    /\ task.at = "reset_save"
    /\ manifest' = [revision |-> db.revision, barrier |-> task.barrier,
                    baselines |-> {Baseline("A", db)} \cup
                        IF manifest = NoManifest THEN {}
                        ELSE {b \in manifest.baselines : b.slot # "A"},
                    segments |-> {}]
    /\ task' = [task EXCEPT !.at = "reset_clean"]
    /\ Quiet /\ UNCHANGED <<baselines, segments, confirmed>>

ResetSave ==
    /\ task.at = "reset_save"
    /\ manifest' = [revision |-> db.revision, barrier |-> task.barrier,
                    baselines |-> {Baseline("A", db)}, segments |-> {}]
    /\ task' = [task EXCEPT !.at = "reset_clean"]
    /\ Quiet /\ UNCHANGED <<baselines, segments, confirmed>>

ResetClean ==
    /\ task.at = "reset_clean"
    /\ baselines' = [baselines EXCEPT !["B"] = NoFile]
    /\ segments' = {}
    /\ confirmed' = confirmed \cup task.confirms
    /\ task' = Idle
    /\ Quiet /\ UNCHANGED manifest

\* What catch_up does first, given the manifest it loaded.
CatchUpFrom(opening) ==
    LET segment == Segment(db, manifest.revision)
        reset(barrier) == Resetting("reset", barrier, {}, opening)
    IN  /\ UNCHANGED <<manifest, baselines, confirmed>>
        /\ \/ /\ Current(db, manifest.revision)
              /\ task' = Idle
              /\ UNCHANGED segments
           \/ /\ Unavailable(db, manifest.revision)
              /\ task' = reset(manifest.barrier)
              /\ UNCHANGED segments
           \/ /\ Available(db, manifest.revision)
              /\ CarriesPurge(segment)
              /\ task' = reset(db.revision)
              /\ UNCHANGED segments
           \/ /\ Available(db, manifest.revision)
              /\ ~CarriesPurge(segment)
              /\ segments' = {s \in segments : <<s.from, s.through>> #
                                  <<segment.from, segment.through>>} \cup {segment}
              /\ task' = CatchingUp("segment_save", opening)

SegmentSave ==
    /\ task.at = "segment_save"
    /\ LET segment == Segment(db, manifest.revision)
           saved == [manifest EXCEPT !.revision = db.revision,
                                     !.segments = @ \cup {segment}]
           newest == {s \in saved.segments : \A b \in manifest.baselines :
                         s.through > b.store.revision}
       IN  /\ manifest' = saved
           /\ task' = IF Cardinality(newest) >= SegmentsPerBaseline
                      THEN [task EXCEPT !.at = "rotate"] ELSE Idle
    /\ Quiet /\ UNCHANGED <<baselines, segments, confirmed>>

\* Fault: the slots do not alternate.
RotationSlotFixed == "A"

\* rotate_baseline: the free slot, else the one of the oldest baseline.
RotationSlot ==
    IF "B" \notin {b.slot : b \in manifest.baselines} THEN "B"
    ELSE (CHOOSE b \in manifest.baselines : \A c \in manifest.baselines :
              b.store.revision <= c.store.revision).slot

RotateBaseline ==
    /\ task.at = "rotate"
    /\ baselines' = [baselines EXCEPT ![RotationSlot] = Frozen(db)]
    /\ task' = [task EXCEPT !.at = "rotate_save"]
    /\ Quiet /\ UNCHANGED <<manifest, segments, confirmed>>

\* Fault: only the segments past the newest baseline are kept.
RotateSaveDroppingSegments ==
    /\ task.at = "rotate_save"
    /\ LET kept == {b \in manifest.baselines : b.slot # RotationSlot}
                       \cup {Baseline(RotationSlot, db)}
       IN  manifest' = [manifest EXCEPT
                           !.baselines = kept,
                           !.segments = {s \in @ : \A b \in kept :
                                             s.through > b.store.revision}]
    /\ task' = [task EXCEPT !.at = "rotate_clean"]
    /\ Quiet /\ UNCHANGED <<baselines, segments, confirmed>>

RotateSave ==
    /\ task.at = "rotate_save"
    /\ LET kept == {b \in manifest.baselines : b.slot # RotationSlot}
                       \cup {Baseline(RotationSlot, db)}
       IN  manifest' = [manifest EXCEPT
                           !.baselines = kept,
                           !.segments = {s \in @ : \E b \in kept :
                                             s.through > b.store.revision}]
    /\ task' = [task EXCEPT !.at = "rotate_clean"]
    /\ Quiet /\ UNCHANGED <<baselines, segments, confirmed>>

RotateClean ==
    /\ task.at = "rotate_clean"
    /\ segments' = segments \cap manifest.segments
    /\ task' = Idle
    /\ Quiet /\ UNCHANGED <<manifest, baselines, confirmed>>

-----------------------------------------------------------------------------
(* Operations of the Core *)

\* A commit under a new revision: the history after it is what follows it.
Observe ==
    /\ committed' =
           IF db'.revision = db.revision THEN committed
           ELSE [r \in 0 .. MaxRevision |->
                    IF r = db'.revision THEN Frozen(db')
                    ELSE IF r < db'.revision THEN committed[r] ELSE NoFile]
    /\ LET purged == {c.node : c \in {c \in ChangesSince(db', db.revision) :
                                         c.kind = "node_purged"}}
       IN  purges' = IF purged = {} THEN purges
                     ELSE purges \cup {[revision |-> db'.revision, nodes |-> purged]}

\* Any Record Store step, with the Core open and the lock free.
StoreStep ==
    /\ task = Idle
    /\ Next
    /\ Observe
    /\ UNCHANGED <<records, manifest, baselines, segments, task, confirmed>>

\* sync_recovery_best_effort.
CatchUp ==
    /\ task = Idle /\ txn = "none"
    /\ Loadable
    /\ ~Current(db, manifest.revision)
    /\ CatchUpFrom(FALSE)
    /\ Quiet

\* reconcile_recovery: first the artifacts are verified.
Reconcile ==
    /\ task = Idle /\ txn = "none"
    /\ Loadable
    /\ IF \E b \in BestBaselines : RecoveredRevision(b) = manifest.revision
       THEN CatchUpFrom(FALSE)
       ELSE /\ task' = Resetting("reset", manifest.barrier, {}, FALSE)
            /\ UNCHANGED <<manifest, baselines, segments, confirmed>>
    /\ Quiet

\* complete_purge_barrier; the Record Store lock was free since the commit, and
\* a later commit makes the barrier fail.
CompletePurgeBarrier ==
    /\ task = Idle /\ txn = "none"
    /\ \E p \in purges :
           /\ purges' = purges \ {p}
           /\ task' = IF p.revision = db.revision
                      THEN Resetting("reset", p.revision, p.nodes, FALSE) ELSE Idle
    /\ UNCHANGED <<vars, records, manifest, baselines, segments, confirmed, committed>>

\* open on an intact Record Store: ensure_initialized and reconcile_startup.
Open ==
    /\ task = Closed /\ records = "intact"
    /\ IF Loadable THEN CatchUpFrom(TRUE)
       ELSE /\ task' = Resetting("reset", 0, {}, TRUE)
            /\ UNCHANGED <<manifest, baselines, segments, confirmed>>
    /\ Quiet

\* open without a usable records.sqlite: reconstruct up to the promotion of its
\* candidate, which is where it first shows.  What is left of it is a reset.
Reconstruct ==
    /\ task = Closed /\ records = "lost"
    /\ \E b \in BestBaselines :
           LET recovered == Candidate(b)[RecoveredRevision(b)]
           IN  /\ CanReplay(b)
               /\ db' = recovered
               /\ work' = recovered
               /\ task' = Resetting("reset",
                              IF manifest.barrier <= recovered.revision
                              THEN manifest.barrier ELSE 0, {}, TRUE)
    /\ records' = "intact"
    /\ UNCHANGED <<txn, ordinal, manifest, baselines, segments, purges, confirmed, committed>>

-----------------------------------------------------------------------------
(* Faults *)

\* The process dies, or the Core is closed: an open transaction is gone, and so
\* is the thread that was to complete a barrier.
Crash ==
    /\ task # Closed
    /\ task' = Closed
    /\ txn' = "none" /\ work' = db /\ ordinal' = 0
    /\ purges' = {}
    /\ UNCHANGED <<db, records, manifest, baselines, segments, confirmed, committed>>

\* The step's I/O fails.  A caught error leaves the Core open; open passes it on.
IoError ==
    /\ "io" \in Faults
    /\ task \notin {Closed, Idle}
    /\ task' = IF Opening THEN Closed ELSE Idle
    /\ UNCHANGED <<vars, records, manifest, baselines, segments, purges, confirmed, committed>>

Damage ==
    /\ "damage" \in Faults
    /\ \/ /\ \E slot \in Slots : baselines' = [baselines EXCEPT ![slot] = NoFile]
          /\ UNCHANGED segments
       \/ /\ \E s \in segments : segments' = segments \ {s}
          /\ UNCHANGED baselines
    /\ UNCHANGED <<vars, records, manifest, task, purges, confirmed, committed>>

LoseRecords ==
    /\ "loss" \in Faults
    /\ task = Closed /\ manifest # NoManifest
    /\ records' = "lost"
    /\ UNCHANGED <<vars, manifest, baselines, segments, task, purges, confirmed, committed>>

RecoveryNext ==
    \/ StoreStep
    \/ CatchUp \/ Reconcile \/ CompletePurgeBarrier
    \/ Open \/ Reconstruct
    \/ ResetBaseline \/ ResetSave \/ ResetClean
    \/ SegmentSave
    \/ RotateBaseline \/ RotateSave \/ RotateClean
    \/ Crash \/ IoError \/ Damage \/ LoseRecords

RecoverySpec == RecoveryInit /\ [][RecoveryNext]_<<vars, recoveryVars>>

-----------------------------------------------------------------------------
(* Properties *)

RecoveryTypeOK ==
    /\ TypeOK
    /\ records \in {"intact", "lost"}
    /\ manifest # NoManifest =>
           /\ manifest.revision \in Nat /\ manifest.barrier \in Nat
           /\ \A b \in manifest.baselines : b.slot \in Slots /\ b.store \in Databases
           /\ \A s \in manifest.segments : s.from < s.through /\ s.source \in Databases
    /\ \A slot \in Slots : baselines[slot] = NoFile \/ baselines[slot] \in Databases
    /\ confirmed \subseteq NodeIds

\* Whatever has been damaged, whichever step the process died at, each state
\* reconstruction can stop at is the one that was committed under that revision,
\* ledger of issued identities included.
RecoveredStatesWereCommitted ==
    Loadable =>
        \A b \in manifest.baselines : Intact(b) =>
            LET candidate == Candidate(b)
            IN  \A r \in DOMAIN candidate : candidate[r] = committed[r]

\* Once apply_batch has reported a purge as done, neither the store nor any
\* artifact the manifest names holds the Node again: "Node-owned purged state is
\* not resurrected" (docs/SCHEMA-MIGRATION-RECOVERY.md).
PurgesStayPurged ==
    \A n \in confirmed :
        /\ db.lifecycle[n] = "none"
        /\ manifest # NoManifest =>
               /\ \A b \in manifest.baselines : b.store.lifecycle[n] = "none"
               /\ \A s \in manifest.segments : s.source.lifecycle[n] = "none"

\* A barrier that failed is made good by any later catch-up: "repair with
\* `reconcile_recovery` and verify the barrier/coverage" (docs/API.md).  Once the
\* manifest covers the current revision, no artifact holds a retired Node.
CoverageHoldsNoRetiredNode ==
    (Loadable /\ Current(db, manifest.revision)) =>
        \A n \in {n \in db.issued : db.lifecycle[n] = "none"} :
            /\ \A b \in manifest.baselines : b.store.lifecycle[n] = "none"
            /\ \A s \in manifest.segments : s.source.lifecycle[n] = "none"

\* The baselines are redundant: from any one that is intact, the segments the
\* manifest names lead to its revision, as long as none of them is damaged.
ManifestIsReachable ==
    (Loadable /\ manifest.segments \subseteq segments) =>
        \A b \in manifest.baselines : Intact(b) => RecoveredRevision(b) = manifest.revision

\* The manifest is saved between writing an artifact and deleting an old one, and
\* rotation alternates the slots: no step of an operation and no crash takes away
\* a segment file the manifest names, nor its last intact baseline, but for the first
\* write of a reset and for a rotation that an earlier unfinished write left one
\* baseline to start with.
ArtifactsOutliveManifest ==
    [][task' # task =>
          /\ manifest' # NoManifest => (manifest'.segments \cap segments) \subseteq segments'
          /\ (/\ Recoverable /\ \A b \in manifest.baselines : Intact(b)
              /\ Loadable' /\ ~Recoverable') => task.at = "reset"]_<<vars, recoveryVars>>

\* "If `records.sqlite` is unavailable and recovery material validates, Core can
\* reconstruct canonical state through the recoverable revision"
\* (docs/SCHEMA-MIGRATION-RECOVERY.md): a plan that validates can be replayed.
ValidPlansReplay == \A b \in BestBaselines : CanReplay(b)
=============================================================================
