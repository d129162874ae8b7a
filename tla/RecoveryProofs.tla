----------------------------- MODULE RecoveryProofs -----------------------------
(***************************************************************************)
(* Theorems about Local Record recovery for every set of identities, keys  *)
(* and kinds, every retention and every number of segments per baseline:   *)
(* whatever the process was doing when it died, whichever artifacts were   *)
(* damaged since, what the manifest names leads to committed states only.  *)
(***************************************************************************)
EXTENDS Recovery, ProjectionProofs

-----------------------------------------------------------------------------
(* The inductive invariant *)

HistoryInvariant ==
    /\ Inductive
    /\ AccountedInvariant
    /\ LedgerInvariant
    /\ Bounded
    /\ DOMAIN committed = 0 .. MaxRevision
    /\ \A r \in 0 .. db.revision : Recorded(committed, r) /\ Reaches(committed[r], db)
    /\ committed[db.revision] = Frozen(db)

Manifests ==
    [revision : 0 .. MaxRevision, barrier : Nat,
     baselines : SUBSET [slot : Slots, store : Databases],
     segments : SUBSET [from : Nat, through : Nat, changes : SUBSET Changes,
                        source : Databases]]

\* A segment leads from one committed state to a later one, and its changes name
\* all that differs between them.
SegmentSound(h, s) ==
    /\ s.from < s.through
    /\ h[s.through] = s.source
    /\ Covered(h[s.from], s.source, s.changes)
    /\ IssuedBy(s) \subseteq s.source.issued

\* No two segments overlap, and from each baseline they lead without a gap to the
\* manifest's revision.
Chained(m) ==
    /\ \A s, t \in m.segments : s = t \/ s.through <= t.from \/ t.through <= s.from
    /\ \A b \in m.baselines :
           /\ \/ b.store.revision = m.revision
              \/ \E s \in m.segments : s.through = m.revision
           /\ \A s \in m.segments : s.through > b.store.revision =>
                  \/ s.from = b.store.revision
                  \/ \E t \in m.segments : t.through > b.store.revision /\ t.through = s.from

\* The states an artifact of the manifest carries.
States(m) == {b.store : b \in m.baselines} \cup {s.source : s \in m.segments}

\* A Node that an artifact holds live is live at the manifest's revision, and one
\* whose purge was reported is retired in every artifact.
Cleared(m, h, done) ==
    \A d \in States(m), n \in NodeIds :
        /\ d.lifecycle[n] # "none" => h[m.revision].lifecycle[n] # "none"
        /\ n \in done => Retired(d, n)

Sound(m, h, done) ==
    /\ m \in Manifests
    /\ \A r \in 0 .. m.revision : Recorded(h, r)
    /\ \A b \in m.baselines :
           b.store.revision <= m.revision /\ h[b.store.revision] = b.store
    /\ \A s \in m.segments : s.through <= m.revision /\ SegmentSound(h, s)
    /\ Chained(m)
    /\ Cleared(m, h, done)

ResetSteps == {"reset", "reset_save", "reset_clean"}
RotateSteps == {"rotate", "rotate_save", "rotate_clean"}
Resets == [at : ResetSteps, barrier : Nat, confirms : SUBSET NodeIds, opening : BOOLEAN]
CatchUps == [at : RotateSteps \cup {"segment_save"}, opening : BOOLEAN]

\* The lock is held by the operation that is under way, so that what it found
\* out about the store and the manifest still holds at its next step.
TaskInvariant ==
    /\ task \in {Closed, Idle} \cup Resets \cup CatchUps
    /\ task # Idle => txn = "none"
    /\ task = Closed \/ (task \in Resets \cup CatchUps /\ task.opening) => purges = {}
    /\ (/\ task = Idle \/ (task \in Resets \cup CatchUps /\ ~task.opening)
        /\ manifest # NoManifest) => manifest.revision <= db.revision
    /\ task \in Resets => \A n \in task.confirms : Retired(db, n)
    /\ (task \in Resets /\ task.at = "reset_clean") =>
           /\ manifest.revision = db.revision
           /\ manifest.baselines = {Baseline("A", db)} /\ manifest.segments = {}
    /\ task \in CatchUps => Sound(manifest, committed, confirmed)
    /\ (task \in CatchUps /\ task.at = "segment_save") =>
           /\ Available(db, manifest.revision)
           /\ ~CarriesPurge(Segment(db, manifest.revision))
    /\ (task \in CatchUps /\ task.at \in RotateSteps) => manifest.revision = db.revision

PurgesInvariant ==
    /\ purges \in SUBSET [revision : Nat, nodes : SUBSET NodeIds]
    /\ \A p \in purges : \A n \in p.nodes : Retired(db, n)
    /\ confirmed \in SUBSET NodeIds
    /\ \A n \in confirmed : Retired(db, n)

FilesInvariant ==
    /\ records \in {"intact", "lost"}
    /\ baselines \in [Slots -> Databases \cup {NoFile}]

RecoveryInvariant ==
    /\ HistoryInvariant
    /\ manifest # NoManifest => Sound(manifest, committed, confirmed)
    /\ TaskInvariant
    /\ PurgesInvariant
    /\ FilesInvariant

-----------------------------------------------------------------------------
(* Numbers *)

\* The greatest of a bounded set of numbers is the one Max chooses.
LEMMA GreatestNumber ==
    ASSUME NEW bound \in Nat, NEW S \in SUBSET (0 .. bound), S # {}
    PROVE  Max(S) \in S /\ \A n \in S : n <= Max(S)
<1> DEFINE Gaps == {g \in Nat : bound - g \in S}
<1>1. Gaps # {}
  <2>1. PICK n \in S : TRUE
    OBVIOUS
  <2>2. bound - n \in Gaps
    <3>1. bound - n \in Nat /\ bound - (bound - n) = n
      BY <2>1
    <3> QED
      BY <2>1, <3>1
  <2> QED
    BY <2>2
<1>2. PICK g \in Gaps : \A other \in Gaps : g <= other
  BY <1>1, LeastNumber
<1>3. bound - g \in S /\ g \in Nat
  BY <1>2
<1>4. \A n \in S : bound - g >= n
  <2> TAKE n \in S
  <2>1. n \in 0 .. bound
    OBVIOUS
  <2>2. bound - n \in Nat /\ bound - (bound - n) = n
    BY <2>1
  <2>3. bound - n \in Gaps
    BY <2>2
  <2>4. g <= bound - n
    BY <1>2, <2>3
  <2> QED
    BY <1>3, <2>1, <2>4
<1> HIDE DEF Gaps
<1>5. \E m \in S : \A n \in S : m >= n
  BY <1>3, <1>4
<1>6. Max(S) \in S /\ \A n \in S : Max(S) >= n
  BY <1>5 DEF Max
<1>7. \A m, n \in S : m >= n => n <= m
  OBVIOUS
<1> QED
  BY <1>6, <1>7

-----------------------------------------------------------------------------
(* Reconstruction *)

\* A segment applied to the state it begins at gives the one it ends at.
LEMMA SegmentApplied ==
    ASSUME NEW h, NEW s, Recorded(h, s.from), Recorded(h, s.through), SegmentSound(h, s)
    PROVE  Applied(s, h[s.from]) = h[s.through]
<1> DEFINE d == h[s.from]
           e == s.source
<1>1. /\ d \in Databases /\ e \in Databases /\ Covered(d, e, s.changes)
      /\ h[s.through] = e /\ e.revision = s.through /\ e.journal = {}
      /\ IssuedBy(s) \subseteq e.issued
  BY DEF Recorded, SegmentSound
<1>2. d.issued \cup IssuedBy(s) = e.issued
  <2>1. d.issued \subseteq e.issued
    BY <1>1 DEF Covered
  <2>2. ASSUME NEW n \in e.issued, n \notin d.issued
        PROVE  n \in IssuedBy(s)
    <3>1. PICK c \in s.changes : c.kind = "node_created" /\ c.node = n
      BY <1>1, <2>2 DEF Covered
    <3>2. n \in NodeIds
      BY <1>1, DatabaseFields
    <3>3. n \in NamedNodes(s.changes)
      BY <3>1, <3>2 DEF NamedNodes, NodeChangeKinds
    <3> QED
      BY <3>1, <3>3 DEF IssuedBy
  <2> QED
    BY <1>1, <2>1, <2>2
<1>3. Patched(Content(d), e, s.changes) = Content(e)
  BY <1>1, CoveredIsPatched
<1>4. Applied(s, d) = [revision |-> e.revision,
                       issued |-> e.issued,
                       lifecycle |-> e.lifecycle,
                       modified |-> e.modified,
                       properties |-> e.properties,
                       relationships |-> e.relationships,
                       propertyDefinitions |-> e.propertyDefinitions,
                       relationshipDefinitions |-> e.relationshipDefinitions,
                       journal |-> e.journal]
  <2> HIDE DEF d, e
  <2>1. /\ Content(e).lifecycle = e.lifecycle
        /\ Content(e).modified = e.modified
        /\ Content(e).properties = e.properties
        /\ Content(e).relationships = e.relationships
        /\ Content(e).propertyDefinitions = e.propertyDefinitions
        /\ Content(e).relationshipDefinitions = e.relationshipDefinitions
    BY DEF Content
  <2>2. s.source = e
    BY DEF e
  <2> QED
    BY <1>1, <1>2, <1>3, <2>1, <2>2 DEF Applied
<1>5. e = [revision |-> e.revision,
           issued |-> e.issued,
           lifecycle |-> e.lifecycle,
           modified |-> e.modified,
           properties |-> e.properties,
           relationships |-> e.relationships,
           propertyDefinitions |-> e.propertyDefinitions,
           relationshipDefinitions |-> e.relationshipDefinitions,
           journal |-> e.journal]
  <2> HIDE DEF e
  <2> QED
    BY <1>1 DEF Databases
<1> QED
  BY <1>1, <1>4, <1>5

\* What the proofs about a plan need of a sound manifest.
LEMMA SoundFacts ==
    ASSUME Sound(manifest, committed, confirmed), NEW b \in manifest.baselines
    PROVE  /\ manifest.revision \in 0 .. MaxRevision /\ manifest.revision \in Nat
           /\ b.store \in Databases /\ b.store.revision \in 0 .. manifest.revision
           /\ committed[b.store.revision] = b.store
           /\ \A s \in manifest.segments :
                  /\ s.from \in Nat /\ s.through \in Nat /\ s.from < s.through
                  /\ s.through <= manifest.revision
                  /\ SegmentSound(committed, s)
                  /\ Recorded(committed, s.from) /\ Recorded(committed, s.through)
           /\ Chained(manifest)
<1>1. /\ manifest.revision \in 0 .. MaxRevision
      /\ manifest.baselines \subseteq [slot : Slots, store : Databases]
      /\ manifest.segments \subseteq
            [from : Nat, through : Nat, changes : SUBSET Changes, source : Databases]
  BY DEF Sound, Manifests
<1>2. b.store \in Databases /\ b.store.revision \in Nat /\ manifest.revision \in Nat
  BY <1>1, DatabaseFields, BoundsAssumption
<1> QED
  BY <1>1, <1>2 DEF Sound, SegmentSound

\* The stops of a plan: the baseline's revision, and where each segment of the
\* plan ends; and each such segment begins at the stop before.
LEMMA PlanStops ==
    ASSUME Sound(manifest, committed, confirmed), NEW b \in manifest.baselines
    PROVE  /\ Stops(b) \subseteq 0 .. manifest.revision
           /\ b.store.revision \in Stops(b)
           /\ \A s \in Planned(b) :
                  /\ s \in manifest.segments /\ s.through # b.store.revision
                  /\ s.through \in Stops(b)
                  /\ s.from \in Stops(b) /\ s.from < s.through
                  /\ StopBefore(b, s.through) = s.from
           /\ \A s, t \in Planned(b) : s.through = t.through => s = t
<1>0. /\ manifest.revision \in Nat /\ b.store.revision \in 0 .. manifest.revision
      /\ Planned(b) \subseteq Past(b) /\ Past(b) \subseteq manifest.segments
      /\ \A s \in Past(b) :
             /\ s.from \in Nat /\ s.through \in 0 .. manifest.revision /\ s.from < s.through
             /\ s.through > b.store.revision
      /\ \A s, t \in Past(b) : s = t \/ s.through <= t.from \/ t.through <= s.from
  BY SoundFacts DEF Planned, Past, Chained
<1>1. Stops(b) \subseteq 0 .. manifest.revision /\ b.store.revision \in Stops(b)
  BY <1>0 DEF Stops
<1>2. ASSUME NEW s \in Planned(b)
      PROVE  /\ s.from \in Stops(b)
             /\ StopBefore(b, s.through) = s.from
  <2>0. s \in Past(b) /\ \A t \in Past(b) : t.through <= s.through => Continues(t, b)
    BY <1>0 DEF Planned
  <2>1. s.from = b.store.revision \/ \E u \in Past(b) : u.through = s.from
    BY <1>0, <2>0 DEF Continues
  <2>2. ASSUME NEW u \in Past(b), u.through = s.from
        PROVE  u \in Planned(b) /\ u.through > b.store.revision
    <3>1. \A t \in Past(b) : t.through <= u.through => t.through <= s.through
      BY <1>0, <2>0, <2>2
    <3> QED
      BY <1>0, <2>0, <2>2, <3>1 DEF Planned
  <2>3. s.from \in Stops(b) /\ b.store.revision <= s.from
    BY <1>0, <1>1, <2>0, <2>1, <2>2 DEF Stops
  <2>4. ASSUME NEW q \in Stops(b), q < s.through
        PROVE  q <= s.from
    <3>1. CASE q = b.store.revision
      BY <2>3, <3>1
    <3>2. ASSUME NEW t \in Planned(b), q = t.through
          PROVE  q <= s.from
      <4>1. t \in Past(b) /\ t # s
        BY <1>0, <2>0, <2>4, <3>2
      <4> QED
        BY <1>0, <2>0, <2>4, <3>2, <4>1
    <3> QED
      BY <3>1, <3>2 DEF Stops
  <2> DEFINE before == {q \in Stops(b) : q < s.through}
  <2>5. before \in SUBSET (0 .. manifest.revision) /\ s.from \in before
    BY <1>0, <1>1, <2>0, <2>3
  <2>6. Max(before) \in before /\ \A q \in before : q <= Max(before)
    <3> HIDE DEF before
    <3> QED
      BY <1>0, <2>5, GreatestNumber
  <2>7. Max(before) = s.from
    <3>1. Max(before) <= s.from /\ s.from <= Max(before)
      BY <2>4, <2>5, <2>6
    <3>2. Max(before) \in Nat /\ s.from \in Nat
      <4>1. Max(before) \in Stops(b)
        BY <2>6
      <4>2. \A q \in 0 .. manifest.revision : q \in Nat
        BY <1>0
      <4> QED
        BY <1>0, <1>1, <2>0, <4>1, <4>2
    <3> QED
      BY <3>1, <3>2
  <2> QED
    BY <2>3, <2>7 DEF StopBefore
<1>3. \A s \in Planned(b) :
        /\ s \in manifest.segments /\ s.through # b.store.revision
        /\ s.through \in Stops(b) /\ s.from < s.through
  BY <1>0 DEF Stops
<1>4. \A s, t \in Planned(b) : s.through = t.through => s = t
  BY <1>0
<1> QED
  BY <1>1, <1>2, <1>3, <1>4

\* Each state that the replay of a plan passes through was committed under that
\* revision: by induction over the stops.
LEMMA CandidateIsCommitted ==
    ASSUME Sound(manifest, committed, confirmed), NEW b \in manifest.baselines
    PROVE  /\ DOMAIN Candidate(b) = Stops(b)
           /\ \A r \in Stops(b) : Candidate(b)[r] = committed[r]
<1> DEFINE Good(f) ==
             f = [r \in Stops(b) |->
                     IF r = b.store.revision THEN b.store
                     ELSE Applied(CHOOSE s \in Planned(b) : s.through = r,
                                  f[StopBefore(b, r)])]
           history == [r \in Stops(b) |-> committed[r]]
<1>0. /\ Stops(b) \in SUBSET Nat
      /\ b.store.revision \in Stops(b) /\ committed[b.store.revision] = b.store
      /\ \A s \in Planned(b) :
             /\ s.from \in Stops(b) /\ s.from < s.through
             /\ StopBefore(b, s.through) = s.from
             /\ Applied(s, committed[s.from]) = committed[s.through]
  <2>1. \A s \in Planned(b) : Applied(s, committed[s.from]) = committed[s.through]
    BY PlanStops, SoundFacts, SegmentApplied
  <2>2. \A q \in 0 .. manifest.revision : q \in Nat
    BY SoundFacts
  <2> QED
    BY <2>1, <2>2, PlanStops, SoundFacts
<1>1. ASSUME NEW r \in Stops(b), r # b.store.revision
      PROVE  \E s \in Planned(b) :
                /\ s = (CHOOSE t \in Planned(b) : t.through = r)
                /\ s.through = r
  BY <1>1 DEF Stops
<1>2. Good(history)
  <2>1. ASSUME NEW r \in Stops(b), r # b.store.revision
        PROVE  committed[r] = Applied(CHOOSE s \in Planned(b) : s.through = r,
                                      history[StopBefore(b, r)])
    BY <1>0, <1>1, <2>1
  <2> QED
    BY <1>0, <2>1
<1>3. Candidate(b) = CHOOSE f : Good(f)
  BY DEF Candidate
<1>4. Good(Candidate(b))
  <2> HIDE DEF Good, history
  <2> QED
    BY <1>2, <1>3
<1>5. \A r \in Stops(b) : Candidate(b)[r] = committed[r]
  <2> DEFINE wrong == {r \in Stops(b) : Candidate(b)[r] # committed[r]}
  <2> SUFFICES ASSUME wrong # {}
               PROVE  FALSE
    OBVIOUS
  <2>1. PICK r \in wrong : \A q \in wrong : r <= q
    <3>1. wrong \in SUBSET Nat
      BY <1>0
    <3> HIDE DEF wrong
    <3> QED
      BY <3>1, LeastNumber
  <2>2. r \in Stops(b) /\ Candidate(b)[r] # committed[r]
    BY <2>1
  <2>3. r # b.store.revision
    BY <1>0, <1>4, <2>2
  <2>4. PICK s \in Planned(b) : s = (CHOOSE t \in Planned(b) : t.through = r) /\ s.through = r
    BY <1>1, <2>2, <2>3
  <2>5. Candidate(b)[r] = Applied(s, Candidate(b)[s.from])
    <3>1. Candidate(b)[r] = Applied(CHOOSE t \in Planned(b) : t.through = r,
                                    Candidate(b)[StopBefore(b, r)])
      BY <1>4, <2>2, <2>3
    <3>2. StopBefore(b, r) = s.from
      BY <1>0, <2>4
    <3>3. (CHOOSE t \in Planned(b) : t.through = r) = s
      BY <2>4
    <3> QED
      BY <3>1, <3>2, <3>3
  <2>6. s.from \in Stops(b) /\ s.from \notin wrong
    <3>1. s.from \in Stops(b) /\ s.from < r /\ s.from \in Nat /\ r \in Nat
      BY <1>0, <2>2, <2>4
    <3> QED
      BY <2>1, <3>1
  <2>7. Candidate(b)[s.from] = committed[s.from]
    BY <2>6
  <2> QED
    BY <1>0, <2>2, <2>4, <2>5, <2>7
<1> QED
  BY <1>4, <1>5

-----------------------------------------------------------------------------
(* The history *)

LEMMA HistoryQuiet ==
    ASSUME HistoryInvariant, UNCHANGED <<vars, committed>>
    PROVE  HistoryInvariant'
  BY DEF HistoryInvariant, vars, Inductive, TypeOK, AccountedInvariant, LedgerInvariant, Bounded

LEMMA FrozenEffect ==
    ASSUME NEW d \in Databases
    PROVE  /\ Frozen(d) \in Databases
           /\ Frozen(d).revision = d.revision /\ Frozen(d).journal = {}
           /\ Frozen(d).issued = d.issued /\ Frozen(d).lifecycle = d.lifecycle
           /\ \A n : Retired(Frozen(d), n) <=> Retired(d, n)
           /\ \A x, changes : Covered(x, d, changes) => Covered(x, Frozen(d), changes)
           /\ Consistent(d) => Consistent(Frozen(d))
<1>1. Frozen(d) = Unjournalled(d)
  BY DEF Frozen, Unjournalled
<1>2. Content(Frozen(d)) = Content(d) /\ Frozen(d).issued = d.issued
  BY <1>1, UnjournalledEffect
<1>3. \A x, changes : Covered(x, d, changes) => Covered(x, Frozen(d), changes)
  BY <1>2 DEF Covered, Content
<1> QED
  BY <1>1, <1>3, UnjournalledEffect DEF Retired

\* What a step of the Record Store leaves of the history, and of retirement.
LEMMA HistoryStore ==
    ASSUME HistoryInvariant, Next, Observe
    PROVE  /\ HistoryInvariant'
           /\ db.revision \in Nat /\ db'.revision \in Nat /\ db.revision <= db'.revision
           /\ \A q \in 0 .. db.revision : committed'[q] = committed[q]
           /\ \A n : Retired(db, n) => Retired(db', n)
<1>0. /\ db \in Databases /\ db' \in Databases /\ db.revision \in Nat /\ MaxRevision \in Nat
      /\ Inductive' /\ AccountedInvariant' /\ LedgerInvariant' /\ Bounded'
      /\ db'.revision <= MaxRevision
      /\ db' = db \/ Prunes(db, db') \/ (Follows(db, db') /\ Accounted(db, db'))
      /\ Consistent(db) /\ Consistent(db')
  <2>1. StoredStep /\ Inductive /\ AccountedInvariant /\ LedgerInvariant /\ Bounded
    BY NextIsStoredStep DEF HistoryInvariant, Inductive
  <2>2. Inductive' /\ db \in Databases
    BY <2>1, InductiveStep DEF Inductive, TypeOK
  <2>3. db'.revision <= MaxRevision /\ (txn' = "open" => db'.revision < MaxRevision)
    BY <2>1, StepKeepsBound
  <2> QED
    BY <2>1, <2>2, <2>3, AccountedInvariantStep, LedgerStep, DatabaseFields, BoundsAssumption
       DEF Inductive, TypeOK, Bounded
<1>1. CASE db' = db \/ Prunes(db, db')
  <2>1. /\ db'.revision = db.revision /\ committed' = committed
        /\ db'.issued = db.issued /\ db'.lifecycle = db.lifecycle
    BY <1>1 DEF Observe, Prunes, PruneFrame
  <2>2. Frozen(db') = Frozen(db)
    <3>1. Unjournalled(db') = Unjournalled(db)
      <4>1. db.revision \in Nat /\ Reaches(committed[db.revision], db)
            /\ committed[db.revision].revision \in Nat
        BY <1>0 DEF HistoryInvariant, Recorded
      <4> QED
        BY <1>0, <1>1, <4>1, ReachesPruned
    <3> QED
      BY <3>1 DEF Frozen, Unjournalled
  <2>3. ASSUME NEW r \in 0 .. db.revision
        PROVE  Reaches(committed[r], db')
    <3>1. committed[r].revision \in Nat /\ Reaches(committed[r], db)
      BY <1>0 DEF HistoryInvariant, Recorded
    <3> QED
      BY <1>0, <1>1, <3>1, ReachesPruned
  <2>4. HistoryInvariant'
    BY <1>0, <2>1, <2>2, <2>3 DEF HistoryInvariant
  <2> QED
    BY <1>0, <2>1, <2>4 DEF Retired
<1>2. CASE Follows(db, db') /\ Accounted(db, db')
  <2>1. /\ db'.revision = db.revision + 1
        /\ committed' = [r \in 0 .. MaxRevision |->
                            IF r = db'.revision THEN Frozen(db')
                            ELSE IF r < db'.revision THEN committed[r] ELSE NoFile]
    BY <1>0, <1>2 DEF Follows, Observe
  <2>2. /\ \A r \in 0 .. db.revision : committed'[r] = committed[r]
        /\ committed'[db'.revision] = Frozen(db')
    BY <1>0, <2>1
  <2>3. ASSUME NEW r \in 0 .. db.revision
        PROVE  Recorded(committed', r) /\ Reaches(committed'[r], db')
    <3>1. Recorded(committed, r) /\ Reaches(committed[r], db)
      BY DEF HistoryInvariant
    <3>2. committed[r].revision = r /\ r \in Nat /\ r <= db.revision
      BY <1>0, <3>1 DEF Recorded
    <3>3. r = db.revision => committed[r] = Unjournalled(db)
      BY DEF HistoryInvariant, Frozen, Unjournalled
    <3>4. Reaches(committed[r], db')
      BY <1>0, <1>2, <3>1, <3>2, <3>3, ReachesCommitted
    <3> QED
      BY <2>2, <3>1, <3>4 DEF Recorded
  <2>4. Recorded(committed', db'.revision) /\ Reaches(committed'[db'.revision], db')
    <3>1. Recorded(committed', db'.revision)
      BY <1>0, <2>2, FrozenEffect DEF Recorded
    <3>2. ~Available(db', db'.revision)
      BY <1>0, <2>1 DEF Available
    <3> QED
      BY <3>1, <3>2 DEF Recorded, Reaches
  <2>5. \A r \in 0 .. db'.revision : r \in 0 .. db.revision \/ r = db'.revision
    BY <1>0, <2>1
  <2>6. HistoryInvariant'
    BY <1>0, <2>1, <2>2, <2>3, <2>4, <2>5 DEF HistoryInvariant
  <2> QED
    BY <1>0, <1>2, <2>1, <2>2, <2>6 DEF Follows, Retired
<1> QED
  BY <1>0, <1>1, <1>2

\* The process dies: what an open transaction wrote is gone.
LEMMA HistoryCrash ==
    ASSUME HistoryInvariant, db' = db, work' = db, txn' = "none", ordinal' = 0,
           committed' = committed
    PROVE  HistoryInvariant'
  BY DEF HistoryInvariant, Inductive, TypeOK, AccountedInvariant, LedgerInvariant, Bounded

\* A committed state takes the place of the lost database, and its journal
\* reaches back to nothing.
LEMMA HistoryRewind ==
    ASSUME HistoryInvariant, txn = "none", UNCHANGED <<txn, ordinal, committed>>,
           NEW r \in 0 .. MaxRevision, \A q \in 0 .. r : Recorded(committed, q),
           db' = committed[r], work' = committed[r]
    PROVE  HistoryInvariant'
<1>0. /\ r \in Nat /\ MaxRevision \in Nat /\ r <= MaxRevision
      /\ db' \in Databases /\ db'.revision = r /\ db'.journal = {} /\ Consistent(db')
      /\ ordinal = 0 /\ ordinal \in Nat
  <2>1. r \in Nat /\ MaxRevision \in Nat /\ r <= MaxRevision
    BY BoundsAssumption
  <2> QED
    BY <2>1 DEF Recorded, HistoryInvariant, Inductive, TypeOK
<1>1. Inductive' /\ AccountedInvariant' /\ LedgerInvariant' /\ Bounded'
  BY <1>0 DEF Inductive, TypeOK, AccountedInvariant, LedgerInvariant, LedgerJournalled, Bounded
<1>2. ASSUME NEW q \in 0 .. r
      PROVE  Reaches(committed'[q], db')
  <2>1. committed'[q].revision = q /\ q \in Nat
    BY <1>0 DEF Recorded
  <2>2. CASE q < r
    <3>1. q + 1 \in (q + 1) .. db'.revision
      BY <1>0, <2>1, <2>2
    <3>2. ~JournalIsContiguous(db', q)
      BY <1>0, <3>1 DEF JournalIsContiguous
    <3> QED
      BY <2>1, <3>2 DEF Reaches, Available
  <2>3. CASE ~(q < r)
    BY <1>0, <2>1, <2>3 DEF Reaches, Available
  <2> QED
    BY <2>2, <2>3
<1>3. Frozen(db') = db'
  BY <1>0 DEF Frozen, Databases
<1> QED
  BY <1>0, <1>1, <1>2, <1>3 DEF HistoryInvariant

-----------------------------------------------------------------------------
(* The manifest *)

LEMMA ManifestFields ==
    ASSUME NEW m \in Manifests
    PROVE  /\ m = [revision |-> m.revision, barrier |-> m.barrier,
                   baselines |-> m.baselines, segments |-> m.segments]
           /\ m.revision \in 0 .. MaxRevision /\ m.revision \in Nat /\ m.barrier \in Nat
           /\ m.baselines \in SUBSET [slot : Slots, store : Databases]
           /\ \A b \in m.baselines :
                 b.slot \in Slots /\ b.store \in Databases /\ b.store.revision \in Nat
           /\ m.segments \in SUBSET [from : Nat, through : Nat, changes : SUBSET Changes,
                                     source : Databases]
           /\ \A s \in m.segments :
                 s.from \in Nat /\ s.through \in Nat /\ s.source \in Databases
  BY DatabaseFields, BoundsAssumption DEF Manifests

LEMMA ManifestBuilt ==
    ASSUME NEW r \in 0 .. MaxRevision, NEW barrier \in Nat,
           NEW bs \in SUBSET [slot : Slots, store : Databases],
           NEW ss \in SUBSET [from : Nat, through : Nat, changes : SUBSET Changes,
                             source : Databases]
    PROVE  [revision |-> r, barrier |-> barrier, baselines |-> bs, segments |-> ss] \in Manifests
  BY DEF Manifests

\* The segment that catch_up writes leads from the manifest's revision to the
\* current one: the journal reaches back that far and names all that changed.
LEMMA SegmentIsSound ==
    ASSUME HistoryInvariant, NEW c \in 0 .. MaxRevision, Available(db, c)
    PROVE  /\ Segment(db, c) \in [from : Nat, through : Nat, changes : SUBSET Changes,
                                   source : Databases]
           /\ Segment(db, c).from = c /\ Segment(db, c).through = db.revision
           /\ Segment(db, c).source = Frozen(db)
           /\ SegmentSound(committed, Segment(db, c))
<1> DEFINE s == Segment(db, c)
<1>0. /\ db \in Databases /\ db.revision \in Nat /\ c \in 0 .. db.revision /\ c \in Nat
      /\ c < db.revision /\ db.journal \subseteq Changes /\ db.issued \subseteq NodeIds
      /\ Consistent(db) /\ LedgerJournalled(db)
      /\ Frozen(db) \in Databases /\ Frozen(db).issued = db.issued
      /\ Frozen(db).lifecycle = db.lifecycle
  <2>1. db \in Databases /\ MaxRevision \in Nat
    BY BoundsAssumption DEF HistoryInvariant, Inductive, TypeOK
  <2>2. /\ db.revision \in Nat /\ db.journal \subseteq Changes /\ db.issued \subseteq NodeIds
    BY <2>1, DatabaseFields
  <2> QED
    BY <2>1, <2>2, FrozenEffect DEF HistoryInvariant, Inductive, LedgerInvariant, Available
<1>1. /\ s.from = c /\ s.through = db.revision /\ s.source = Frozen(db)
      /\ s.changes = ChangesSince(db, c)
      /\ s \in [from : Nat, through : Nat, changes : SUBSET Changes, source : Databases]
  BY <1>0 DEF Segment, ChangesSince
<1> HIDE DEF s
<1>2. Covered(committed[c], Frozen(db), ChangesSince(db, c))
  <2>1. Recorded(committed, c) /\ Reaches(committed[c], db)
    BY <1>0 DEF HistoryInvariant
  <2>2. Covered(committed[c], db, ChangesSince(db, c))
    BY <2>1 DEF Recorded, Reaches
  <2> QED
    BY <1>0, <2>2, FrozenEffect
<1>3. IssuedBy(s) \subseteq db.issued
  <2> SUFFICES ASSUME NEW n \in IssuedBy(s)
               PROVE  n \in db.issued
    OBVIOUS
  <2>1. n \in NodeIds
    BY DEF IssuedBy, NamedNodes
  <2>2. CASE s.source.lifecycle[n] # "none"
    BY <1>0, <1>1, <2>1, <2>2 DEF Consistent
  <2>3. CASE \E x \in s.changes : x.kind \in {"node_created", "node_purged"} /\ x.node = n
    BY <1>0, <1>1, <2>3 DEF ChangesSince, LedgerJournalled, Retired
  <2> QED
    BY <2>2, <2>3 DEF IssuedBy
<1>4. committed[db.revision] = Frozen(db)
  BY DEF HistoryInvariant
<1>5. SegmentSound(committed, s)
  BY <1>0, <1>1, <1>2, <1>3, <1>4 DEF SegmentSound
<1> QED
  BY <1>1, <1>5 DEF s

\* The manifest that catch_up saves.
LEMMA SoundSaved ==
    ASSUME HistoryInvariant, Sound(manifest, committed, confirmed),
           Available(db, manifest.revision),
           ~CarriesPurge(Segment(db, manifest.revision)),
           \A n \in confirmed : Retired(db, n),
           NEW m \in Manifests, m.revision = db.revision, m.baselines = manifest.baselines,
           m.segments = manifest.segments \cup {Segment(db, manifest.revision)}
    PROVE  Sound(m, committed, confirmed)
<1> DEFINE s == Segment(db, manifest.revision)
<1>0. /\ manifest \in Manifests /\ manifest.revision \in 0 .. MaxRevision
      /\ db \in Databases /\ db.revision \in Nat /\ manifest.revision \in Nat
      /\ manifest.revision < db.revision /\ db.revision \in 0 .. MaxRevision
      /\ committed[db.revision] = Frozen(db)
      /\ Frozen(db).lifecycle = db.lifecycle
      /\ \A n : Retired(Frozen(db), n) <=> Retired(db, n)
  <2>1. manifest \in Manifests /\ db \in Databases /\ MaxRevision \in Nat
    BY BoundsAssumption DEF Sound, HistoryInvariant, Inductive, TypeOK
  <2> QED
    BY <2>1, DatabaseFields, FrozenEffect DEF Manifests, Available, HistoryInvariant, Bounded
<1>1. /\ s \in [from : Nat, through : Nat, changes : SUBSET Changes, source : Databases]
      /\ s.from = manifest.revision /\ s.through = db.revision /\ s.source = Frozen(db)
      /\ SegmentSound(committed, s)
  BY <1>0, SegmentIsSound
<1>2. /\ m \in Manifests /\ m.revision = db.revision /\ m.baselines = manifest.baselines
      /\ m.segments = manifest.segments \cup {s}
  OBVIOUS
<1> HIDE DEF s
<1>3. /\ \A t \in manifest.segments :
            /\ t.from \in Nat /\ t.through \in Nat /\ t.from < t.through
            /\ t.through <= manifest.revision /\ SegmentSound(committed, t)
      /\ \A b \in manifest.baselines :
            /\ b.store.revision \in Nat
            /\ b.store.revision <= manifest.revision
            /\ committed[b.store.revision] = b.store
  <2>1. /\ \A t \in manifest.segments : t.from \in Nat /\ t.through \in Nat
        /\ \A b \in manifest.baselines : b.store \in Databases
    BY <1>0 DEF Manifests
  <2> QED
    BY <2>1, DatabaseFields DEF Sound, SegmentSound
<1>4. Chained(m)
  <2>1. \A t, u \in m.segments : t = u \/ t.through <= u.from \/ u.through <= t.from
    BY <1>1, <1>2, <1>3 DEF Sound, Chained
  <2>2. ASSUME NEW b \in m.baselines
        PROVE  \E t \in m.segments : t.through = m.revision
    BY <1>1, <1>2
  <2>3. ASSUME NEW b \in m.baselines, NEW t \in m.segments, t.through > b.store.revision
        PROVE  \/ t.from = b.store.revision
               \/ \E u \in m.segments : u.through > b.store.revision /\ u.through = t.from
    <3>1. CASE t \in manifest.segments
      BY <1>2, <2>3, <3>1 DEF Sound, Chained
    <3>2. CASE t = s
      <4>1. \/ b.store.revision = manifest.revision
            \/ \E u \in manifest.segments : u.through = manifest.revision
        BY <1>2 DEF Sound, Chained
      <4> QED
        BY <1>0, <1>1, <1>2, <1>3, <3>2, <4>1
    <3> QED
      BY <1>2, <3>1, <3>2
  <2> QED
    BY <2>1, <2>2, <2>3 DEF Chained
<1>5. Cleared(m, committed, confirmed)
  <2> SUFFICES ASSUME NEW d \in States(m), NEW n \in NodeIds
               PROVE  /\ d.lifecycle[n] # "none" => db.lifecycle[n] # "none"
                      /\ n \in confirmed => Retired(d, n)
    BY <1>0, <1>2 DEF Cleared
  <2>1. CASE d = Frozen(db)
    BY <1>0, <2>1
  <2>2. CASE d \in States(manifest)
    <3>1. /\ d.lifecycle[n] # "none" => committed[manifest.revision].lifecycle[n] # "none"
          /\ n \in confirmed => Retired(d, n)
      BY <2>2 DEF Sound, Cleared
    <3>2. committed[manifest.revision].lifecycle[n] # "none" => db.lifecycle[n] # "none"
      <4>1. Covered(committed[manifest.revision], Frozen(db), s.changes)
        BY <1>1 DEF SegmentSound
      <4>2. CASE n \in NamedNodes(s.changes)
        BY <1>0, <1>1, <4>2 DEF CarriesPurge, s
      <4>3. CASE n \notin NamedNodes(s.changes)
        BY <1>0, <4>1, <4>3 DEF Covered
      <4> QED
        BY <4>2, <4>3
    <3> QED
      BY <3>1, <3>2
  <2>3. States(m) = States(manifest) \cup {Frozen(db)}
    BY <1>1, <1>2 DEF States
  <2> QED
    BY <2>1, <2>2, <2>3
<1>6. \A r \in 0 .. m.revision : Recorded(committed, r)
  BY <1>2 DEF HistoryInvariant
<1>7. \A b \in m.baselines :
        b.store.revision <= m.revision /\ committed[b.store.revision] = b.store
  BY <1>0, <1>2, <1>3
<1>8. \A t \in m.segments : t.through <= m.revision /\ SegmentSound(committed, t)
  BY <1>0, <1>1, <1>2, <1>3
<1> QED
  BY <1>2, <1>4, <1>5, <1>6, <1>7, <1>8 DEF Sound

\* A sound manifest needs no more of the history than what it covers.
LEMMA SoundHistory ==
    ASSUME NEW m, NEW h, NEW k, NEW done, Sound(m, h, done),
           \A r \in 0 .. m.revision : k[r] = h[r]
    PROVE  Sound(m, k, done)
<1>0. m \in Manifests
  BY DEF Sound
<1>1. m.revision \in Nat /\ m.revision \in 0 .. m.revision
  BY <1>0, ManifestFields
<1>2. \A r \in 0 .. m.revision : Recorded(k, r)
  BY DEF Sound, Recorded
<1>3. \A b \in m.baselines :
        b.store.revision <= m.revision /\ k[b.store.revision] = b.store
  <2>1. \A b \in m.baselines : b.store.revision \in Nat
    BY <1>0, ManifestFields
  <2> QED
    BY <1>1, <2>1 DEF Sound
<1>4. \A s \in m.segments : s.through <= m.revision /\ SegmentSound(k, s)
  <2> TAKE s \in m.segments
  <2>1. s.from \in Nat /\ s.through \in Nat
    BY <1>0, ManifestFields
  <2>2. s.through <= m.revision /\ SegmentSound(h, s)
    BY DEF Sound
  <2>3. s.from \in 0 .. m.revision /\ s.through \in 0 .. m.revision
    BY <1>1, <2>1, <2>2 DEF SegmentSound
  <2> QED
    BY <2>2, <2>3 DEF SegmentSound
<1>5. Cleared(m, k, done)
  BY <1>1 DEF Sound, Cleared
<1> QED
  BY <1>0, <1>2, <1>3, <1>4, <1>5 DEF Sound

\* What makes a baseline of the current state.
LEMMA BaselineIsSound ==
    ASSUME HistoryInvariant, NEW slot \in Slots
    PROVE  /\ Baseline(slot, db) \in [slot : Slots, store : Databases]
           /\ Baseline(slot, db).store = Frozen(db) /\ Baseline(slot, db).slot = slot
           /\ Frozen(db) \in Databases /\ Frozen(db).revision = db.revision
           /\ Frozen(db).lifecycle = db.lifecycle
           /\ \A n : Retired(Frozen(db), n) <=> Retired(db, n)
           /\ db.revision \in Nat /\ db.revision \in 0 .. MaxRevision
           /\ committed[db.revision] = Frozen(db)
<1>1. db \in Databases /\ MaxRevision \in Nat
  BY BoundsAssumption DEF HistoryInvariant, Inductive, TypeOK
<1> QED
  BY <1>1, FrozenEffect, DatabaseFields DEF Baseline, HistoryInvariant, Bounded

\* The manifest that reset_to_single_baseline saves.
LEMMA SoundReset ==
    ASSUME HistoryInvariant, NEW done, \A n \in done : Retired(db, n),
           NEW m \in Manifests, m.revision = db.revision,
           m.baselines = {Baseline("A", db)}, m.segments = {}
    PROVE  Sound(m, committed, done)
<1>1. "A" \in Slots
  BY DEF Slots
<1>2. States(m) = {Frozen(db)}
  BY <1>1, BaselineIsSound DEF States
<1>3. Chained(m) /\ Cleared(m, committed, done)
  BY <1>1, <1>2, BaselineIsSound DEF Chained, Cleared
<1>4. \A b \in m.baselines :
        b.store.revision <= m.revision /\ committed[b.store.revision] = b.store
  BY <1>1, BaselineIsSound
<1> QED
  BY <1>3, <1>4 DEF Sound, HistoryInvariant

\* The manifest that rotate_baseline saves: a baseline of the current state takes
\* the place of one, and the segments that lead past none of them are dropped.
LEMMA SoundRotated ==
    ASSUME HistoryInvariant, Sound(manifest, committed, confirmed),
           manifest.revision = db.revision, \A n \in confirmed : Retired(db, n),
           NEW slot \in Slots, NEW m \in Manifests, m.revision = manifest.revision,
           m.baselines \subseteq manifest.baselines \cup {Baseline(slot, db)},
           m.segments = {s \in manifest.segments :
                            \E b \in m.baselines : s.through > b.store.revision}
    PROVE  Sound(m, committed, confirmed)
<1> DEFINE new == Baseline(slot, db)
<1>0. /\ new.store = Frozen(db) /\ Frozen(db).revision = manifest.revision
      /\ manifest.revision \in Nat /\ committed[manifest.revision] = Frozen(db)
      /\ \A n : Retired(Frozen(db), n) <=> Retired(db, n)
      /\ Frozen(db).lifecycle = db.lifecycle
  BY BaselineIsSound
<1> HIDE DEF new
<1>1. /\ m.baselines \subseteq manifest.baselines \cup {new}
      /\ m.segments \subseteq manifest.segments
  BY DEF new
<1>2. \A s \in manifest.segments : s.through \in Nat /\ s.through <= manifest.revision
  BY ManifestFields DEF Sound
<1>3. Chained(m)
  <2>1. \A s, t \in m.segments : s = t \/ s.through <= t.from \/ t.through <= s.from
    BY <1>1 DEF Sound, Chained
  <2>2. ASSUME NEW b \in m.baselines, b = new
        PROVE  b.store.revision = m.revision /\ \A s \in m.segments : ~(s.through > b.store.revision)
    BY <1>0, <1>1, <1>2, <2>2
  <2>3. ASSUME NEW b \in m.baselines, b \in manifest.baselines
        PROVE  b.store.revision = m.revision \/ \E s \in m.segments : s.through = m.revision
    <3>1. b.store.revision \in Nat /\ b.store.revision <= manifest.revision
      BY <2>3, ManifestFields DEF Sound
    <3>2. \/ b.store.revision = manifest.revision
          \/ \E s \in manifest.segments : s.through = manifest.revision
      BY <2>3 DEF Sound, Chained
    <3> QED
      BY <1>0, <2>3, <3>1, <3>2
  <2>4. ASSUME NEW b \in m.baselines, b \in manifest.baselines,
               NEW s \in m.segments, s.through > b.store.revision
        PROVE  \/ s.from = b.store.revision
               \/ \E t \in m.segments : t.through > b.store.revision /\ t.through = s.from
    <3>1. \/ s.from = b.store.revision
          \/ \E t \in manifest.segments : t.through > b.store.revision /\ t.through = s.from
      BY <1>1, <2>4 DEF Sound, Chained
    <3> QED
      BY <2>4, <3>1
  <2> QED
    BY <1>1, <2>1, <2>2, <2>3, <2>4 DEF Chained
<1>4. Cleared(m, committed, confirmed)
  <2>1. \A d \in States(m) : d \in States(manifest) \/ d = Frozen(db)
    BY <1>0, <1>1 DEF States
  <2> QED
    BY <1>0, <2>1 DEF Sound, Cleared
<1>5. \A b \in m.baselines :
        b.store.revision <= m.revision /\ committed[b.store.revision] = b.store
  BY <1>0, <1>1 DEF Sound
<1>6. \A s \in m.segments : s.through <= m.revision /\ SegmentSound(committed, s)
  BY <1>1 DEF Sound
<1> QED
  BY <1>3, <1>4, <1>5, <1>6 DEF Sound

LEMMA RotationSlotType ==
    ASSUME manifest \in Manifests
    PROVE  RotationSlot \in Slots
<1>1. CASE "B" \notin {b.slot : b \in manifest.baselines}
  BY <1>1 DEF RotationSlot, Slots
<1>2. CASE "B" \in {b.slot : b \in manifest.baselines}
  <2> DEFINE revisions == {b.store.revision : b \in manifest.baselines}
             oldest == CHOOSE b \in manifest.baselines : \A c \in manifest.baselines :
                           b.store.revision <= c.store.revision
  <2>1. revisions # {} /\ revisions \in SUBSET Nat
    BY <1>2, ManifestFields
  <2>2. PICK r \in revisions : \A q \in revisions : r <= q
    <3> HIDE DEF revisions
    <3> QED
      BY <2>1, LeastNumber
  <2>3. \E b \in manifest.baselines : \A c \in manifest.baselines :
           b.store.revision <= c.store.revision
    BY <2>2
  <2>4. oldest \in manifest.baselines
    BY <2>3
  <2>5. RotationSlot = oldest.slot
    BY <1>2 DEF RotationSlot
  <2> HIDE DEF oldest
  <2> QED
    BY <2>4, <2>5, ManifestFields
<1> QED
  BY <1>1, <1>2

-----------------------------------------------------------------------------
(* Tasks *)

LEMMA TaskShapes ==
    /\ \A at \in ResetSteps, barrier \in Nat, confirms \in SUBSET NodeIds, opening \in BOOLEAN :
          LET t == Resetting(at, barrier, confirms, opening)
          IN  /\ t \in Resets /\ t \notin CatchUps /\ t # Closed /\ t # Idle
              /\ t.at = at /\ t.barrier = barrier /\ t.confirms = confirms /\ t.opening = opening
    /\ \A at \in RotateSteps \cup {"segment_save"}, opening \in BOOLEAN :
          LET t == CatchingUp(at, opening)
          IN  /\ t \in CatchUps /\ t \notin Resets /\ t # Closed /\ t # Idle
              /\ t.at = at /\ t.opening = opening
    /\ \A at : \A t \in Resets :
          [t EXCEPT !.at = at] = Resetting(at, t.barrier, t.confirms, t.opening)
    /\ \A at : \A t \in CatchUps : [t EXCEPT !.at = at] = CatchingUp(at, t.opening)
    /\ Closed \notin Resets \cup CatchUps /\ Idle \notin Resets \cup CatchUps /\ Idle # Closed
    /\ \A t \in {Closed, Idle} \cup Resets \cup CatchUps :
          /\ t.at \in ResetSteps => t \in Resets
          /\ t.at \in RotateSteps \cup {"segment_save"} => t \in CatchUps
          /\ t.at = "closed" => t = Closed
          /\ t.at = "idle" => t = Idle
          /\ t \notin {Closed, Idle} => t \in Resets \cup CatchUps /\ t.at \notin {"closed", "idle"}
<1>1. \A at \in ResetSteps, barrier \in Nat, confirms \in SUBSET NodeIds, opening \in BOOLEAN :
          LET t == Resetting(at, barrier, confirms, opening)
          IN  /\ t \in Resets /\ t \notin CatchUps /\ t # Closed /\ t # Idle
              /\ t.at = at /\ t.barrier = barrier /\ t.confirms = confirms /\ t.opening = opening
  BY DEF Resetting, Resets, CatchUps, Closed, Idle, ResetSteps, RotateSteps
<1>2. \A at \in RotateSteps \cup {"segment_save"}, opening \in BOOLEAN :
          LET t == CatchingUp(at, opening)
          IN  /\ t \in CatchUps /\ t \notin Resets /\ t # Closed /\ t # Idle
              /\ t.at = at /\ t.opening = opening
  BY DEF CatchingUp, Resets, CatchUps, Closed, Idle, ResetSteps, RotateSteps
<1>3. \A at : \A t \in Resets :
          [t EXCEPT !.at = at] = Resetting(at, t.barrier, t.confirms, t.opening)
  BY DEF Resetting, Resets
<1>4. \A at : \A t \in CatchUps : [t EXCEPT !.at = at] = CatchingUp(at, t.opening)
  BY DEF CatchingUp, CatchUps
<1>5. Closed \notin Resets \cup CatchUps /\ Idle \notin Resets \cup CatchUps /\ Idle # Closed
  BY DEF Closed, Idle, Resets, CatchUps, ResetSteps, RotateSteps
<1>6. \A t \in {Closed, Idle} \cup Resets \cup CatchUps :
          /\ t.at \in ResetSteps => t \in Resets
          /\ t.at \in RotateSteps \cup {"segment_save"} => t \in CatchUps
          /\ t.at = "closed" => t = Closed
          /\ t.at = "idle" => t = Idle
          /\ t \notin {Closed, Idle} => t \in Resets \cup CatchUps /\ t.at \notin {"closed", "idle"}
  BY DEF Closed, Idle, Resets, CatchUps, ResetSteps, RotateSteps
<1> QED
  BY <1>1, <1>2, <1>3, <1>4, <1>5, <1>6

\* What is known of the task that a step leaves behind, by its kind.
LEMMA LeavesClosed ==
    ASSUME task' = Closed, txn' = "none", purges' = {}
    PROVE  TaskInvariant'
  BY TaskShapes DEF TaskInvariant

LEMMA LeavesIdle ==
    ASSUME task' = Idle, manifest' # NoManifest => manifest'.revision <= db'.revision
    PROVE  TaskInvariant'
  BY TaskShapes DEF TaskInvariant

LEMMA LeavesReset ==
    ASSUME NEW at \in ResetSteps, NEW barrier \in Nat, NEW confirms \in SUBSET NodeIds,
           NEW opening \in BOOLEAN, task' = Resetting(at, barrier, confirms, opening),
           txn' = "none", opening => purges' = {},
           ~opening /\ manifest' # NoManifest => manifest'.revision <= db'.revision,
           \A n \in confirms : Retired(db', n),
           at = "reset_clean" =>
               /\ manifest'.revision = db'.revision
               /\ manifest'.baselines = {Baseline("A", db')} /\ manifest'.segments = {}
    PROVE  TaskInvariant'
<1>1. /\ task' \in Resets /\ task' \notin CatchUps /\ task' # Closed /\ task' # Idle
      /\ task'.at = at /\ task'.confirms = confirms /\ task'.opening = opening
  BY TaskShapes
<1> QED
  BY <1>1 DEF TaskInvariant

LEMMA LeavesCatchUp ==
    ASSUME NEW at \in RotateSteps \cup {"segment_save"}, NEW opening \in BOOLEAN,
           task' = CatchingUp(at, opening), txn' = "none", opening => purges' = {},
           ~opening /\ manifest' # NoManifest => manifest'.revision <= db'.revision,
           Sound(manifest', committed', confirmed'),
           at = "segment_save" => /\ Available(db', manifest'.revision)
                                  /\ ~CarriesPurge(Segment(db', manifest'.revision)),
           at \in RotateSteps => manifest'.revision = db'.revision
    PROVE  TaskInvariant'
<1>1. /\ task' \in CatchUps /\ task' \notin Resets /\ task' # Closed /\ task' # Idle
      /\ task'.at = at /\ task'.opening = opening
  BY TaskShapes
<1> QED
  BY <1>1 DEF TaskInvariant

LEMMA StartsReset ==
    ASSUME NEW barrier \in Nat, NEW opening \in BOOLEAN,
           task' = Resetting("reset", barrier, {}, opening),
           txn' = "none", opening => purges' = {},
           ~opening /\ manifest' # NoManifest => manifest'.revision <= db'.revision
    PROVE  TaskInvariant'
<1>1. "reset" \in ResetSteps /\ "reset" # "reset_clean"
  BY DEF ResetSteps
<1>2. {} \in SUBSET NodeIds /\ \A n \in {} : Retired(db', n)
  OBVIOUS
<1> QED
  BY <1>1, <1>2, LeavesReset

\* The steps of recovery operations, but for the promotion of a candidate, leave
\* the Record Store alone.
LEMMA QuietStep ==
    ASSUME RecoveryInvariant, UNCHANGED <<vars, committed, records>>, purges' \subseteq purges,
           baselines' \in [Slots -> Databases \cup {NoFile}],
           NEW more \in SUBSET NodeIds, \A n \in more : Retired(db, n),
           confirmed' = confirmed \cup more,
           manifest' # NoManifest => Sound(manifest', committed', confirmed'),
           TaskInvariant'
    PROVE  RecoveryInvariant'
<1>1. HistoryInvariant'
  BY HistoryQuiet DEF RecoveryInvariant
<1>2. PurgesInvariant'
  BY DEF RecoveryInvariant, PurgesInvariant, vars
<1>3. FilesInvariant'
  BY DEF RecoveryInvariant, FilesInvariant
<1> QED
  BY <1>1, <1>2, <1>3 DEF RecoveryInvariant

-----------------------------------------------------------------------------
(* Each action keeps the invariant *)

LEMMA InvariantFacts ==
    ASSUME RecoveryInvariant
    PROVE  /\ db \in Databases /\ db.revision \in Nat
           /\ \A n \in confirmed : Retired(db, n)
           /\ confirmed \in SUBSET NodeIds
           /\ baselines \in [Slots -> Databases \cup {NoFile}]
           /\ \A slot \in Slots : Frozen(db) \in Databases
           /\ HistoryInvariant /\ TaskInvariant
           /\ manifest # NoManifest => Sound(manifest, committed, confirmed)
           /\ \A p \in purges :
                 /\ p.revision \in Nat /\ p.nodes \in SUBSET NodeIds
                 /\ \A n \in p.nodes : Retired(db, n)
  BY DatabaseFields, FrozenEffect
     DEF RecoveryInvariant, HistoryInvariant, Inductive, TypeOK, PurgesInvariant, FilesInvariant

\* A task that carries on where the one before it left.
LEMMA ResetTasks ==
    ASSUME TaskInvariant, task.at \in ResetSteps
    PROVE  /\ task \in Resets /\ task.barrier \in Nat /\ task.confirms \in SUBSET NodeIds
           /\ task.opening \in BOOLEAN /\ txn = "none" /\ (task.opening => purges = {})
           /\ ~task.opening /\ manifest # NoManifest => manifest.revision <= db.revision
           /\ \A n \in task.confirms : Retired(db, n)
<1>1. task \in Resets
  BY TaskShapes DEF TaskInvariant
<1> QED
  BY <1>1, TaskShapes DEF TaskInvariant, Resets

LEMMA CatchUpTasks ==
    ASSUME TaskInvariant, task.at \in RotateSteps \cup {"segment_save"}
    PROVE  /\ task \in CatchUps /\ task.opening \in BOOLEAN
           /\ txn = "none" /\ (task.opening => purges = {})
           /\ ~task.opening /\ manifest # NoManifest => manifest.revision <= db.revision
           /\ Sound(manifest, committed, confirmed) /\ manifest \in Manifests
           /\ task.at = "segment_save" =>
                 /\ Available(db, manifest.revision)
                 /\ ~CarriesPurge(Segment(db, manifest.revision))
           /\ task.at \in RotateSteps => manifest.revision = db.revision
<1>1. task \in CatchUps
  BY TaskShapes DEF TaskInvariant
<1> QED
  BY <1>1, TaskShapes DEF TaskInvariant, CatchUps, Sound

LEMMA ResetBaselineKeeps == RecoveryInvariant /\ ResetBaseline => RecoveryInvariant'
<1> SUFFICES ASSUME RecoveryInvariant, ResetBaseline
             PROVE  RecoveryInvariant'
  OBVIOUS
<1>0. /\ task.at = "reset" /\ task.at \in ResetSteps /\ "reset_save" \in ResetSteps
      /\ UNCHANGED <<vars, committed, records, purges, manifest, confirmed>>
      /\ UNCHANGED <<db, txn>>
  BY DEF ResetBaseline, Quiet, ResetSteps, vars
<1>1. task' = Resetting("reset_save", task.barrier, task.confirms, task.opening)
  BY <1>0, InvariantFacts, ResetTasks, TaskShapes DEF ResetBaseline
<1>2. TaskInvariant'
  BY <1>0, <1>1, InvariantFacts, ResetTasks, LeavesReset
<1>3. baselines' \in [Slots -> Databases \cup {NoFile}]
  BY InvariantFacts DEF ResetBaseline, Slots
<1> QED
  BY <1>0, <1>2, <1>3, InvariantFacts, QuietStep

LEMMA ResetSaveKeeps == RecoveryInvariant /\ ResetSave => RecoveryInvariant'
<1> SUFFICES ASSUME RecoveryInvariant, ResetSave
             PROVE  RecoveryInvariant'
  OBVIOUS
<1>0. /\ task.at = "reset_save" /\ task.at \in ResetSteps /\ "reset_clean" \in ResetSteps
      /\ UNCHANGED <<vars, committed, records, purges, baselines, confirmed>>
      /\ UNCHANGED <<db, txn>>
      /\ manifest' = [revision |-> db.revision, barrier |-> task.barrier,
                      baselines |-> {Baseline("A", db)}, segments |-> {}]
  BY DEF ResetSave, Quiet, ResetSteps, vars
<1>1. task' = Resetting("reset_clean", task.barrier, task.confirms, task.opening)
  BY <1>0, InvariantFacts, ResetTasks, TaskShapes DEF ResetSave
<1>2. /\ manifest' \in Manifests /\ manifest'.revision = db.revision
      /\ manifest'.baselines = {Baseline("A", db)} /\ manifest'.segments = {}
  <2>1. "A" \in Slots
    BY DEF Slots
  <2>2. {Baseline("A", db)} \in SUBSET [slot : Slots, store : Databases]
        /\ db.revision \in 0 .. MaxRevision
    BY <2>1, InvariantFacts, BaselineIsSound
  <2>3. task.barrier \in Nat
    BY <1>0, InvariantFacts, ResetTasks
  <2>4. manifest' \in Manifests
    BY <1>0, <2>2, <2>3, ManifestBuilt
  <2> QED
    BY <1>0, <2>4
<1>3. Sound(manifest', committed', confirmed')
  <2>1. Sound(manifest', committed, confirmed)
    BY <1>2, InvariantFacts, SoundReset
  <2> QED
    BY <1>0, <2>1
<1>4. TaskInvariant'
  BY <1>0, <1>1, <1>2, InvariantFacts, ResetTasks, LeavesReset
<1> QED
  BY <1>0, <1>3, <1>4, InvariantFacts, QuietStep

LEMMA ResetCleanKeeps == RecoveryInvariant /\ ResetClean => RecoveryInvariant'
<1> SUFFICES ASSUME RecoveryInvariant, ResetClean
             PROVE  RecoveryInvariant'
  OBVIOUS
<1>0. /\ task.at = "reset_clean" /\ task.at \in ResetSteps
      /\ UNCHANGED <<vars, committed, records, purges, manifest>>
      /\ UNCHANGED <<db, txn>> /\ task' = Idle
      /\ confirmed' = confirmed \cup task.confirms
  BY DEF ResetClean, Quiet, ResetSteps, vars
<1>1. /\ manifest.revision = db.revision
      /\ manifest.baselines = {Baseline("A", db)} /\ manifest.segments = {}
  BY <1>0, InvariantFacts, ResetTasks DEF TaskInvariant
<1>2. /\ task.confirms \in SUBSET NodeIds /\ \A n \in task.confirms : Retired(db, n)
      /\ \A n \in confirmed' : Retired(db, n)
  BY <1>0, InvariantFacts, ResetTasks
<1>3. manifest' # NoManifest => Sound(manifest', committed', confirmed')
  <2>1. manifest # NoManifest => manifest \in Manifests
    BY InvariantFacts DEF Sound
  <2>2. manifest # NoManifest => Sound(manifest, committed, confirmed')
    BY <1>1, <1>2, <2>1, InvariantFacts, SoundReset
  <2> QED
    BY <1>0, <2>2
<1>4. TaskInvariant'
  BY <1>0, <1>1, InvariantFacts, LeavesIdle
<1>5. baselines' \in [Slots -> Databases \cup {NoFile}]
  BY InvariantFacts DEF ResetClean, Slots
<1> QED
  BY <1>0, <1>2, <1>3, <1>4, <1>5, InvariantFacts, QuietStep

LEMMA SegmentSaveKeeps == RecoveryInvariant /\ SegmentSave => RecoveryInvariant'
<1> SUFFICES ASSUME RecoveryInvariant, SegmentSave
             PROVE  RecoveryInvariant'
  OBVIOUS
<1> DEFINE s == Segment(db, manifest.revision)
<1>0. /\ task.at = "segment_save" /\ task.at \in RotateSteps \cup {"segment_save"}
      /\ UNCHANGED <<vars, committed, records, purges, baselines, confirmed>>
      /\ UNCHANGED <<db, txn>>
      /\ manifest' = [manifest EXCEPT !.revision = db.revision, !.segments = @ \cup {s}]
      /\ task' = [task EXCEPT !.at = "rotate"] \/ task' = Idle
  BY DEF SegmentSave, Quiet, vars
<1>1. /\ manifest \in Manifests /\ Sound(manifest, committed, confirmed)
      /\ Available(db, manifest.revision) /\ ~CarriesPurge(s)
      /\ task \in CatchUps /\ task.opening \in BOOLEAN /\ txn = "none"
      /\ task.opening => purges = {}
  BY <1>0, InvariantFacts, CatchUpTasks
<1>2. s \in [from : Nat, through : Nat, changes : SUBSET Changes, source : Databases]
  BY <1>1, InvariantFacts, SegmentIsSound, ManifestFields
<1> HIDE DEF s
<1>3. /\ manifest' \in Manifests /\ manifest'.revision = db.revision
      /\ manifest'.baselines = manifest.baselines
      /\ manifest'.segments = manifest.segments \cup {s}
  <2>1. manifest' = [revision |-> db.revision, barrier |-> manifest.barrier,
                     baselines |-> manifest.baselines,
                     segments |-> manifest.segments \cup {s}]
    <3>1. manifest = [revision |-> manifest.revision, barrier |-> manifest.barrier,
                      baselines |-> manifest.baselines, segments |-> manifest.segments]
      BY <1>1, ManifestFields
    <3> QED
      BY <1>0, <3>1
  <2>2. db.revision \in 0 .. MaxRevision
    BY InvariantFacts, BoundsAssumption DEF HistoryInvariant, Bounded
  <2>3. manifest.segments \cup {s} \in SUBSET [from : Nat, through : Nat,
                                              changes : SUBSET Changes, source : Databases]
    BY <1>1, <1>2, ManifestFields
  <2>4. manifest.barrier \in Nat /\ manifest.baselines \in SUBSET [slot : Slots, store : Databases]
    BY <1>1, ManifestFields
  <2>5. manifest' \in Manifests
    BY <2>1, <2>2, <2>3, <2>4, ManifestBuilt
  <2> QED
    BY <2>1, <2>5
<1>4. Sound(manifest', committed', confirmed')
  <2>1. Sound(manifest', committed, confirmed)
    BY <1>1, <1>3, InvariantFacts, SoundSaved DEF s
  <2> QED
    BY <1>0, <2>1
<1>5. TaskInvariant'
  <2>1. CASE task' = Idle
    BY <1>0, <1>3, <2>1, InvariantFacts, LeavesIdle
  <2>2. CASE task' = [task EXCEPT !.at = "rotate"]
    <3>1. task' = CatchingUp("rotate", task.opening)
      BY <1>1, <2>2, TaskShapes
    <3>2. "rotate" \in RotateSteps /\ "rotate" # "segment_save"
      BY DEF RotateSteps
    <3> QED
      BY <1>0, <1>1, <1>3, <1>4, <3>1, <3>2, InvariantFacts, LeavesCatchUp
  <2> QED
    BY <1>0, <2>1, <2>2
<1> QED
  BY <1>0, <1>4, <1>5, InvariantFacts, QuietStep

LEMMA RotateBaselineKeeps == RecoveryInvariant /\ RotateBaseline => RecoveryInvariant'
<1> SUFFICES ASSUME RecoveryInvariant, RotateBaseline
             PROVE  RecoveryInvariant'
  OBVIOUS
<1>0. /\ task.at = "rotate" /\ task.at \in RotateSteps
      /\ "rotate_save" \in RotateSteps /\ "rotate_save" # "segment_save"
      /\ UNCHANGED <<vars, committed, records, purges, manifest, confirmed>>
      /\ UNCHANGED <<db, txn>>
  BY DEF RotateBaseline, Quiet, RotateSteps, vars
<1>1. /\ task' = CatchingUp("rotate_save", task.opening)
      /\ task.opening \in BOOLEAN /\ txn = "none" /\ (task.opening => purges = {})
      /\ Sound(manifest, committed, confirmed) /\ manifest \in Manifests
      /\ manifest.revision = db.revision
  BY <1>0, InvariantFacts, CatchUpTasks, TaskShapes DEF RotateBaseline
<1>2. TaskInvariant'
  BY <1>0, <1>1, InvariantFacts, LeavesCatchUp
<1>3. baselines' \in [Slots -> Databases \cup {NoFile}]
  BY <1>1, InvariantFacts, RotationSlotType DEF RotateBaseline
<1> QED
  BY <1>0, <1>2, <1>3, InvariantFacts, QuietStep

LEMMA RotateSaveKeeps == RecoveryInvariant /\ RotateSave => RecoveryInvariant'
<1> SUFFICES ASSUME RecoveryInvariant, RotateSave
             PROVE  RecoveryInvariant'
  OBVIOUS
<1> DEFINE kept == {b \in manifest.baselines : b.slot # RotationSlot}
                       \cup {Baseline(RotationSlot, db)}
           left == {s \in manifest.segments : \E b \in kept : s.through > b.store.revision}
<1>0. /\ task.at = "rotate_save" /\ task.at \in RotateSteps
      /\ "rotate_clean" \in RotateSteps /\ "rotate_clean" # "segment_save"
      /\ UNCHANGED <<vars, committed, records, purges, baselines, confirmed>>
      /\ UNCHANGED <<db, txn>>
      /\ manifest' = [manifest EXCEPT !.baselines = kept, !.segments = left]
  BY DEF RotateSave, Quiet, RotateSteps, vars
<1>1. /\ task' = CatchingUp("rotate_clean", task.opening)
      /\ task.opening \in BOOLEAN /\ txn = "none" /\ (task.opening => purges = {})
      /\ Sound(manifest, committed, confirmed) /\ manifest \in Manifests
      /\ manifest.revision = db.revision /\ RotationSlot \in Slots
  <2>1. task' = [task EXCEPT !.at = "rotate_clean"]
    BY DEF RotateSave
  <2> QED
    BY <1>0, <2>1, InvariantFacts, CatchUpTasks, TaskShapes, RotationSlotType
<1>2. /\ kept \subseteq manifest.baselines \cup {Baseline(RotationSlot, db)}
      /\ left = {s \in manifest.segments : \E b \in kept : s.through > b.store.revision}
      /\ left \subseteq manifest.segments
  OBVIOUS
<1> HIDE DEF kept, left
<1>3. /\ manifest' \in Manifests /\ manifest'.revision = manifest.revision
      /\ manifest'.baselines = kept /\ manifest'.segments = left
  <2>1. manifest' = [revision |-> manifest.revision, barrier |-> manifest.barrier,
                     baselines |-> kept, segments |-> left]
    <3>1. manifest = [revision |-> manifest.revision, barrier |-> manifest.barrier,
                      baselines |-> manifest.baselines, segments |-> manifest.segments]
      BY <1>1, ManifestFields
    <3> QED
      BY <1>0, <3>1
  <2>2. kept \in SUBSET [slot : Slots, store : Databases]
    BY <1>1, <1>2, InvariantFacts, ManifestFields, BaselineIsSound
  <2>3. left \in SUBSET [from : Nat, through : Nat, changes : SUBSET Changes, source : Databases]
    BY <1>1, <1>2, ManifestFields
  <2>4. manifest.barrier \in Nat /\ manifest.revision \in 0 .. MaxRevision
    BY <1>1, ManifestFields
  <2>5. manifest' \in Manifests
    BY <2>1, <2>2, <2>3, <2>4, ManifestBuilt
  <2> QED
    BY <2>1, <2>5
<1>4. Sound(manifest', committed', confirmed')
  <2>1. Sound(manifest', committed, confirmed)
    BY <1>1, <1>2, <1>3, InvariantFacts, SoundRotated
  <2> QED
    BY <1>0, <2>1
<1>5. TaskInvariant'
  BY <1>0, <1>1, <1>3, <1>4, InvariantFacts, LeavesCatchUp
<1> QED
  BY <1>0, <1>4, <1>5, InvariantFacts, QuietStep

LEMMA RotateCleanKeeps == RecoveryInvariant /\ RotateClean => RecoveryInvariant'
<1> SUFFICES ASSUME RecoveryInvariant, RotateClean
             PROVE  RecoveryInvariant'
  OBVIOUS
<1>0. /\ task.at = "rotate_clean" /\ task.at \in RotateSteps
      /\ UNCHANGED <<vars, committed, records, purges, manifest, baselines, confirmed>>
      /\ UNCHANGED db /\ task' = Idle
  BY DEF RotateClean, Quiet, RotateSteps, vars
<1>1. Sound(manifest, committed, confirmed) /\ manifest.revision = db.revision
  BY <1>0, InvariantFacts, CatchUpTasks
<1>2. TaskInvariant'
  BY <1>0, <1>1, InvariantFacts, LeavesIdle
<1> QED
  BY <1>0, <1>1, <1>2, InvariantFacts, QuietStep

\* What catch_up starts, whoever calls it.
LEMMA CatchUpFromKeeps ==
    ASSUME RecoveryInvariant, Loadable, NEW opening \in BOOLEAN, CatchUpFrom(opening), Quiet,
           txn = "none", opening => purges = {}, ~opening => task = Idle
    PROVE  RecoveryInvariant'
<1>0. /\ UNCHANGED <<vars, committed, records, purges, manifest, baselines, confirmed>>
      /\ UNCHANGED <<db, txn>> /\ db.revision \in Nat
      /\ Sound(manifest, committed, confirmed) /\ manifest \in Manifests
      /\ ~opening => manifest.revision <= db.revision
  BY InvariantFacts DEF CatchUpFrom, Quiet, vars, Loadable, Sound, TaskInvariant
<1>1. manifest.revision \in Nat /\ manifest.barrier \in Nat
  BY <1>0, ManifestFields
<1>2. ASSUME NEW barrier \in Nat, task' = Resetting("reset", barrier, {}, opening)
      PROVE  TaskInvariant'
  BY <1>0, <1>2, StartsReset
<1>3. ASSUME Current(db, manifest.revision), task' = Idle
      PROVE  TaskInvariant'
  BY <1>0, <1>1, <1>3, LeavesIdle DEF Current
<1>4. ASSUME Available(db, manifest.revision),
             ~CarriesPurge(Segment(db, manifest.revision)),
             task' = CatchingUp("segment_save", opening)
      PROVE  TaskInvariant'
  <2>1. "segment_save" \in RotateSteps \cup {"segment_save"} /\ "segment_save" \notin RotateSteps
    BY DEF RotateSteps
  <2> QED
    BY <1>0, <1>4, <2>1, LeavesCatchUp
<1>5. TaskInvariant'
  BY <1>0, <1>1, <1>2, <1>3, <1>4 DEF CatchUpFrom
<1> QED
  BY <1>0, <1>5, InvariantFacts, QuietStep

LEMMA CatchUpKeeps == RecoveryInvariant /\ CatchUp => RecoveryInvariant'
  BY CatchUpFromKeeps DEF CatchUp

LEMMA ReconcileKeeps == RecoveryInvariant /\ Reconcile => RecoveryInvariant'
<1> SUFFICES ASSUME RecoveryInvariant, Reconcile
             PROVE  RecoveryInvariant'
  OBVIOUS
<1>1. task = Idle /\ txn = "none" /\ Loadable /\ Quiet
  BY DEF Reconcile
<1>2. CASE CatchUpFrom(FALSE)
  BY <1>1, <1>2, CatchUpFromKeeps
<1>3. CASE /\ task' = Resetting("reset", manifest.barrier, {}, FALSE)
           /\ UNCHANGED <<manifest, baselines, segments, confirmed>>
  <2>1. /\ Sound(manifest, committed, confirmed) /\ manifest \in Manifests
        /\ manifest.revision <= db.revision
        /\ UNCHANGED <<vars, committed, records, purges>> /\ UNCHANGED <<db, txn>>
    BY <1>1, InvariantFacts DEF Loadable, TaskInvariant, Sound, Quiet, vars
  <2>2. manifest.barrier \in Nat
    BY <2>1, ManifestFields
  <2>3. TaskInvariant'
    BY <1>1, <1>3, <2>1, <2>2, StartsReset
  <2> QED
    BY <1>3, <2>1, <2>3, InvariantFacts, QuietStep
<1> QED
  BY <1>2, <1>3 DEF Reconcile

LEMMA CompletePurgeBarrierKeeps == RecoveryInvariant /\ CompletePurgeBarrier => RecoveryInvariant'
<1> SUFFICES ASSUME RecoveryInvariant, CompletePurgeBarrier
             PROVE  RecoveryInvariant'
  OBVIOUS
<1>0. /\ task = Idle /\ txn = "none"
      /\ UNCHANGED <<vars, committed, records, manifest, baselines, confirmed>>
      /\ UNCHANGED <<db, txn>>
  BY DEF CompletePurgeBarrier, vars
<1>1. PICK p \in purges :
        /\ purges' = purges \ {p}
        /\ task' = IF p.revision = db.revision
                   THEN Resetting("reset", p.revision, p.nodes, FALSE) ELSE Idle
  BY DEF CompletePurgeBarrier
<1>2. manifest # NoManifest => manifest.revision <= db.revision
  BY <1>0, InvariantFacts DEF TaskInvariant
<1>3. TaskInvariant'
  <2>1. CASE task' = Idle
    BY <1>0, <1>2, <2>1, LeavesIdle
  <2>2. CASE task' = Resetting("reset", p.revision, p.nodes, FALSE)
    <3>1. "reset" \in ResetSteps /\ "reset" # "reset_clean"
      BY DEF ResetSteps
    <3>2. p.revision \in Nat /\ p.nodes \in SUBSET NodeIds /\ \A n \in p.nodes : Retired(db, n)
      BY InvariantFacts
    <3> QED
      BY <1>0, <1>2, <2>2, <3>1, <3>2, LeavesReset
  <2> QED
    BY <1>1, <2>1, <2>2
<1> QED
  BY <1>0, <1>1, <1>3, InvariantFacts, QuietStep

LEMMA OpenKeeps == RecoveryInvariant /\ Open => RecoveryInvariant'
<1> SUFFICES ASSUME RecoveryInvariant, Open
             PROVE  RecoveryInvariant'
  OBVIOUS
<1>1. task = Closed /\ Quiet /\ txn = "none" /\ purges = {}
  BY InvariantFacts, TaskShapes DEF Open, TaskInvariant
<1>2. CASE Loadable /\ CatchUpFrom(TRUE)
  BY <1>1, <1>2, CatchUpFromKeeps
<1>3. CASE /\ task' = Resetting("reset", 0, {}, TRUE)
           /\ UNCHANGED <<manifest, baselines, segments, confirmed>>
  <2>1. UNCHANGED <<vars, committed, records, purges>> /\ UNCHANGED <<db, txn>>
    BY <1>1 DEF Quiet, vars
  <2>2. TaskInvariant'
    BY <1>1, <1>3, <2>1, StartsReset
  <2> QED
    BY <1>3, <2>1, <2>2, InvariantFacts, QuietStep
<1> QED
  BY <1>2, <1>3 DEF Open

\* The recovered state is one that an artifact of the manifest carries.
LEMMA RecoveredState ==
    ASSUME Sound(manifest, committed, confirmed), NEW b \in manifest.baselines
    PROVE  /\ RecoveredRevision(b) \in Stops(b) /\ \A r \in Stops(b) : r <= RecoveredRevision(b)
           /\ RecoveredRevision(b) \in 0 .. manifest.revision
           /\ RecoveredRevision(b) \in 0 .. MaxRevision
           /\ \A r \in Stops(b) : Candidate(b)[r] = committed[r] /\ committed[r] \in States(manifest)
<1>1. manifest.revision \in Nat /\ manifest.revision \in 0 .. MaxRevision
  BY SoundFacts
<1>2. Stops(b) \in SUBSET (0 .. manifest.revision) /\ Stops(b) # {}
  BY PlanStops
<1>3. RecoveredRevision(b) \in Stops(b) /\ \A r \in Stops(b) : r <= RecoveredRevision(b)
  BY <1>1, <1>2, GreatestNumber DEF RecoveredRevision
<1>4. ASSUME NEW r \in Stops(b)
      PROVE  committed[r] \in States(manifest)
  <2>1. CASE r = b.store.revision
    BY <2>1, SoundFacts DEF States
  <2>2. ASSUME NEW s \in Planned(b), r = s.through
        PROVE  committed[r] \in States(manifest)
    BY <2>2, PlanStops, SoundFacts DEF States, SegmentSound
  <2> QED
    BY <2>1, <2>2 DEF Stops
<1> QED
  BY <1>1, <1>2, <1>3, <1>4, CandidateIsCommitted, BoundsAssumption

LEMMA ReconstructKeeps == RecoveryInvariant /\ Reconstruct => RecoveryInvariant'
<1> SUFFICES ASSUME RecoveryInvariant, Reconstruct
             PROVE  RecoveryInvariant'
  OBVIOUS
<1>0. /\ task = Closed /\ txn = "none" /\ purges = {} /\ records' = "intact"
      /\ UNCHANGED <<txn, ordinal, manifest, baselines, segments, purges, confirmed, committed>>
  BY InvariantFacts, TaskShapes DEF Reconstruct, TaskInvariant
<1>1. PICK b \in BestBaselines :
        LET recovered == Candidate(b)[RecoveredRevision(b)]
        IN  /\ db' = recovered
            /\ work' = recovered
            /\ task' = Resetting("reset",
                           IF manifest.barrier <= recovered.revision
                           THEN manifest.barrier ELSE 0, {}, TRUE)
  BY DEF Reconstruct
<1>2. b \in manifest.baselines /\ Sound(manifest, committed, confirmed) /\ manifest \in Manifests
  BY InvariantFacts DEF BestBaselines, Loadable, Sound
<1> DEFINE r == RecoveredRevision(b)
<1>3. /\ r \in 0 .. manifest.revision /\ r \in 0 .. MaxRevision
      /\ Candidate(b)[r] = committed[r] /\ committed[r] \in States(manifest)
      /\ manifest.revision \in Nat /\ manifest.barrier \in Nat
  BY <1>2, RecoveredState, ManifestFields
<1>4. db' = committed[r] /\ work' = committed[r]
  BY <1>1, <1>3
<1>5. HistoryInvariant'
  <2>1. \A q \in 0 .. r : Recorded(committed, q)
    BY <1>2, <1>3 DEF Sound
  <2> HIDE DEF r
  <2> QED
    BY <1>0, <1>3, <1>4, <2>1, InvariantFacts, HistoryRewind
<1>6. \A n \in confirmed : Retired(db', n)
  BY <1>2, <1>3, <1>4, InvariantFacts DEF Sound, Cleared
<1>7. TaskInvariant'
  <2>1. PICK barrier \in Nat : task' = Resetting("reset", barrier, {}, TRUE)
    BY <1>1, <1>3
  <2> QED
    BY <1>0, <2>1, StartsReset
<1>8. PurgesInvariant'
  BY <1>0, <1>6, InvariantFacts DEF PurgesInvariant
<1>9. FilesInvariant'
  BY <1>0, InvariantFacts DEF FilesInvariant
<1> QED
  BY <1>0, <1>2, <1>5, <1>7, <1>8, <1>9 DEF RecoveryInvariant

LEMMA CrashKeeps == RecoveryInvariant /\ Crash => RecoveryInvariant'
<1> SUFFICES ASSUME RecoveryInvariant, Crash
             PROVE  RecoveryInvariant'
  OBVIOUS
<1>1. HistoryInvariant'
  BY InvariantFacts, HistoryCrash DEF Crash
<1>2. TaskInvariant'
  BY LeavesClosed DEF Crash
<1>3. PurgesInvariant' /\ FilesInvariant'
  BY DEF Crash, RecoveryInvariant, PurgesInvariant, FilesInvariant
<1> QED
  BY <1>1, <1>2, <1>3 DEF Crash, RecoveryInvariant

LEMMA IoErrorKeeps == RecoveryInvariant /\ IoError => RecoveryInvariant'
<1> SUFFICES ASSUME RecoveryInvariant, IoError
             PROVE  RecoveryInvariant'
  OBVIOUS
<1>0. /\ UNCHANGED <<vars, records, manifest, baselines, segments, purges, confirmed, committed>>
      /\ UNCHANGED <<db, txn>> /\ task \in Resets \cup CatchUps
      /\ task.at \notin {"closed", "idle"} /\ txn = "none"
      /\ task' = IF task.opening THEN Closed ELSE Idle
  BY InvariantFacts, TaskShapes DEF IoError, Opening, TaskInvariant, vars
<1>1. CASE task.opening
  <2>1. purges = {}
    BY <1>0, <1>1, InvariantFacts DEF TaskInvariant
  <2>2. TaskInvariant'
    BY <1>0, <1>1, <2>1, LeavesClosed
  <2> QED
    BY <1>0, <2>2, InvariantFacts, QuietStep
<1>2. CASE ~task.opening
  <2>1. manifest # NoManifest => manifest.revision <= db.revision
    BY <1>0, <1>2, InvariantFacts DEF TaskInvariant
  <2>2. TaskInvariant'
    BY <1>0, <1>2, <2>1, LeavesIdle
  <2> QED
    BY <1>0, <2>2, InvariantFacts, QuietStep
<1> QED
  BY <1>1, <1>2

LEMMA DamageKeeps == RecoveryInvariant /\ (Damage \/ LoseRecords) => RecoveryInvariant'
<1> SUFFICES ASSUME RecoveryInvariant, Damage \/ LoseRecords
             PROVE  RecoveryInvariant'
  OBVIOUS
<1>0. /\ UNCHANGED <<vars, committed, manifest, task, purges, confirmed>>
      /\ UNCHANGED <<db, txn>> /\ records' \in {records, "lost"}
  BY DEF Damage, LoseRecords, vars
<1>1. HistoryInvariant'
  BY <1>0, InvariantFacts, HistoryQuiet
<1>2. TaskInvariant'
  BY <1>0, InvariantFacts DEF TaskInvariant
<1>3. PurgesInvariant'
  BY <1>0 DEF RecoveryInvariant, PurgesInvariant
<1>4. baselines' \in [Slots -> Databases \cup {NoFile}]
  <2>1. CASE baselines' = baselines
    BY <2>1, InvariantFacts
  <2>2. CASE \E slot \in Slots : baselines' = [baselines EXCEPT ![slot] = NoFile]
    BY <2>2, InvariantFacts
  <2> QED
    BY <2>1, <2>2 DEF Damage, LoseRecords
<1>5. FilesInvariant'
  BY <1>0, <1>4 DEF RecoveryInvariant, FilesInvariant
<1> QED
  BY <1>0, <1>1, <1>2, <1>3, <1>5 DEF RecoveryInvariant

LEMMA StoreStepKeeps == RecoveryInvariant /\ StoreStep => RecoveryInvariant'
<1> SUFFICES ASSUME RecoveryInvariant, StoreStep
             PROVE  RecoveryInvariant'
  OBVIOUS
<1>0. /\ task = Idle /\ Next /\ Observe
      /\ UNCHANGED <<records, manifest, baselines, segments, task, confirmed>>
      /\ manifest # NoManifest =>
            Sound(manifest, committed, confirmed) /\ manifest.revision <= db.revision
  BY InvariantFacts DEF StoreStep, TaskInvariant
<1>1. /\ HistoryInvariant' /\ db.revision \in Nat /\ db'.revision \in Nat
      /\ db.revision <= db'.revision
      /\ \A q \in 0 .. db.revision : committed'[q] = committed[q]
      /\ \A n : Retired(db, n) => Retired(db', n)
  BY <1>0, InvariantFacts, HistoryStore
<1>2. manifest # NoManifest =>
        Sound(manifest, committed', confirmed) /\ manifest.revision <= db'.revision
  <2> SUFFICES ASSUME manifest # NoManifest
               PROVE  Sound(manifest, committed', confirmed) /\ manifest.revision <= db'.revision
    OBVIOUS
  <2>1. manifest.revision \in Nat
    BY <1>0, ManifestFields DEF Sound
  <2>2. \A q \in 0 .. manifest.revision : committed'[q] = committed[q]
    BY <1>0, <1>1, <2>1
  <2> QED
    BY <1>0, <1>1, <2>1, <2>2, SoundHistory
<1>3. TaskInvariant'
  BY <1>0, <1>2, LeavesIdle
<1>4. PurgesInvariant'
  <2> DEFINE purged == {c.node : c \in {c \in ChangesSince(db', db.revision) :
                                          c.kind = "node_purged"}}
             purge == [revision |-> db'.revision, nodes |-> purged]
  <2>1. \A n \in purged : Retired(db', n)
    BY <1>1 DEF HistoryInvariant, LedgerInvariant, LedgerJournalled, ChangesSince
  <2>2. \A n : Retired(db', n) => n \in NodeIds
    BY <1>1, DatabaseFields DEF HistoryInvariant, Inductive, TypeOK, Retired
  <2>3. purge \in [revision : Nat, nodes : SUBSET NodeIds]
    BY <1>1, <2>1, <2>2
  <2>4. purges' \subseteq purges \cup {purge}
    BY <1>0 DEF Observe
  <2>5. purge.nodes = purged
    OBVIOUS
  <2> HIDE DEF purged, purge
  <2> QED
    BY <1>0, <1>1, <2>1, <2>3, <2>4, <2>5 DEF RecoveryInvariant, PurgesInvariant
<1>5. FilesInvariant'
  BY <1>0 DEF RecoveryInvariant, FilesInvariant
<1> QED
  BY <1>0, <1>1, <1>2, <1>3, <1>4, <1>5 DEF RecoveryInvariant

LEMMA RecoveryStarts == RecoveryInit => RecoveryInvariant
<1> SUFFICES ASSUME RecoveryInit
             PROVE  RecoveryInvariant
  OBVIOUS
<1>0. /\ Inductive /\ txn = "none" /\ db = EmptyDatabase /\ work = db
      /\ db \in Databases /\ db.revision = 0 /\ db.journal = {}
      /\ MaxRevision \in Nat /\ 0 \in 0 .. MaxRevision
  BY InductiveInit, EmptyType, BoundsAssumption DEF RecoveryInit, Init, EmptyDatabase
<1>1. AccountedInvariant /\ LedgerInvariant /\ Bounded
  BY <1>0 DEF AccountedInvariant, LedgerInvariant, LedgerJournalled, Bounded
<1>2. DOMAIN committed = 0 .. MaxRevision /\ committed[0] = Frozen(db)
  BY <1>0 DEF RecoveryInit
<1>3. Recorded(committed, 0) /\ Reaches(committed[0], db)
  <2>1. Recorded(committed, 0)
    BY <1>0, <1>2, FrozenEffect DEF Recorded, Inductive
  <2> QED
    BY <1>0, <2>1 DEF Recorded, Reaches, Available
<1>4. HistoryInvariant
  <2>1. \A r \in 0 .. db.revision : r = 0
    BY <1>0
  <2> QED
    BY <1>0, <1>1, <1>2, <1>3, <2>1 DEF HistoryInvariant
<1>5. TaskInvariant
  BY <1>0, TaskShapes DEF RecoveryInit, TaskInvariant
<1>6. PurgesInvariant /\ FilesInvariant
  BY DEF RecoveryInit, PurgesInvariant, FilesInvariant
<1> QED
  BY <1>4, <1>5, <1>6 DEF RecoveryInit, RecoveryInvariant

LEMMA RecoveryStep == RecoveryInvariant /\ [RecoveryNext]_<<vars, recoveryVars>> => RecoveryInvariant'
<1> SUFFICES ASSUME RecoveryInvariant, [RecoveryNext]_<<vars, recoveryVars>>
             PROVE  RecoveryInvariant'
  OBVIOUS
<1>1. CASE UNCHANGED <<vars, recoveryVars>>
  <2>1. HistoryInvariant'
    BY <1>1, InvariantFacts, HistoryQuiet DEF recoveryVars
  <2>2. UNCHANGED <<db, txn>>
    BY <1>1 DEF vars
  <2>3. TaskInvariant' /\ PurgesInvariant' /\ FilesInvariant'
    BY <1>1, <2>2 DEF recoveryVars, RecoveryInvariant, TaskInvariant, PurgesInvariant, FilesInvariant
  <2> QED
    BY <1>1, <2>1, <2>3 DEF recoveryVars, RecoveryInvariant
<1>2. CASE RecoveryNext
  BY <1>2, StoreStepKeeps, CatchUpKeeps, ReconcileKeeps, CompletePurgeBarrierKeeps, OpenKeeps,
     ReconstructKeeps, ResetBaselineKeeps, ResetSaveKeeps, ResetCleanKeeps, SegmentSaveKeeps,
     RotateBaselineKeeps, RotateSaveKeeps, RotateCleanKeeps, CrashKeeps, IoErrorKeeps,
     DamageKeeps
     DEF RecoveryNext
<1> QED
  BY <1>1, <1>2

LEMMA RecoveryAlways == RecoverySpec => []RecoveryInvariant
  BY RecoveryStarts, RecoveryStep, PTL DEF RecoverySpec

-----------------------------------------------------------------------------
(* The theorems *)

\* Every artifact the manifest names is a database of the store's kind, and every
\* segment leads forward, whatever was damaged or lost.
THEOREM RecoveryTypeCorrect == RecoverySpec => []RecoveryTypeOK
<1>1. RecoveryInvariant => RecoveryTypeOK
  <2> SUFFICES ASSUME RecoveryInvariant
               PROVE  RecoveryTypeOK
    OBVIOUS
  <2>1. TypeOK
    BY InvariantFacts DEF HistoryInvariant, Inductive
  <2>2. ASSUME manifest # NoManifest
        PROVE  /\ manifest.revision \in Nat /\ manifest.barrier \in Nat
               /\ \A b \in manifest.baselines : b.slot \in Slots /\ b.store \in Databases
               /\ \A s \in manifest.segments : s.from < s.through /\ s.source \in Databases
    BY <2>2, InvariantFacts, ManifestFields DEF Sound, SegmentSound
  <2> QED
    BY <2>1, <2>2 DEF RecoveryInvariant, FilesInvariant, PurgesInvariant, RecoveryTypeOK
<1> QED
  BY <1>1, RecoveryAlways, PTL

\* A replay stops at nothing but committed states, in any order of commits,
\* catch-ups, rotations, barriers, reconstructions, crashes and failures between
\* their file operations, and with any artifacts damaged.
THEOREM RecoveryIsFaithful == RecoverySpec => []RecoveredStatesWereCommitted
<1>1. RecoveryInvariant => RecoveredStatesWereCommitted
  BY InvariantFacts, CandidateIsCommitted DEF Loadable, RecoveredStatesWereCommitted
<1> QED
  BY <1>1, RecoveryAlways, PTL

\* A purge that apply_batch has reported as done is final: neither the store nor
\* an artifact the manifest names has the Node again.
THEOREM ReportedPurgesAreFinal == RecoverySpec => []PurgesStayPurged
<1>1. RecoveryInvariant => PurgesStayPurged
  BY InvariantFacts DEF Sound, Cleared, States, Retired, PurgesStayPurged
<1> QED
  BY <1>1, RecoveryAlways, PTL

\* Once the manifest covers the current revision, no artifact holds a Node that
\* was purged, whether its barrier succeeded or not.
THEOREM CoverageClearsPurges == RecoverySpec => []CoverageHoldsNoRetiredNode
<1>1. RecoveryInvariant => CoverageHoldsNoRetiredNode
  <2> SUFFICES ASSUME RecoveryInvariant, Loadable, Current(db, manifest.revision),
                      NEW n \in db.issued, db.lifecycle[n] = "none"
               PROVE  \A d \in States(manifest) : d.lifecycle[n] = "none"
    BY DEF CoverageHoldsNoRetiredNode, States
  <2>1. /\ Sound(manifest, committed, confirmed) /\ n \in NodeIds
        /\ committed[manifest.revision] = Frozen(db) /\ Frozen(db).lifecycle = db.lifecycle
    BY InvariantFacts, DatabaseFields, FrozenEffect DEF Loadable, Current, HistoryInvariant
  <2> QED
    BY <2>1 DEF Sound, Cleared
<1> QED
  BY <1>1, RecoveryAlways, PTL

\* Each intact baseline leads to the manifest's revision as long as the segments
\* the manifest names are there: rotation drops none that a kept baseline needs.
THEOREM BaselinesAreRedundant == RecoverySpec => []ManifestIsReachable
<1>1. RecoveryInvariant => ManifestIsReachable
  <2> SUFFICES ASSUME RecoveryInvariant, Loadable, manifest.segments \subseteq segments,
                      NEW b \in manifest.baselines
               PROVE  RecoveredRevision(b) = manifest.revision
    BY DEF ManifestIsReachable
  <2>1. Sound(manifest, committed, confirmed)
    BY InvariantFacts DEF Loadable
  <2>2. Planned(b) = Past(b)
    <3>1. ASSUME NEW s \in Past(b)
          PROVE  Continues(s, b)
      <4>1. s \in manifest.segments /\ s.through > b.store.revision
        BY DEF Past
      <4>2. \/ s.from = b.store.revision
            \/ \E t \in manifest.segments : t.through > b.store.revision /\ t.through = s.from
        BY <2>1, <4>1 DEF Sound, Chained
      <4> QED
        BY <4>1, <4>2 DEF Continues, Past
    <3> QED
      BY <3>1 DEF Planned
  <2>3. manifest.revision \in Stops(b)
    <3>1. CASE b.store.revision = manifest.revision
      BY <3>1 DEF Stops
    <3>2. CASE b.store.revision # manifest.revision
      <4>1. PICK s \in manifest.segments : s.through = manifest.revision
        BY <2>1, <3>2 DEF Sound, Chained
      <4>2. s \in Past(b)
        BY <2>1, <3>2, <4>1, SoundFacts DEF Past
      <4> QED
        BY <2>2, <4>1, <4>2 DEF Stops
    <3> QED
      BY <3>1, <3>2
  <2>4. manifest.revision <= RecoveredRevision(b)
        /\ RecoveredRevision(b) \in 0 .. manifest.revision
    BY <2>1, <2>3, RecoveredState
  <2> QED
    BY <2>1, <2>4, SoundFacts
<1> QED
  BY <1>1, RecoveryAlways, PTL

\* When every relationship definition has an inverse label, a plan that
\* validates can be replayed: no segment of it meets a foreign revision.
THEOREM LabelledPlansReplay ==
    ASSUME Unlabelled = {}
    PROVE  RecoverySpec => []ValidPlansReplay
<1>1. RecoveryInvariant => ValidPlansReplay
  <2> SUFFICES ASSUME RecoveryInvariant, NEW b \in BestBaselines, NEW s \in Planned(b)
               PROVE  Applies(s, Candidate(b)[StopBefore(b, s.through)])
    BY DEF ValidPlansReplay, CanReplay
  <2>1. Sound(manifest, committed, confirmed) /\ b \in manifest.baselines
    BY InvariantFacts DEF BestBaselines, Loadable
  <2>2. /\ s \in manifest.segments /\ s.from \in Stops(b)
        /\ StopBefore(b, s.through) = s.from
    BY <2>1, PlanStops
  <2>3. Candidate(b)[s.from] = committed[s.from] /\ committed[s.from].revision = s.from
    BY <2>1, <2>2, CandidateIsCommitted, SoundFacts DEF Recorded
  <2> QED
    BY <2>2, <2>3 DEF Applies
<1> QED
  BY <1>1, RecoveryAlways, PTL

-----------------------------------------------------------------------------
(* The two slots *)

\* A baseline is always kept in slot A, where a reset has just written its own or
\* the file was damaged since.
SlotsInvariant ==
    /\ manifest # NoManifest \/ task.at \in RotateSteps \cup {"segment_save"} =>
           "A" \in {b.slot : b \in manifest.baselines}
    /\ task.at = "reset_save" => baselines["A"] \in {Frozen(db), NoFile}

\* A manifest that loads recovers from any intact baseline it names.
LEMMA IntactIsRecoverable ==
    (/\ Loadable /\ Sound(manifest, committed, confirmed)
     /\ \E b \in manifest.baselines : Intact(b)) => Recoverable
<1> SUFFICES ASSUME Loadable, Sound(manifest, committed, confirmed),
                    NEW intact \in manifest.baselines, Intact(intact)
             PROVE  Recoverable
  OBVIOUS
<1> DEFINE usable == {b \in manifest.baselines : Intact(b)}
           reached == {RecoveredRevision(b) : b \in usable}
           furthest == {b \in usable : \A c \in usable :
                            RecoveredRevision(b) >= RecoveredRevision(c)}
           revisions == {b.store.revision : b \in furthest}
<1>1. /\ manifest.revision \in Nat
      /\ \A b \in usable : RecoveredRevision(b) \in 0 .. manifest.revision
      /\ \A b \in usable : b.store.revision \in 0 .. manifest.revision
  BY RecoveredState, SoundFacts
<1>2. reached \in SUBSET (0 .. manifest.revision) /\ reached # {}
  BY <1>1
<1>3. \E b \in usable : \A c \in usable : RecoveredRevision(b) >= RecoveredRevision(c)
  <2>1. Max(reached) \in reached /\ \A r \in reached : r <= Max(reached)
    <3> HIDE DEF reached
    <3> QED
      BY <1>1, <1>2, GreatestNumber
  <2>2. PICK b \in usable : RecoveredRevision(b) = Max(reached)
    BY <2>1
  <2>3. \A c \in usable : RecoveredRevision(c) <= RecoveredRevision(b)
    BY <2>1, <2>2
  <2> HIDE DEF reached, usable
  <2> QED
    BY <1>1, <2>2, <2>3
<1>4. revisions \in SUBSET (0 .. manifest.revision) /\ revisions # {}
  BY <1>1, <1>3
<1>5. \E b \in furthest : \A c \in furthest : b.store.revision >= c.store.revision
  <2>1. Max(revisions) \in revisions /\ \A r \in revisions : r <= Max(revisions)
    <3> HIDE DEF revisions
    <3> QED
      BY <1>1, <1>4, GreatestNumber
  <2>2. PICK b \in furthest : b.store.revision = Max(revisions)
    BY <2>1
  <2>3. \A c \in furthest : c.store.revision <= b.store.revision
    BY <2>1, <2>2
  <2>4. furthest \subseteq usable
    OBVIOUS
  <2> HIDE DEF revisions, furthest, usable
  <2> QED
    BY <1>1, <2>2, <2>3, <2>4
<1> QED
  BY <1>5 DEF Recoverable, BestBaselines

\* Rotation overwrites one slot, and the manifest has a baseline in the other.
LEMMA OtherSlotIsKept ==
    ASSUME manifest \in Manifests, "A" \in {b.slot : b \in manifest.baselines}
    PROVE  \E b \in manifest.baselines : b.slot # RotationSlot
<1>1. CASE "B" \notin {b.slot : b \in manifest.baselines}
  BY <1>1 DEF RotationSlot
<1>2. CASE "B" \in {b.slot : b \in manifest.baselines}
  BY <1>2
<1> QED
  BY <1>1, <1>2

LEMMA SlotsStep ==
    ASSUME RecoveryInvariant, SlotsInvariant, [RecoveryNext]_<<vars, recoveryVars>>
    PROVE  SlotsInvariant'
<1>1. CASE UNCHANGED <<vars, recoveryVars>>
  <2>1. UNCHANGED <<manifest, baselines, task, db>>
    BY <1>1 DEF vars, recoveryVars
  <2> QED
    BY <2>1 DEF SlotsInvariant
<1>2. CASE StoreStep
  BY <1>2 DEF StoreStep, SlotsInvariant, Idle, RotateSteps
<1>3. CASE CatchUp \/ Reconcile \/ CompletePurgeBarrier \/ Open \/ Reconstruct
  <2>1. CASE CatchUp \/ Reconcile \/ Open
    <3>1. UNCHANGED <<manifest, baselines>> /\ task'.at # "reset_save"
      BY <2>1 DEF CatchUp, Reconcile, Open, CatchUpFrom, Resetting, CatchingUp, Idle
    <3>2. manifest # NoManifest \/ task'.at = "reset"
      <4>1. Loadable \/ task' = Resetting("reset", 0, {}, TRUE)
        BY <2>1 DEF CatchUp, Reconcile, Open
      <4> QED
        BY <4>1 DEF Loadable, Resetting
    <3> QED
      BY <3>1, <3>2 DEF SlotsInvariant, RotateSteps
  <2>2. CASE CompletePurgeBarrier \/ Reconstruct
    <3>1. UNCHANGED <<manifest, baselines>> /\ task'.at \in {"reset", "idle"}
      BY <2>2 DEF CompletePurgeBarrier, Reconstruct, Resetting, Idle
    <3> QED
      BY <3>1 DEF SlotsInvariant, RotateSteps
  <2> QED
    BY <1>3, <2>1, <2>2
<1>4. CASE ResetBaseline
  <2>1. baselines'["A"] = Frozen(db) /\ db' = db /\ manifest' = manifest
    BY <1>4, InvariantFacts DEF ResetBaseline, Quiet, vars, Slots
  <2>2. task'.at = "reset_save"
    BY <1>4, InvariantFacts, ResetTasks, TaskShapes DEF ResetBaseline, ResetSteps
  <2> QED
    BY <2>1, <2>2 DEF SlotsInvariant, RotateSteps
<1>5. CASE ResetSave
  <2>1. manifest'.baselines = {Baseline("A", db)} /\ task'.at = "reset_clean"
    BY <1>5, InvariantFacts, ResetTasks, TaskShapes DEF ResetSave, ResetSteps
  <2> QED
    BY <2>1 DEF SlotsInvariant, Baseline
<1>6. CASE ResetClean \/ RotateClean
  <2>1. manifest' = manifest /\ task' = Idle
    BY <1>6 DEF ResetClean, RotateClean
  <2> QED
    BY <2>1 DEF SlotsInvariant, Idle, RotateSteps
<1>7. ASSUME task.at \in RotateSteps \cup {"segment_save"}, task'.at # "reset_save",
             "A" \in {b.slot : b \in manifest.baselines} =>
                 "A" \in {b.slot : b \in manifest'.baselines}
      PROVE  SlotsInvariant'
  BY <1>7 DEF SlotsInvariant
<1>8. CASE SegmentSave \/ RotateBaseline \/ RotateSave
  <2>1. task.at \in RotateSteps \cup {"segment_save"} /\ manifest \in Manifests
    BY <1>8, InvariantFacts, CatchUpTasks DEF SegmentSave, RotateBaseline, RotateSave, RotateSteps
  <2>2. task'.at # "reset_save"
    <3>1. task \in CatchUps
      BY <2>1, InvariantFacts, CatchUpTasks
    <3>2. \/ task' = Idle
          \/ \E at \in {"rotate", "rotate_save", "rotate_clean"} : task' = [task EXCEPT !.at = at]
      BY <1>8 DEF SegmentSave, RotateBaseline, RotateSave
    <3> QED
      BY <3>1, <3>2 DEF CatchUps, Idle
  <2>3. CASE SegmentSave \/ RotateBaseline
    <3>1. manifest'.baselines = manifest.baselines
      BY <2>1, <2>3 DEF SegmentSave, RotateBaseline, Manifests
    <3> QED
      BY <1>7, <2>1, <2>2, <3>1
  <2>4. CASE RotateSave
    <3>1. manifest'.baselines = {b \in manifest.baselines : b.slot # RotationSlot}
                                    \cup {Baseline(RotationSlot, db)}
      BY <2>1, <2>4 DEF RotateSave, Manifests
    <3>2. Baseline(RotationSlot, db).slot = RotationSlot
      BY DEF Baseline
    <3> QED
      BY <1>7, <2>1, <2>2, <3>1, <3>2
  <2> QED
    BY <1>8, <2>3, <2>4
<1>9. CASE Crash \/ IoError \/ LoseRecords
  <2>1. UNCHANGED <<manifest, baselines, db>> /\ (task' = task \/ task' \in {Closed, Idle})
    BY <1>9 DEF Crash, IoError, LoseRecords, vars
  <2> QED
    BY <2>1 DEF SlotsInvariant, Closed, Idle, RotateSteps
<1>10. CASE Damage
  <2>1. /\ UNCHANGED <<manifest, task, db>>
        /\ baselines' = baselines \/ \E slot \in Slots : baselines' = [baselines EXCEPT ![slot] = NoFile]
    BY <1>10 DEF Damage, vars
  <2>2. baselines'["A"] \in {baselines["A"], NoFile}
    BY <2>1, InvariantFacts DEF Slots
  <2> QED
    BY <2>1, <2>2 DEF SlotsInvariant
<1> QED
  BY <1>1, <1>2, <1>3, <1>4, <1>5, <1>6, <1>8, <1>9, <1>10 DEF RecoveryNext

\* No step that an operation makes, nor a crash, deletes a segment of the manifest.
LEMMA SegmentsOutlive ==
    ASSUME RecoveryInvariant, RecoveryNext, task' # task
    PROVE  manifest' # NoManifest => (manifest'.segments \cap segments) \subseteq segments'
<1>1. CASE /\ Loadable
           /\ \/ UNCHANGED segments
              \/ LET segment == Segment(db, manifest.revision)
                 IN  /\ Available(db, manifest.revision)
                     /\ segments' = {s \in segments : <<s.from, s.through>> #
                                      <<segment.from, segment.through>>} \cup {segment}
           /\ manifest' = manifest
  <2> DEFINE segment == Segment(db, manifest.revision)
  <2>1. CASE UNCHANGED segments
    BY <2>1
  <2>2. CASE /\ Available(db, manifest.revision)
             /\ segments' = {s \in segments : <<s.from, s.through>> #
                              <<segment.from, segment.through>>} \cup {segment}
    <3>1. segment.through = db.revision
      BY DEF Segment
    <3>2. manifest.revision < db.revision
      BY <2>2 DEF Available
    <3>3. /\ manifest.revision \in Nat /\ db.revision \in Nat
          /\ \A s \in manifest.segments : s.through \in Nat /\ s.through <= manifest.revision
      BY <1>1, InvariantFacts, ManifestFields DEF Sound, Loadable
    <3>4. \A s \in manifest.segments : s.through # segment.through
      BY <3>1, <3>2, <3>3
    <3> HIDE DEF segment
    <3> QED
      BY <1>1, <2>2, <3>4
  <2> QED
    BY <1>1, <2>1, <2>2
<1>2. CASE CatchUp \/ Reconcile \/ Open
  BY <1>1, <1>2 DEF CatchUp, Reconcile, Open, CatchUpFrom
<1>3. CASE ResetClean
  <2>1. manifest' = manifest /\ manifest.segments = {}
    BY <1>3, InvariantFacts, ResetTasks DEF ResetClean, TaskInvariant, ResetSteps
  <2> QED
    BY <2>1
<1>4. CASE RotateClean
  BY <1>4 DEF RotateClean
<1>5. CASE StoreStep \/ Damage \/ LoseRecords
  BY <1>5 DEF StoreStep, Damage, LoseRecords
<1>6. CASE \/ CompletePurgeBarrier \/ Reconstruct \/ ResetBaseline \/ ResetSave \/ SegmentSave
           \/ RotateBaseline \/ RotateSave \/ Crash \/ IoError
  <2>1. segments' = segments
    BY <1>6 DEF CompletePurgeBarrier, Reconstruct, ResetBaseline, ResetSave, SegmentSave,
       RotateBaseline, RotateSave, Crash, IoError
  <2> QED
    BY <2>1
<1> QED
  BY <1>2, <1>3, <1>4, <1>5, <1>6 DEF RecoveryNext

\* ... nor the last intact baseline, but for the first write of a reset.
LEMMA BaselinesOutlive ==
    ASSUME RecoveryInvariant, SlotsInvariant, RecoveryNext, task' # task, task.at # "reset",
           manifest # NoManifest, manifest.baselines # {},
           \A b \in manifest.baselines : Intact(b),
           manifest' # NoManifest
    PROVE  \E b \in manifest'.baselines : Intact(b)'
<1>0. /\ "A" \in {b.slot : b \in manifest.baselines} /\ manifest \in Manifests
      /\ Sound(manifest, committed, confirmed)
  BY InvariantFacts DEF SlotsInvariant, Sound
<1>1. CASE UNCHANGED <<manifest, baselines>>
  BY <1>1 DEF Intact
<1>2. CASE StoreStep \/ Damage \/ LoseRecords \/ ResetBaseline
  BY <1>2 DEF StoreStep, Damage, LoseRecords, ResetBaseline
<1>3. CASE \/ CatchUp \/ Reconcile \/ CompletePurgeBarrier \/ Open \/ Reconstruct
           \/ RotateClean \/ Crash \/ IoError
  <2>1. UNCHANGED <<manifest, baselines>>
    BY <1>3 DEF CatchUp, Reconcile, CompletePurgeBarrier, Open, Reconstruct, CatchUpFrom,
       RotateClean, Crash, IoError
  <2> QED
    BY <1>1, <2>1
<1>4. CASE ResetSave
  <2>1. /\ task.at = "reset_save" /\ baselines' = baselines
        /\ manifest'.baselines = {Baseline("A", db)}
    BY <1>4 DEF ResetSave
  <2>2. PICK b \in manifest.baselines : b.slot = "A"
    BY <1>0
  <2>3. baselines["A"] = b.store /\ b.store \in Databases
    BY <1>0, <2>2, SoundFacts DEF Intact
  <2>4. baselines["A"] = Frozen(db)
    BY <2>1, <2>3, NoFileAssumption DEF SlotsInvariant, NoFile
  <2> QED
    BY <2>1, <2>4 DEF Intact, Baseline
<1>5. CASE ResetClean
  <2>1. /\ manifest' = manifest /\ manifest.baselines = {Baseline("A", db)}
        /\ baselines' = [baselines EXCEPT !["B"] = NoFile]
    BY <1>5, InvariantFacts, ResetTasks DEF ResetClean, TaskInvariant, ResetSteps
  <2>2. baselines'["A"] = baselines["A"]
    BY <2>1, InvariantFacts DEF Slots
  <2> QED
    BY <2>1, <2>2 DEF Intact, Baseline
<1>6. CASE SegmentSave
  <2>1. manifest'.baselines = manifest.baselines /\ baselines' = baselines
    BY <1>0, <1>6 DEF SegmentSave, Manifests
  <2> QED
    BY <2>1 DEF Intact
<1>7. CASE RotateBaseline \/ RotateSave
  <2>1. PICK b \in manifest.baselines : b.slot # RotationSlot
    BY <1>0, OtherSlotIsKept
  <2>2. b \in manifest'.baselines
    <3>1. CASE RotateBaseline
      BY <2>1, <3>1 DEF RotateBaseline
    <3>2. CASE RotateSave
      <4>1. manifest'.baselines = {c \in manifest.baselines : c.slot # RotationSlot}
                                      \cup {Baseline(RotationSlot, db)}
        BY <1>0, <3>2 DEF RotateSave, Manifests
      <4> QED
        BY <2>1, <4>1
    <3> QED
      BY <1>7, <3>1, <3>2
  <2>3. baselines'[b.slot] = baselines[b.slot]
    <3>1. b.slot \in Slots
      BY <1>0, ManifestFields
    <3> QED
      BY <1>7, <2>1, <3>1, InvariantFacts DEF RotateBaseline, RotateSave
  <2> QED
    BY <2>1, <2>2, <2>3 DEF Intact
<1> QED
  BY <1>2, <1>3, <1>4, <1>5, <1>6, <1>7 DEF RecoveryNext

\* Artifacts are deleted only when nothing needs them any more: no step of an
\* operation takes away a segment file the manifest names, nor, but for the first
\* write of a reset, the last baseline to recover from when all were intact.
THEOREM NoArtifactIsDeletedEarly == RecoverySpec => ArtifactsOutliveManifest
<1> DEFINE Invariant == RecoveryInvariant /\ SlotsInvariant
<1>1. RecoveryInit => Invariant
  BY RecoveryStarts DEF RecoveryInit, SlotsInvariant, Closed, RotateSteps
<1>2. Invariant /\ [RecoveryNext]_<<vars, recoveryVars>> => Invariant'
  BY RecoveryStep, SlotsStep
<1>3. (/\ Loadable /\ Sound(manifest, committed, confirmed)
       /\ \E b \in manifest.baselines : Intact(b))' => Recoverable'
  BY IntactIsRecoverable, PTL
<1>4. Invariant /\ [RecoveryNext]_<<vars, recoveryVars>> =>
          [task' # task =>
              /\ manifest' # NoManifest => (manifest'.segments \cap segments) \subseteq segments'
              /\ (/\ Recoverable /\ \A b \in manifest.baselines : Intact(b)
                  /\ Loadable' /\ ~Recoverable') => task.at = "reset"]_<<vars, recoveryVars>>
  <2> SUFFICES ASSUME RecoveryInvariant, SlotsInvariant, RecoveryNext, task' # task
               PROVE  /\ manifest' # NoManifest => (manifest'.segments \cap segments) \subseteq segments'
                      /\ (/\ Recoverable /\ \A b \in manifest.baselines : Intact(b)
                          /\ Loadable' /\ ~Recoverable') => task.at = "reset"
    BY DEF recoveryVars
  <2>1. ASSUME Recoverable, \A b \in manifest.baselines : Intact(b), Loadable', task.at # "reset"
        PROVE  Recoverable'
    <3>1. manifest # NoManifest /\ manifest.baselines # {} /\ manifest' # NoManifest
      BY <2>1 DEF Recoverable, BestBaselines, Loadable
    <3>2. PICK b \in manifest'.baselines : Intact(b)'
      BY <2>1, <3>1, BaselinesOutlive
    <3>3. Sound(manifest', committed', confirmed')
      <4>1. RecoveryInvariant'
        BY RecoveryStep
      <4> QED
        BY <3>1, <4>1 DEF RecoveryInvariant
    <3> QED
      BY <1>3, <2>1, <3>2, <3>3
  <2> QED
    BY <2>1, SegmentsOutlive
<1> QED
  BY <1>1, <1>2, <1>4, PTL DEF RecoverySpec, ArtifactsOutliveManifest
===============================================================================
