# Genesis Core in TLA+

Genesis Core is an embedded store: a canonical SQLite database of Nodes,
Properties, Relationships and their definitions (`records.sqlite`), a derived
Index (`index.sqlite`), and local recovery material from which the canonical
database can be reconstructed. This directory holds TLA+ modules of its state
machines, the TLC configurations that check them on small instances, and
theorems about them checked by TLAPS.

Paths below are relative to the repository's root; module names are files here.

## The system

| Component | Source | State | Operations |
|---|---|---|---|
| Record Store | `src/record_store/operations.rs`, `mod.rs`, `schema.rs`, `migrations.rs` | issued identities, nodes, properties, relationships, definitions, revision, change journal | `apply_batch` (eight mutations), `create_nodes`, register / update / deprecate / remove definitions, `prune_change_journal`, open with validation and migration |
| Projections | `src/record_store/projection.rs` | none, reads the journal and the tables | `projection_snapshot`, `projection_delta_since` |
| Recovery patches | `src/record_store/recovery.rs` | none | `apply_recovery_patch` |
| Recovery manager | `src/recovery/mod.rs` | manifest, two baseline files, segment files | `catch_up`, `rotate_baseline`, `reset_to_single_baseline`, `complete_purge_barrier`, `reconcile`, `reconcile_startup`, `reconstruct` |
| Index store | `src/index/mod.rs`, `projection.rs`, `schema.rs`, `migrations.rs` | projected rows, applied revision, documents, full-text rows, derived relationships | `reconcile`, `rebuild`, open, `replace_content_projection`, `replace_node_content_projection` |
| Index queries | `src/index/query.rs` | none | search, graph, neighbourhood, orphans, cursors |
| Core facade | `src/lib.rs` | three mutexes around the above | every public call: locks, commit, follow-ups, barrier, status, snapshots |
| Stable scans, cursors | `src/record_store/stable_scan.rs`, `src/api.rs` | cursor tokens | pages inside a snapshot, pages under an Index revision |
| Storage boundary | `src/security.rs` | sentinel and boundary manifest | `configure_protected`, `validate` |
| Data types | `src/id.rs`, `value.rs`, `node.rs`, `error.rs` | none | parsing, formatting |

**How they interact.** A mutation locks the Record Store, commits one
transaction under one new revision, writes journal rows under that revision and
unlocks. Then follow-ups run, each with the Record Store locked anew: recovery
reads the delta since the manifest's revision and writes a segment or resets,
the Index reads the delta since its checkpoint and applies it or rebuilds.
Their errors are dropped; status shows the lag. A batch with a purge replaces
the recovery follow-up by a barrier whose error is returned as
`PostCommitFailure`. `open` validates the Record Store, reconstructs it if it
cannot be opened, reconciles recovery and Index, and prunes the journal.
Several Cores, in one process or in many, may have the same root open: SQLite's
WAL mode serializes their transactions and nothing else coordinates them.

**What is hard.** Commits of other threads between a commit and its follow-up;
checks that other connections overtake; crashes and failing I/O between the
renames of a rotation, reset or reconstruction; a damaged artifact in the middle
of a chain of segments; a purge that every copy must forget while the identity
must never come back; journal readers that fall behind the retention; revision
numbers used again after a reconstruction; derived rows that outlive what they
point to. PROJECT.json lists each at its line.

**What makes each part correct.**
- Record Store: an identity is issued once, a purge retires it for ever; tables
  agree with one another; the journal names everything a commit changed and has
  no gap; facts have the kind their definition expects; replacement links end.
- Recovery: what a plan yields was once committed under that revision; no purge
  that was reported as done comes back; no crash loses the manifest or the last
  intact baseline in a rotation; a plan that validates can be replayed.
- Index: what it shows is exactly the committed state of its checkpoint; content
  refers to Nodes it has; search names no retired Node.
- Core: when nothing is under way nothing lags but what failed; artifacts never
  span a purge; every call returns; every purge becomes protected.

## The modules

| Module | Models | Abstracts |
|---|---|---|
| `RecordStore` | the database of one connection: `db` is committed, `work` is the open transaction | values by their kind, definition texts by their version, journal rows by what they name |
| `IdentityLedger` | abstract: each identity is unissued, live or retired, and only moves forward | `RecordStore` implements it through `resolve_identity` |
| `Projection` | full projection, delta, what a delta does to a copy | |
| `Recovery` | manifest, baselines, segments; one action per rename, the deletions after it one more; a plan and where its replay can stop | a checksum by the content it was taken of, a plan by the set of its segments |
| `Definitions` | definition operations of several connections, check and write apart | the reads of one check are one step |
| `IndexStore` | the derived Index, its rebuild with every failure and crash point, opening, the content projection, search, backlinks, graph and orphan queries | a derived relationship by the two Nodes it names |
| `IndexSync` | how Cores synchronize the Index, one SELECT per step, while others commit; several Cores on one library | the files of the Index by which one each Core has open |
| `Traversals` | cursor pages over the Index and over the six collections of a stable snapshot, on top of `IndexSync` | a cursor token by what it carries |
| `StoreOpen` | opening the Record Store, one statement per step, by several connections, some of which commit | rows by their highest revision, the checks of `validate` by whether they hold |
| `CoreState` | threads, the three mutexes, commit and follow-ups | stores by revisions |
| `RecordStoreProofs`, `ProjectionProofs`, `DefinitionsProofs`, `IndexStoreProofs`, `RecoveryProofs`, `TraversalProofs`, `StoreOpenProofs`, `CoreStateProofs` | theorems | |

`Projection` extends `RecordStore`; `Recovery`, `Definitions`, `IndexStore` and
`IndexSync` extend `Projection` and run the Record Store's own `Next` as one of
their steps, and `Traversals` extends `IndexSync`.
So a baseline holds real tables, a segment is a delta computed from a real
journal, and a property about recovered, indexed or paged content compares rows
with rows. The two models of the Index divide the questions: in `IndexStore` a
synchronization reads one state of the Record Store and everything may fail, in
`IndexSync` every statement reads a state of its own and files stay whole.
`StoreOpen` and `CoreState` stand alone. Opening looks at revisions and at
nothing else a row holds; which thread does what in which order is a question
about revisions as well; and their answers hold for any number of connections
and of threads.

State and code. `db.revision` is `store_meta.current_revision`; `db.issued`,
`lifecycle`, `modified`, `properties`, `relationships`, the two definition maps
and `journal` are the tables of `schema.rs`. A batch is `BeginBatch`, one action
per mutation, and `CommitBatch` or `RollbackBatch`, so that a mutation which
fails late, and a crash inside a transaction, are ordinary behaviours. In
`Recovery`, `manifest`, `baselines` and `segments` are the files and `task` is
where the running operation stands. In `IndexSync`, `files` are the databases
that are or were `index.sqlite`, `handle` the one each Core's connection has
open, and `sync` the Rust locals of a synchronization: the revisions it read, the
rows it has read, the items left to read. In `Traversals`, `snapshot` is the
deferred transaction of `with_stable_read_snapshot` and `traversal` what the
caller holds, its cursor and the pages it has got. In `StoreOpen`, `opener` is how
far each connection's `open` is and what it has read. In `CoreState`, `pc` is the next part of a
thread's call, `held` its guards, `failed` the stores whose latest synchronization
failed: a follow-up whose error the facade drops, or an explicit reconciliation or
rebuild that returned its error to the caller. A failed one may have done part of
its work, for instance caught recovery up and not cut it off.

Operators introduced by a comment "Fault:" are deliberate mistakes, a dropped
guard, a missing cascade, an order exchanged. No specification uses them. They
are there to show, by putting them in the place of the correct operator, that each
property of the runs can fail; PROJECT.json pairs every property with one.

## The runs

Passing:

| Run | Question | Instance |
|---|---|---|
| `record_store_graph` | lifecycle, purge, reuse of identities, relationships and journal under every batch of up to three mutations; tables that agree; stamps; the identity ledger | 2 Nodes, 1 property key, 1 relationship key, 3 revisions, retention 1 |
| `record_store_facts` | facts against definitions, replacement links, journal, stamps | 1 Node, 2 property keys, 2 kinds, 4 revisions, batches of 2 |
| `recovery_faults` | a crash or failing I/O at every step, any artifact damaged at any time, loss of the database | 1 Node, 3 revisions, 1 segment per baseline |
| `definitions_two_connections` | what stale checks cannot break | 2 connections, 2 keys, 1 Node |
| `index_store` | Index equals a committed state, across deltas, pruning, rebuilds that fail anywhere, lost and damaged files and set-back databases; documents, derived relationships, and the answers of the queries | 2 Nodes, 1 relationship key, 1 document key, 3 revisions, retention 1, batches of 1 |
| `traversals` | pages of the Index and of stable snapshots while others commit between any two statements of a synchronization | 3 Nodes of which 2 exist at the start, 1 property key, 1 relationship key, 3 revisions, retention 1, pages of 1 |
| `store_open` | opening by several connections, statement by statement, of a file of any kind | 3 connections, 3 revisions, retention 2 |
| `core_threads` | interleavings of batches, follow-ups and explicit reconciliations, each of which may fail; calls return, purges become protected | 3 threads, 1 call each |

Why the bounds are enough to be of interest. Retention 1 or 2 against 3 or 4
revisions makes every reader of the journal fall behind it. Batches of three
allow create, tombstone and purge of one identity under one revision; batches of
two allow a row to be written and removed in one delta. One segment per baseline
makes two rotations happen in three revisions, so both slots are replaced. Three
revisions allow create, tombstone, purge; the fourth allows a commit after it.
Two connections suffice for a check to be overtaken; a third, in `store_open`,
commits while two repair the same store. Three threads let a purge meet two other
commits. Node identities, property keys and kinds, connections, Cores
and document keys are only compared, so symmetry is sound in the runs that use
it, which check safety properties; in `traversals` and `shared_index` Nodes are
numbers, because UUIDs are ordered there, and no symmetry is used over them;
`core_threads` checks liveness and uses none.

A synchronization reads the properties of a Node by the rowid that its first SELECT
returned (`src/index/projection.rs:357`). If the Node is purged before the second,
that SELECT finds nothing, or the properties of a Node that got the rowid.
`ContentsFound` lets that be any Node written since the synchronization began,
which includes each that was created since. In `traversals` a purge falls between
the two SELECTs; that the rowid is used again takes batches of three mutations,
which the run does not have, and is covered by the theorem `StaleRowsAreRepaired`. TLC
explored this case before the proof with `SyncSpec`, `NodeIds = {1, 2}`, one property
key, no relationship key, one Core, `Retention = 1`, `MaxRevision = 2` and
`MaxBatch = 3` (213,251 states): the first batch creates one Node and tombstones it,
the second purges it, creates the other and sets its property.

`traversals` starts from `PopulatedInit`, the library that one batch has filled
and the Index has caught up with, so that its two further revisions go into what
matters there, changes of what is being read. One property, the links of two Nodes
and pages of one row suffice for a traversal to stop between any two rows. A
traversal that has its last page ends before the Index moves on, since nothing of
it can change after that. Pages of several rows are the same keyset condition
with another LIMIT.

`MaxRevision`, `MaxBatch` and `MaxCalls` bound the exploration and nothing else:
they appear in guards only. `MaxFound` bounds the revisions of the file that
`StoreOpen` finds, `MaxDerived` the derived relationships of a content replacement
in `IndexStore`, which also replaces content only while no batch is open.
`SegmentsPerBaseline` and `Retention` stand for the
code's 64 and 1,024, and the bound on a manifest's segments is twice the former,
as in the code.

What recovery and the Index take over is the same computation,
`Patched` over `Overlaid` in `Projection`. That a delta names every row that
changed is `JournalCoversCommit`, over properties and relationships in `record_store_graph`
and over properties and definitions in `record_store_facts`; that applying it gives
the rows of the target is `IndexShowsCommittedState` over relationships and
`StaleRowsAreJournalled` over properties and relationships. `recovery_faults`
therefore spends its states on faults and keeps its tables small.

Violations, each a statement of the code or its documents that the code does not keep:

| Run | Statement | What happens |
|---|---|---|
| `recovery_inverse_label` | material that validates can be replayed | a definition without inverse label is replayed as NULL into a NOT NULL column |
| `definition_kinds` | a kind cannot change while facts use the definition | a fact is set between check and update by another connection |
| `index_search` | a purge removes what the Node owned | the full-text row stays and answers under a reused document key |
| `shared_index` | status says whether the Index matches the Record Store | two Cores on one library: the slower one's older delta overwrites newer rows, and the next delta takes the checkpoint to the current revision without them |

## Known divergences without a run

These were met while modelling. The models contain them, and the properties
are stated around them; none has a run of its own.

- A reset renames the new baseline over the one the manifest still describes and
  saves the manifest afterwards (`recovery/mod.rs:344`). After a crash between
  the two the checksum does not match, and if the other slot is empty no intact
  baseline is left until the next reset. `RecoveredStatesWereCommitted` holds all
  the same: nothing is recovered then.
- A rotation that fails after the manifest was saved with the new segment
  (`recovery/mod.rs:176`), often enough, leaves a manifest with more segments
  than `load_manifest` accepts.
- A sound store can be refused to a connection that others overtook while it
  opened (`record_store/mod.rs:176`, `migrations.rs:7`);
  `SoundStoreRefusedOnlyWhenOvertaken` says exactly when. `Core::open` answers
  any such error with a reconstruction (`lib.rs:124`), over a store which the
  others go on writing.
- A Node purged while a synchronization reads it may stand in the Index with
  another Node's properties, read under the freed rowid
  (`src/index/projection.rs:357`), until the next delta, which names both.
- Two connections that deprecate two definitions in favour of each other leave a
  cycle, since each checked that the other was active before its transaction.
- `PostCommitFailure` may name a purge that another thread's follow-up has
  protected by then, because the barrier is refused whenever the revision moved on.
- `orphan_node_count` is documented as a count of active orphans (`lib.rs:352`),
  and counts a Node whose only relationships lead to Nodes that are not active as
  connected, while `orphan_node_ids` lists it. `OrphanAnswersAgree` states how the
  two answers relate.
- `graph_nodes_page` is documented to be in title and UUID order (`lib.rs:329`);
  `index/query.rs:555` orders by UUID.

## Fairness

`CoreState` is the only module with fairness: weak fairness of each thread's
`Step`, and none of `Call`. A thread that holds what it needs is run by the
operating system, and no code path of the facade waits for anything but a
mutex. Weak fairness is enough because the runs let each thread make a bounded
number of calls, after which a waiting thread finds the lock free for good.
`std::sync::Mutex` promises no order among waiters, so that a thread which
calls for ever might starve another is not excluded by the code nor by the
model. `core_threads` switches the deadlock check off because threads stop after
their calls; `EveryCallReturns` is what rules a deadlock of locks out. A snapshot's callback may query the Index, as the code permits; one
that breaks the documented rule and calls the Record Store is not modelled.

## Proofs

TLAPS proves what follows for all constants that meet the modules' assumptions:
any number of Nodes, keys, kinds, connections and threads, any retention, any
length of a batch and any number of segments per baseline. `IndexStoreProofs`,
`TraversalProofs` and `RecoveryProofs` extend `ProjectionProofs`, and that and
`DefinitionsProofs` extend `RecordStoreProofs`, so that each argument is made once.

**Record Store** (`RecordStoreProofs`).
- `TypeCorrect`, `Consistency`: `StoreConsistent` of `db` is not inductive, since
  a commit takes over `work`. `Inductive` adds that `work` is consistent as well
  and equals `db` when no transaction is open. For each write a lemma states what
  it does to each field, so that no later proof expands a database record.
- `IdentityContract`: every step, seen through `resolve_identity`, is a step of
  `IdentityLedger` or changes nothing in it; this is the refinement, and it needs
  `Inductive`, because only a consistent store resolves each identity to one state.
- `JournalHasNoGap`: two ways a step can change `db`, `Follows` for a commit
  and `Prunes` for the journal alone, keep `Journalled`. `NextIsStoredStep`
  shows that there is no third, and every later proof about `db` starts from it.
- `FactsKeepTheirKind`, `ReplacementsEnd`: the invariants hold of `work` as well.
  That replacement links end sounds like induction over data and is not: a
  deprecation links a definition that had no link to one that exists, so no
  link leads back to it (`SoundReplacements`), and a set of definitions that
  replaced itself would have done so before.

**Projections** (`ProjectionProofs`).
- `DeltasAreComplete`, `ChangesAreStamped`: `Accounted(db, work)` relates the open
  transaction to the state it started from: all that differs is named under the
  pending revision. `ReachesCommitted` and `ReachesPruned` carry this from one
  commit to any number of them, as a relation between one earlier state and the
  store, so that no induction over the revisions is needed: while the journal is
  available from a state, its changes since name all that differs from it.

**Definitions of several connections** (`DefinitionsProofs`).
- `ReplacementTargetsExist`, `StaleWritesAdvance`, `SharedJournalHasNoGap`: what a
  check has read may be out of date when its write runs. `DefInductive` says what is
  left of it: a definition that existed still exists with at least that version,
  unless it was removed, which its own rows prevent.

**Index** (`IndexStoreProofs`).
- `IndexTypeCorrect`, `IndexIsACommittedState`, `ContentHasItsNodes`,
  `DocumentsAreFound`, `AnswersAreActive`, `OrphanQueriesAgree`: all invariants of
  `index_store`. `HistoryInvariant` says that `committed` holds what each revision
  was and that the store `Reaches` from each; `Shown` that an Index holds exactly
  one of these states. A delta is then `Reaches` at the checkpoint. A store set back to an
  earlier state starts with an empty journal, which is why it reaches nothing
  and no Index takes a delta across it.

**Recovery** (`RecoveryProofs`).
- `RecoveryTypeCorrect`, `RecoveryIsFaithful`, `ReportedPurgesAreFinal`,
  `CoverageClearsPurges`, `BaselinesAreRedundant`: the invariants of
  `recovery_faults`, from `RecoveryInvariant`. Its core is
  `Sound(manifest, committed, confirmed)`: each baseline is the state committed
  under its revision, each segment leads from one committed state to a later one
  and names all that differs (`SegmentSound`), the segments neither overlap nor
  leave a gap behind a baseline (`Chained`), and a Node that any artifact holds live
  is live at the manifest's revision (`Cleared`). Nothing is assumed of the
  files: a file that does not agree with the manifest is a damaged one, and no
  plan starts from it. The operations under way add what their earlier steps
  found out (`TaskInvariant`), which holds on since they keep the lock.
- That replaying a plan gives committed states only is an induction over the
  stops of the plan: of the stops at which it did not hold the least would have
  a stop before it, whose segment leads from the one to the other. The least
  number exists by the well-founded order of the library, applied to a set.
- `LabelledPlansReplay`: `ValidPlansReplay` under the hypothesis that no definition
  lacks an inverse label. Without it the statement is false, which is the
  run `recovery_inverse_label`.

- `NoArtifactIsDeletedEarly`: the action property `ArtifactsOutliveManifest`. It needs
  `SlotsInvariant` besides: the manifest has a baseline in slot A at all times, so that a
  rotation, which overwrites one slot, leaves one in the other; and slot A has what
  a reset has just written, unless the file was damaged before the manifest that names it
  was saved. A new segment file replaces none the manifest names, since those
  end at or before its revision.

**Synchronizing and traversing** (`TraversalProofs`).
- `StaleRowsAreRepaired`: when the library has one Core. `Fresh` says of a state of
  the Index that each of its rows is the store's row or named by the journal
  past a revision. `SyncInvariant` has it of the Index at its checkpoint, and of what
  an unfinished synchronization would leave there at the revision it will
  store: the rows read so far, and those of the file that it will not replace.
  Commits add names and never take one away that is past an available
  revision, so `Fresh` survives every step of the store. Where pruning has
  made the journal unavailable, `Fresh` says nothing, and the next
  reconciliation rebuilds. Properties read under a freed rowid stand under a Node
  whose purge the journal names (`FoundAgrees`). That there is one Core is needed:
  `shared_index` shows how two break it.
- `TraversalTypeCorrect`, `StableScansAreExact`, `PagesNeverOverlap`: for any number of
  Cores, from `TraversalInvariant`. `PageShape` is the argument about pages: in a
  finite collection whose keys are totally ordered, the items with fewer than
  `limit` others before them are an initial segment of what is behind the cursor,
  so the key of the last one separates what the page took from what it left. That the
  keys of each of the seven collections are ordered so, descending revision then
  UUID among them, is `StableItemsOrdered` and `IndexItemsOrdered`. `Journey` says of
  a traversal that all it returned is at or before its cursor. A stable scan adds that
  two snapshots of one revision hold the same rows (`SnapshotSound`, `ScanSound`): no step
  changes the store and keeps its revision except by pruning the journal, which
  a snapshot does not show.
- `IndexTraversalsLoseOnlyMoved`: what a traversal may yet meet, `Visible`, is in the
  Index, among the rows a synchronization has read, or in the store; under the
  cursor's watermark this set only ever shrinks, because whatever a commit
  changes gets a newer stamp. `RowsSettled` is needed for the store's share: what
  is older than the checkpoint is in the Index as the store has it. One Core
  again, since with two a file of the one may be replaced by older rows of the other.

**Opening** (`StoreOpenProofs`).
- `OpenTypeCorrect`, `OpenedStoresCover`, `RevisionsAreJournalled`,
  `SoundStoresAreAccepted`: all properties of `store_open`, for any file of
  `Found`. What a connection has read may be out of date at its next statement, so
  `OpenInvariant` relates it to the store as it is: as long as the revision does not
  cover the history, nobody has opened the store and what was read is still
  there; once it does, what was read is behind the revision, and the UPDATE's
  condition on the revision fails. `ReadsSurvive` shows this for the three ways in
  which others can change the store under a connection's reads. Even the type of
  a revision needs it, since a repair writes what an earlier statement has read.

**Locks and follow-ups** (`CoreStateProofs`).
- `CoreTypeCorrect`, `QuiescenceIsCurrent`, `PurgesAreCutOff`: quiescence says
  nothing of the states in between, so `CoreInvariant` names who is still to act: a
  store that lags and has not failed has a thread that committed the CURRENT
  revision and whose follow-up is yet to come. This survives the barrier being
  refused, for then the current revision is another thread's. A synchronization that
  fails may leave part of its work behind, but each artifact it leaves was there
  before or ends at the current revision (`ArtifactsKept`).

The proofs assume only what the modules state of their constants;
`LabelledPlansReplay`, `StaleRowsAreRepaired` and `IndexTraversalsLoseOnlyMoved` have
the hypothesis they name. Of the constants, the modules assume that identities and
keys are finitely many (a UUID has 128 bits, a key at most 255 bytes,
`src/record_store/operations.rs:1000`) and ordered, and that Cores are finitely many.
TLC found no violation of `RecoveryInvariant` in the instance of `recovery_faults`,
nor of the parts of `IndexInvariant` in that of `traversals`, before they were proved.

Every invariant and every action property of the passing runs is stated by a theorem.
Model-checked only: the statements that the code does not keep, each under
the scope in which it holds; liveness, `EveryCallReturns` and
`PurgesBecomeProtected`, and whatever needs ENABLED, which is beyond TLAPS as
installed. No module has a RECURSIVE operator.

## Not modelled

- SQL text, schema steps, structural validation of a database file, UUID and
  value encodings, error wording: no state, or state the properties do not tell apart.
- Definition labels and descriptions, except the absence of an inverse label.
- SQLite itself: atomic commit, isolation, foreign keys and cascades are taken as
  documented; power loss that undoes a rename after `sync_directory` is not considered.
- Property filters and OFFSET windows of the Index queries: each is one SELECT over
  rows that are modelled, without state and without a promise about the next call.
- The encoding of a cursor and the refusal of a foreign one: a cursor is what it carries.
- The storage boundary (`src/security.rs`): two files written once and one
  comparison before a write, with no state in between; the hazards name what is hard
  about it.
- A segment that a commit of another connection tears: `Recovery` takes a delta
  within one state of the database. `IndexSync` shows for the Index that the next
  delta repairs such rows; a reconstruction that ends with the torn segment is not
  covered.
- The debug assertion at `src/index/mod.rs:109`, and panics in general.
- Migrations of the Index: one that fails leaves a file that does not open, which
  `IndexStore` rebuilds.

## Plan

The order was: canonical state first, then what must survive of it, then what is
derived, then the threads, then what several processes do between one another's
statements. Done: `RecordStore`, `IdentityLedger`, `Projection`, `Recovery`,
`Definitions`, `IndexStore` with the failures of its rebuild and both orphan
queries, `IndexSync` and `StoreOpen` (torn reads, racing opens), `Traversals`
(cursors and stable scans), `CoreState`, and the proofs above. Every safety
property has its theorem. Left: the hazards that `PROJECT.json` lists without a property,
each with the reason why it has none.
