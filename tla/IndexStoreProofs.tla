---------------------------- MODULE IndexStoreProofs ----------------------------
(***************************************************************************)
(* Theorems about the derived Index for every set of identities, keys and  *)
(* documents and every retention: whatever deltas, rebuilds, failures of   *)
(* their file operations, prunings and set-back databases bring it about,  *)
(* it shows a committed state and answers from it.                         *)
(***************************************************************************)
EXTENDS IndexStore, ProjectionProofs

-----------------------------------------------------------------------------
(* The history of committed states *)

HistoryInvariant ==
    /\ Inductive
    /\ AccountedInvariant
    /\ Bounded
    /\ DOMAIN committed = 0 .. MaxRevision
    /\ \A r \in 0 .. db.revision : Recorded(committed, r) /\ Reaches(committed[r], db)
    /\ Content(committed[0]) = EmptyContent
    /\ committed[db.revision] = Unjournalled(db)

\* A step that makes no revision leaves the history as it is.
LEMMA HistorySame ==
    ASSUME HistoryInvariant, [Next]_vars, db'.revision = db.revision, committed' = committed
    PROVE  HistoryInvariant' /\ Content(db') = Content(db)
<1>0. /\ db.revision \in Nat /\ db \in Databases
      /\ Inductive' /\ AccountedInvariant'
      /\ db' = db \/ Prunes(db, db')
  <2>1. StoredStep /\ Inductive /\ AccountedInvariant
    BY NextIsStoredStep DEF HistoryInvariant, Inductive
  <2>2. db \in Databases /\ db.revision \in Nat /\ Inductive'
    BY <2>1, InductiveStep, DatabaseFields DEF Inductive, TypeOK
  <2>3. ~Follows(db, db')
    BY <2>2 DEF Follows
  <2> QED
    BY <2>1, <2>2, <2>3, AccountedInvariantStep DEF Inductive, TypeOK
<1>1. Content(db') = Content(db) /\ Unjournalled(db') = Unjournalled(db)
  BY <1>0, ReachesPruned DEF HistoryInvariant, Recorded
<1>2. \A r \in 0 .. db.revision : Reaches(committed[r], db')
  <2> TAKE r \in 0 .. db.revision
  <2>1. committed[r].revision \in Nat /\ Reaches(committed[r], db)
    BY DEF HistoryInvariant, Recorded
  <2> QED
    BY <1>0, <2>1, ReachesPruned
<1>3. (\A r \in 0 .. db.revision : Recorded(committed, r) /\ Reaches(committed[r], db))'
  BY <1>2 DEF HistoryInvariant
<1>4. (DOMAIN committed = 0 .. MaxRevision)' /\ (Content(committed[0]) = EmptyContent)'
  BY DEF HistoryInvariant, Content
<1>5. (committed[db.revision] = Unjournalled(db))'
  BY <1>1 DEF HistoryInvariant, Unjournalled
<1>6. Bounded'
  BY StepKeepsBound DEF HistoryInvariant, Bounded
<1> QED
  BY <1>0, <1>1, <1>3, <1>4, <1>5, <1>6 DEF HistoryInvariant

\* A commit adds its state to the history.
LEMMA HistoryCommit ==
    ASSUME HistoryInvariant, Next, db'.revision > db.revision,
           committed' = [committed EXCEPT ![db'.revision] = Unjournalled(db')]
    PROVE  HistoryInvariant'
<1>0. /\ db \in Databases /\ db' \in Databases /\ db.revision \in Nat
      /\ Inductive' /\ AccountedInvariant' /\ Consistent(db) /\ Consistent(db')
      /\ Follows(db, db') /\ Accounted(db, db')
  <2>1. StoredStep /\ Inductive /\ AccountedInvariant
    BY NextIsStoredStep DEF HistoryInvariant, Inductive
  <2>2. db \in Databases /\ db.revision \in Nat /\ Inductive'
    BY <2>1, InductiveStep, DatabaseFields DEF Inductive, TypeOK
  <2>3. db' # db /\ ~Prunes(db, db')
    BY <2>2 DEF Prunes, PruneFrame
  <2> QED
    BY <2>1, <2>2, <2>3, AccountedInvariantStep DEF Inductive, TypeOK, Consistent
<1>1. db'.revision = db.revision + 1 /\ db'.revision <= MaxRevision /\ Bounded'
  BY <1>0, StepKeepsBound DEF Follows, HistoryInvariant, Bounded
<1>2. /\ db'.revision \in 0 .. MaxRevision
      /\ 0 .. db'.revision = (0 .. db.revision) \cup {db'.revision}
  BY <1>0, <1>1, BoundsAssumption
<1>3. /\ DOMAIN committed' = 0 .. MaxRevision
      /\ committed'[db'.revision] = Unjournalled(db')
      /\ \A r \in 0 .. db.revision : committed'[r] = committed[r]
  BY <1>0, <1>1, <1>2, BoundsAssumption DEF HistoryInvariant
<1>4. ASSUME NEW r \in 0 .. db'.revision
      PROVE  Recorded(committed', r) /\ Reaches(committed'[r], db')
  <2>1. CASE r = db'.revision
    BY <1>0, <1>3, <2>1, UnjournalledEffect DEF Recorded, Reaches, Available
  <2>2. CASE r \in 0 .. db.revision
    <3>1. /\ committed[r].revision = r /\ r \in Nat /\ r <= db.revision
          /\ Reaches(committed[r], db)
          /\ r = db.revision => committed[r] = Unjournalled(db)
      BY <1>0, <2>2 DEF HistoryInvariant, Recorded
    <3>2. Reaches(committed[r], db')
      BY <1>0, <3>1, ReachesCommitted
    <3> QED
      BY <1>3, <2>2, <3>2 DEF HistoryInvariant, Recorded
  <2> QED
    BY <1>2, <2>1, <2>2
<1>5. (\A r \in 0 .. db.revision : Recorded(committed, r) /\ Reaches(committed[r], db))'
  BY <1>4
<1>6. (/\ DOMAIN committed = 0 .. MaxRevision
       /\ Content(committed[0]) = EmptyContent
       /\ committed[db.revision] = Unjournalled(db))'
  BY <1>0, <1>3 DEF HistoryInvariant, Content, Unjournalled
<1> QED
  BY <1>0, <1>1, <1>5, <1>6 DEF HistoryInvariant

\* Recovery to an earlier state forgets what came after it, and its database
\* starts with an empty journal, which reaches back to nothing.
LEMMA HistoryRewind ==
    ASSUME HistoryInvariant, txn = "none", NEW r \in 0 .. db.revision,
           db' = committed[r], work' = committed[r], UNCHANGED <<txn, ordinal>>,
           committed' = [q \in 0 .. MaxRevision |-> IF q <= r THEN committed[q] ELSE None]
    PROVE  HistoryInvariant'
<1>0. /\ db.revision \in Nat /\ db.revision <= MaxRevision /\ r \in Nat /\ MaxRevision \in Nat
      /\ db' \in Databases /\ db'.revision = r /\ db'.journal = {} /\ Consistent(db')
      /\ ordinal = 0 /\ ordinal \in Nat
      /\ \A q \in 0 .. db.revision : Recorded(committed, q)
  BY DatabaseFields, BoundsAssumption DEF HistoryInvariant, Bounded, Recorded, Inductive, TypeOK
<1>1. \A q \in 0 .. r : committed'[q] = committed[q]
  BY <1>0
<1>2. Inductive'
  BY <1>0 DEF Inductive, TypeOK, Consistent
<1>3. AccountedInvariant' /\ Bounded'
  BY <1>0 DEF AccountedInvariant, Bounded
<1>4. ASSUME NEW q \in 0 .. r
      PROVE  Reaches(committed'[q], db')
  <2>1. committed'[q].revision = q /\ q \in Nat
    BY <1>0, <1>1 DEF Recorded
  <2>2. CASE q < r
    <3>1. q + 1 \in (q + 1) .. db'.revision
      BY <1>0, <2>1, <2>2
    <3>2. ~JournalIsContiguous(db', q)
      BY <1>0, <3>1 DEF JournalIsContiguous
    <3> QED
      BY <2>1, <3>2 DEF Reaches, Available
  <2>3. CASE ~(q < r)
    BY <1>0, <2>1, <2>3 DEF Reaches, Available
  <2> QED
    BY <2>2, <2>3
<1>5. (\A q \in 0 .. db.revision : Recorded(committed, q) /\ Reaches(committed[q], db))'
  BY <1>0, <1>1, <1>4 DEF Recorded
<1>6. Unjournalled(db') = db'
  BY <1>0 DEF Unjournalled, Databases
<1>7. committed'[0] = committed[0]
  BY <1>0, <1>1
<1>8. (/\ DOMAIN committed = 0 .. MaxRevision
       /\ Content(committed[0]) = EmptyContent
       /\ committed[db.revision] = Unjournalled(db))'
  BY <1>0, <1>1, <1>6, <1>7 DEF HistoryInvariant, Content, Unjournalled
<1> QED
  BY <1>2, <1>3, <1>5, <1>8 DEF HistoryInvariant

LEMMA HistoryClose ==
    ASSUME HistoryInvariant, db' = db, txn' = "none", work' = db, ordinal' = 0,
           committed' = committed
    PROVE  HistoryInvariant'
<1>1. Inductive' /\ AccountedInvariant' /\ Bounded'
  BY DEF HistoryInvariant, Inductive, TypeOK, AccountedInvariant, Bounded
<1>2. (\A r \in 0 .. db.revision : Recorded(committed, r) /\ Reaches(committed[r], db))'
  BY DEF HistoryInvariant
<1> QED
  BY <1>1, <1>2 DEF HistoryInvariant, Content, Unjournalled

LEMMA HistoryInit == IndexInit => HistoryInvariant
<1> SUFFICES ASSUME IndexInit PROVE HistoryInvariant
  OBVIOUS
<1>1. Inductive /\ AccountedInvariant /\ txn = "none"
  BY InductiveInit DEF IndexInit, Init, AccountedInvariant
<1>2. db \in Databases /\ db.revision = 0 /\ Consistent(db) /\ db = EmptyDatabase
  BY <1>1, EmptyType DEF Inductive, IndexInit, Init, EmptyDatabase
<1>3. DOMAIN committed = 0 .. MaxRevision /\ committed[0] = Unjournalled(db)
  BY BoundsAssumption DEF IndexInit
<1>4. Recorded(committed, 0) /\ Content(committed[0]) = EmptyContent
  BY <1>2, <1>3, UnjournalledEffect DEF Recorded, EmptyContent
<1>5. Reaches(committed[0], db)
  BY <1>2, <1>4 DEF Reaches, Available, Recorded
<1>6. 0 .. db.revision = {0}
  BY <1>2
<1> QED
  BY <1>1, <1>2, <1>3, <1>4, <1>5, <1>6, BoundsAssumption DEF HistoryInvariant, Bounded

-----------------------------------------------------------------------------
(* The rows of the Index *)

\* ContentRefersToIndexedNodes and DocumentsAreSearchable of any Index.
Refers(x) ==
    /\ \A k \in DocumentKeys : x.documents[k] # None => Indexed(x, x.documents[k])
    /\ \A e \in x.derived : \A n \in {e[1], e[2]} \ {None} : Indexed(x, n)

Searchable(x) ==
    \A k \in DocumentKeys : x.documents[k] # None => <<k, x.documents[k]>> \in x.fts

Sound(x) == x \in Indexes /\ Refers(x) /\ Searchable(x)

LEMMA IndexOfSound ==
    ASSUME NEW r \in Nat, NEW content \in Contents
    PROVE  /\ Sound(IndexOf(r, content))
           /\ IndexOf(r, content).checkpoint = r
           /\ IndexOf(r, content).content = content
<1>1. NoDocuments \in [DocumentKeys -> NodeIds \cup {None}]
  BY DEF NoDocuments
<1>2. IndexOf(r, content) \in Indexes
  BY <1>1 DEF IndexOf, Indexes
<1> QED
  BY <1>2 DEF IndexOf, NoDocuments, Sound, Refers, Searchable

LEMMA BuiltSound ==
    ASSUME NEW d \in Databases
    PROVE  /\ Sound(Built(d))
           /\ Built(d).checkpoint = d.revision
           /\ Built(d).content = Content(d)
  BY IndexOfSound, ContentType, DatabaseFields DEF Built

\* The rows that refer to Nodes replaced, the rest left alone.
LEMMA IndexRowsEffect ==
    ASSUME NEW x \in Indexes,
           NEW documents \in [DocumentKeys -> NodeIds \cup {None}],
           NEW fts \in SUBSET (DocumentKeys \X NodeIds),
           NEW derived \in SUBSET (NodeIds \X (NodeIds \cup {None}))
    PROVE  LET y == [x EXCEPT !.documents = documents, !.fts = fts, !.derived = derived]
           IN  /\ y \in Indexes
               /\ y.checkpoint = x.checkpoint /\ y.content = x.content
               /\ y.documents = documents /\ y.fts = fts /\ y.derived = derived
  BY DEF Indexes

LEMMA IndexFields ==
    ASSUME NEW x \in Indexes
    PROVE  /\ x.checkpoint \in Nat
           /\ x.content \in Contents
           /\ x.documents \in [DocumentKeys -> NodeIds \cup {None}]
           /\ x.fts \in SUBSET (DocumentKeys \X NodeIds)
           /\ x.derived \in SUBSET (NodeIds \X (NodeIds \cup {None}))
  BY DEF Indexes

\* What foreign keys leave, whatever the rows referred to before.
LEMMA CascadedSound ==
    ASSUME NEW x \in Indexes, Searchable(x)
    PROVE  /\ Sound(Cascaded(x))
           /\ Cascaded(x).checkpoint = x.checkpoint
           /\ Cascaded(x).content = x.content
<1> DEFINE documents == [k \in DocumentKeys |->
                            IF x.documents[k] # None /\ Indexed(x, x.documents[k])
                            THEN x.documents[k] ELSE None]
           Target(e) == IF e[2] # None /\ Indexed(x, e[2]) THEN e[2] ELSE None
           derived == {<<e[1], Target(e)>> : e \in {e \in x.derived : Indexed(x, e[1])}}
           y == [x EXCEPT !.documents = documents, !.derived = derived]
<1>1. documents \in [DocumentKeys -> NodeIds \cup {None}]
  BY IndexFields
<1>2. derived \in SUBSET (NodeIds \X (NodeIds \cup {None}))
  BY IndexFields
<1>3. Cascaded(x) = y
  BY DEF Cascaded
<1>4. \A k \in DocumentKeys : documents[k] # None =>
        documents[k] = x.documents[k] /\ Indexed(x, documents[k])
  OBVIOUS
<1>5. \A e \in derived : \A n \in {e[1], e[2]} \ {None} : Indexed(x, n)
  OBVIOUS
<1> HIDE DEF documents, derived
<1>6. /\ y \in Indexes
      /\ y.checkpoint = x.checkpoint /\ y.content = x.content /\ y.fts = x.fts
      /\ y.documents = documents /\ y.derived = derived
  BY <1>1, <1>2 DEF Indexes
<1> HIDE DEF y
<1>7. \A n : Indexed(y, n) <=> Indexed(x, n)
  BY <1>6 DEF Indexed
<1>8. Refers(y)
  BY <1>4, <1>5, <1>6, <1>7 DEF Refers
<1>9. Searchable(y)
  BY <1>4, <1>6 DEF Searchable
<1> QED
  BY <1>3, <1>6, <1>8, <1>9 DEF Sound

-----------------------------------------------------------------------------
(* The invariant: the content is that of the checkpoint.  A closed Core's     *)
(* Index may be ahead of a database that was set back; then it claims nothing. *)

Shown ==
    /\ core # "closed" => index.checkpoint <= db.revision
    /\ index.checkpoint <= db.revision => index.content = Content(committed[index.checkpoint])

IndexInvariant ==
    /\ HistoryInvariant
    /\ core \in {"open", "unconnected", "closed"}
    /\ file \in {"valid", "invalid", "missing"}
    /\ core = "closed" => txn = "none"
    /\ Sound(index)
    /\ Shown

\* Reconciling brings an Index that shows its checkpoint to the current state:
\* the journal reaches back far enough, or the Index is rebuilt.
LEMMA ReconciledSound ==
    ASSUME IndexInvariant
    PROVE  /\ Sound(Reconciled(index, db))
           /\ Reconciled(index, db).checkpoint = db.revision
           /\ Reconciled(index, db).content = Content(db)
<1>0. /\ db \in Databases /\ index \in Indexes /\ index.checkpoint \in Nat /\ db.revision \in Nat
      /\ Sound(index)
  BY DatabaseFields, IndexFields DEF IndexInvariant, HistoryInvariant, Inductive, TypeOK, Sound
<1>1. CASE Current(db, index.checkpoint)
  <2>1. index.content = Content(committed[db.revision])
    BY <1>0, <1>1 DEF Current, IndexInvariant, Shown
  <2>2. index.content = Content(db)
    BY <1>0, <2>1, UnjournalledEffect DEF IndexInvariant, HistoryInvariant
  <2> QED
    BY <1>0, <1>1, <2>2 DEF Reconciled, Current
<1>2. CASE Unavailable(db, index.checkpoint)
  <2>1. Reconciled(index, db) = Built(db)
    BY <1>2 DEF Reconciled, Unavailable
  <2> QED
    BY <1>0, <2>1, BuiltSound
<1>3. CASE Available(db, index.checkpoint)
  <2> DEFINE rows == ChangesSince(db, index.checkpoint)
             content == Patched(index.content, db, rows)
             x == [index EXCEPT !.checkpoint = db.revision, !.content = content]
  <2>1. index.checkpoint < db.revision /\ index.checkpoint \in 0 .. db.revision
    BY <1>0, <1>3 DEF Available
  <2>2. /\ index.content = Content(committed[index.checkpoint])
        /\ Covered(committed[index.checkpoint], db, rows)
        /\ committed[index.checkpoint] \in Databases
    BY <1>0, <1>3, <2>1 DEF IndexInvariant, HistoryInvariant, Shown, Reaches, Recorded
  <2>3. content = Content(db) /\ content \in Contents
    BY <1>0, <2>2, CoveredIsPatched, ContentType
  <2>4. Reconciled(index, db) = Cascaded(x)
    BY <1>3, <2>1 DEF Reconciled, Unavailable, Current
  <2> HIDE DEF content
  <2>5. /\ x \in Indexes
        /\ x.checkpoint = db.revision /\ x.content = content
        /\ x.documents = index.documents /\ x.fts = index.fts
    BY <1>0, <2>3 DEF Indexes
  <2> HIDE DEF x
  <2>6. Searchable(x)
    BY <1>0, <2>5 DEF Sound, Searchable
  <2> QED
    BY <2>3, <2>4, <2>5, <2>6, CascadedSound
<1> QED
  BY <1>1, <1>2, <1>3 DEF Unavailable

\* A new Index that shows a state of the history, under a step that leaves the
\* revision and the history as they are.
LEMMA NewIndexShown ==
    ASSUME HistoryInvariant, db'.revision = db.revision, committed' = committed,
           Sound(index'), index'.checkpoint \in 0 .. db.revision,
           index'.content = Content(committed[index'.checkpoint])
    PROVE  Sound(index)' /\ Shown'
  BY DEF Sound, Refers, Searchable, Indexed, Shown, Content, HistoryInvariant

LEMMA SameIndexShown ==
    ASSUME Sound(index), Shown, db'.revision = db.revision, committed' = committed,
           index' = index, core' = core \/ core # "closed"
    PROVE  Sound(index)' /\ Shown'
  BY DEF Sound, Refers, Searchable, Indexed, Shown, Content

LEMMA StoreStepKeeps ==
    ASSUME IndexInvariant, StoreStep
    PROVE  IndexInvariant'
<1>0. /\ db \in Databases /\ db.revision \in Nat /\ index.checkpoint \in Nat
      /\ core' = core /\ core # "closed" /\ file' = file /\ index' = index
      /\ index.checkpoint <= db.revision
      /\ HistoryInvariant
  BY DatabaseFields, IndexFields
     DEF IndexInvariant, HistoryInvariant, Inductive, TypeOK, Sound, Shown, StoreStep
<1>1. CASE db' = db
  <2>1. HistoryInvariant'
    BY <1>0, <1>1, HistorySame DEF StoreStep
  <2> QED
    BY <1>0, <1>1, <2>1, SameIndexShown DEF IndexInvariant, StoreStep
<1>2. CASE db'.revision > db.revision
  <2>1. db' # db
    BY <1>0, <1>2
  <2>2. HistoryInvariant'
    BY <1>2, <2>1, HistoryCommit DEF StoreStep, IndexInvariant
  <2>3. committed'[index.checkpoint] = committed[index.checkpoint]
    BY <1>0, <1>2, <2>1 DEF StoreStep
  <2>4. index'.checkpoint <= db'.revision
    <3>1. db'.revision \in Nat
      BY <2>2, DatabaseFields DEF HistoryInvariant, Inductive, TypeOK
    <3> QED
      BY <1>0, <1>2, <3>1
  <2>5. Shown' /\ Sound(index)'
    BY <1>0, <2>3, <2>4 DEF IndexInvariant, Shown, Content, Sound, Refers, Searchable, Indexed
  <2> QED
    BY <1>0, <2>2, <2>5 DEF IndexInvariant
<1> QED
  BY <1>1, <1>2 DEF StoreStep

\* The steps that prune or leave the Record Store alone.
LEMMA PruneOrNotKeeps ==
    ASSUME IndexInvariant, PruneOrNot \/ UNCHANGED vars, committed' = committed
    PROVE  HistoryInvariant' /\ db'.revision = db.revision /\ Content(db') = Content(db)
           /\ (txn = "none" => txn' = "none")
<1>1. [Next]_vars /\ db'.revision = db.revision /\ (txn = "none" => txn' = "none")
  <2>1. CASE PruneChangeJournal
    BY <2>1, PruneKeepsRevision DEF Next, IndexInvariant, HistoryInvariant, Inductive
  <2> QED
    BY <2>1 DEF PruneOrNot, vars
<1> QED
  BY <1>1, HistorySame DEF IndexInvariant

LEMMA SynchronizationKeeps ==
    ASSUME IndexInvariant, ReconcileIndex \/ RebuildIndex \/ RebuildFails \/ Open
    PROVE  IndexInvariant'
<1>0. /\ db \in Databases /\ db.revision \in Nat /\ db.revision \in 0 .. db.revision
      /\ 0 \in 0 .. db.revision /\ HistoryInvariant /\ Sound(index) /\ Shown
      /\ Content(committed[db.revision]) = Content(db)
      /\ core = "closed" => txn = "none"
      /\ file \in {"valid", "invalid", "missing"}
  BY DatabaseFields, UnjournalledEffect DEF IndexInvariant, HistoryInvariant, Inductive, TypeOK
<1>1. /\ committed' = committed
      /\ PruneOrNot \/ UNCHANGED vars
  BY DEF ReconcileIndex, RebuildIndex, RebuildFails, Open, PruneOrNot
<1>2. HistoryInvariant' /\ db'.revision = db.revision
  BY <1>1, PruneOrNotKeeps
<1>3. ASSUME \/ index' = Reconciled(index, db)
             \/ index' = Built(db)
             \/ index' = IndexOf(0, EmptyContent)
      PROVE  Sound(index)' /\ Shown'
  <2>1. CASE index' = Reconciled(index, db) \/ index' = Built(db)
    <3>1. /\ Sound(index') /\ index'.checkpoint = db.revision
          /\ index'.content = Content(db)
      BY <1>0, <2>1, ReconciledSound, BuiltSound
    <3> QED
      BY <1>0, <1>1, <1>2, <3>1, NewIndexShown
  <2>2. CASE index' = IndexOf(0, EmptyContent)
    <3>1. /\ Sound(index') /\ index'.checkpoint = 0
          /\ index'.content = Content(committed[0])
      BY <2>2, IndexOfSound, ContentType, EmptyType DEF EmptyContent, IndexInvariant, HistoryInvariant
    <3> QED
      BY <1>0, <1>1, <1>2, <3>1, NewIndexShown
  <2> QED
    BY <1>3, <2>1, <2>2
<1>4. ASSUME index' = index, core # "closed"
      PROVE  Sound(index)' /\ Shown'
  BY <1>0, <1>1, <1>2, <1>4, SameIndexShown
<1>5. Sound(index)' /\ Shown'
  BY <1>3, <1>4 DEF ReconcileIndex, RebuildIndex, RebuildFails, Open
<1>6. core' \in {"open", "unconnected"} /\ file' \in {"valid", "invalid", "missing"}
  BY <1>0 DEF ReconcileIndex, RebuildIndex, RebuildFails, Open
<1> QED
  BY <1>2, <1>5, <1>6 DEF IndexInvariant

\* Content replaced by rows that refer to Nodes of the Index and can be found.
LEMMA ReplacedKeeps ==
    ASSUME IndexInvariant, core = "open", UNCHANGED <<vars, core, file, committed>>,
           NEW documents \in [DocumentKeys -> NodeIds \cup {None}],
           NEW fts \in SUBSET (DocumentKeys \X NodeIds),
           NEW derived \in SUBSET (NodeIds \X (NodeIds \cup {None})),
           \A k \in DocumentKeys : documents[k] # None => Indexed(index, documents[k]),
           \A e \in derived : \A n \in {e[1], e[2]} \ {None} : Indexed(index, n),
           \A k \in DocumentKeys : documents[k] # None => <<k, documents[k]>> \in fts,
           index' = [index EXCEPT !.documents = documents, !.fts = fts, !.derived = derived]
    PROVE  IndexInvariant'
<1>0. index \in Indexes
  BY DEF IndexInvariant, Sound
<1>1. /\ index' \in Indexes
      /\ index'.checkpoint = index.checkpoint /\ index'.content = index.content
      /\ index'.documents = documents /\ index'.fts = fts /\ index'.derived = derived
  BY <1>0 DEF Indexes
<1>2. \A n : Indexed(index', n) <=> Indexed(index, n)
  BY <1>1 DEF Indexed
<1>3. Refers(index') /\ Searchable(index')
  BY <1>1, <1>2 DEF Refers, Searchable
<1>4. Sound(index)'
  BY <1>1, <1>3 DEF Sound, Refers, Searchable, Indexed
<1>5. HistoryInvariant'
  BY PruneOrNotKeeps
<1>6. Shown'
  BY <1>1 DEF IndexInvariant, Shown, Content, vars
<1> QED
  BY <1>4, <1>5, <1>6 DEF IndexInvariant, vars

LEMMA ContentKeeps ==
    ASSUME IndexInvariant,
           \/ \E documents \in [DocumentKeys -> NodeIds \cup {None}], derived \in DerivedInputs :
                  ReplaceContent(documents, derived)
           \/ \E n \in NodeIds, keys \in SUBSET DocumentKeys, targets \in SUBSET (NodeIds \cup {None}) :
                  ReplaceNodeContent(n, keys, targets)
    PROVE  IndexInvariant'
<1>0. /\ index \in Indexes /\ Refers(index) /\ Searchable(index)
      /\ index.documents \in [DocumentKeys -> NodeIds \cup {None}]
      /\ index.fts \in SUBSET (DocumentKeys \X NodeIds)
      /\ index.derived \in SUBSET (NodeIds \X (NodeIds \cup {None}))
      /\ None \notin NodeIds
  BY IndexFields, NoneAssumption DEF IndexInvariant, Sound
<1>1. ASSUME NEW documents \in [DocumentKeys -> NodeIds \cup {None}],
             NEW derived \in DerivedInputs, ReplaceContent(documents, derived)
      PROVE  IndexInvariant'
  <2> DEFINE fts == {<<k, documents[k]>> : k \in {k \in DocumentKeys : documents[k] # None}}
  <2>1. /\ derived \in SUBSET (NodeIds \X (NodeIds \cup {None}))
        /\ fts \in SUBSET (DocumentKeys \X NodeIds)
        /\ \A k \in DocumentKeys : documents[k] # None => <<k, documents[k]>> \in fts
    BY DEF DerivedInputs
  <2>2. /\ core = "open" /\ UNCHANGED <<vars, core, file, committed>>
        /\ \A k \in DocumentKeys : documents[k] # None => Indexed(index, documents[k])
        /\ \A e \in derived : \A n \in {e[1], e[2]} \ {None} : Indexed(index, n)
        /\ index' = [index EXCEPT !.documents = documents, !.fts = fts, !.derived = derived]
    BY <1>1 DEF ReplaceContent
  <2> HIDE DEF fts
  <2> QED
    BY <2>1, <2>2, ReplacedKeeps
<1>2. ASSUME NEW n \in NodeIds, NEW keys \in SUBSET DocumentKeys,
             NEW targets \in SUBSET (NodeIds \cup {None}), ReplaceNodeContent(n, keys, targets)
      PROVE  IndexInvariant'
  <2> DEFINE old == index.documents
             documents == [k \in DocumentKeys |->
                              IF k \in keys THEN n ELSE IF old[k] = n THEN None ELSE old[k]]
             fts == {r \in index.fts : old[r[1]] # n} \cup (keys \X {n})
             derived == {e \in index.derived : e[1] # n} \cup ({n} \X targets)
  <2>1. /\ core = "open" /\ UNCHANGED <<vars, core, file, committed>>
        /\ keys # {} \/ targets # {} => Indexed(index, n)
        /\ \A t \in targets \ {None} : Indexed(index, t)
        /\ index' = [index EXCEPT !.documents = documents, !.fts = fts, !.derived = derived]
    BY <1>2 DEF ReplaceNodeContent
  <2>2. documents \in [DocumentKeys -> NodeIds \cup {None}]
    BY <1>0
  <2>3. fts \in SUBSET (DocumentKeys \X NodeIds)
    BY <1>0
  <2>4. derived \in SUBSET (NodeIds \X (NodeIds \cup {None}))
    BY <1>0
  <2>5. ASSUME NEW k \in DocumentKeys, documents[k] # None
        PROVE  Indexed(index, documents[k]) /\ <<k, documents[k]>> \in fts
    <3>1. CASE k \in keys
      BY <2>1, <3>1
    <3>2. CASE k \notin keys
      <4>1. documents[k] = old[k] /\ old[k] # None /\ old[k] # n
        BY <2>5, <3>2
      <4>2. Indexed(index, old[k]) /\ <<k, old[k]>> \in index.fts
        BY <1>0, <4>1 DEF Refers, Searchable
      <4>3. <<k, old[k]>> \in fts
        BY <4>1, <4>2
      <4> QED
        BY <4>1, <4>2, <4>3
    <3> QED
      BY <3>1, <3>2
  <2>6. ASSUME NEW e \in derived, NEW m \in {e[1], e[2]} \ {None}
        PROVE  Indexed(index, m)
    <3>1. CASE e \in index.derived
      BY <1>0, <2>6, <3>1 DEF Refers
    <3>2. CASE e \in {n} \X targets
      BY <2>1, <2>6, <3>2
    <3> QED
      BY <3>1, <3>2
  <2> HIDE DEF documents, fts, derived
  <2> QED
    BY <2>1, <2>2, <2>3, <2>4, <2>5, <2>6, ReplacedKeeps
<1> QED
  BY <1>1, <1>2

LEMMA EndKeeps ==
    ASSUME IndexInvariant, Close \/ DieInRebuild \/ LoseIndex \/ Rewind
    PROVE  IndexInvariant'
<1>0. /\ db \in Databases /\ db.revision \in Nat /\ index.checkpoint \in Nat
      /\ Sound(index) /\ Shown /\ HistoryInvariant
      /\ index' = index
  BY DatabaseFields, IndexFields
     DEF IndexInvariant, HistoryInvariant, Inductive, TypeOK, Sound,
         Close, DieInRebuild, LoseIndex, Rewind
<1>1. Sound(index)'
  BY <1>0 DEF Sound, Refers, Searchable, Indexed
<1>2. CASE Close
  <2>1. HistoryInvariant'
    BY <1>0, <1>2, HistoryClose DEF Close
  <2> QED
    BY <1>0, <1>1, <1>2, <2>1 DEF Close, IndexInvariant, Shown, Content
<1>3. CASE DieInRebuild \/ LoseIndex
  <2>1. HistoryInvariant' /\ committed' = committed /\ db' = db
    BY <1>3, PruneOrNotKeeps DEF DieInRebuild, LoseIndex, vars
  <2> QED
    BY <1>0, <1>1, <1>3, <2>1 DEF DieInRebuild, LoseIndex, vars, IndexInvariant, Shown, Content
<1>4. CASE Rewind
  <2>1. PICK r \in 0 .. db.revision :
          /\ db' = committed[r] /\ work' = committed[r]
          /\ committed' = [q \in 0 .. MaxRevision |-> IF q <= r THEN committed[q] ELSE None]
    BY <1>4 DEF Rewind
  <2>2. /\ core = "closed" /\ core' = core /\ file' = file /\ txn = "none"
        /\ txn' = txn /\ UNCHANGED <<txn, ordinal>>
    BY <1>4 DEF Rewind, IndexInvariant
  <2>3. HistoryInvariant'
    BY <1>0, <2>1, <2>2, HistoryRewind
  <2>4. db'.revision = r /\ r \in Nat
    BY <1>0, <2>1 DEF HistoryInvariant, Recorded
  <2>5. index.checkpoint <= r => committed'[index.checkpoint] = committed[index.checkpoint]
    BY <1>0, <2>1, BoundsAssumption DEF HistoryInvariant, Bounded
  <2>6. Shown'
    BY <1>0, <2>2, <2>4, <2>5 DEF Shown, Content
  <2> QED
    BY <1>1, <2>2, <2>3, <2>6 DEF IndexInvariant
<1> QED
  BY <1>2, <1>3, <1>4

LEMMA IndexInvariantInit == IndexInit => IndexInvariant
<1> SUFFICES ASSUME IndexInit PROVE IndexInvariant
  OBVIOUS
<1>1. HistoryInvariant
  BY HistoryInit
<1>2. /\ Sound(index) /\ index.checkpoint = 0
      /\ index.content = Content(committed[0])
  BY <1>1, IndexOfSound, ContentType, EmptyType DEF IndexInit, EmptyContent, HistoryInvariant
<1> QED
  BY <1>1, <1>2 DEF IndexInit, Init, IndexInvariant, Shown

LEMMA IndexInvariantStep == IndexInvariant /\ [IndexNext]_<<vars, indexVars>> => IndexInvariant'
<1> SUFFICES ASSUME IndexInvariant, [IndexNext]_<<vars, indexVars>>
             PROVE  IndexInvariant'
  OBVIOUS
<1>1. CASE UNCHANGED <<vars, indexVars>>
  <2>1. HistoryInvariant'
    BY <1>1, PruneOrNotKeeps DEF indexVars
  <2>2. Sound(index)' /\ Shown'
    BY <1>1, SameIndexShown DEF vars, indexVars, IndexInvariant
  <2> QED
    BY <1>1, <2>1, <2>2 DEF vars, indexVars, IndexInvariant
<1> QED
  BY <1>1, StoreStepKeeps, SynchronizationKeeps, ContentKeeps, EndKeeps DEF IndexNext

LEMMA IndexInvariantAlways == IndexSpec => []IndexInvariant
  BY IndexInvariantInit, IndexInvariantStep, PTL DEF IndexSpec

-----------------------------------------------------------------------------
(* Theorems *)

\* The Index, the Record Store and the file are always of their types.
THEOREM IndexTypeCorrect == IndexSpec => []IndexTypeOK
<1>1. IndexInvariant => IndexTypeOK
  BY DEF IndexInvariant, HistoryInvariant, Inductive, Sound, IndexTypeOK
<1> QED
  BY <1>1, IndexInvariantAlways, PTL

\* The Index of an open Core always shows exactly the rows committed under its
\* checkpoint, for every retention, after any deltas, rebuilds, failed swaps of
\* files, prunings and recoveries to earlier states.
THEOREM IndexIsACommittedState == IndexSpec => []IndexShowsCommittedState
<1>1. IndexInvariant => IndexShowsCommittedState
  BY DEF IndexInvariant, Shown, IndexShowsCommittedState
<1> QED
  BY <1>1, IndexInvariantAlways, PTL

\* Documents, derived relationships and their targets always belong to Nodes
\* the Index has, also after a purge reached it.
THEOREM ContentHasItsNodes == IndexSpec => []ContentRefersToIndexedNodes
<1>1. IndexInvariant => ContentRefersToIndexedNodes
  BY DEF IndexInvariant, Sound, Refers, ContentRefersToIndexedNodes
<1> QED
  BY <1>1, IndexInvariantAlways, PTL

\* Every document always has its full-text row, under its Node.
THEOREM DocumentsAreFound == IndexSpec => []DocumentsAreSearchable
<1>1. IndexInvariant => DocumentsAreSearchable
  BY DEF IndexInvariant, Sound, Searchable, DocumentsAreSearchable
<1> QED
  BY <1>1, IndexInvariantAlways, PTL

\* The graph and the backlinks of a current Index never name a Node that is not
\* active in the Record Store, for any content callers supplied.
THEOREM AnswersAreActive == IndexSpec => []AnswersNameActiveNodes
<1>1. IndexInvariant => AnswersNameActiveNodes
  <2> SUFFICES ASSUME IndexInvariant, core = "open", Current(db, index.checkpoint)
               PROVE  \A n \in ({e[1] : e \in Edges(index)} \cup {e[2] : e \in Edges(index)}
                                   \cup UNION {Backlinks(index, t) : t \in NodeIds}) \ {None} :
                          db.lifecycle[n] = "active"
    BY DEF AnswersNameActiveNodes
  <2>1. /\ db \in Databases /\ index \in Indexes
        /\ index.content = Content(committed[db.revision])
    BY DatabaseFields DEF IndexInvariant, HistoryInvariant, Inductive, TypeOK, Sound, Shown, Current
  <2>2. index.content = Content(db)
    BY <2>1, UnjournalledEffect DEF IndexInvariant, HistoryInvariant
  <2>3. \A n \in ActiveNodes(index) : db.lifecycle[n] = "active"
    BY <2>2 DEF ActiveNodes, Content
  <2>4. \A e \in Edges(index) : e[1] \in ActiveNodes(index) /\ e[2] \in ActiveNodes(index) \cup {None}
    BY DEF Edges
  <2>5. \A t \in NodeIds : Backlinks(index, t) \subseteq ActiveNodes(index)
    BY DEF Backlinks
  <2> QED
    BY <2>3, <2>4, <2>5
<1> QED
  BY <1>1, IndexInvariantAlways, PTL

\* The two orphan queries differ only by Nodes whose relationships the graph
\* does not draw, in every Index.
THEOREM OrphanQueriesAgree == IndexSpec => []OrphanAnswersAgree
<1>1. IndexInvariant => OrphanAnswersAgree
  <2> SUFFICES ASSUME IndexInvariant PROVE OrphanAnswersAgree
    OBVIOUS
  <2> DEFINE active == ActiveNodes(index)
             relationships == index.content.relationships
  <2>0. /\ index.derived \in SUBSET (NodeIds \X (NodeIds \cup {None}))
        /\ relationships \in SUBSET Relationships
        /\ active \in SUBSET NodeIds /\ None \notin NodeIds
    BY IndexFields, NoneAssumption DEF IndexInvariant, Sound, Contents, ActiveNodes
  <2>1. ASSUME NEW n \in CountedOrphans(index)
        PROVE  n \in ListedOrphans(index)
    BY <2>1 DEF CountedOrphans, ListedOrphans, Edges
  <2>2. ASSUME NEW n \in ListedOrphans(index), n \notin CountedOrphans(index)
        PROVE  \E m \in (NodeIds \cup {None}) \ active :
                   \/ \E k \in RelationshipKeys :
                          {<<n, k, m>>, <<m, k, n>>} \cap relationships # {}
                   \/ {<<n, m>>, <<m, n>>} \cap index.derived # {}
    <3>0. n \in active /\ n \in NodeIds /\ \A e \in Edges(index) : e[2] # None => n \notin {e[1], e[2]}
      BY <2>0, <2>2 DEF ListedOrphans
    <3>1. CASE \E e \in relationships : n \in {e[1], e[3]}
      <4>1. PICK s \in NodeIds, k \in RelationshipKeys, t \in NodeIds :
              <<s, k, t>> \in relationships /\ n \in {s, t}
        BY <2>0, <3>1 DEF Relationships
      <4>2. {s, t} \subseteq active => <<s, t>> \in Edges(index)
        BY <4>1 DEF Edges
      <4>3. ~({s, t} \subseteq active)
        BY <2>0, <3>0, <4>1, <4>2
      <4> QED
        BY <3>0, <4>1, <4>3
    <3>2. CASE \E e \in index.derived : n \in {e[1], e[2]}
      <4>1. PICK s \in NodeIds, t \in NodeIds \cup {None} :
              <<s, t>> \in index.derived /\ n \in {s, t}
        BY <2>0, <3>2
      <4>2. s \in active /\ t \in active \cup {None} => <<s, t>> \in Edges(index)
        BY <4>1 DEF Edges
      <4>3. s \notin active \/ t \notin active
        BY <2>0, <3>0, <4>1, <4>2
      <4> QED
        BY <2>0, <3>0, <4>1, <4>3
    <3> QED
      BY <2>2, <3>0, <3>1, <3>2 DEF CountedOrphans
  <2> QED
    BY <2>1, <2>2 DEF OrphanAnswersAgree
<1> QED
  BY <1>1, IndexInvariantAlways, PTL
=============================================================================
