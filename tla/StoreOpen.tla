------------------------------- MODULE StoreOpen -------------------------------
(***************************************************************************)
(* Opening the Record Store (RecordStore::open in src/record_store/mod.rs  *)
(* and migrations.rs) by several connections, some of which already        *)
(* commit.  Opening is a sequence of statements without a transaction      *)
(* around them: the schema version, the migration (a transaction of its    *)
(* own), the validation, and the three reads of reconcile_revision.        *)
(*                                                                         *)
(* Of the rows a store holds, opening looks only at the highest revision   *)
(* stamped on them; of the journal, at the revisions it names.  What the   *)
(* checks of validate examine is whether it holds: no commit of a          *)
(* connection that has opened the store can change it, so one step stands  *)
(* for all of them.                                                        *)
(***************************************************************************)
EXTENDS Integers, FiniteSets

CONSTANTS
    Connections,        \* connections that open the file, of any process
    None,               \* a value not read yet
    Retention,          \* RECORD_CHANGE_RETENTION_REVISIONS
    MaxFound,           \* bound: revisions of the file when it is first opened
    MaxRevision         \* bound: revisions explored

ASSUME NoneAssumption == None \notin Nat
ASSUME RetentionAssumption == Retention \in Nat \ {0}
ASSUME BoundsAssumption == MaxRevision \in Nat /\ MaxFound \in 0..MaxRevision

VARIABLES
    store,      \* what the file holds
    opener      \* what each connection has read while it opens the file

openVars == <<store, opener>>

-----------------------------------------------------------------------------
(* The file *)

CurrentSchema == 5          \* RECORD_SCHEMA_VERSION
Supported == {3, 4}         \* versions 1 and 2 migrate as 3 does
Schemas == {0, 6} \cup Supported \cup {CurrentSchema}

Revisions == 0..MaxRevision

\* `schema` is user_version; `meta` the version in store_meta; `intact` what
\* quick_check says; `references` whether every foreign key resolves; `ledger`
\* whether every Node has its entry in issued_node_ids; `rows` the highest
\* modified_revision; `revision` is store_meta.current_revision.
Stores ==
    [schema : Schemas, tables : BOOLEAN, meta : Schemas,
     intact : BOOLEAN, references : BOOLEAN, ledger : BOOLEAN,
     revision : Revisions, rows : Revisions, journal : SUBSET Revisions]

EmptyStore ==
    [schema |-> 0, tables |-> FALSE, meta |-> 0, intact |-> TRUE,
     references |-> TRUE, ledger |-> TRUE, revision |-> 0, rows |-> 0, journal |-> {}]

\* No row and no journal entry is newer than revision r.
Covers(s, r) == s.rows <= r /\ \A j \in s.journal : j <= r

\* r is latest_fact in reconcile_revision.
IsLatestFact(s, r) == r \in {s.rows} \cup s.journal /\ Covers(s, r)

\* The journal names every revision from its first one to the given one.
TailReaches(journal, last) ==
    \E first \in journal : journal = first..last

-----------------------------------------------------------------------------
(* The connections *)

Stages == {"closed", "empty", "legacy", "migrated", "valid", "current", "latest",
           "tail", "open", "refused"}

Openers ==
    [stage : Stages, schema : Schemas \cup {None}, current : Revisions \cup {None},
     latest : Revisions \cup {None}, journal : SUBSET Revisions]

Closed ==
    [stage |-> "closed", schema |-> None, current |-> None, latest |-> None,
     journal |-> {}]

Reaches(c, stage) == opener' = [opener EXCEPT ![c].stage = stage]

-----------------------------------------------------------------------------
(* migrate *)

\* Reads user_version, and for an older store the foreign keys.
ReadSchema(c) ==
    /\ opener[c].stage = "closed"
    /\ opener' = [opener EXCEPT
           ![c].schema = store.schema,
           ![c].stage =
               CASE store.schema = CurrentSchema -> "migrated"
                 [] store.schema = 0 -> "empty"
                 [] store.schema \in Supported /\ store.references -> "legacy"
                 [] OTHER -> "refused"]
    /\ UNCHANGED store

\* migrate_empty_to_current counts the tables before its transaction.
CountTables(c) ==
    /\ opener[c].stage = "empty"
    /\ Reaches(c, IF ~store.tables THEN "legacy" ELSE "refused")
    /\ UNCHANGED store

\* Fault: the versions are written one by one, each as current.
MigrateOneVersion(c) ==
    /\ opener[c].stage = "legacy"
    /\ IF store.schema = opener[c].schema /\ store.meta = opener[c].schema
       THEN /\ store' = [store EXCEPT
                   !.schema = @ + 1,
                   !.meta = @ + 1,
                   !.tables = TRUE,
                   !.ledger = IF store.schema < 4 THEN TRUE ELSE @]
            /\ Reaches(c, "migrated")
       ELSE Reaches(c, "refused") /\ UNCHANGED store

\* The migration's transaction.  Its scripts fail on a store that another
\* connection has migrated since, and its UPDATE on metadata of another version.
Migrate(c) ==
    /\ opener[c].stage = "legacy"
    /\ IF store.schema = opener[c].schema /\ store.meta = opener[c].schema
       THEN /\ store' = [store EXCEPT
                   !.schema = CurrentSchema,
                   !.meta = CurrentSchema,
                   !.tables = TRUE,
                   !.ledger = IF store.schema < 4 THEN TRUE ELSE @]
            /\ Reaches(c, "migrated")
       ELSE Reaches(c, "refused") /\ UNCHANGED store

-----------------------------------------------------------------------------
(* validate and reconcile_revision *)

Valid(s) ==
    /\ s.intact
    /\ s.references
    /\ s.schema = CurrentSchema
    /\ s.meta = CurrentSchema
    /\ s.ledger

Validate(c) ==
    /\ opener[c].stage = "migrated"
    /\ Reaches(c, IF Valid(store) THEN "valid" ELSE "refused")
    /\ UNCHANGED store

ReadCurrent(c) ==
    /\ opener[c].stage = "valid"
    /\ opener' = [opener EXCEPT ![c].stage = "current", ![c].current = store.revision]
    /\ UNCHANGED store

ReadLatest(c) ==
    /\ opener[c].stage = "current"
    /\ \E fact \in Revisions :
           /\ IsLatestFact(store, fact)
           /\ opener' = [opener EXCEPT
                  ![c].latest = fact,
                  ![c].stage = IF opener[c].current = fact THEN "open" ELSE "latest"]
    /\ UNCHANGED store

\* Fault: a journal that has been pruned proves nothing.
EstablishesFromFirst(journal, current, latest) ==
    current < latest /\ journal = 1..latest

\* Whether the surviving history establishes `latest` as the revision.
Establishes(journal, current, latest) ==
    current < latest /\ TailReaches(journal, latest)

\* Fault: a lag without a journal is taken as it is.
ReadTailLeniently(c) ==
    /\ opener[c].stage = "latest"
    /\ LET o == opener[c]
       IN  opener' = [opener EXCEPT
               ![c].journal = store.journal,
               ![c].stage =
                   CASE Establishes(store.journal, o.current, o.latest) -> "tail"
                     [] store.journal = {} -> "open"
                     [] OTHER -> "refused"]
    /\ UNCHANGED store

\* MIN, MAX and COUNT of the journal's revisions, and what follows from them.
ReadTail(c) ==
    /\ opener[c].stage = "latest"
    /\ LET o == opener[c]
       IN  opener' = [opener EXCEPT
               ![c].journal = store.journal,
               ![c].stage =
                   CASE Establishes(store.journal, o.current, o.latest) -> "tail"
                     [] o.latest <= o.current /\ store.journal = {} -> "open"
                     [] OTHER -> "refused"]
    /\ UNCHANGED store

\* Fault: the UPDATE does not ask for the revision that was read.
AdvanceAnyRevision(c) ==
    /\ opener[c].stage = "tail"
    /\ store' = [store EXCEPT !.revision = opener[c].latest]
    /\ Reaches(c, "open")

AdvanceRevision(c) ==
    /\ opener[c].stage = "tail"
    /\ store' = [store EXCEPT !.revision = IF @ = opener[c].current THEN opener[c].latest ELSE @]
    /\ Reaches(c, "open")

-----------------------------------------------------------------------------
(* What connections do that have opened the store: commit, prune, go away *)

\* Any transaction that advances the revision; it may delete the rows that
\* carried the highest ones.
Commit(c) ==
    /\ opener[c].stage = "open"
    /\ store.revision < MaxRevision
    /\ \E rows \in 0..store.rows \cup {store.revision + 1} :
           store' = [store EXCEPT
               !.revision = @ + 1,
               !.journal = @ \cup {store.revision + 1},
               !.rows = rows]
    /\ UNCHANGED opener

\* prune_change_journal
Prune(c) ==
    /\ opener[c].stage = "open"
    /\ store.revision > Retention
    /\ store' = [store EXCEPT !.journal = {r \in @ : r >= store.revision - Retention + 1}]
    /\ UNCHANGED opener

\* The connection is closed, or its process dies, at whatever stage.
Close(c) ==
    /\ opener[c].stage # "closed"
    /\ opener' = [opener EXCEPT ![c] = Closed]
    /\ UNCHANGED store

-----------------------------------------------------------------------------

\* A file no connection has opened yet, with whatever came of it: created just
\* now, of an older engine, left with a revision behind its rows, with rows of
\* the journal missing, or not a Record Store.
Found ==
    {EmptyStore} \cup
    {s \in [schema : Schemas, tables : {TRUE}, meta : Schemas, intact : BOOLEAN,
            references : BOOLEAN, ledger : BOOLEAN, revision : 0..MaxFound,
            rows : 0..MaxFound, journal : SUBSET (1..MaxFound)] :
        /\ s.meta # s.schema => {s.meta, s.schema} \subseteq Supported \cup {CurrentSchema}
        /\ s.schema < 4 => ~s.ledger}

OpenInit ==
    /\ store \in Found
    /\ opener = [c \in Connections |-> Closed]

Opens(c) ==
    \/ ReadSchema(c)
    \/ CountTables(c)
    \/ Migrate(c)
    \/ Validate(c)
    \/ ReadCurrent(c)
    \/ ReadLatest(c)
    \/ ReadTail(c)
    \/ AdvanceRevision(c)

OpenNext ==
    \E c \in Connections :
        Opens(c) \/ Commit(c) \/ Prune(c) \/ Close(c)

OpenSpec == OpenInit /\ [][OpenNext]_openVars

-----------------------------------------------------------------------------
(* Properties *)

\* The store and what is read of it have the shapes of their declarations.
OpenTypeOK ==
    /\ store \in Stores
    /\ opener \in [Connections -> Openers]

\* Once a connection has opened the store, its revision covers every row and
\* every journal entry, however the statements of opening fall between the
\* commits and repairs of others: what reconcile_revision is for, since
\* next_revision hands out store_meta.current_revision + 1.
OpenStoreCoversItsHistory ==
    \A c \in Connections :
        opener[c].stage = "open" => Valid(store) /\ Covers(store, store.revision)

\* The revision a store is at moves up only, and only to one that its journal
\* has at that moment ("Only the unbroken surviving journal tail can establish a
\* unique later revision", record_store/mod.rs:174), also when two connections
\* repair a lagging store and the first commits before the second's UPDATE.
RevisionIsJournalled ==
    [][store'.revision # store.revision =>
          /\ store'.revision > store.revision
          /\ store'.revision \in store'.journal]_openVars

\* A store that any one connection would open.
Sound(s) ==
    \/ s = EmptyStore
    \/ /\ s.schema = s.meta
       /\ s.schema \in Supported \cup {CurrentSchema}
       /\ s.tables /\ s.intact /\ s.references
       /\ s.ledger \/ s.schema < 4
       /\ IsLatestFact(s, s.revision)
       /\ \/ TailReaches(s.journal, s.revision)
          \/ s.journal = {} /\ s.revision = 0

Refuses(c) == opener[c].stage # "refused" /\ opener'[c].stage = "refused"

\* A sound store is refused only to a connection that others have overtaken:
\* they migrated it after its version was read, or committed both between its
\* first and its second read and between its second and its third.  Then,
\* though, it is refused, and lib.rs:126 takes that for a damaged store.  (The
\* third case: what was read first had a revision ahead of its history, which a
\* commit has mended since.)
SoundStoreRefusedOnlyWhenOvertaken ==
    [][\A c \in Connections :
          Refuses(c) /\ Sound(store) =>
              \/ /\ opener[c].stage \in {"empty", "legacy"}
                 /\ opener[c].schema # store.schema
              \/ /\ opener[c].current < opener[c].latest
                 /\ opener[c].latest < store.revision
              \/ opener[c].latest < opener[c].current]_openVars
=============================================================================
