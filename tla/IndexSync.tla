------------------------------- MODULE IndexSync -------------------------------
(***************************************************************************)
(* How Cores bring the Index up to date (src/index/mod.rs) while other     *)
(* connections commit: SQLite makes each SELECT of a synchronization       *)
(* consistent, and nothing makes two of them so.  A Core reads the Index's *)
(* checkpoint and the current revision, then the journal, then each item   *)
(* the journal names, and applies what it read in one transaction of the   *)
(* Index; a rebuild reads everything and puts a new file in place of the   *)
(* old one.  With one Core in Cores the Index has a single writer; with    *)
(* two they share the library.                                             *)
(***************************************************************************)
EXTENDS Projection

CONSTANT Cores      \* Cores that have the library open

ASSUME OrderedNodeIds == NodeIds \subseteq Nat      \* UUIDs, compared as bytes
ASSUME FiniteCores == IsFiniteSet(Cores)

VARIABLES
    files,      \* database files that are or were index.sqlite
    handle,     \* the file each Core's Index connection has open
    sync        \* each Core's synchronization

syncVars == <<files, handle, sync>>

\* There is always a file for a rebuild that no other Core has open.
Files == Cores

\* What a rebuild replaces.
AllItems ==
    [nodes |-> NodeIds, properties |-> NodeIds, relationships |-> Relationships,
     propertyDefinitions |-> PropertyKeys, relationshipDefinitions |-> RelationshipKeys]

Checkpointed == [checkpoint : Nat, content : Contents]

Idle ==
    [phase |-> "idle", rebuild |-> FALSE, checkpoint |-> 0, target |-> 0,
     items |-> NoItems, pending |-> NoItems, rows |-> EmptyContent]

Synchronizations ==
    [phase : {"idle", "journal", "rebuild", "ids", "rows"},
     rebuild : BOOLEAN,
     checkpoint : Nat,          \* the Index's, when the synchronization began
     target : Nat,              \* the current revision it read
     items : Items,             \* what it reads and applies
     pending : Items,           \* what of it the statements to come read
     rows : Contents]           \* what the statements so far have read

\* The Core's Index.
IndexOf(c) == files[handle[c]]

-----------------------------------------------------------------------------
(* Statements *)

Least(nodes) == CHOOSE n \in nodes : \A m \in nodes : n <= m

Without(items, others) ==
    [nodes |-> items.nodes \ others.nodes,
     properties |-> items.properties \ others.properties,
     relationships |-> items.relationships \ others.relationships,
     propertyDefinitions |-> items.propertyDefinitions \ others.propertyDefinitions,
     relationshipDefinitions |-> items.relationshipDefinitions \ others.relationshipDefinitions]

\* projection_node in UUID order: the row of nodes, then the properties.
NodeStatement(nodes, owners) ==
    LET n == Least(nodes \cup owners)
    IN  IF n \in nodes THEN [NoItems EXCEPT !.nodes = {n}] ELSE [NoItems EXCEPT !.properties = {n}]

\* The items the next SELECT reads: the Nodes come first; of the other tables a
\* delta reads each item it names, and a snapshot the whole table at once.
NextStatement(s) ==
    LET left == s.pending
        some(keys) == IF s.rebuild THEN keys ELSE {CHOOSE k \in keys : TRUE}
    IN  IF left.nodes \cup left.properties # {}
        THEN NodeStatement(left.nodes, left.properties)
        ELSE IF left.relationships # {}
        THEN [NoItems EXCEPT !.relationships = some(left.relationships)]
        ELSE IF left.propertyDefinitions # {}
        THEN [NoItems EXCEPT !.propertyDefinitions = some(left.propertyDefinitions)]
        ELSE [NoItems EXCEPT !.relationshipDefinitions = some(left.relationshipDefinitions)]

\* Without a row in nodes there are no properties to read.
Statement(s) ==
    LET next == NextStatement(s)
    IN  [next EXCEPT !.properties = @ \cup {n \in next.nodes : db.lifecycle[n] = "none"}]

\* The properties are read by the rowid of the row of nodes.  Of a Node whose row
\* was read and has been purged since, the rowid is free, and a Node written after
\* the synchronization began may have got it: then that Node's properties are read.
ContentsFound(s) ==
    {Content(db)} \cup
    {[Content(db) EXCEPT !.properties[n] = db.properties[m]] :
        n \in {n \in NodeIds \ s.pending.nodes :
                  s.rows.lifecycle[n] # "none" /\ db.lifecycle[n] = "none"},
        m \in {m \in NodeIds : db.modified[m] > s.target}}

-----------------------------------------------------------------------------

SyncInit ==
    /\ Init
    /\ \E f \in Files :
           /\ files = [g \in Files |-> [checkpoint |-> 0, content |-> EmptyContent]]
           /\ handle = [c \in Cores |-> f]
    /\ sync = [c \in Cores |-> Idle]

\* Any step of any connection to the Record Store, pruning included.
StoreStep == Next /\ UNCHANGED syncVars

\* The connection has no use for what an open transaction of another has
\* written, so reads during one are the reads before it.
CoreStep(c, s) ==
    /\ txn = "none"
    /\ sync' = [sync EXCEPT ![c] = s]
    /\ UNCHANGED vars

\* reconcile: nothing to do at the current revision, a rebuild past it.
BeginReconcile(c) ==
    /\ sync[c].phase = "idle"
    /\ IndexOf(c).checkpoint # db.revision
    /\ CoreStep(c, [Idle EXCEPT
           !.phase = IF IndexOf(c).checkpoint < db.revision THEN "journal" ELSE "rebuild",
           !.checkpoint = IndexOf(c).checkpoint,
           !.target = db.revision])
    /\ UNCHANGED <<files, handle>>

\* rebuild_index
BeginRebuild(c) ==
    /\ sync[c].phase = "idle"
    /\ CoreStep(c, [Idle EXCEPT !.phase = "rebuild"])
    /\ UNCHANGED <<files, handle>>

\* journal_is_contiguous: the rows past the checkpoint begin right after it,
\* have no gap and end at the revision that was read as the current one.
JournalReaches(checkpoint, target) ==
    /\ JournalIsContiguous(db, checkpoint)
    /\ \A c \in db.journal : c.revision <= target

\* projection_delta_since, its SELECT from record_changes.
ReadJournal(c) ==
    LET s == sync[c]
        items == Named(ChangesSince(db, s.checkpoint))
    IN  /\ s.phase = "journal"
        /\ CoreStep(c,
               IF JournalReaches(s.checkpoint, s.target)
               THEN [s EXCEPT !.phase = "rows", !.items = items,
                              !.pending = items]
               ELSE [Idle EXCEPT !.phase = "rebuild"])
        /\ UNCHANGED <<files, handle>>

\* projection_snapshot: the revision, ...
ReadRevision(c) ==
    /\ sync[c].phase = "rebuild"
    /\ CoreStep(c, [Idle EXCEPT !.phase = "ids", !.rebuild = TRUE, !.target = db.revision])
    /\ UNCHANGED <<files, handle>>

\* ... then the identities of the Nodes, which it reads one by one after that.
ReadNodeIds(c) ==
    LET nodes == {n \in NodeIds : db.lifecycle[n] # "none"}
    IN  /\ sync[c].phase = "ids"
        /\ CoreStep(c, [sync[c] EXCEPT
               !.phase = "rows",
               !.items = AllItems,
               !.pending = [AllItems EXCEPT !.nodes = nodes, !.properties = nodes]])
        /\ UNCHANGED <<files, handle>>

\* Fault: the revision is read after the rows.
ReadStatementLateRevision(c) ==
    LET s == sync[c]
        read == Statement(s)
    IN  /\ s.phase = "rows"
        /\ s.pending # NoItems
        /\ \E content \in ContentsFound(s) :
               CoreStep(c, [s EXCEPT !.target = IF s.rebuild THEN db.revision ELSE @,
                                     !.rows = Overlaid(@, content, read),
                                     !.pending = Without(@, read)])
        /\ UNCHANGED <<files, handle>>

ReadStatement(c) ==
    LET s == sync[c]
        read == Statement(s)
    IN  /\ s.phase = "rows"
        /\ s.pending # NoItems
        /\ \E content \in ContentsFound(s) :
               CoreStep(c, [s EXCEPT !.rows = Overlaid(@, content, read),
                                     !.pending = Without(@, read)])
        /\ UNCHANGED <<files, handle>>

\* apply_patch: one transaction, which does not compare the checkpoint of the
\* Index with the one the delta starts from.
ApplyPatch(c) ==
    LET s == sync[c]
    IN  /\ s.phase = "rows"
        /\ s.pending = NoItems
        /\ ~s.rebuild
        /\ CoreStep(c, Idle)
        /\ files' = [files EXCEPT ![handle[c]] =
               [checkpoint |-> s.target, content |-> Overlaid(@.content, s.rows, s.items)]]
        /\ UNCHANGED handle

\* rebuild: the candidate takes the place of index.sqlite; a Core that has the
\* displaced file open keeps it.
Promote(c) ==
    LET s == sync[c]
        file == CHOOSE f \in Files : \A d \in Cores \ {c} : handle[d] # f
    IN  /\ s.phase = "rows"
        /\ s.pending = NoItems
        /\ s.rebuild
        /\ CoreStep(c, Idle)
        /\ handle' = [handle EXCEPT ![c] = file]
        /\ files' = [files EXCEPT ![file] =
               [checkpoint |-> s.target, content |-> s.rows]]

\* An error at any point before the Index is written: the Index stays, and so
\* does the error when sync_index_best_effort meets it.
SyncFails(c) ==
    /\ sync[c].phase # "idle"
    /\ CoreStep(c, Idle)
    /\ UNCHANGED <<files, handle>>

SyncNext ==
    \/ StoreStep
    \/ \E c \in Cores :
           \/ BeginReconcile(c) \/ BeginRebuild(c)
           \/ ReadJournal(c) \/ ReadRevision(c) \/ ReadNodeIds(c) \/ ReadStatement(c)
           \/ ApplyPatch(c) \/ Promote(c) \/ SyncFails(c)

SyncSpec == SyncInit /\ [][SyncNext]_<<vars, syncVars>>

-----------------------------------------------------------------------------
(* Properties *)

SyncTypeOK ==
    /\ TypeOK
    /\ files \in [Files -> Checkpointed]
    /\ handle \in [Cores -> Files]
    /\ sync \in [Cores -> Synchronizations]

Exact(c) ==
    IndexOf(c).checkpoint = db.revision => IndexOf(c).content = Content(db)

\* "`status().index_sync` reports whether the Index revision matches Record
\* revision" (docs/API.md:46): an Index that claims the current revision shows
\* the rows of the current revision (index/projection.rs:118).
CurrentIndexIsExact == \A c \in Cores : Exact(c)

\* A commit between two statements of a synchronization tears what it reads:
\* some rows are older, some newer than the checkpoint they are stored under.
\* Whatever the Index has that the Record Store no longer says, the journal
\* past the checkpoint names, so that the next delta repairs it; and where the
\* journal has been pruned since, the next reconciliation rebuilds.
StaleRowsAreJournalled ==
    \A c \in Cores :
        LET x == IndexOf(c)
        IN  /\ x.checkpoint <= db.revision
            /\ ~Unavailable(db, x.checkpoint) =>
                   Patched(x.content, db, ChangesSince(db, x.checkpoint)) = Content(db)
=============================================================================
