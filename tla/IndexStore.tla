------------------------------ MODULE IndexStore ------------------------------
(***************************************************************************)
(* The derived Index (src/index): a projection of the Record Store with a  *)
(* checkpoint, brought forward by deltas or rebuilt, and the content       *)
(* projection that callers supply, search documents with their full-text   *)
(* rows and content-derived relationships.  A rebuild starts from an empty *)
(* file; only the canonical rows come back.  One Core, one thread; what    *)
(* recovery may do to the Record Store while the Core is closed is one     *)
(* step, Rewind, whose outcomes module Recovery accounts for.  What other   *)
(* connections do to a synchronization is the subject of module IndexSync. *)
(***************************************************************************)
EXTENDS Projection

CONSTANTS
    DocumentKeys,   \* keys callers give to search documents
    MaxDerived      \* bound: derived relationships given to one call

ASSUME DocumentKeysAssumption == None \notin DocumentKeys
ASSUME MaxDerivedAssumption == MaxDerived \in Nat

VARIABLES
    core,       \* "open", "unconnected" (open, its Index without connection) or "closed"
    file,       \* index.sqlite: "valid", "invalid" or "missing"
    index,      \* its rows
    committed   \* the state committed under each revision

indexVars == <<core, file, index, committed>>

Indexes ==
    [checkpoint : Nat,
     content : Contents,
     documents : [DocumentKeys -> NodeIds \cup {None}],     \* document to owner
     fts : SUBSET (DocumentKeys \X NodeIds),                 \* rows of the FTS table
     derived : SUBSET (NodeIds \X (NodeIds \cup {None}))]    \* source, resolved target

NoDocuments == [k \in DocumentKeys |-> None]

IndexOf(checkpoint, content) ==
    [checkpoint |-> checkpoint, content |-> content,
     documents |-> NoDocuments, fts |-> {}, derived |-> {}]

\* build_candidate, from projection_snapshot.
Built(d) == IndexOf(d.revision, Content(d))

\* A Node the index has a row for.
Indexed(x, n) == x.content.lifecycle[n] # "none"

-----------------------------------------------------------------------------
(* Reconciliation *)

\* Fault: foreign_keys is not switched on, nothing cascades.
CascadedNothing(x) == x

\* Foreign keys: the documents and derived relationships of a Node that is gone
\* go with it, and a derived target becomes NULL.  The FTS table has no keys.
Cascaded(x) ==
    [x EXCEPT
        !.documents = [k \in DocumentKeys |->
            IF @[k] # None /\ Indexed(x, @[k]) THEN @[k] ELSE None],
        !.derived =
            {<<e[1], IF e[2] # None /\ Indexed(x, e[2]) THEN e[2] ELSE None>> :
                e \in {e \in @ : Indexed(x, e[1])}}]

\* Fault: a gap in the journal goes unnoticed.
ReconciledAcrossGap(x, d) ==
    IF x.checkpoint >= d.revision THEN x
    ELSE Cascaded([x EXCEPT
             !.checkpoint = d.revision,
             !.content = Patched(@, d, ChangesSince(d, x.checkpoint))])

\* reconcile and apply_patch, in one transaction; rebuild when the journal does
\* not reach back.
Reconciled(x, d) ==
    IF Current(d, x.checkpoint) THEN x
    ELSE IF Unavailable(d, x.checkpoint) THEN Built(d)
    ELSE Cascaded([x EXCEPT
             !.checkpoint = d.revision,
             !.content = Patched(@, d, ChangesSince(d, x.checkpoint))])

\* prune_change_journal follows; its error is ignored.
PruneOrNot ==
    \/ PruneChangeJournal
    \/ txn = "none" /\ UNCHANGED vars

IndexInit ==
    /\ Init
    /\ core = "closed"
    /\ file = "missing"
    /\ index = IndexOf(0, EmptyContent)
    /\ committed = [r \in 0 .. MaxRevision |-> IF r = 0 THEN Unjournalled(db) ELSE None]

\* Any step of the Record Store but pruning, which the steps below do.
StoreStep ==
    /\ core # "closed"
    /\ Next
    /\ db' = db \/ db'.revision > db.revision
    /\ committed' = IF db' = db THEN committed
                    ELSE [committed EXCEPT ![db'.revision] = Unjournalled(db')]
    /\ UNCHANGED <<core, file, index>>

\* sync_index_best_effort and reconcile_index; when they fail the Index stays.
ReconcileIndex ==
    /\ core = "open"
    /\ PruneOrNot
    /\ index' = Reconciled(index, db)
    /\ UNCHANGED <<core, file, committed>>

\* rebuild: the candidate is built, the connection closed, the old file set
\* aside and the candidate put in its place.
RebuildIndex ==
    /\ core # "closed"
    /\ file = "valid"
    /\ PruneOrNot
    /\ core' = "open"
    /\ index' = Built(db)
    /\ UNCHANGED <<file, committed>>

\* rebuild returns an error after it has closed the connection: the removal of
\* older files failed, a rename failed, or the new file did not open.  It puts
\* the old file back and opens what it then finds at the path; an error of that
\* leaves no connection, and without a file SQLite creates an empty Index.
RebuildFails ==
    /\ core # "closed"
    /\ txn = "none"
    /\ \/ core' = "unconnected" /\ UNCHANGED <<file, index>>
       \/ core' = "unconnected" /\ file' = "missing" /\ UNCHANGED index
       \/ core' = "open" /\ file = "valid" /\ UNCHANGED <<file, index>>
       \/ core' = "open" /\ file' = "valid" /\ index' = IndexOf(0, EmptyContent)
    /\ UNCHANGED <<vars, committed>>

\* open_for_core, after the Record Store has been validated.  A file that does
\* not open, for whatever reason, is set aside as invalid and rebuilt.
Open ==
    /\ core = "closed"
    /\ \/ PruneChangeJournal
       \/ db.revision <= Retention /\ UNCHANGED vars
    /\ core' = "open"
    /\ file' = "valid"
    /\ \/ file = "valid" /\ index' = Reconciled(index, db)
       \/ index' = Built(db)
    /\ UNCHANGED committed

-----------------------------------------------------------------------------
(* The content projection callers supply *)

DerivedInputs ==
    {D \in SUBSET (NodeIds \X (NodeIds \cup {None})) : Cardinality(D) <= MaxDerived}

\* replace_content_projection; documents and derived relationships refer to
\* Nodes of the Index (foreign keys), else the transaction fails.
ReplaceContent(documents, derived) ==
    /\ core = "open" /\ txn = "none"
    /\ \A k \in DocumentKeys : documents[k] # None => Indexed(index, documents[k])
    /\ \A e \in derived : \A n \in {e[1], e[2]} \ {None} : Indexed(index, n)
    /\ index' = [index EXCEPT
           !.documents = documents,
           !.fts = {<<k, documents[k]>> : k \in {k \in DocumentKeys : documents[k] # None}},
           !.derived = derived]
    /\ UNCHANGED <<vars, core, file, committed>>

\* Fault: the new rows are written before the old ones are deleted.
ReplaceNodeContentLateDelete(n, keys, targets) ==
    /\ core = "open" /\ txn = "none"
    /\ keys # {} \/ targets # {} => Indexed(index, n)
    /\ \A t \in targets \ {None} : Indexed(index, t)
    /\ \A k \in keys : index.documents[k] \in {n, None}
    /\ index' = [index EXCEPT
           !.documents = [k \in DocumentKeys |->
               IF k \in keys THEN n ELSE IF @[k] = n THEN None ELSE @[k]],
           !.fts = (@ \cup (keys \X {n})) \ {r \in @ : index.documents[r[1]] = n},
           !.derived = {e \in @ : e[1] # n} \cup ({n} \X targets)]
    /\ UNCHANGED <<vars, core, file, committed>>

\* Fault: the columns of the full-text table are bound in the wrong order.
ReplaceNodeContentSwapped(n, keys, targets) ==
    /\ core = "open" /\ txn = "none"
    /\ keys # {} \/ targets # {} => Indexed(index, n)
    /\ \A t \in targets \ {None} : Indexed(index, t)
    /\ \A k \in keys : index.documents[k] \in {n, None}
    /\ index' = [index EXCEPT
           !.documents = [k \in DocumentKeys |->
               IF k \in keys THEN n ELSE IF @[k] = n THEN None ELSE @[k]],
           !.fts = {r \in @ : index.documents[r[1]] # n} \cup ({n} \X keys),
           !.derived = {e \in @ : e[1] # n} \cup ({n} \X targets)]
    /\ UNCHANGED <<vars, core, file, committed>>

\* replace_node_content_projection: the full-text rows of the keys the Node's
\* documents have now, then its documents and derived relationships.  A key of
\* another Node's document is refused (PRIMARY KEY).
ReplaceNodeContent(n, keys, targets) ==
    /\ core = "open" /\ txn = "none"
    /\ keys # {} \/ targets # {} => Indexed(index, n)
    /\ \A t \in targets \ {None} : Indexed(index, t)
    /\ \A k \in keys : index.documents[k] \in {n, None}
    /\ index' = [index EXCEPT
           !.documents = [k \in DocumentKeys |->
               IF k \in keys THEN n ELSE IF @[k] = n THEN None ELSE @[k]],
           !.fts = {r \in @ : index.documents[r[1]] # n} \cup (keys \X {n}),
           !.derived = {e \in @ : e[1] # n} \cup ({n} \X targets)]
    /\ UNCHANGED <<vars, core, file, committed>>

-----------------------------------------------------------------------------
(* Ends and failures *)

\* close, or the process dies; an open transaction is gone.
Close ==
    /\ core # "closed"
    /\ core' = "closed"
    /\ txn' = "none" /\ work' = db /\ ordinal' = 0
    /\ UNCHANGED <<db, file, index, committed>>

\* The process dies inside rebuild, between its two renames.
DieInRebuild ==
    /\ core # "closed" /\ txn = "none"
    /\ core' = "closed"
    /\ file' = "missing"
    /\ UNCHANGED <<vars, index, committed>>

LoseIndex ==
    /\ core = "closed"
    /\ file' \in {"missing", "invalid"}
    /\ UNCHANGED <<vars, core, index, committed>>

\* Recovery replaces a lost records.sqlite by an earlier committed state.
Rewind ==
    /\ core = "closed"
    /\ \E r \in 0 .. db.revision :
           /\ db' = committed[r]
           /\ work' = committed[r]
           /\ committed' = [q \in 0 .. MaxRevision |-> IF q <= r THEN committed[q] ELSE None]
    /\ UNCHANGED <<txn, ordinal, core, file, index>>

IndexNext ==
    \/ StoreStep
    \/ ReconcileIndex \/ RebuildIndex \/ RebuildFails \/ Open
    \/ \E documents \in [DocumentKeys -> NodeIds \cup {None}],
          derived \in DerivedInputs :
           ReplaceContent(documents, derived)
    \/ \E n \in NodeIds, keys \in SUBSET DocumentKeys, targets \in SUBSET (NodeIds \cup {None}) :
           ReplaceNodeContent(n, keys, targets)
    \/ Close \/ DieInRebuild \/ LoseIndex \/ Rewind

IndexSpec == IndexInit /\ [][IndexNext]_<<vars, indexVars>>

-----------------------------------------------------------------------------
(* Queries *)

\* search: the Node of the full-text row, the state of the document's owner.
Hits(x) ==
    {r[2] : r \in {r \in x.fts : /\ x.documents[r[1]] # None
                                 /\ x.content.lifecycle[x.documents[r[1]]] = "active"}}

ActiveNodes(x) == {n \in NodeIds : x.content.lifecycle[n] = "active"}

\* backlinks: sources of canonical and derived relationships to n.
Backlinks(x, n) ==
    {s \in ActiveNodes(x) :
        \/ \E e \in x.content.relationships : e[1] = s /\ e[3] = n
        \/ <<s, n>> \in x.derived}

\* Fault: the state of a target does not matter.
EdgesToAny(x) ==
    {<<e[1], e[3]>> : e \in {e \in x.content.relationships : e[1] \in ActiveNodes(x)}}
        \cup {e \in x.derived : e[1] \in ActiveNodes(x)}

\* graph: edges between active Nodes, and derived ones not resolved.
Edges(x) ==
    {<<e[1], e[3]>> : e \in {e \in x.content.relationships :
                               {e[1], e[3]} \subseteq ActiveNodes(x)}}
        \cup {e \in x.derived : e[1] \in ActiveNodes(x) /\ e[2] \in ActiveNodes(x) \cup {None}}

\* orphan_node_ids: active Nodes without a resolved edge of the graph.
ListedOrphans(x) ==
    {n \in ActiveNodes(x) : \A e \in Edges(x) : e[2] # None => n \notin {e[1], e[2]}}

\* Fault: derived relationships are forgotten.
CountedOrphansByRecord(x) ==
    {n \in ActiveNodes(x) : \A e \in x.content.relationships : n \notin {e[1], e[3]}}

\* orphan_node_count and orphan_node_ids_page: active Nodes no relationship
\* names, whatever its other end is.
CountedOrphans(x) ==
    {n \in ActiveNodes(x) :
        /\ \A e \in x.content.relationships : n \notin {e[1], e[3]}
        /\ \A e \in x.derived : n \notin {e[1], e[2]}}

-----------------------------------------------------------------------------
(* Properties *)

IndexTypeOK ==
    /\ TypeOK
    /\ core \in {"open", "unconnected", "closed"}
    /\ file \in {"valid", "invalid", "missing"}
    /\ index \in Indexes

\* "Index-backed queries can return an older projection while stale"
\* (docs/API.md), but never one that was not: an open Core's Index shows exactly
\* the rows that were committed under its checkpoint, whatever deltas, rebuilds,
\* failed swaps of its file, prunings and recoveries brought it there.
IndexShowsCommittedState ==
    core = "open" =>
        /\ index.checkpoint <= db.revision
        /\ index.content = Content(committed[index.checkpoint])

\* Documents and derived relationships belong to Nodes the Index has, and their
\* targets too, after a purge as before it (schema.rs:76, foreign keys).
ContentRefersToIndexedNodes ==
    /\ \A k \in DocumentKeys : index.documents[k] # None => Indexed(index, index.documents[k])
    /\ \A e \in index.derived : \A n \in {e[1], e[2]} \ {None} : Indexed(index, n)

\* Every document can be found: the full-text table has its row, under its Node.
DocumentsAreSearchable ==
    \A k \in DocumentKeys : index.documents[k] # None => <<k, index.documents[k]>> \in index.fts

\* The graph and the backlinks of a current Index name active Nodes only, also
\* through relationships derived from content, which no delta touches.
AnswersNameActiveNodes ==
    (core = "open" /\ Current(db, index.checkpoint)) =>
        \A n \in ({e[1] : e \in Edges(index)} \cup {e[2] : e \in Edges(index)}
                     \cup UNION {Backlinks(index, t) : t \in NodeIds}) \ {None} :
            db.lifecycle[n] = "active"

\* The two definitions of an orphan, the graph's and SQL's (query.rs:623), agree
\* as far as they can: what is counted is listed, and a Node that is listed and
\* not counted has a relationship the graph does not draw.
OrphanAnswersAgree ==
    /\ CountedOrphans(index) \subseteq ListedOrphans(index)
    /\ \A n \in ListedOrphans(index) \ CountedOrphans(index) :
           \E m \in (NodeIds \cup {None}) \ ActiveNodes(index) :
               \/ \E k \in RelationshipKeys :
                      {<<n, k, m>>, <<m, k, n>>} \cap index.content.relationships # {}
               \/ {<<n, m>>, <<m, n>>} \cap index.derived # {}

\* "Purge removes Node-owned reconstructable state, permanently retires the ID"
\* (docs/SEMANTIC-CONTRACT.md): a search with an Index that is current names no
\* retired Node.
SearchNamesNoRetiredNode ==
    (core = "open" /\ Current(db, index.checkpoint)) =>
        \A n \in Hits(index) : db.lifecycle[n] # "none"
=============================================================================
