------------------------------ MODULE Traversals ------------------------------
(***************************************************************************)
(* A caller that reads a collection page by page while other connections   *)
(* commit and its Core brings the Index up to date: list_nodes_cursor over *)
(* the Index (src/index/query.rs), and the pages of a stable read snapshot *)
(* (src/record_store/stable_scan.rs), whose cursors may be kept from one   *)
(* callback to the next.                                                   *)
(***************************************************************************)
EXTENDS IndexSync, Sequences

CONSTANT PageLimits     \* limits callers ask for, after bounded_limit

ASSUME PageLimitsAssumption == PageLimits \subseteq Nat \ {0}
ASSUME OrderedKeys == PropertyKeys \cup RelationshipKeys \subseteq Nat
\* UUIDs have 128 bits and keys at most 255 bytes.
ASSUME FiniteKeys == IsFiniteSet(NodeIds \cup PropertyKeys \cup RelationshipKeys)
\* An Option is not a key.
ASSUME NoneIsNoKey == None \notin Seq(Nat)

VARIABLES
    snapshot,   \* the state a stable read transaction is pinned to, or None
    traversal   \* what the caller is traversing, or None

traversalVars == <<snapshot, traversal>>

-----------------------------------------------------------------------------
(* Collections: sets of items with the keys they are ordered and resumed by *)

Collections ==
    [table : {"index.nodes", "issued_ids", "nodes", "relationships",
              "property_definitions", "relationship_definitions"}, owner : {None}]
        \cup [table : {"properties"}, owner : NodeIds]

Collection(table) == [table |-> table, owner |-> None]
PropertiesOf(n) == [table |-> "properties", owner |-> n]
IndexNodes == Collection("index.nodes")

Item(key, row) == [key |-> key, row |-> row]

DefinitionItems(definitions) ==
    {Item(<<k>>, definitions[k]) : k \in {k \in DOMAIN definitions : definitions[k].state # "none"}}

\* The six collections of StableReadSnapshot.
StableItems(d, collection) ==
    LET n == collection.owner
    IN  CASE collection.table = "issued_ids" -> {Item(<<i>>, None) : i \in d.issued}
          [] collection.table = "nodes" ->
                 {Item(<<i>>, d.lifecycle[i]) : i \in {i \in NodeIds : d.lifecycle[i] # "none"}}
          [] collection.table = "properties" ->
                 {Item(<<k>>, d.properties[n][k].kind) : k \in {k \in PropertyKeys : d.properties[n][k].kind # None}}
          [] collection.table = "relationships" -> {Item(e, None) : e \in d.relationships}
          [] collection.table = "property_definitions" -> DefinitionItems(d.propertyDefinitions)
          [] collection.table = "relationship_definitions" -> DefinitionItems(d.relationshipDefinitions)

\* The Nodes of the Index that are not newer than a watermark.
IndexItems(x, watermark) ==
    {Item(<<x.content.modified[n], n>>, x.content.lifecycle[n]) :
        n \in {n \in NodeIds : /\ x.content.lifecycle[n] # "none"
                               /\ x.content.modified[n] <= watermark}}

\* Column by column.
Precedes(a, b) ==
    \E i \in DOMAIN a : a[i] < b[i] /\ \A j \in 1 .. i - 1 : a[j] = b[j]

\* The order a collection is traversed in: the Index's Nodes by descending
\* modified_revision, then by UUID; every other one by its key.
KeyBefore(collection, a, b) ==
    IF collection = IndexNodes
    THEN a[1] > b[1] \/ (a[1] = b[1] /\ a[2] < b[2])
    ELSE Precedes(a, b)

\* Fault: the key itself is not excluded.
BehindOrAt(collection, key, after) ==
    after = None \/ ~KeyBefore(collection, key, after)

\* Fault: only the first column is compared.
BehindByFirstColumn(collection, key, after) ==
    after = None \/ (IF collection = IndexNodes THEN after[1] > key[1] ELSE after[1] < key[1])

\* The keyset condition of a page's SELECT.
Behind(collection, key, after) ==
    after = None \/ KeyBefore(collection, after, key)

\* The first `limit` items behind the key `after`, and whether one is left.
Page(collection, items, after, limit) ==
    LET rest == {i \in items : Behind(collection, i.key, after)}
        place(i) == Cardinality({j \in rest : KeyBefore(collection, j.key, i.key)})
        page == {i \in rest : place(i) < limit}
    IN  [items |-> page, more |-> rest \ page # {}]

LastKey(collection, items) ==
    (CHOOSE i \in items : \A j \in items \ {i} : KeyBefore(collection, j.key, i.key)).key

-----------------------------------------------------------------------------
(* The caller *)

\* Fault: the watermark is the next revision to come.
StartedAhead(collection, revision, items) ==
    [collection |-> collection, revision |-> revision + 1, after |-> None, pages |-> <<>>,
     origin |-> items, done |-> FALSE]

\* `revision` and `after` are what the cursor says; `origin`, the items the
\* collection had when the traversal began, is for the properties only.
Started(collection, revision, items) ==
    [collection |-> collection, revision |-> revision, after |-> None, pages |-> <<>>,
     origin |-> items, done |-> FALSE]

\* The caller takes the next page of a traversal t from these items.
TakePage(t, items) ==
    \E limit \in PageLimits :
        LET page == Page(t.collection, items, t.after, limit)
        IN  traversal' = [t EXCEPT
                !.pages = Append(@, page.items),
                !.after = IF page.more THEN LastKey(t.collection, page.items) ELSE None,
                !.done = ~page.more]

Going == traversal # None /\ ~traversal.done

\* with_stable_read_snapshot: the deferred transaction pins its state with the
\* first SELECT and the Core's Record Store stays locked during the callback.
OpenSnapshot(c) ==
    /\ snapshot = None
    /\ txn = "none"
    /\ sync[c].phase = "idle"
    /\ snapshot' = Unjournalled(db)
    /\ UNCHANGED <<vars, syncVars, traversal>>

CloseSnapshot ==
    /\ snapshot # None
    /\ snapshot' = None
    /\ UNCHANGED <<vars, syncVars, traversal>>

\* properties_page refuses a Node that does not exist.
StablePageExists(collection) ==
    collection.owner # None => snapshot.lifecycle[collection.owner] # "none"

FirstStablePage(collection) ==
    /\ snapshot # None
    /\ traversal = None
    /\ collection # IndexNodes
    /\ StablePageExists(collection)
    /\ LET items == StableItems(snapshot, collection)
       IN  TakePage(Started(collection, snapshot.revision, items), items)
    /\ UNCHANGED <<vars, syncVars, snapshot>>

\* Fault: a cursor of another snapshot is accepted.
NextStablePageOfAny ==
    /\ snapshot # None
    /\ Going /\ traversal.collection # IndexNodes
    /\ StablePageExists(traversal.collection)
    /\ TakePage(traversal, StableItems(snapshot, traversal.collection))
    /\ UNCHANGED <<vars, syncVars, snapshot>>

\* A cursor is accepted in the snapshot, this callback's or a later one's,
\* whose revision it carries.
NextStablePage ==
    /\ snapshot # None
    /\ Going /\ traversal.collection # IndexNodes
    /\ traversal.revision = snapshot.revision
    /\ StablePageExists(traversal.collection)
    /\ TakePage(traversal, StableItems(snapshot, traversal.collection))
    /\ UNCHANGED <<vars, syncVars, snapshot>>

\* list_nodes_cursor without a cursor: the watermark is the applied revision.
FirstIndexPage(c) ==
    /\ traversal = None
    /\ sync[c].phase = "idle"
    /\ LET watermark == IndexOf(c).checkpoint
           items == IndexItems(IndexOf(c), watermark)
       IN  TakePage(Started(IndexNodes, watermark, items), items)
    /\ UNCHANGED <<vars, syncVars, snapshot>>

\* ... and with one, which is refused when the Index moved back behind it.
NextIndexPage(c) ==
    /\ Going /\ traversal.collection = IndexNodes
    /\ sync[c].phase = "idle"
    /\ traversal.revision <= IndexOf(c).checkpoint
    /\ TakePage(traversal, IndexItems(IndexOf(c), traversal.revision))
    /\ UNCHANGED <<vars, syncVars, snapshot>>

\* The caller has all pages, or gives up, refused or not.
EndTraversal ==
    /\ traversal # None
    /\ traversal' = None
    /\ UNCHANGED <<vars, syncVars, snapshot>>

TraversalInit == SyncInit /\ snapshot = None /\ traversal = None

\* The Core's own synchronizations wait for the Record Store's lock.  What
\* happens after its last page is nothing to a traversal, so it ends first.
SyncStep ==
    /\ traversal = None \/ Going
    /\ SyncNext
    /\ snapshot # None => UNCHANGED syncVars
    /\ UNCHANGED traversalVars

TraversalNext ==
    \/ SyncStep
    \/ \E c \in Cores : OpenSnapshot(c) \/ FirstIndexPage(c) \/ NextIndexPage(c)
    \/ \E collection \in Collections : FirstStablePage(collection)
    \/ CloseSnapshot \/ NextStablePage \/ EndTraversal

TraversalSpec == TraversalInit /\ [][TraversalNext]_<<vars, syncVars, traversalVars>>

-----------------------------------------------------------------------------
(* Properties *)

TraversalTypeOK ==
    /\ SyncTypeOK
    /\ snapshot = None \/ snapshot \in Databases
    /\ traversal # None =>
           /\ traversal.collection \in Collections
           /\ traversal.revision \in 0 .. MaxRevision
           /\ traversal.done \in BOOLEAN

Returned == UNION {traversal.pages[i] : i \in DOMAIN traversal.pages}

\* The items of the beginning that the traversal has passed.
Passed ==
    {i \in traversal.origin :
        traversal.done \/ ~KeyBefore(traversal.collection, traversal.after, i.key)}

\* "All issued-ID, Node, Property, Relationship, and definition pages observed
\* inside it share one snapshot" (docs/TRAVERSAL-CONTRACT.md): the pages of a
\* stable scan, also one resumed in another callback, are the collection as it
\* was when the scan began, nothing missing, changed or added.
StableScanIsExact ==
    (traversal # None /\ traversal.collection # IndexNodes) => Returned = Passed

\* No page returns what an earlier one did, of either kind of traversal, though
\* updates move Nodes to the front of the Index's order while it is read.
PagesAreDisjoint ==
    traversal # None =>
        \A i, j \in DOMAIN traversal.pages :
            i # j => {a.key : a \in traversal.pages[i]} \cap {b.key : b \in traversal.pages[j]} = {}

\* "Later inserts are excluded from the traversal; an unvisited Node changed
\* beyond the watermark or purged during traversal may disappear"
\* (docs/TRAVERSAL-CONTRACT.md), and no other: what a traversal of the Index
\* returns was there when it began, and what was there is returned in its turn
\* or is no longer the same, although synchronizations that other commits tore
\* replace the rows in between.
IndexTraversalLosesOnlyMoved ==
    (traversal # None /\ traversal.collection = IndexNodes) =>
        /\ Returned \subseteq traversal.origin
        /\ \A i \in Passed \ Returned :
               \E c \in Cores : i \notin IndexItems(IndexOf(c), traversal.revision)
=============================================================================
