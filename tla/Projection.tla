------------------------------ MODULE Projection ------------------------------
(***************************************************************************)
(* What derived stores read from the Record Store                          *)
(* (src/record_store/projection.rs): the full projection, and the delta    *)
(* since a checkpoint.  A delta names the items the journal names and      *)
(* carries each one's FINAL state; it is unavailable when the journal does *)
(* not hold every revision from the checkpoint to the current one.         *)
(***************************************************************************)
EXTENDS RecordStore

\* The rows a projection carries; the issued-identity ledger is not projected.
Content(d) ==
    [lifecycle |-> d.lifecycle, modified |-> d.modified, properties |-> d.properties,
     relationships |-> d.relationships,
     propertyDefinitions |-> d.propertyDefinitions,
     relationshipDefinitions |-> d.relationshipDefinitions]

EmptyContent == Content(EmptyDatabase)

\* A database without its journal.
Unjournalled(d) == [d EXCEPT !.journal = {}]

Contents ==
    [lifecycle : [NodeIds -> Lifecycles],
     modified : [NodeIds -> Nat],
     properties : [NodeIds -> [PropertyKeys -> Facts]],
     relationships : SUBSET Relationships,
     propertyDefinitions : [PropertyKeys -> DefinitionsOf(PropertyKeys)],
     relationshipDefinitions : [RelationshipKeys -> DefinitionsOf(RelationshipKeys)]]

-----------------------------------------------------------------------------
(* What journal rows name *)

NamedNodes(changes) ==
    {n \in NodeIds : \E c \in changes :
        \/ c.kind \in NodeChangeKinds /\ c.node = n
        \/ c.kind \in RelationshipChangeKinds /\ n \in {c.node, c.target}}

NamedRelationships(changes) ==
    {e \in Relationships : \E c \in changes :
        /\ c.kind \in RelationshipChangeKinds
        /\ e = <<c.node, c.key, c.target>>}

NamedPropertyDefinitions(changes) ==
    {k \in PropertyKeys : \E c \in changes :
        c.kind = "property_definition" /\ c.key = k}

NamedRelationshipDefinitions(changes) ==
    {k \in RelationshipKeys : \E c \in changes :
        c.kind = "relationship_definition" /\ c.key = k}

-----------------------------------------------------------------------------
(* Deltas *)

ChangesSince(d, checkpoint) == {c \in d.journal : c.revision > checkpoint}

\* journal_is_contiguous: nothing is missing between the checkpoint and now.
JournalIsContiguous(d, checkpoint) ==
    \A r \in (checkpoint + 1) .. d.revision : \E c \in d.journal : c.revision = r

Current(d, checkpoint) == checkpoint = d.revision
Available(d, checkpoint) ==
    checkpoint < d.revision /\ JournalIsContiguous(d, checkpoint)
Unavailable(d, checkpoint) ==
    ~Current(d, checkpoint) /\ ~Available(d, checkpoint)

\* Items of a projection: rows of nodes, Nodes' rows of node_properties, and
\* rows of the other tables.
Items ==
    [nodes : SUBSET NodeIds, properties : SUBSET NodeIds,
     relationships : SUBSET Relationships,
     propertyDefinitions : SUBSET PropertyKeys,
     relationshipDefinitions : SUBSET RelationshipKeys]

NoItems ==
    [nodes |-> {}, properties |-> {}, relationships |-> {},
     propertyDefinitions |-> {}, relationshipDefinitions |-> {}]

\* The items a journal names; a Node is projected with its properties.
Named(changes) ==
    [nodes |-> NamedNodes(changes), properties |-> NamedNodes(changes),
     relationships |-> NamedRelationships(changes),
     propertyDefinitions |-> NamedPropertyDefinitions(changes),
     relationshipDefinitions |-> NamedRelationshipDefinitions(changes)]

\* f with the values g has on keys.
Overridden(f, g, keys) == [k \in DOMAIN f |-> IF k \in keys THEN g[k] ELSE f[k]]

\* Replaces in `content` each of the items by its state in d, absence included.
Overlaid(content, d, items) ==
    [lifecycle |-> Overridden(content.lifecycle, d.lifecycle, items.nodes),
     modified |-> Overridden(content.modified, d.modified, items.nodes),
     properties |-> Overridden(content.properties, d.properties, items.properties),
     relationships |->
        (content.relationships \ items.relationships)
            \cup (d.relationships \cap items.relationships),
     propertyDefinitions |->
        Overridden(content.propertyDefinitions, d.propertyDefinitions,
                   items.propertyDefinitions),
     relationshipDefinitions |->
        Overridden(content.relationshipDefinitions, d.relationshipDefinitions,
                   items.relationshipDefinitions)]

Patched(content, d, changes) == Overlaid(content, d, Named(changes))

-----------------------------------------------------------------------------

\* Every commit journals, under its own revision, each Node, relationship and
\* definition it leaves different, whatever order the mutations of the batch
\* came in: the delta of one revision turns the old content into the new one.
JournalCoversCommit ==
    [][(db'.revision # db.revision \/ Content(db') # Content(db)) =>
          /\ db'.revision = db.revision + 1
          /\ Content(db') = Patched(Content(db), db', ChangesSince(db', db.revision))]_db

\* A live Node whose row, properties or relationships a commit changes carries
\* that commit's revision, which list_nodes_cursor pages by.
ModifiedMarksChange ==
    [][\A n \in NodeIds :
          (/\ db'.lifecycle[n] # "none"
           /\ \/ db'.lifecycle[n] # db.lifecycle[n]
              \/ db'.properties[n] # db.properties[n]
              \/ {e \in db'.relationships : n \in {e[1], e[3]}} #
                     {e \in db.relationships : n \in {e[1], e[3]}})
          => db'.modified[n] = db'.revision]_db
=============================================================================
