------------------------------ MODULE RecordStore ------------------------------
(***************************************************************************)
(* The canonical Record Store (src/record_store/operations.rs) on one      *)
(* connection.  `db` is what SQLite has committed.  A mutation batch runs  *)
(* in an Immediate transaction whose uncommitted view is `work`; an error  *)
(* of any mutation, or a crash, drops the transaction.  Definition         *)
(* operations take &mut self on the one connection, so each is one step    *)
(* here; module Definitions splits them for several connections.           *)
(*                                                                         *)
(* Property values are represented by their kind, definition texts by the  *)
(* definition's version, and a journal row by what it names: the order of  *)
(* rows inside a revision is never used by a reader of the journal.        *)
(***************************************************************************)
EXTENDS Naturals, FiniteSets

CONSTANTS
    NodeIds,            \* UUIDs a caller may create
    PropertyKeys,       \* keys of properties and of property definitions
    RelationshipKeys,   \* keys of relationships and of their definitions
    Kinds,              \* kinds of property values
    None,               \* SQL NULL
    Retention,          \* RECORD_CHANGE_RETENTION_REVISIONS (1024 in the code)
    MaxRevision,        \* bound: revisions explored
    MaxBatch            \* bound: mutations in one batch

ASSUME NoneAssumption == None \notin NodeIds \cup PropertyKeys \cup RelationshipKeys \cup Kinds
ASSUME RetentionAssumption == Retention \in Nat \ {0}
ASSUME BoundsAssumption == MaxRevision \in Nat /\ MaxBatch \in Nat

VARIABLES
    db,         \* the committed database
    txn,        \* whether a batch transaction is open: "none" or "open"
    work,       \* the transaction's view of the database; db when none is open
    ordinal     \* mutations applied in the open transaction

vars == <<db, txn, work, ordinal>>

-----------------------------------------------------------------------------
(* Tables *)

Lifecycles == {"none", "active", "tombstoned"}      \* "none": no row in nodes

Facts == [kind : Kinds \cup {None}, revision : Nat] \* kind None: no such row
NoFact == [kind |-> None, revision |-> 0]

\* `registered` is the revision of the registration that made the row; it is
\* not a column, and only properties read it.
DefinitionsOf(keys) ==
    [state : {"none", "active", "deprecated"}, kind : Kinds \cup {None},
     replacement : keys \cup {None}, version : Nat, registered : Nat]
NoDefinition ==
    [state |-> "none", kind |-> None, replacement |-> None,
     version |-> 0, registered |-> 0]

Relationships == NodeIds \X RelationshipKeys \X NodeIds

NodeChangeKinds ==
    {"node_created", "node_tombstoned", "node_restored", "node_purged",
     "property_set", "property_removed"}
RelationshipChangeKinds == {"relationship_added", "relationship_removed"}
DefinitionChangeKinds == {"property_definition", "relationship_definition"}

Changes ==
    [revision : Nat,
     kind : NodeChangeKinds \cup RelationshipChangeKinds \cup DefinitionChangeKinds,
     node : NodeIds \cup {None},
     key : PropertyKeys \cup RelationshipKeys \cup {None},
     target : NodeIds \cup {None}]

NodeChange(r, kind, n, k) ==
    [revision |-> r, kind |-> kind, node |-> n, key |-> k, target |-> None]
\* Fault: key and target bound in the wrong order.
RelationshipChangeSwapped(r, kind, s, k, t) ==
    [revision |-> r, kind |-> kind, node |-> s, key |-> t, target |-> k]
RelationshipChange(r, kind, s, k, t) ==
    [revision |-> r, kind |-> kind, node |-> s, key |-> k, target |-> t]
DefinitionChange(r, kind, k) ==
    [revision |-> r, kind |-> kind, node |-> None, key |-> k, target |-> None]

Databases ==
    [revision : Nat,
     issued : SUBSET NodeIds,
     lifecycle : [NodeIds -> Lifecycles],
     modified : [NodeIds -> Nat],
     properties : [NodeIds -> [PropertyKeys -> Facts]],
     relationships : SUBSET Relationships,
     propertyDefinitions : [PropertyKeys -> DefinitionsOf(PropertyKeys)],
     relationshipDefinitions : [RelationshipKeys -> DefinitionsOf(RelationshipKeys)],
     journal : SUBSET Changes]

EmptyDatabase ==
    [revision |-> 0,
     issued |-> {},
     lifecycle |-> [n \in NodeIds |-> "none"],
     modified |-> [n \in NodeIds |-> 0],
     properties |-> [n \in NodeIds |-> [k \in PropertyKeys |-> NoFact]],
     relationships |-> {},
     propertyDefinitions |-> [k \in PropertyKeys |-> NoDefinition],
     relationshipDefinitions |-> [k \in RelationshipKeys |-> NoDefinition],
     journal |-> {}]

-----------------------------------------------------------------------------
(* What the writes of one mutation make of a database *)

\* reserve_node_id and the inserts into nodes and the journal.
WithNodes(d, ids) ==
    [d EXCEPT
        !.issued = @ \cup ids,
        !.lifecycle = [n \in NodeIds |-> IF n \in ids THEN "active" ELSE @[n]],
        !.modified = [n \in NodeIds |-> IF n \in ids THEN d.revision ELSE @[n]],
        !.journal = @ \cup {NodeChange(d.revision, "node_created", n, None) : n \in ids}]

\* Fault: the owner keeps its old modified revision.
WithFactUnstamped(d, n, k, fact, change) ==
    [d EXCEPT
        !.properties[n][k] = fact,
        !.journal = @ \cup {NodeChange(d.revision, change, n, k)}]

WithFact(d, n, k, fact, change) ==
    [d EXCEPT
        !.properties[n][k] = fact,
        !.modified[n] = d.revision,
        !.journal = @ \cup {NodeChange(d.revision, change, n, k)}]

\* Fault: only the source Node is touched.
WithRelationshipsSourceOnly(d, relationships, change, s, k, t) ==
    [d EXCEPT
        !.relationships = relationships,
        !.modified = [n \in NodeIds |->
            IF n = s /\ d.lifecycle[n] # "none" THEN d.revision ELSE @[n]],
        !.journal = @ \cup {RelationshipChange(d.revision, change, s, k, t)}]

\* Of the two endpoints, those that still have a row in nodes are touched.
WithRelationships(d, relationships, change, s, k, t) ==
    [d EXCEPT
        !.relationships = relationships,
        !.modified = [n \in NodeIds |->
            IF n \in {s, t} /\ d.lifecycle[n] # "none" THEN d.revision ELSE @[n]],
        !.journal = @ \cup {RelationshipChange(d.revision, change, s, k, t)}]

WithLifecycle(d, n, state, change) ==
    [d EXCEPT
        !.lifecycle[n] = state,
        !.modified[n] = d.revision,
        !.journal = @ \cup {NodeChange(d.revision, change, n, None)}]

\* Fault: purging also deletes the Node's entry in issued_node_ids.
WithoutNodeReleased(d, n) ==
    [d EXCEPT
        !.issued = @ \ {n},
        !.lifecycle[n] = "none",
        !.modified[n] = 0,
        !.properties[n] = [k \in PropertyKeys |-> NoFact],
        !.journal = @ \cup {NodeChange(d.revision, "node_purged", n, None)}]

\* Fault: the properties of the purged Node do not cascade.
WithoutNodeUncascaded(d, n) ==
    [d EXCEPT
        !.lifecycle[n] = "none",
        !.modified[n] = 0,
        !.journal = @ \cup {NodeChange(d.revision, "node_purged", n, None)}]

\* Fault: the purge is not journalled.
WithoutNodeUnjournalled(d, n) ==
    [d EXCEPT
        !.lifecycle[n] = "none",
        !.modified[n] = 0,
        !.properties[n] = [k \in PropertyKeys |-> NoFact]]

\* The row goes and its properties cascade; relationships are left alone.
WithoutNode(d, n) ==
    [d EXCEPT
        !.lifecycle[n] = "none",
        !.modified[n] = 0,
        !.properties[n] = [k \in PropertyKeys |-> NoFact],
        !.journal = @ \cup {NodeChange(d.revision, "node_purged", n, None)}]

\* One row of a definition table written or, with NoDefinition, deleted.
WithPropertyDefinition(d, k, definition) ==
    [d EXCEPT
        !.propertyDefinitions[k] = definition,
        !.journal = @ \cup {DefinitionChange(d.revision, "property_definition", k)}]

WithRelationshipDefinition(d, k, definition) ==
    [d EXCEPT
        !.relationshipDefinitions[k] = definition,
        !.journal = @ \cup {DefinitionChange(d.revision, "relationship_definition", k)}]

\* next_revision
AtNextRevision(d) == [d EXCEPT !.revision = @ + 1]

-----------------------------------------------------------------------------
(* Batches: apply_batch and apply_mutation *)

Init ==
    /\ db = EmptyDatabase
    /\ txn = "none"
    /\ work = db
    /\ ordinal = 0

BeginBatch ==
    /\ txn = "none"
    /\ db.revision < MaxRevision
    /\ txn' = "open"
    /\ work' = AtNextRevision(db)
    /\ UNCHANGED <<db, ordinal>>

\* A mutation of the open transaction leaves it with the view d.
Mutate(d) ==
    /\ txn = "open"
    /\ ordinal < MaxBatch
    /\ work' = d
    /\ ordinal' = ordinal + 1
    /\ UNCHANGED <<db, txn>>

PropertyAccepts(d, k, kind) ==
    \/ d.propertyDefinitions[k].state = "none"
    \/ /\ d.propertyDefinitions[k].state = "active"
       /\ d.propertyDefinitions[k].kind \in {None, kind}

CreateNode(n) ==
    /\ n \notin work.issued
    /\ Mutate(WithNodes(work, {n}))

SetProperty(n, k, kind) ==
    /\ work.lifecycle[n] = "active"
    /\ PropertyAccepts(work, k, kind)
    /\ Mutate(WithFact(work, n, k, [kind |-> kind, revision |-> work.revision],
                      "property_set"))

RemoveProperty(n, k) ==
    /\ work.lifecycle[n] = "active"
    /\ work.properties[n][k].kind # None
    /\ Mutate(WithFact(work, n, k, NoFact, "property_removed"))

AddRelationship(s, k, t) ==
    /\ work.lifecycle[s] = "active"
    /\ work.lifecycle[t] = "active"
    /\ work.relationshipDefinitions[k].state # "deprecated"
    /\ <<s, k, t>> \notin work.relationships
    /\ Mutate(WithRelationships(work, work.relationships \cup {<<s, k, t>>},
                               "relationship_added", s, k, t))

\* Both identities must have been issued; they need not be live.
RemoveRelationship(s, k, t) ==
    /\ {s, t} \subseteq work.issued
    /\ <<s, k, t>> \in work.relationships
    /\ Mutate(WithRelationships(work, work.relationships \ {<<s, k, t>>},
                               "relationship_removed", s, k, t))

TombstoneNode(n) ==
    /\ work.lifecycle[n] = "active"
    /\ Mutate(WithLifecycle(work, n, "tombstoned", "node_tombstoned"))

RestoreNode(n) ==
    /\ work.lifecycle[n] = "tombstoned"
    /\ Mutate(WithLifecycle(work, n, "active", "node_restored"))

PurgeNode(n) ==
    /\ work.lifecycle[n] = "tombstoned"
    /\ Mutate(WithoutNode(work, n))

CommitBatch ==
    /\ txn = "open"
    /\ ordinal > 0
    /\ db' = work
    /\ txn' = "none"
    /\ ordinal' = 0
    /\ UNCHANGED work

\* A mutation returned an error, or the process died before the commit.
RollbackBatch ==
    /\ txn = "open"
    /\ txn' = "none"
    /\ work' = db
    /\ ordinal' = 0
    /\ UNCHANGED db

-----------------------------------------------------------------------------
(* Operations with a transaction of their own *)

\* The whole transaction of one operation, committed: it leaves the database d.
InOneTransaction(d) ==
    /\ txn = "none"
    /\ db' = d
    /\ work' = d
    /\ UNCHANGED <<txn, ordinal>>

\* create_node_with_id and create_nodes.
CreateNodes(ids) ==
    /\ db.revision < MaxRevision
    /\ ids # {}
    /\ ids \cap db.issued = {}
    /\ InOneTransaction(WithNodes(AtNextRevision(db), ids))

\* Fault: a deprecated definition may replace another.
ValidReplacementAnyState(definitions, k, r) ==
    r # None => r # k /\ definitions[r].state # "none"

ValidReplacement(definitions, k, r) ==
    r # None => r # k /\ definitions[r].state = "active"

PropertyUsage(d, k) == {n \in NodeIds : d.properties[n][k].kind # None}
RelationshipUsage(d, k) == {e \in d.relationships : e[2] = k}
Replaced(definitions, k) == {j \in DOMAIN definitions : definitions[j].replacement = k}

Registered(kind, revision) ==
    [state |-> "active", kind |-> kind, replacement |-> None,
     version |-> 1, registered |-> revision]
Updated(d, kind) == [d EXCEPT !.kind = kind, !.version = @ + 1]
Deprecated(d, r) ==
    [d EXCEPT !.state = "deprecated", !.replacement = r, !.version = @ + 1]

\* Fault: the revision does not advance.
WritePropertyDefinitionInPlace(k, definition) ==
    /\ db.revision < MaxRevision
    /\ InOneTransaction(WithPropertyDefinition(db, k, definition))

\* A definition operation's transaction: next_revision, the row, the journal.
WritePropertyDefinition(k, definition) ==
    /\ db.revision < MaxRevision
    /\ InOneTransaction(WithPropertyDefinition(AtNextRevision(db), k, definition))

WriteRelationshipDefinition(k, definition) ==
    /\ db.revision < MaxRevision
    /\ InOneTransaction(WithRelationshipDefinition(AtNextRevision(db), k, definition))

\* Facts that already use the key are not examined.
RegisterPropertyDefinition(k, kind) ==
    /\ db.propertyDefinitions[k].state = "none"
    /\ WritePropertyDefinition(k, Registered(kind, db.revision + 1))

\* Fault: the kind changes whether or not facts use the definition.
UpdatePropertyDefinitionUnchecked(k, kind) ==
    /\ db.propertyDefinitions[k].state # "none"
    /\ WritePropertyDefinition(k, Updated(db.propertyDefinitions[k], kind))

UpdatePropertyDefinition(k, kind) ==
    /\ db.propertyDefinitions[k].state # "none"
    /\ \/ db.propertyDefinitions[k].kind = kind
       \/ PropertyUsage(db, k) = {}
    /\ WritePropertyDefinition(k, Updated(db.propertyDefinitions[k], kind))

DeprecatePropertyDefinition(k, r) ==
    /\ db.propertyDefinitions[k].state # "none"
    /\ ValidReplacement(db.propertyDefinitions, k, r)
    /\ WritePropertyDefinition(k, Deprecated(db.propertyDefinitions[k], r))

RemovePropertyDefinition(k) ==
    /\ db.propertyDefinitions[k].state # "none"
    /\ PropertyUsage(db, k) = {}
    /\ Replaced(db.propertyDefinitions, k) = {}
    /\ WritePropertyDefinition(k, NoDefinition)

RegisterRelationshipDefinition(k) ==
    /\ db.relationshipDefinitions[k].state = "none"
    /\ WriteRelationshipDefinition(k, Registered(None, db.revision + 1))

UpdateRelationshipDefinition(k) ==
    /\ db.relationshipDefinitions[k].state # "none"
    /\ WriteRelationshipDefinition(k, Updated(db.relationshipDefinitions[k], None))

DeprecateRelationshipDefinition(k, r) ==
    /\ db.relationshipDefinitions[k].state # "none"
    /\ ValidReplacement(db.relationshipDefinitions, k, r)
    /\ WriteRelationshipDefinition(k, Deprecated(db.relationshipDefinitions[k], r))

RemoveRelationshipDefinition(k) ==
    /\ db.relationshipDefinitions[k].state # "none"
    /\ RelationshipUsage(db, k) = {}
    /\ Replaced(db.relationshipDefinitions, k) = {}
    /\ WriteRelationshipDefinition(k, NoDefinition)

\* Fault: one revision too many is deleted.
PruneChangeJournalTooFar ==
    /\ db.revision > Retention
    /\ InOneTransaction([db EXCEPT !.journal =
           {c \in @ : c.revision > db.revision - Retention + 1}])

\* Deletes all but the last Retention revisions of the journal.
PruneChangeJournal ==
    /\ db.revision > Retention
    /\ InOneTransaction([db EXCEPT !.journal =
           {c \in @ : c.revision >= db.revision - Retention + 1}])

-----------------------------------------------------------------------------

NodeMutation ==
    \E n \in NodeIds :
        \/ CreateNode(n) \/ TombstoneNode(n) \/ RestoreNode(n) \/ PurgeNode(n)

PropertyMutation ==
    \E n \in NodeIds, k \in PropertyKeys :
        \/ \E kind \in Kinds : SetProperty(n, k, kind)
        \/ RemoveProperty(n, k)

RelationshipMutation ==
    \E s, t \in NodeIds, k \in RelationshipKeys :
        AddRelationship(s, k, t) \/ RemoveRelationship(s, k, t)

PropertyDefinitionOperation ==
    \E k \in PropertyKeys :
        \/ \E kind \in Kinds \cup {None} :
               RegisterPropertyDefinition(k, kind) \/ UpdatePropertyDefinition(k, kind)
        \/ \E r \in PropertyKeys \cup {None} : DeprecatePropertyDefinition(k, r)
        \/ RemovePropertyDefinition(k)

RelationshipDefinitionOperation ==
    \E k \in RelationshipKeys :
        \/ RegisterRelationshipDefinition(k)
        \/ UpdateRelationshipDefinition(k)
        \/ \E r \in RelationshipKeys \cup {None} : DeprecateRelationshipDefinition(k, r)
        \/ RemoveRelationshipDefinition(k)

Next ==
    \/ BeginBatch
    \/ NodeMutation
    \/ PropertyMutation
    \/ RelationshipMutation
    \/ CommitBatch
    \/ RollbackBatch
    \/ \E ids \in SUBSET NodeIds : CreateNodes(ids)
    \/ PropertyDefinitionOperation
    \/ RelationshipDefinitionOperation
    \/ PruneChangeJournal

Spec == Init /\ [][Next]_vars

-----------------------------------------------------------------------------
(* Properties *)

\* Type correctness: what is committed and what a transaction sees are always
\* databases of this schema.
TypeOK ==
    /\ db \in Databases
    /\ txn \in {"none", "open"}
    /\ work \in Databases
    /\ ordinal \in Nat

\* What resolve_identity answers.
ResolveIdentity(d, n) ==
    CASE d.lifecycle[n] = "active"     -> "Active"
      [] d.lifecycle[n] = "tombstoned" -> "Tombstoned"
      [] OTHER -> IF n \in d.issued THEN "Retired" ELSE "NeverIssued"

Ledger == INSTANCE IdentityLedger
              WITH status <- [n \in NodeIds |-> ResolveIdentity(db, n)]

\* The identity contract: whatever batches, rollbacks and node creations do,
\* an issued UUID stays issued and a purged one is never live again
\* (reserve_node_id, operations.rs:1334).
ImplementsIdentityLedger == Ledger!Spec

Consistent(d) ==
    /\ \A n \in NodeIds : d.lifecycle[n] # "none" => n \in d.issued
    /\ \A e \in d.relationships : {e[1], e[3]} \subseteq d.issued
    /\ \A n \in NodeIds, k \in PropertyKeys :
           d.properties[n][k].kind # None => d.lifecycle[n] # "none"
    /\ \A n \in NodeIds, k \in PropertyKeys :
           d.properties[n][k].revision <= d.modified[n]
    /\ \A n \in NodeIds : d.modified[n] <= d.revision
    /\ \A c \in d.journal : c.revision <= d.revision

\* Committed tables agree with one another: live Nodes and relationship ends
\* are issued identities, a property has a live owner whose modified revision
\* is at least its own, and nothing is stamped past the current revision,
\* which is what reconcile_revision (mod.rs:174) calls a corrupt store.
StoreConsistent == Consistent(db)

\* The journal holds every revision of an unbroken range that ends at the
\* current one and spans at least the retention, so a reader that is no
\* further behind than that always finds its delta (projection.rs:317).
JournalUnbroken ==
    LET held == {c.revision : c \in db.journal}
    IN  \A r \in 1 .. db.revision :
            /\ r \in held => \A q \in r .. db.revision : q \in held
            /\ r + Retention > db.revision => r \in held

\* A property written after its definition was registered has the kind the
\* definition now expects: "expected value kind cannot change while durable
\* facts use the definition" (operations.rs:424).
DefinedFactsMatch(d) ==
    \A n \in NodeIds, k \in PropertyKeys :
        LET fact == d.properties[n][k]
            definition == d.propertyDefinitions[k]
        IN  (/\ fact.kind # None
             /\ definition.state # "none"
             /\ fact.revision > definition.registered)
            => definition.kind \in {None, fact.kind}

FactsMatchDefinitions == DefinedFactsMatch(db)

WellFoundedReplacements(definitions) ==
    /\ \A k \in DOMAIN definitions :
           LET r == definitions[k].replacement
           IN  r # None => definitions[r].state # "none"
    /\ \A S \in SUBSET DOMAIN definitions :
           S # {} => \E k \in S : definitions[k].replacement \notin S

\* Following replacement keys ends at a definition that exists: deprecations
\* chain, but no set of definitions replaces itself (operations.rs:1236), and
\* none is removed while it replaces another (operations.rs:1263).
ReplacementsWellFounded ==
    /\ WellFoundedReplacements(db.propertyDefinitions)
    /\ WellFoundedReplacements(db.relationshipDefinitions)
=============================================================================
