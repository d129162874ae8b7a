--------------------------- MODULE RecordStoreProofs ---------------------------
(***************************************************************************)
(* Theorems about the Record Store for every set of identities, keys and   *)
(* kinds, every retention and every batch.                                 *)
(***************************************************************************)
EXTENDS RecordStore, TLAPS

-----------------------------------------------------------------------------
(* The effect of each write, field by field.  Later proofs cite these lemmas *)
(* and never expand a database.                                              *)

LEMMA ChangeTypes ==
    ASSUME NEW r \in Nat
    PROVE  /\ \A kind \in NodeChangeKinds, n \in NodeIds :
                  /\ NodeChange(r, kind, n, None) \in Changes
                  /\ \A k \in PropertyKeys : NodeChange(r, kind, n, k) \in Changes
           /\ \A kind \in RelationshipChangeKinds, s, t \in NodeIds, k \in RelationshipKeys :
                  RelationshipChange(r, kind, s, k, t) \in Changes
           /\ \A kind \in DefinitionChangeKinds, k \in PropertyKeys \cup RelationshipKeys :
                  DefinitionChange(r, kind, k) \in Changes
  BY DEF NodeChange, RelationshipChange, DefinitionChange, Changes

LEMMA DatabaseFields ==
    ASSUME NEW d \in Databases
    PROVE  /\ d.revision \in Nat
           /\ d.issued \in SUBSET NodeIds
           /\ d.lifecycle \in [NodeIds -> Lifecycles]
           /\ d.modified \in [NodeIds -> Nat]
           /\ d.properties \in [NodeIds -> [PropertyKeys -> Facts]]
           /\ d.relationships \in SUBSET Relationships
           /\ d.propertyDefinitions \in [PropertyKeys -> DefinitionsOf(PropertyKeys)]
           /\ d.relationshipDefinitions \in [RelationshipKeys -> DefinitionsOf(RelationshipKeys)]
           /\ d.journal \in SUBSET Changes
  BY DEF Databases

LEMMA EmptyType == EmptyDatabase \in Databases
<1>1. NoFact \in Facts
  BY DEF NoFact, Facts
<1>2. NoDefinition \in DefinitionsOf(PropertyKeys) /\ NoDefinition \in DefinitionsOf(RelationshipKeys)
  BY DEF NoDefinition, DefinitionsOf
<1> QED
  BY <1>1, <1>2 DEF EmptyDatabase, Databases, Lifecycles

LEMMA NextRevisionEffect ==
    ASSUME NEW d \in Databases
    PROVE  /\ AtNextRevision(d) \in Databases
           /\ AtNextRevision(d).revision = d.revision + 1
           /\ AtNextRevision(d).issued = d.issued
           /\ AtNextRevision(d).lifecycle = d.lifecycle
           /\ AtNextRevision(d).modified = d.modified
           /\ AtNextRevision(d).properties = d.properties
           /\ AtNextRevision(d).relationships = d.relationships
           /\ AtNextRevision(d).propertyDefinitions = d.propertyDefinitions
           /\ AtNextRevision(d).relationshipDefinitions = d.relationshipDefinitions
           /\ AtNextRevision(d).journal = d.journal
<1> DEFINE r == d.revision + 1
           e == [d EXCEPT !.revision = r]
<1>1. r \in Nat
  BY DatabaseFields
<1> HIDE DEF r
<1>2. /\ e \in Databases
      /\ e.revision = r
      /\ e.issued = d.issued /\ e.lifecycle = d.lifecycle /\ e.modified = d.modified
      /\ e.properties = d.properties /\ e.relationships = d.relationships
      /\ e.propertyDefinitions = d.propertyDefinitions
      /\ e.relationshipDefinitions = d.relationshipDefinitions
      /\ e.journal = d.journal
  BY <1>1 DEF Databases
<1> QED
  BY <1>2 DEF AtNextRevision, r

NodesFrame(d, e, ids) ==
    /\ e \in Databases
    /\ e.revision = d.revision
    /\ e.issued = d.issued \cup ids
    /\ e.lifecycle =
           [n \in NodeIds |-> IF n \in ids THEN "active" ELSE d.lifecycle[n]]
    /\ e.modified =
           [n \in NodeIds |-> IF n \in ids THEN d.revision ELSE d.modified[n]]
    /\ e.properties = d.properties
    /\ e.relationships = d.relationships
    /\ e.propertyDefinitions = d.propertyDefinitions
    /\ e.relationshipDefinitions = d.relationshipDefinitions
    /\ e.journal = d.journal \cup
           {NodeChange(d.revision, "node_created", n, None) : n \in ids}

LEMMA NodesEffect ==
    ASSUME NEW d \in Databases, NEW ids \in SUBSET NodeIds
    PROVE  NodesFrame(d, WithNodes(d, ids), ids)
<1> DEFINE I == d.issued \cup ids
           L == [n \in NodeIds |-> IF n \in ids THEN "active" ELSE d.lifecycle[n]]
           M == [n \in NodeIds |-> IF n \in ids THEN d.revision ELSE d.modified[n]]
           J == d.journal \cup {NodeChange(d.revision, "node_created", n, None) : n \in ids}
<1>1. /\ I \in SUBSET NodeIds
      /\ L \in [NodeIds -> Lifecycles]
      /\ M \in [NodeIds -> Nat]
  BY DatabaseFields DEF Lifecycles
<1>2. J \in SUBSET Changes
  BY DatabaseFields, ChangeTypes DEF NodeChangeKinds
<1>3. WithNodes(d, ids) =
        [d EXCEPT !.issued = I, !.lifecycle = L, !.modified = M, !.journal = J]
  BY DEF WithNodes
<1> HIDE DEF I, L, M, J
<1>4. LET e == [d EXCEPT !.issued = I, !.lifecycle = L, !.modified = M, !.journal = J]
      IN  /\ e \in Databases
          /\ e.revision = d.revision
          /\ e.issued = I /\ e.lifecycle = L /\ e.modified = M
          /\ e.properties = d.properties
          /\ e.relationships = d.relationships
          /\ e.propertyDefinitions = d.propertyDefinitions
          /\ e.relationshipDefinitions = d.relationshipDefinitions
          /\ e.journal = J
  BY <1>1, <1>2 DEF Databases
<1> QED
  BY <1>3, <1>4 DEF I, L, M, J, NodesFrame

FactFrame(d, e, n, k, fact, change) ==
    /\ e \in Databases
    /\ e.revision = d.revision
    /\ e.issued = d.issued
    /\ e.lifecycle = d.lifecycle
    /\ e.modified = [d.modified EXCEPT ![n] = d.revision]
    /\ e.properties = [d.properties EXCEPT ![n] = [d.properties[n] EXCEPT ![k] = fact]]
    /\ e.relationships = d.relationships
    /\ e.propertyDefinitions = d.propertyDefinitions
    /\ e.relationshipDefinitions = d.relationshipDefinitions
    /\ e.journal = d.journal \cup {NodeChange(d.revision, change, n, k)}

LEMMA FactEffect ==
    ASSUME NEW d \in Databases, NEW n \in NodeIds, NEW k \in PropertyKeys,
           NEW fact \in Facts, NEW change \in NodeChangeKinds
    PROVE  FactFrame(d, WithFact(d, n, k, fact, change), n, k, fact, change)
<1> DEFINE P == [d.properties EXCEPT ![n] = [d.properties[n] EXCEPT ![k] = fact]]
           M == [d.modified EXCEPT ![n] = d.revision]
           J == d.journal \cup {NodeChange(d.revision, change, n, k)}
<1>1. /\ P \in [NodeIds -> [PropertyKeys -> Facts]]
      /\ M \in [NodeIds -> Nat]
  BY DatabaseFields
<1>2. J \in SUBSET Changes
  BY DatabaseFields, ChangeTypes
<1>3. WithFact(d, n, k, fact, change) =
        [d EXCEPT !.properties = P, !.modified = M, !.journal = J]
  BY DEF WithFact
<1> HIDE DEF P, M, J
<1>4. LET e == [d EXCEPT !.properties = P, !.modified = M, !.journal = J]
      IN  /\ e \in Databases
          /\ e.revision = d.revision /\ e.issued = d.issued /\ e.lifecycle = d.lifecycle
          /\ e.modified = M /\ e.properties = P
          /\ e.relationships = d.relationships
          /\ e.propertyDefinitions = d.propertyDefinitions
          /\ e.relationshipDefinitions = d.relationshipDefinitions
          /\ e.journal = J
  BY <1>1, <1>2 DEF Databases
<1> QED
  BY <1>3, <1>4 DEF P, M, J, FactFrame

RelationshipsFrame(d, e, s, k, t, relationships, change) ==
    /\ e \in Databases
    /\ e.revision = d.revision
    /\ e.issued = d.issued
    /\ e.lifecycle = d.lifecycle
    /\ e.modified = [n \in NodeIds |->
           IF n \in {s, t} /\ d.lifecycle[n] # "none"
           THEN d.revision ELSE d.modified[n]]
    /\ e.properties = d.properties
    /\ e.relationships = relationships
    /\ e.propertyDefinitions = d.propertyDefinitions
    /\ e.relationshipDefinitions = d.relationshipDefinitions
    /\ e.journal = d.journal \cup {RelationshipChange(d.revision, change, s, k, t)}

LEMMA RelationshipsEffect ==
    ASSUME NEW d \in Databases, NEW s \in NodeIds, NEW k \in RelationshipKeys, NEW t \in NodeIds,
           NEW relationships \in SUBSET Relationships, NEW change \in RelationshipChangeKinds
    PROVE  RelationshipsFrame(d, WithRelationships(d, relationships, change, s, k, t), s, k, t, relationships, change)
<1> DEFINE M == [n \in NodeIds |-> IF n \in {s, t} /\ d.lifecycle[n] # "none"
                                   THEN d.revision ELSE d.modified[n]]
           J == d.journal \cup {RelationshipChange(d.revision, change, s, k, t)}
<1>1. M \in [NodeIds -> Nat]
  BY DatabaseFields
<1>2. J \in SUBSET Changes
  BY DatabaseFields, ChangeTypes
<1>3. WithRelationships(d, relationships, change, s, k, t) =
        [d EXCEPT !.relationships = relationships, !.modified = M, !.journal = J]
  BY DEF WithRelationships
<1> HIDE DEF M, J
<1>4. LET e == [d EXCEPT !.relationships = relationships, !.modified = M, !.journal = J]
      IN  /\ e \in Databases
          /\ e.revision = d.revision /\ e.issued = d.issued /\ e.lifecycle = d.lifecycle
          /\ e.modified = M /\ e.properties = d.properties
          /\ e.relationships = relationships
          /\ e.propertyDefinitions = d.propertyDefinitions
          /\ e.relationshipDefinitions = d.relationshipDefinitions
          /\ e.journal = J
  BY <1>1, <1>2 DEF Databases
<1> QED
  BY <1>3, <1>4 DEF M, J, RelationshipsFrame

LifecycleFrame(d, e, n, state, change) ==
    /\ e \in Databases
    /\ e.revision = d.revision
    /\ e.issued = d.issued
    /\ e.lifecycle = [d.lifecycle EXCEPT ![n] = state]
    /\ e.modified = [d.modified EXCEPT ![n] = d.revision]
    /\ e.properties = d.properties
    /\ e.relationships = d.relationships
    /\ e.propertyDefinitions = d.propertyDefinitions
    /\ e.relationshipDefinitions = d.relationshipDefinitions
    /\ e.journal = d.journal \cup {NodeChange(d.revision, change, n, None)}

LEMMA LifecycleEffect ==
    ASSUME NEW d \in Databases, NEW n \in NodeIds, NEW state \in Lifecycles,
           NEW change \in NodeChangeKinds
    PROVE  LifecycleFrame(d, WithLifecycle(d, n, state, change), n, state, change)
<1> DEFINE L == [d.lifecycle EXCEPT ![n] = state]
           M == [d.modified EXCEPT ![n] = d.revision]
           J == d.journal \cup {NodeChange(d.revision, change, n, None)}
<1>1. /\ L \in [NodeIds -> Lifecycles]
      /\ M \in [NodeIds -> Nat]
  BY DatabaseFields
<1>2. J \in SUBSET Changes
  BY DatabaseFields, ChangeTypes
<1>3. WithLifecycle(d, n, state, change) =
        [d EXCEPT !.lifecycle = L, !.modified = M, !.journal = J]
  BY DEF WithLifecycle
<1> HIDE DEF L, M, J
<1>4. LET e == [d EXCEPT !.lifecycle = L, !.modified = M, !.journal = J]
      IN  /\ e \in Databases
          /\ e.revision = d.revision /\ e.issued = d.issued /\ e.lifecycle = L
          /\ e.modified = M /\ e.properties = d.properties
          /\ e.relationships = d.relationships
          /\ e.propertyDefinitions = d.propertyDefinitions
          /\ e.relationshipDefinitions = d.relationshipDefinitions
          /\ e.journal = J
  BY <1>1, <1>2 DEF Databases
<1> QED
  BY <1>3, <1>4 DEF L, M, J, LifecycleFrame

PurgeFrame(d, e, n) ==
    /\ e \in Databases
    /\ e.revision = d.revision
    /\ e.issued = d.issued
    /\ e.lifecycle = [d.lifecycle EXCEPT ![n] = "none"]
    /\ e.modified = [d.modified EXCEPT ![n] = 0]
    /\ e.properties = [d.properties EXCEPT ![n] = [k \in PropertyKeys |-> NoFact]]
    /\ e.relationships = d.relationships
    /\ e.propertyDefinitions = d.propertyDefinitions
    /\ e.relationshipDefinitions = d.relationshipDefinitions
    /\ e.journal = d.journal \cup {NodeChange(d.revision, "node_purged", n, None)}

LEMMA PurgeEffect ==
    ASSUME NEW d \in Databases, NEW n \in NodeIds
    PROVE  PurgeFrame(d, WithoutNode(d, n), n)
<1> DEFINE L == [d.lifecycle EXCEPT ![n] = "none"]
           M == [d.modified EXCEPT ![n] = 0]
           P == [d.properties EXCEPT ![n] = [k \in PropertyKeys |-> NoFact]]
           J == d.journal \cup {NodeChange(d.revision, "node_purged", n, None)}
<1>1. /\ L \in [NodeIds -> Lifecycles]
      /\ M \in [NodeIds -> Nat]
  BY DatabaseFields DEF Lifecycles
<1>2. P \in [NodeIds -> [PropertyKeys -> Facts]]
  BY DatabaseFields DEF NoFact, Facts
<1>3. J \in SUBSET Changes
  BY DatabaseFields, ChangeTypes DEF NodeChangeKinds
<1>4. WithoutNode(d, n) =
        [d EXCEPT !.lifecycle = L, !.modified = M, !.properties = P, !.journal = J]
  BY DEF WithoutNode
<1> HIDE DEF L, M, P, J
<1>5. LET e == [d EXCEPT !.lifecycle = L, !.modified = M, !.properties = P, !.journal = J]
      IN  /\ e \in Databases
          /\ e.revision = d.revision /\ e.issued = d.issued /\ e.lifecycle = L
          /\ e.modified = M /\ e.properties = P
          /\ e.relationships = d.relationships
          /\ e.propertyDefinitions = d.propertyDefinitions
          /\ e.relationshipDefinitions = d.relationshipDefinitions
          /\ e.journal = J
  BY <1>1, <1>2, <1>3 DEF Databases
<1> QED
  BY <1>4, <1>5 DEF L, M, P, J, PurgeFrame

PropertyDefinitionFrame(d, e, k, definition) ==
    /\ e \in Databases
    /\ e.revision = d.revision
    /\ e.issued = d.issued
    /\ e.lifecycle = d.lifecycle
    /\ e.modified = d.modified
    /\ e.properties = d.properties
    /\ e.relationships = d.relationships
    /\ e.propertyDefinitions = [d.propertyDefinitions EXCEPT ![k] = definition]
    /\ e.relationshipDefinitions = d.relationshipDefinitions
    /\ e.journal = d.journal \cup
           {DefinitionChange(d.revision, "property_definition", k)}

LEMMA PropertyDefinitionEffect ==
    ASSUME NEW d \in Databases, NEW k \in PropertyKeys,
           NEW definition \in DefinitionsOf(PropertyKeys)
    PROVE  PropertyDefinitionFrame(d, WithPropertyDefinition(d, k, definition), k, definition)
<1> DEFINE D == [d.propertyDefinitions EXCEPT ![k] = definition]
           J == d.journal \cup {DefinitionChange(d.revision, "property_definition", k)}
<1>1. D \in [PropertyKeys -> DefinitionsOf(PropertyKeys)]
  BY DatabaseFields
<1>2. J \in SUBSET Changes
  BY DatabaseFields, ChangeTypes DEF DefinitionChangeKinds
<1>3. WithPropertyDefinition(d, k, definition) =
        [d EXCEPT !.propertyDefinitions = D, !.journal = J]
  BY DEF WithPropertyDefinition
<1> HIDE DEF D, J
<1>4. LET e == [d EXCEPT !.propertyDefinitions = D, !.journal = J]
      IN  /\ e \in Databases
          /\ e.revision = d.revision /\ e.issued = d.issued /\ e.lifecycle = d.lifecycle
          /\ e.modified = d.modified /\ e.properties = d.properties
          /\ e.relationships = d.relationships
          /\ e.propertyDefinitions = D
          /\ e.relationshipDefinitions = d.relationshipDefinitions
          /\ e.journal = J
  BY <1>1, <1>2 DEF Databases
<1> QED
  BY <1>3, <1>4 DEF D, J, PropertyDefinitionFrame

RelationshipDefinitionFrame(d, e, k, definition) ==
    /\ e \in Databases
    /\ e.revision = d.revision
    /\ e.issued = d.issued
    /\ e.lifecycle = d.lifecycle
    /\ e.modified = d.modified
    /\ e.properties = d.properties
    /\ e.relationships = d.relationships
    /\ e.propertyDefinitions = d.propertyDefinitions
    /\ e.relationshipDefinitions =
           [d.relationshipDefinitions EXCEPT ![k] = definition]
    /\ e.journal = d.journal \cup
           {DefinitionChange(d.revision, "relationship_definition", k)}

LEMMA RelationshipDefinitionEffect ==
    ASSUME NEW d \in Databases, NEW k \in RelationshipKeys,
           NEW definition \in DefinitionsOf(RelationshipKeys)
    PROVE  RelationshipDefinitionFrame(d, WithRelationshipDefinition(d, k, definition), k, definition)
<1> DEFINE D == [d.relationshipDefinitions EXCEPT ![k] = definition]
           J == d.journal \cup {DefinitionChange(d.revision, "relationship_definition", k)}
<1>1. D \in [RelationshipKeys -> DefinitionsOf(RelationshipKeys)]
  BY DatabaseFields
<1>2. J \in SUBSET Changes
  BY DatabaseFields, ChangeTypes DEF DefinitionChangeKinds
<1>3. WithRelationshipDefinition(d, k, definition) =
        [d EXCEPT !.relationshipDefinitions = D, !.journal = J]
  BY DEF WithRelationshipDefinition
<1> HIDE DEF D, J
<1>4. LET e == [d EXCEPT !.relationshipDefinitions = D, !.journal = J]
      IN  /\ e \in Databases
          /\ e.revision = d.revision /\ e.issued = d.issued /\ e.lifecycle = d.lifecycle
          /\ e.modified = d.modified /\ e.properties = d.properties
          /\ e.relationships = d.relationships
          /\ e.propertyDefinitions = d.propertyDefinitions
          /\ e.relationshipDefinitions = D
          /\ e.journal = J
  BY <1>1, <1>2 DEF Databases
<1> QED
  BY <1>3, <1>4 DEF D, J, RelationshipDefinitionFrame

PruneFrame(d, e, kept) ==
    /\ e \in Databases
    /\ e.revision = d.revision
    /\ e.issued = d.issued
    /\ e.lifecycle = d.lifecycle
    /\ e.modified = d.modified
    /\ e.properties = d.properties
    /\ e.relationships = d.relationships
    /\ e.propertyDefinitions = d.propertyDefinitions
    /\ e.relationshipDefinitions = d.relationshipDefinitions
    /\ e.journal = kept

LEMMA PruneEffect ==
    ASSUME NEW d \in Databases, NEW kept \in SUBSET d.journal
    PROVE  PruneFrame(d, [d EXCEPT !.journal = kept], kept)
<1>1. kept \in SUBSET Changes
  BY DatabaseFields
<1> QED
  BY <1>1 DEF Databases, PruneFrame

-----------------------------------------------------------------------------
(* Type correctness *)

LEMMA DefinitionTypes ==
    ASSUME NEW keys, NEW d \in DefinitionsOf(keys), NEW kind \in Kinds \cup {None},
           NEW r \in keys \cup {None}, NEW revision \in Nat
    PROVE  /\ Registered(kind, revision) \in DefinitionsOf(keys)
           /\ Updated(d, kind) \in DefinitionsOf(keys)
           /\ Deprecated(d, r) \in DefinitionsOf(keys)
           /\ NoDefinition \in DefinitionsOf(keys)
<1>1. Registered(kind, revision) \in DefinitionsOf(keys) /\ NoDefinition \in DefinitionsOf(keys)
  BY DEF Registered, NoDefinition, DefinitionsOf
<1>2. d.version \in Nat
  BY DEF DefinitionsOf
<1> DEFINE v == d.version + 1
<1>3. v \in Nat
  BY <1>2
<1>4. Updated(d, kind) = [d EXCEPT !.kind = kind, !.version = v]
  BY DEF Updated
<1>5. Deprecated(d, r) =
        [d EXCEPT !.state = "deprecated", !.replacement = r, !.version = v]
  BY DEF Deprecated
<1> HIDE DEF v
<1>6. [d EXCEPT !.kind = kind, !.version = v] \in DefinitionsOf(keys)
  BY <1>3 DEF DefinitionsOf
<1>7. [d EXCEPT !.state = "deprecated", !.replacement = r, !.version = v] \in DefinitionsOf(keys)
  BY <1>3 DEF DefinitionsOf
<1> QED
  BY <1>1, <1>4, <1>5, <1>6, <1>7

-----------------------------------------------------------------------------
(* The shape of a step: every step opens or ends a batch, prunes, or makes   *)
(* one write, in the open batch or in a transaction of its own.  Written     *)
(* collects the writes with their guards, so that each invariant below is    *)
(* shown to survive a write once.                                            *)

NodesWritten(d, e) ==
    \/ \E ids \in SUBSET NodeIds :
          ids # {} /\ ids \cap d.issued = {} /\ NodesFrame(d, e, ids)
    \/ \E n \in NodeIds : /\ d.lifecycle[n] = "active"
                          /\ LifecycleFrame(d, e, n, "tombstoned", "node_tombstoned")
    \/ \E n \in NodeIds : /\ d.lifecycle[n] = "tombstoned"
                          /\ LifecycleFrame(d, e, n, "active", "node_restored")
    \/ \E n \in NodeIds : d.lifecycle[n] = "tombstoned" /\ PurgeFrame(d, e, n)

FactWritten(d, e) ==
    \E n \in NodeIds, k \in PropertyKeys :
        /\ d.lifecycle[n] = "active"
        /\ \/ \E kind \in Kinds :
                  /\ PropertyAccepts(d, k, kind)
                  /\ FactFrame(d, e, n, k, [kind |-> kind, revision |-> d.revision],
                               "property_set")
           \/ FactFrame(d, e, n, k, NoFact, "property_removed")

RelationshipWritten(d, e) ==
    \E s \in NodeIds, k \in RelationshipKeys, t \in NodeIds :
        \/ /\ d.lifecycle[s] = "active" /\ d.lifecycle[t] = "active"
           /\ RelationshipsFrame(d, e, s, k, t, d.relationships \cup {<<s, k, t>>},
                                 "relationship_added")
        \/ RelationshipsFrame(d, e, s, k, t, d.relationships \ {<<s, k, t>>},
                              "relationship_removed")

PropertyDefinitionWritten(d, e) ==
    \E k \in PropertyKeys, definition \in DefinitionsOf(PropertyKeys) :
        /\ PropertyDefinitionFrame(d, e, k, definition)
        /\ \/ /\ d.propertyDefinitions[k].state = "none"
              /\ \E kind \in Kinds \cup {None} : definition = Registered(kind, d.revision)
           \/ /\ d.propertyDefinitions[k].state # "none"
              /\ \E kind \in Kinds \cup {None} :
                    /\ d.propertyDefinitions[k].kind = kind \/ PropertyUsage(d, k) = {}
                    /\ definition = Updated(d.propertyDefinitions[k], kind)
           \/ /\ d.propertyDefinitions[k].state # "none"
              /\ \E r \in PropertyKeys \cup {None} :
                    /\ ValidReplacement(d.propertyDefinitions, k, r)
                    /\ definition = Deprecated(d.propertyDefinitions[k], r)
           \/ /\ PropertyUsage(d, k) = {}
              /\ Replaced(d.propertyDefinitions, k) = {}
              /\ definition = NoDefinition

RelationshipDefinitionWritten(d, e) ==
    \E k \in RelationshipKeys, definition \in DefinitionsOf(RelationshipKeys) :
        /\ RelationshipDefinitionFrame(d, e, k, definition)
        /\ \/ /\ d.relationshipDefinitions[k].state = "none"
              /\ definition = Registered(None, d.revision)
           \/ /\ d.relationshipDefinitions[k].state # "none"
              /\ definition = Updated(d.relationshipDefinitions[k], None)
           \/ /\ d.relationshipDefinitions[k].state # "none"
              /\ \E r \in RelationshipKeys \cup {None} :
                    /\ ValidReplacement(d.relationshipDefinitions, k, r)
                    /\ definition = Deprecated(d.relationshipDefinitions[k], r)
           \/ /\ Replaced(d.relationshipDefinitions, k) = {}
              /\ definition = NoDefinition

\* One mutation of a batch; it writes no definition.
Mutated(d, e) ==
    \/ NodesWritten(d, e)
    \/ FactWritten(d, e)
    \/ RelationshipWritten(d, e)

Written(d, e) ==
    \/ Mutated(d, e)
    \/ PropertyDefinitionWritten(d, e)
    \/ RelationshipDefinitionWritten(d, e)

\* A write without what its operation has checked of definitions: what other
\* invariants need to know of it.
PropertyDefinitionStored(d, e) ==
    \E k \in PropertyKeys, definition \in DefinitionsOf(PropertyKeys) :
        PropertyDefinitionFrame(d, e, k, definition)

RelationshipDefinitionStored(d, e) ==
    \E k \in RelationshipKeys, definition \in DefinitionsOf(RelationshipKeys) :
        RelationshipDefinitionFrame(d, e, k, definition)

Stored(d, e) ==
    \/ Mutated(d, e)
    \/ PropertyDefinitionStored(d, e)
    \/ RelationshipDefinitionStored(d, e)

LEMMA WrittenIsStored ==
    ASSUME NEW d, NEW e, Written(d, e)
    PROVE  Stored(d, e)
<1>1. ASSUME PropertyDefinitionWritten(d, e) PROVE PropertyDefinitionStored(d, e)
  BY <1>1 DEF PropertyDefinitionWritten, PropertyDefinitionStored
<1>2. ASSUME RelationshipDefinitionWritten(d, e) PROVE RelationshipDefinitionStored(d, e)
  BY <1>2 DEF RelationshipDefinitionWritten, RelationshipDefinitionStored
<1> QED
  BY <1>1, <1>2 DEF Written, Stored

LEMMA StoredType ==
    ASSUME NEW d, NEW e, Stored(d, e)
    PROVE  e \in Databases /\ e.revision = d.revision
  BY DEF Stored, Mutated, NodesWritten, FactWritten, RelationshipWritten,
         PropertyDefinitionStored, RelationshipDefinitionStored, NodesFrame, LifecycleFrame,
         PurgeFrame, FactFrame, RelationshipsFrame, PropertyDefinitionFrame,
         RelationshipDefinitionFrame

Prunes(d, e) ==
    PruneFrame(d, e, {c \in d.journal : c.revision + Retention > d.revision})

LEMMA StepShape ==
    ASSUME TypeOK, [Next]_vars
    PROVE  \/ BeginBatch
           \/ CommitBatch
           \/ RollbackBatch
           \/ UNCHANGED vars
           \/ \E e : Mutate(e) /\ Mutated(work, e)
           \/ \E e : InOneTransaction(e) /\ Written(AtNextRevision(db), e)
           \/ \E e : InOneTransaction(e) /\ Prunes(db, e)
<1>0. /\ db \in Databases /\ db.revision \in Nat
      /\ work \in Databases /\ work.revision \in Nat
      /\ AtNextRevision(db) \in Databases
      /\ AtNextRevision(db).revision = db.revision + 1
  BY DatabaseFields, NextRevisionEffect DEF TypeOK
<1>1. CASE NodeMutation
  <2> PICK n \in NodeIds : CreateNode(n) \/ TombstoneNode(n) \/ RestoreNode(n) \/ PurgeNode(n)
    BY <1>1 DEF NodeMutation
  <2>0. /\ {"active", "tombstoned"} \subseteq Lifecycles
        /\ {"node_tombstoned", "node_restored"} \subseteq NodeChangeKinds
        /\ {n} \in SUBSET NodeIds /\ {n} # {}
    BY DEF Lifecycles, NodeChangeKinds
  <2>1. CASE CreateNode(n)
    <3>1. NodesFrame(work, WithNodes(work, {n}), {n})
      BY <1>0, <2>0, NodesEffect
    <3> QED
      BY <2>0, <2>1, <3>1 DEF CreateNode, Mutated, NodesWritten
  <2>2. CASE TombstoneNode(n)
    <3> DEFINE e == WithLifecycle(work, n, "tombstoned", "node_tombstoned")
    <3>1. LifecycleFrame(work, e, n, "tombstoned", "node_tombstoned")
      BY <1>0, <2>0, LifecycleEffect
    <3> QED
      BY <2>2, <3>1 DEF TombstoneNode, Mutated, NodesWritten
  <2>3. CASE RestoreNode(n)
    <3>1. LifecycleFrame(work, WithLifecycle(work, n, "active", "node_restored"),
                         n, "active", "node_restored")
      BY <1>0, <2>0, LifecycleEffect
    <3> QED
      BY <2>3, <3>1 DEF RestoreNode, Mutated, NodesWritten
  <2>4. CASE PurgeNode(n)
    <3>1. PurgeFrame(work, WithoutNode(work, n), n)
      BY <1>0, PurgeEffect
    <3> QED
      BY <2>4, <3>1 DEF PurgeNode, Mutated, NodesWritten
  <2> QED
    BY <2>1, <2>2, <2>3, <2>4
<1>2. CASE PropertyMutation
  <2> PICK n \in NodeIds, k \in PropertyKeys :
        (\E kind \in Kinds : SetProperty(n, k, kind)) \/ RemoveProperty(n, k)
    BY <1>2 DEF PropertyMutation
  <2>0. {"property_set", "property_removed"} \subseteq NodeChangeKinds
    BY DEF NodeChangeKinds
  <2>1. ASSUME NEW kind \in Kinds, SetProperty(n, k, kind)
        PROVE  \E e : Mutate(e) /\ Mutated(work, e)
    <3> DEFINE fact == [kind |-> kind, revision |-> work.revision]
    <3>1. fact \in Facts
      BY <1>0 DEF Facts
    <3>2. FactFrame(work, WithFact(work, n, k, fact, "property_set"), n, k, fact, "property_set")
      BY <1>0, <2>0, <3>1, FactEffect
    <3> QED
      BY <2>1, <3>2 DEF SetProperty, Mutated, FactWritten
  <2>2. CASE RemoveProperty(n, k)
    <3>1. NoFact \in Facts
      BY DEF NoFact, Facts
    <3>2. FactFrame(work, WithFact(work, n, k, NoFact, "property_removed"),
                    n, k, NoFact, "property_removed")
      BY <1>0, <2>0, <3>1, FactEffect
    <3> QED
      BY <2>2, <3>2 DEF RemoveProperty, Mutated, FactWritten
  <2> QED
    BY <2>1, <2>2
<1>3. CASE RelationshipMutation
  <2> PICK s \in NodeIds, t \in NodeIds, k \in RelationshipKeys :
        AddRelationship(s, k, t) \/ RemoveRelationship(s, k, t)
    BY <1>3 DEF RelationshipMutation
  <2> DEFINE more == work.relationships \cup {<<s, k, t>>}
             fewer == work.relationships \ {<<s, k, t>>}
  <2>1. /\ more \in SUBSET Relationships
        /\ fewer \in SUBSET Relationships
        /\ {"relationship_added", "relationship_removed"} \subseteq RelationshipChangeKinds
    BY <1>0, DatabaseFields DEF Relationships, RelationshipChangeKinds
  <2>2. CASE AddRelationship(s, k, t)
    <3>1. RelationshipsFrame(work, WithRelationships(work, more, "relationship_added", s, k, t),
                             s, k, t, more, "relationship_added")
      BY <1>0, <2>1, RelationshipsEffect
    <3> QED
      BY <2>2, <3>1 DEF AddRelationship, Mutated, RelationshipWritten
  <2>3. CASE RemoveRelationship(s, k, t)
    <3>1. RelationshipsFrame(work, WithRelationships(work, fewer, "relationship_removed", s, k, t),
                             s, k, t, fewer, "relationship_removed")
      BY <1>0, <2>1, RelationshipsEffect
    <3> QED
      BY <2>3, <3>1 DEF RemoveRelationship, Mutated, RelationshipWritten
  <2> QED
    BY <2>2, <2>3
<1>4. ASSUME NEW ids \in SUBSET NodeIds, CreateNodes(ids)
      PROVE  \E e : InOneTransaction(e) /\ Written(AtNextRevision(db), e)
  <2>1. ids \cap AtNextRevision(db).issued = {}
    BY <1>0, <1>4, NextRevisionEffect DEF CreateNodes
  <2>2. NodesFrame(AtNextRevision(db), WithNodes(AtNextRevision(db), ids), ids)
    BY <1>0, NodesEffect
  <2> QED
    BY <1>4, <2>1, <2>2 DEF CreateNodes, Written, Mutated, NodesWritten
<1>5. CASE PropertyDefinitionOperation
  <2> DEFINE d == AtNextRevision(db)
  <2> PICK k \in PropertyKeys :
        \/ \E kind \in Kinds \cup {None} :
               RegisterPropertyDefinition(k, kind) \/ UpdatePropertyDefinition(k, kind)
        \/ \E r \in PropertyKeys \cup {None} : DeprecatePropertyDefinition(k, r)
        \/ RemovePropertyDefinition(k)
    BY <1>5 DEF PropertyDefinitionOperation
  <2>0. /\ d.propertyDefinitions = db.propertyDefinitions
        /\ d.properties = db.properties
        /\ d.revision = db.revision + 1 /\ db.revision + 1 \in Nat
        /\ db.propertyDefinitions[k] \in DefinitionsOf(PropertyKeys)
    BY <1>0, NextRevisionEffect, DatabaseFields
  <2>1. PropertyUsage(d, k) = PropertyUsage(db, k)
    BY <2>0 DEF PropertyUsage
  <2> HIDE DEF d
  <2>2. ASSUME NEW definition \in DefinitionsOf(PropertyKeys),
               WritePropertyDefinition(k, definition),
               PropertyDefinitionFrame(d, WithPropertyDefinition(d, k, definition), k, definition)
                   => PropertyDefinitionWritten(d, WithPropertyDefinition(d, k, definition))
        PROVE  \E e : InOneTransaction(e) /\ Written(AtNextRevision(db), e)
    <3>1. PropertyDefinitionFrame(d, WithPropertyDefinition(d, k, definition), k, definition)
      BY <1>0, PropertyDefinitionEffect DEF d
    <3> QED
      BY <2>2, <3>1 DEF WritePropertyDefinition, Written, d
  <2>3. ASSUME NEW kind \in Kinds \cup {None}, RegisterPropertyDefinition(k, kind)
        PROVE  \E e : InOneTransaction(e) /\ Written(AtNextRevision(db), e)
    <3>1. Registered(kind, db.revision + 1) \in DefinitionsOf(PropertyKeys)
      BY <2>0, DefinitionTypes
    <3> QED
      BY <2>0, <2>2, <2>3, <3>1 DEF RegisterPropertyDefinition, PropertyDefinitionWritten
  <2>4. ASSUME NEW kind \in Kinds \cup {None}, UpdatePropertyDefinition(k, kind)
        PROVE  \E e : InOneTransaction(e) /\ Written(AtNextRevision(db), e)
    <3>1. Updated(db.propertyDefinitions[k], kind) \in DefinitionsOf(PropertyKeys)
      BY <2>0, DefinitionTypes
    <3> QED
      BY <2>0, <2>1, <2>2, <2>4, <3>1 DEF UpdatePropertyDefinition, PropertyDefinitionWritten
  <2>5. ASSUME NEW r \in PropertyKeys \cup {None}, DeprecatePropertyDefinition(k, r)
        PROVE  \E e : InOneTransaction(e) /\ Written(AtNextRevision(db), e)
    <3>1. Deprecated(db.propertyDefinitions[k], r) \in DefinitionsOf(PropertyKeys)
      BY <2>0, DefinitionTypes
    <3> QED
      BY <2>0, <2>2, <2>5, <3>1 DEF DeprecatePropertyDefinition, PropertyDefinitionWritten
  <2>6. ASSUME RemovePropertyDefinition(k)
        PROVE  \E e : InOneTransaction(e) /\ Written(AtNextRevision(db), e)
    <3>1. NoDefinition \in DefinitionsOf(PropertyKeys)
      BY DEF NoDefinition, DefinitionsOf
    <3> QED
      BY <2>0, <2>1, <2>2, <2>6, <3>1 DEF RemovePropertyDefinition, PropertyDefinitionWritten
  <2> QED
    BY <2>3, <2>4, <2>5, <2>6
<1>6. CASE RelationshipDefinitionOperation
  <2> DEFINE d == AtNextRevision(db)
  <2> PICK k \in RelationshipKeys :
        \/ RegisterRelationshipDefinition(k) \/ UpdateRelationshipDefinition(k)
        \/ \E r \in RelationshipKeys \cup {None} : DeprecateRelationshipDefinition(k, r)
        \/ RemoveRelationshipDefinition(k)
    BY <1>6 DEF RelationshipDefinitionOperation
  <2>0. /\ d.relationshipDefinitions = db.relationshipDefinitions
        /\ d.revision = db.revision + 1 /\ db.revision + 1 \in Nat
        /\ db.relationshipDefinitions[k] \in DefinitionsOf(RelationshipKeys)
    BY <1>0, NextRevisionEffect, DatabaseFields
  <2> HIDE DEF d
  <2>2. ASSUME NEW definition \in DefinitionsOf(RelationshipKeys),
               WriteRelationshipDefinition(k, definition),
               RelationshipDefinitionFrame(d, WithRelationshipDefinition(d, k, definition), k, definition)
                   => RelationshipDefinitionWritten(d, WithRelationshipDefinition(d, k, definition))
        PROVE  \E e : InOneTransaction(e) /\ Written(AtNextRevision(db), e)
    <3>1. RelationshipDefinitionFrame(d, WithRelationshipDefinition(d, k, definition), k, definition)
      BY <1>0, RelationshipDefinitionEffect DEF d
    <3> QED
      BY <2>2, <3>1 DEF WriteRelationshipDefinition, Written, d
  <2>3. ASSUME RegisterRelationshipDefinition(k)
        PROVE  \E e : InOneTransaction(e) /\ Written(AtNextRevision(db), e)
    <3>1. Registered(None, db.revision + 1) \in DefinitionsOf(RelationshipKeys)
      BY <2>0, DefinitionTypes
    <3> QED
      BY <2>0, <2>2, <2>3, <3>1 DEF RegisterRelationshipDefinition, RelationshipDefinitionWritten
  <2>4. ASSUME UpdateRelationshipDefinition(k)
        PROVE  \E e : InOneTransaction(e) /\ Written(AtNextRevision(db), e)
    <3>1. Updated(db.relationshipDefinitions[k], None) \in DefinitionsOf(RelationshipKeys)
      BY <2>0, DefinitionTypes
    <3> QED
      BY <2>0, <2>2, <2>4, <3>1 DEF UpdateRelationshipDefinition, RelationshipDefinitionWritten
  <2>5. ASSUME NEW r \in RelationshipKeys \cup {None}, DeprecateRelationshipDefinition(k, r)
        PROVE  \E e : InOneTransaction(e) /\ Written(AtNextRevision(db), e)
    <3>1. Deprecated(db.relationshipDefinitions[k], r) \in DefinitionsOf(RelationshipKeys)
      BY <2>0, DefinitionTypes
    <3> QED
      BY <2>0, <2>2, <2>5, <3>1 DEF DeprecateRelationshipDefinition, RelationshipDefinitionWritten
  <2>6. ASSUME RemoveRelationshipDefinition(k)
        PROVE  \E e : InOneTransaction(e) /\ Written(AtNextRevision(db), e)
    <3>1. NoDefinition \in DefinitionsOf(RelationshipKeys)
      BY DEF NoDefinition, DefinitionsOf
    <3> QED
      BY <2>0, <2>2, <2>6, <3>1 DEF RemoveRelationshipDefinition, RelationshipDefinitionWritten
  <2> QED
    BY <2>3, <2>4, <2>5, <2>6
<1>7. CASE PruneChangeJournal
  <2> DEFINE kept == {c \in db.journal : c.revision >= db.revision - Retention + 1}
  <2>1. \A c \in db.journal : c.revision \in Nat
    BY <1>0, DatabaseFields DEF Changes
  <2>2. kept = {c \in db.journal : c.revision + Retention > db.revision}
    BY <1>0, <2>1, RetentionAssumption
  <2>3. kept \in SUBSET db.journal
    OBVIOUS
  <2>4. PruneFrame(db, [db EXCEPT !.journal = kept], kept)
    BY <1>0, <2>3, PruneEffect
  <2> QED
    BY <1>7, <2>2, <2>4 DEF PruneChangeJournal, Prunes
<1> QED
  BY <1>1, <1>2, <1>3, <1>4, <1>5, <1>6, <1>7 DEF Next

StoredStep ==
    \/ BeginBatch \/ CommitBatch \/ RollbackBatch \/ UNCHANGED vars
    \/ \E e : Mutate(e) /\ Mutated(work, e)
    \/ \E e : InOneTransaction(e) /\ Stored(AtNextRevision(db), e)
    \/ \E e : InOneTransaction(e) /\ Prunes(db, e)

LEMMA NextIsStoredStep == TypeOK /\ [Next]_vars => StoredStep
<1> SUFFICES ASSUME TypeOK, [Next]_vars
             PROVE  StoredStep
  OBVIOUS
<1>1. ASSUME NEW e, InOneTransaction(e), Written(AtNextRevision(db), e)
      PROVE  StoredStep
  <2>1. Stored(AtNextRevision(db), e)
    BY <1>1, WrittenIsStored
  <2> QED
    BY <1>1, <2>1 DEF StoredStep
<1> QED
  BY <1>1, StepShape DEF StoredStep

LEMMA TypeStep == TypeOK /\ StoredStep => TypeOK'
<1> SUFFICES ASSUME TypeOK, StoredStep
             PROVE  TypeOK'
  OBVIOUS
<1>0. /\ db \in Databases /\ work \in Databases /\ AtNextRevision(db) \in Databases
      /\ ordinal \in Nat /\ txn \in {"none", "open"}
  BY NextRevisionEffect DEF TypeOK
<1>1. ASSUME BeginBatch \/ CommitBatch \/ RollbackBatch \/ UNCHANGED vars
      PROVE  TypeOK'
  BY <1>0, <1>1 DEF BeginBatch, CommitBatch, RollbackBatch, vars, TypeOK
<1>2. ASSUME NEW e, Mutate(e), Mutated(work, e)
      PROVE  TypeOK'
  BY <1>0, <1>2, StoredType DEF Mutate, Stored, TypeOK
<1>3. ASSUME NEW e, InOneTransaction(e), Stored(AtNextRevision(db), e)
      PROVE  TypeOK'
  BY <1>0, <1>3, StoredType DEF InOneTransaction, TypeOK
<1>4. ASSUME NEW e, InOneTransaction(e), Prunes(db, e)
      PROVE  TypeOK'
  BY <1>0, <1>4 DEF InOneTransaction, Prunes, PruneFrame, TypeOK
<1> QED
  BY <1>1, <1>2, <1>3, <1>4 DEF StoredStep

\* What is committed, and what a transaction sees, is always a database of the
\* schema, for every set of identities, keys and kinds.
THEOREM TypeCorrect == Spec => []TypeOK
<1>1. Init => TypeOK
  BY EmptyType DEF Init, TypeOK
<1> QED
  BY <1>1, NextIsStoredStep, TypeStep, PTL DEF Spec

-----------------------------------------------------------------------------
(* Consistency of the tables *)

LEMMA ChangeRevisions ==
    \A r, kind, n, k, t : /\ NodeChange(r, kind, n, k).revision = r
                          /\ RelationshipChange(r, kind, n, k, t).revision = r
                          /\ DefinitionChange(r, kind, k).revision = r
  BY DEF NodeChange, RelationshipChange, DefinitionChange

LEMMA StoredConsistent ==
    ASSUME NEW d \in Databases, NEW e, Stored(d, e), Consistent(d)
    PROVE  Consistent(e)
<1>0. /\ d.revision \in Nat /\ d.modified \in [NodeIds -> Nat]
      /\ d.lifecycle \in [NodeIds -> Lifecycles] /\ d.issued \in SUBSET NodeIds
      /\ d.properties \in [NodeIds -> [PropertyKeys -> Facts]]
      /\ d.relationships \in SUBSET Relationships
      /\ \A n \in NodeIds, k \in PropertyKeys : d.properties[n][k].revision \in Nat
      /\ NoFact.kind = None /\ NoFact.revision = 0
  BY DatabaseFields DEF NoFact, Facts
<1>1. CASE NodesWritten(d, e)
  <2>1. ASSUME NEW ids \in SUBSET NodeIds, NodesFrame(d, e, ids) PROVE Consistent(e)
    <3>1. \A c \in e.journal : c \in d.journal \/ c.revision = d.revision
      BY <2>1, ChangeRevisions DEF NodesFrame
    <3> QED
      BY <1>0, <2>1, <3>1 DEF Consistent, NodesFrame
  <2>2. ASSUME NEW n \in NodeIds, NEW state \in Lifecycles, NEW change,
               state # "none", d.lifecycle[n] # "none", LifecycleFrame(d, e, n, state, change)
        PROVE  Consistent(e)
    <3>1. \A c \in e.journal : c \in d.journal \/ c.revision = d.revision
      BY <2>2, ChangeRevisions DEF LifecycleFrame
    <3>2. /\ e.revision = d.revision /\ e.issued = d.issued
          /\ e.properties = d.properties /\ e.relationships = d.relationships
          /\ \A m \in NodeIds : e.lifecycle[m] # "none" <=> d.lifecycle[m] # "none"
      BY <1>0, <2>2 DEF LifecycleFrame
    <3>3. \A m \in NodeIds : e.modified[m] \in {d.modified[m], d.revision}
      BY <1>0, <2>2 DEF LifecycleFrame
    <3>4. /\ \A m \in NodeIds : e.modified[m] <= e.revision
          /\ \A m \in NodeIds : d.modified[m] <= e.modified[m]
          /\ \A m \in NodeIds : e.modified[m] \in Nat
      <4>1. \A m \in NodeIds : d.modified[m] \in Nat /\ d.modified[m] <= d.revision
        BY <1>0 DEF Consistent
      <4>2. \A m \in NodeIds :
              /\ e.modified[m] <= d.revision /\ d.modified[m] <= e.modified[m]
              /\ e.modified[m] \in Nat
        <5> TAKE m \in NodeIds
        <5>1. CASE e.modified[m] = d.modified[m]
          BY <4>1, <5>1
        <5>2. CASE e.modified[m] = d.revision
          BY <1>0, <4>1, <5>2
        <5> QED
          BY <3>3, <5>1, <5>2
      <4> QED
        BY <3>2, <4>2
    <3>5. \A m \in NodeIds, k \in PropertyKeys : d.properties[m][k].revision <= e.modified[m]
      <4>1. \A m \in NodeIds, k \in PropertyKeys : d.properties[m][k].revision <= d.modified[m]
        BY DEF Consistent
      <4> QED
        BY <1>0, <3>4, <4>1
    <3>6. /\ \A m \in NodeIds : e.lifecycle[m] # "none" => m \in e.issued
          /\ \A x \in e.relationships : {x[1], x[3]} \subseteq e.issued
          /\ \A m \in NodeIds, k \in PropertyKeys :
                 e.properties[m][k].kind # None => e.lifecycle[m] # "none"
      BY <3>2 DEF Consistent
    <3>7. \A c \in e.journal : c.revision <= e.revision
      BY <1>0, <3>1, <3>2 DEF Consistent
    <3> QED
      BY <3>2, <3>4, <3>5, <3>6, <3>7 DEF Consistent
  <2>3. ASSUME NEW n \in NodeIds, PurgeFrame(d, e, n) PROVE Consistent(e)
    <3>1. \A c \in e.journal : c \in d.journal \/ c.revision = d.revision
      BY <2>3, ChangeRevisions DEF PurgeFrame
    <3> QED
      BY <1>0, <2>3, <3>1 DEF Consistent, PurgeFrame
  <2> QED
    BY <1>1, <2>1, <2>2, <2>3 DEF NodesWritten, Lifecycles
<1>2. CASE FactWritten(d, e)
  <2>1. PICK n, k, fact, change :
          /\ n \in NodeIds /\ k \in PropertyKeys
          /\ FactFrame(d, e, n, k, fact, change)
          /\ d.lifecycle[n] = "active"
          /\ fact.revision <= d.revision
    <3>1. PICK n \in NodeIds, k \in PropertyKeys :
            /\ d.lifecycle[n] = "active"
            /\ \/ \E kind \in Kinds :
                      FactFrame(d, e, n, k, [kind |-> kind, revision |-> d.revision],
                                "property_set")
               \/ FactFrame(d, e, n, k, NoFact, "property_removed")
      BY <1>2 DEF FactWritten
    <3>2. ASSUME NEW kind \in Kinds
          PROVE  [kind |-> kind, revision |-> d.revision].revision <= d.revision
      BY <1>0
    <3>3. NoFact.revision <= d.revision
      BY <1>0
    <3> QED
      BY <3>1, <3>2, <3>3
  <2>2. \A c \in e.journal : c \in d.journal \/ c.revision = d.revision
    BY <2>1, ChangeRevisions DEF FactFrame
  <2> QED
    BY <1>0, <2>1, <2>2 DEF Consistent, FactFrame
<1>3. CASE RelationshipWritten(d, e)
  <2>1. PICK s, k, t, relationships, change :
          /\ s \in NodeIds /\ k \in RelationshipKeys /\ t \in NodeIds
          /\ RelationshipsFrame(d, e, s, k, t, relationships, change)
          /\ \A x \in relationships : x \in d.relationships \/
                (x = <<s, k, t>> /\ d.lifecycle[s] = "active" /\ d.lifecycle[t] = "active")
    BY <1>3 DEF RelationshipWritten
  <2>2. \A c \in e.journal : c \in d.journal \/ c.revision = d.revision
    BY <2>1, ChangeRevisions DEF RelationshipsFrame
  <2>3. \A x \in e.relationships : {x[1], x[3]} \subseteq e.issued
    BY <2>1 DEF RelationshipsFrame, Consistent
  <2> QED
    BY <1>0, <2>1, <2>2, <2>3 DEF Consistent, RelationshipsFrame
<1>4. CASE PropertyDefinitionStored(d, e)
  <2>1. PICK k, definition :
          k \in PropertyKeys /\ PropertyDefinitionFrame(d, e, k, definition)
    BY <1>4 DEF PropertyDefinitionStored
  <2>2. \A c \in e.journal : c \in d.journal \/ c.revision = d.revision
    BY <2>1, ChangeRevisions DEF PropertyDefinitionFrame
  <2> QED
    BY <1>0, <2>1, <2>2 DEF Consistent, PropertyDefinitionFrame
<1>5. CASE RelationshipDefinitionStored(d, e)
  <2>1. PICK k, definition :
          k \in RelationshipKeys /\ RelationshipDefinitionFrame(d, e, k, definition)
    BY <1>5 DEF RelationshipDefinitionStored
  <2>2. \A c \in e.journal : c \in d.journal \/ c.revision = d.revision
    BY <2>1, ChangeRevisions DEF RelationshipDefinitionFrame
  <2> QED
    BY <1>0, <2>1, <2>2 DEF Consistent, RelationshipDefinitionFrame
<1> QED
  BY <1>1, <1>2, <1>3, <1>4, <1>5 DEF Stored, Mutated

LEMMA NextRevisionConsistent ==
    ASSUME NEW d \in Databases, Consistent(d)
    PROVE  Consistent(AtNextRevision(d))
<1>1. /\ d.revision \in Nat /\ d.modified \in [NodeIds -> Nat]
      /\ \A c \in d.journal : c.revision \in Nat
  BY DatabaseFields DEF Changes
<1> QED
  BY <1>1, NextRevisionEffect DEF Consistent

-----------------------------------------------------------------------------
(* Transactions *)

\* How a transaction's view e may differ from the database d it began in: one
\* revision ahead, no identity given back or brought back, and the journal
\* extended under the new revision only.
Follows(d, e) ==
    /\ e.revision = d.revision + 1
    /\ d.issued \subseteq e.issued
    /\ \A n \in d.issued : d.lifecycle[n] = "none" => e.lifecycle[n] = "none"
    /\ d.journal \subseteq e.journal
    /\ \A c \in e.journal : c \in d.journal \/ c.revision = e.revision

\* The current revision has a row in the journal.
Journalled(d) == \E c \in d.journal : c.revision = d.revision

LEMMA FollowsFirst ==
    ASSUME NEW d \in Databases
    PROVE  Follows(d, AtNextRevision(d))
  BY NextRevisionEffect DEF Follows

\* What one write does to the journal.
LEMMA StoredJournal ==
    ASSUME NEW d \in Databases, NEW e, Stored(d, e)
    PROVE  /\ d.journal \subseteq e.journal
           /\ \A c \in e.journal : c \in d.journal \/ c.revision = d.revision
           /\ Journalled(e)
<1> DEFINE Extended ==
             /\ d.journal \subseteq e.journal
             /\ \A c \in e.journal : c \in d.journal \/ c.revision = d.revision
             /\ Journalled(e)
<1> SUFFICES Extended
  OBVIOUS
<1>1. ASSUME NEW row, row.revision = d.revision,
             e.revision = d.revision, e.journal = d.journal \cup {row}
      PROVE  Extended
  BY <1>1 DEF Journalled
<1>2. CASE NodesWritten(d, e)
  <2>1. ASSUME NEW ids \in SUBSET NodeIds, ids # {}, NodesFrame(d, e, ids)
        PROVE  Extended
    <3> DEFINE rows == {NodeChange(d.revision, "node_created", n, None) : n \in ids}
    <3>1. rows # {} /\ \A c \in rows : c.revision = d.revision
      BY <2>1, ChangeRevisions
    <3>2. e.revision = d.revision /\ e.journal = d.journal \cup rows
      BY <2>1 DEF NodesFrame
    <3> HIDE DEF rows
    <3> QED
      BY <3>1, <3>2 DEF Journalled
  <2>2. ASSUME NEW n, NEW state, NEW change, LifecycleFrame(d, e, n, state, change)
        PROVE  Extended
    <3> HIDE DEF Extended
    <3> QED
      BY <1>1, <2>2, ChangeRevisions DEF LifecycleFrame
  <2>3. ASSUME NEW n, PurgeFrame(d, e, n)
        PROVE  Extended
    <3> HIDE DEF Extended
    <3> QED
      BY <1>1, <2>3, ChangeRevisions DEF PurgeFrame
  <2> HIDE DEF Extended
  <2> QED
    BY <1>2, <2>1, <2>2, <2>3 DEF NodesWritten
<1> HIDE DEF Extended
<1>4. CASE FactWritten(d, e)
  <2>1. PICK n, k, fact, change : FactFrame(d, e, n, k, fact, change)
    BY <1>4 DEF FactWritten
  <2> QED
    BY <1>1, <2>1, ChangeRevisions DEF FactFrame
<1>5. CASE RelationshipWritten(d, e)
  BY <1>1, <1>5, ChangeRevisions DEF RelationshipWritten, RelationshipsFrame
<1>6. CASE PropertyDefinitionStored(d, e)
  BY <1>1, <1>6, ChangeRevisions DEF PropertyDefinitionStored, PropertyDefinitionFrame
<1>7. CASE RelationshipDefinitionStored(d, e)
  BY <1>1, <1>7, ChangeRevisions DEF RelationshipDefinitionStored, RelationshipDefinitionFrame
<1> QED
  BY <1>2, <1>4, <1>5, <1>6, <1>7 DEF Stored, Mutated

\* What one write does to identities: a Node is only created under a UUID never
\* issued, and only a Node that is there changes its state.
LEMMA StoredIdentities ==
    ASSUME NEW d \in Databases, NEW e, Stored(d, e)
    PROVE  /\ d.issued \subseteq e.issued
           /\ \A n \in d.issued : d.lifecycle[n] = "none" => e.lifecycle[n] = "none"
<1>0. d.lifecycle \in [NodeIds -> Lifecycles] /\ d.issued \in SUBSET NodeIds
  BY DatabaseFields
<1>1. CASE NodesWritten(d, e)
  BY <1>0, <1>1 DEF NodesWritten, NodesFrame, LifecycleFrame, PurgeFrame
<1>2. CASE FactWritten(d, e)
  BY <1>2 DEF FactWritten, FactFrame
<1>3. CASE RelationshipWritten(d, e)
  BY <1>3 DEF RelationshipWritten, RelationshipsFrame
<1>4. CASE PropertyDefinitionStored(d, e)
  BY <1>4 DEF PropertyDefinitionStored, PropertyDefinitionFrame
<1>5. CASE RelationshipDefinitionStored(d, e)
  BY <1>5 DEF RelationshipDefinitionStored, RelationshipDefinitionFrame
<1> QED
  BY <1>1, <1>2, <1>3, <1>4, <1>5 DEF Stored, Mutated

LEMMA FollowsStep ==
    ASSUME NEW d \in Databases, NEW w \in Databases, NEW e, Follows(d, w), Stored(w, e)
    PROVE  Follows(d, e) /\ Journalled(e)
<1>1. e.revision = w.revision
  BY StoredType
<1> QED
  BY <1>1, StoredJournal, StoredIdentities DEF Follows

\* The inductive invariant: both views are consistent; the transaction's is the
\* committed one when none is open, and follows it while one is; and a mutation
\* has left a row in the journal.
Inductive ==
    /\ TypeOK
    /\ Consistent(db)
    /\ Consistent(work)
    /\ txn = "none" => work = db /\ ordinal = 0
    /\ txn = "open" => Follows(db, work)
    /\ txn = "open" /\ ordinal > 0 => Journalled(work)

LEMMA InductiveInit == Init => Inductive
<1> SUFFICES ASSUME Init PROVE Inductive
  OBVIOUS
<1>1. TypeOK
  BY EmptyType DEF Init, TypeOK
<1>2. Consistent(EmptyDatabase)
  BY DEF Consistent, EmptyDatabase, NoFact
<1> QED
  BY <1>1, <1>2 DEF Init, Inductive

LEMMA InductiveStep == Inductive /\ StoredStep => Inductive'
<1> SUFFICES ASSUME Inductive, StoredStep
             PROVE  Inductive'
  OBVIOUS
<1>0. /\ db \in Databases /\ work \in Databases /\ AtNextRevision(db) \in Databases
      /\ Consistent(AtNextRevision(db)) /\ Follows(db, AtNextRevision(db))
      /\ ordinal \in Nat
      /\ TypeOK'
  BY NextRevisionEffect, NextRevisionConsistent, FollowsFirst, TypeStep DEF Inductive, TypeOK
<1>1. ASSUME BeginBatch \/ CommitBatch \/ RollbackBatch \/ UNCHANGED vars
      PROVE  Inductive'
  <2>1. CASE BeginBatch
    <3>1. ordinal' = ordinal /\ db' = db /\ work' = AtNextRevision(db) /\ txn' = "open"
      BY <2>1 DEF BeginBatch
    <3>2. ordinal = 0
      BY <2>1 DEF BeginBatch, Inductive
    <3> QED
      BY <1>0, <3>1, <3>2 DEF Inductive
  <2>2. CASE CommitBatch \/ RollbackBatch \/ UNCHANGED vars
    BY <1>0, <2>2 DEF CommitBatch, RollbackBatch, vars, Inductive
  <2> QED
    BY <1>1, <2>1, <2>2
<1>2. ASSUME NEW e, Mutate(e), Mutated(work, e)
      PROVE  Inductive'
  <2>1. Stored(work, e)
    BY <1>2 DEF Stored
  <2>2. Consistent(e) /\ Follows(db, e) /\ Journalled(e)
    BY <1>0, <1>2, <2>1, StoredConsistent, FollowsStep DEF Mutate, Inductive
  <2> QED
    BY <1>0, <1>2, <2>2 DEF Mutate, Inductive
<1>3. ASSUME NEW e, InOneTransaction(e), Stored(AtNextRevision(db), e)
      PROVE  Inductive'
  BY <1>0, <1>3, StoredConsistent DEF InOneTransaction, Inductive
<1>4. ASSUME NEW e, InOneTransaction(e), Prunes(db, e)
      PROVE  Inductive'
  <2>1. Consistent(e)
    BY <1>0, <1>4 DEF Prunes, PruneFrame, Consistent, Inductive
  <2> QED
    BY <1>0, <1>4, <2>1 DEF InOneTransaction, Inductive
<1> QED
  BY <1>1, <1>2, <1>3, <1>4 DEF StoredStep

LEMMA InductiveInvariant == Spec => []Inductive
<1>1. Inductive /\ [Next]_vars => StoredStep
  BY NextIsStoredStep DEF Inductive
<1> QED
  BY <1>1, InductiveInit, InductiveStep, PTL DEF Spec

\* Committed tables always agree with one another: live Nodes and relationship
\* ends are issued, properties have live owners no older than themselves, and
\* no stamp is ahead of the current revision.
THEOREM Consistency == Spec => []StoreConsistent
<1>1. Inductive => StoreConsistent
  BY DEF Inductive, StoreConsistent
<1> QED
  BY <1>1, InductiveInvariant, PTL

\* What a step does to the committed database.
LEMMA CommitShape ==
    ASSUME Inductive, StoredStep
    PROVE  \/ db' = db
           \/ Prunes(db, db')
           \/ Follows(db, db') /\ Journalled(db')
<1>0. /\ db \in Databases /\ AtNextRevision(db) \in Databases
      /\ Follows(db, AtNextRevision(db))
  BY NextRevisionEffect, FollowsFirst DEF Inductive, TypeOK
<1>1. CASE BeginBatch \/ RollbackBatch \/ UNCHANGED vars
  BY <1>1 DEF BeginBatch, RollbackBatch, vars
<1>2. CASE CommitBatch
  BY <1>2 DEF CommitBatch, Inductive
<1>3. ASSUME NEW e, Mutate(e)
      PROVE  db' = db
  BY <1>3 DEF Mutate
<1>4. ASSUME NEW e, InOneTransaction(e), Stored(AtNextRevision(db), e)
      PROVE  Follows(db, db') /\ Journalled(db')
  BY <1>0, <1>4, FollowsStep DEF InOneTransaction
<1>5. ASSUME NEW e, InOneTransaction(e), Prunes(db, e)
      PROVE  Prunes(db, db')
  BY <1>5 DEF InOneTransaction
<1> QED
  BY <1>1, <1>2, <1>3, <1>4, <1>5 DEF StoredStep

-----------------------------------------------------------------------------
(* Identities *)

LEMMA FollowsLedger ==
    ASSUME NEW d \in Databases, NEW e \in Databases, Consistent(d), Consistent(e), Follows(d, e),
           NEW n \in NodeIds
    PROVE  ResolveIdentity(e, n) \in Ledger!Reachable(ResolveIdentity(d, n))
<1>1. ASSUME NEW x \in Databases, Consistent(x)
      PROVE  \/ /\ ResolveIdentity(x, n) = "NeverIssued" /\ n \notin x.issued
             \/ /\ ResolveIdentity(x, n) \in {"Active", "Tombstoned"}
                /\ n \in x.issued /\ x.lifecycle[n] # "none"
             \/ /\ ResolveIdentity(x, n) = "Retired"
                /\ n \in x.issued /\ x.lifecycle[n] = "none"
  <2>1. x.lifecycle[n] \in Lifecycles
    BY DatabaseFields
  <2> QED
    BY <1>1, <2>1 DEF ResolveIdentity, Consistent, Lifecycles
<1>2. (n \in d.issued => n \in e.issued)
      /\ (n \in d.issued /\ d.lifecycle[n] = "none" => e.lifecycle[n] = "none")
  BY DEF Follows
<1>3. /\ Ledger!Reachable("NeverIssued") = Ledger!Statuses
      /\ \A s \in {"Active", "Tombstoned"} :
             Ledger!Reachable(s) = Ledger!Statuses \ {"NeverIssued"}
      /\ Ledger!Reachable("Retired") = {"Retired"}
  BY DEF Ledger!Reachable
<1> QED
  BY <1>1, <1>2, <1>3 DEF Ledger!Statuses

\* The Record Store implements the identity ledger: every step of it is, seen
\* through resolve_identity, a step of the ledger or none.  An issued UUID stays
\* issued and a purged one is never live again, whatever a batch contains.
THEOREM IdentityContract == Spec => ImplementsIdentityLedger
<1>1. Init => Ledger!Init
  BY DEF Init, EmptyDatabase, Ledger!Init, ResolveIdentity
<1>2. Inductive /\ Inductive' /\ [Next]_vars => [Ledger!Next]_([n \in NodeIds |-> ResolveIdentity(db, n)])
  <2> SUFFICES ASSUME Inductive, Inductive', [Next]_vars
               PROVE  [Ledger!Next]_([n \in NodeIds |-> ResolveIdentity(db, n)])
    OBVIOUS
  <2>0. db \in Databases /\ db' \in Databases /\ Consistent(db) /\ Consistent(db)'
    BY DEF Inductive, TypeOK
  <2>1. StoredStep
    BY NextIsStoredStep DEF Inductive
  <2>2. CASE db' = db
    BY <2>2 DEF ResolveIdentity
  <2>3. CASE Prunes(db, db')
    BY <2>3 DEF Prunes, PruneFrame, ResolveIdentity
  <2>4. CASE Follows(db, db')
    <3>1. \A n \in NodeIds : ResolveIdentity(db', n) \in Ledger!Reachable(ResolveIdentity(db, n))
      BY <2>0, <2>4, FollowsLedger DEF Consistent
    <3>2. \A n \in NodeIds : ResolveIdentity(db', n) \in Ledger!Statuses
      BY DEF ResolveIdentity, Ledger!Statuses
    <3> QED
      BY <3>1, <3>2 DEF Ledger!Next, Ledger!CommitBatch
  <2> QED
    BY <2>1, <2>2, <2>3, <2>4, CommitShape
<1> QED
  BY <1>1, <1>2, InductiveInvariant, PTL DEF Spec, ImplementsIdentityLedger, Ledger!Spec

-----------------------------------------------------------------------------
(* The journal *)

\* JournalUnbroken of any database.
Unbroken(d) ==
    \A r \in 1 .. d.revision :
        /\ (\E c \in d.journal : c.revision = r) =>
               \A q \in r .. d.revision : \E c \in d.journal : c.revision = q
        /\ r + Retention > d.revision => \E c \in d.journal : c.revision = r

LEMMA FollowsUnbroken ==
    ASSUME NEW d \in Databases, NEW e \in Databases, Follows(d, e), Journalled(e), Unbroken(d)
    PROVE  Unbroken(e)
<1>0. /\ d.revision \in Nat /\ e.revision = d.revision + 1 /\ Retention \in Nat
      /\ d.journal \subseteq e.journal
      /\ \A c \in e.journal : c \in d.journal \/ c.revision = e.revision
  BY DatabaseFields, RetentionAssumption DEF Follows
<1> SUFFICES ASSUME NEW r \in 1 .. e.revision
             PROVE  /\ (\E c \in e.journal : c.revision = r) =>
                           \A q \in r .. e.revision : \E c \in e.journal : c.revision = q
                    /\ r + Retention > e.revision => \E c \in e.journal : c.revision = r
  BY DEF Unbroken
<1>1. CASE r = e.revision
  BY <1>0, <1>1 DEF Journalled
<1>2. CASE r \in 1 .. d.revision
  <2>1. ASSUME \E c \in e.journal : c.revision = r, NEW q \in r .. e.revision
        PROVE  \E c \in e.journal : c.revision = q
    <3>1. \E c \in d.journal : c.revision = r
      BY <1>0, <1>2, <2>1
    <3>2. CASE q = e.revision
      BY <3>2 DEF Journalled
    <3>3. CASE q \in r .. d.revision
      BY <1>0, <1>2, <3>1, <3>3 DEF Unbroken
    <3> QED
      BY <1>0, <3>2, <3>3
  <2>2. ASSUME r + Retention > e.revision
        PROVE  \E c \in e.journal : c.revision = r
    <3>1. r + Retention > d.revision
      BY <1>0, <1>2, <2>2
    <3> QED
      BY <1>0, <1>2, <3>1 DEF Unbroken
  <2> QED
    BY <2>1, <2>2
<1> QED
  BY <1>0, <1>1, <1>2

LEMMA PrunesUnbroken ==
    ASSUME NEW d \in Databases, NEW e \in Databases, Prunes(d, e), Unbroken(d)
    PROVE  Unbroken(e)
<1>0. /\ d.revision \in Nat /\ e.revision = d.revision /\ Retention \in Nat
      /\ \A c \in d.journal : c.revision \in Nat
      /\ \A c : c \in e.journal <=> c \in d.journal /\ c.revision + Retention > d.revision
  BY DatabaseFields, RetentionAssumption DEF Prunes, PruneFrame, Changes
<1> SUFFICES ASSUME NEW r \in 1 .. d.revision
             PROVE  /\ (\E c \in e.journal : c.revision = r) =>
                           \A q \in r .. d.revision : \E c \in e.journal : c.revision = q
                    /\ r + Retention > d.revision => \E c \in e.journal : c.revision = r
  BY <1>0 DEF Unbroken
<1>1. ASSUME \E c \in e.journal : c.revision = r, NEW q \in r .. d.revision
      PROVE  \E c \in e.journal : c.revision = q
  <2>1. r + Retention > d.revision /\ \E c \in d.journal : c.revision = r
    BY <1>0, <1>1
  <2>2. PICK c \in d.journal : c.revision = q
    BY <2>1 DEF Unbroken
  <2>3. q + Retention > d.revision
    BY <1>0, <2>1
  <2> QED
    BY <1>0, <2>2, <2>3
<1>2. ASSUME r + Retention > d.revision
      PROVE  \E c \in e.journal : c.revision = r
  BY <1>0, <1>2 DEF Unbroken
<1> QED
  BY <1>1, <1>2

LEMMA UnbrokenStep == Inductive /\ Unbroken(db) /\ StoredStep => Unbroken(db)'
<1> SUFFICES ASSUME Inductive, Unbroken(db), StoredStep
             PROVE  Unbroken(db')
  BY DEF Unbroken
<1>1. db \in Databases /\ db' \in Databases
  BY InductiveStep DEF Inductive, TypeOK
<1> QED
  BY <1>1, CommitShape, FollowsUnbroken, PrunesUnbroken

LEMMA UnbrokenMeaning ==
    ASSUME db \in Databases
    PROVE  Unbroken(db) <=> JournalUnbroken
  BY DatabaseFields DEF Unbroken, JournalUnbroken

\* The journal always holds an unbroken range of revisions that ends at the
\* current one and spans the retention, for every retention: a batch journals
\* under its revision before it commits, and pruning only cuts off the old end.
THEOREM JournalHasNoGap == Spec => []JournalUnbroken
<1>1. Init => Unbroken(db)
  BY DEF Init, EmptyDatabase, Unbroken
<1>2. Inductive /\ [Next]_vars => StoredStep
  BY NextIsStoredStep DEF Inductive
<1>3. Inductive /\ Unbroken(db) => JournalUnbroken
  BY UnbrokenMeaning DEF Inductive, TypeOK
<1> QED
  BY <1>1, <1>2, <1>3, UnbrokenStep, InductiveInvariant, PTL DEF Spec

-----------------------------------------------------------------------------
(* Facts and definitions *)

LEMMA WrittenFactsMatch ==
    ASSUME NEW d \in Databases, NEW e, Written(d, e), Consistent(d), DefinedFactsMatch(d)
    PROVE  DefinedFactsMatch(e)
<1>0. /\ d.revision \in Nat
      /\ d.properties \in [NodeIds -> [PropertyKeys -> Facts]]
      /\ d.propertyDefinitions \in [PropertyKeys -> DefinitionsOf(PropertyKeys)]
      /\ NoFact.kind = None
      /\ \A n \in NodeIds, k \in PropertyKeys : d.properties[n][k].revision <= d.revision
  <2>1. \A n \in NodeIds, k \in PropertyKeys :
          d.properties[n][k].revision \in Nat /\ d.modified[n] \in Nat
    BY DatabaseFields DEF Facts
  <2>2. \A n \in NodeIds, k \in PropertyKeys : d.properties[n][k].revision <= d.revision
    BY <2>1, DatabaseFields DEF Consistent
  <2> QED
    BY <2>2, DatabaseFields DEF NoFact
<1>1. ASSUME e.properties = d.properties, e.propertyDefinitions = d.propertyDefinitions
      PROVE  DefinedFactsMatch(e)
  BY <1>1 DEF DefinedFactsMatch
<1>2. CASE NodesWritten(d, e)
  <2>1. ASSUME NEW n \in NodeIds, PurgeFrame(d, e, n)
        PROVE  DefinedFactsMatch(e)
    BY <1>0, <2>1 DEF PurgeFrame, DefinedFactsMatch
  <2> QED
    BY <1>1, <1>2, <2>1 DEF NodesWritten, NodesFrame, LifecycleFrame
<1>3. CASE FactWritten(d, e)
  <2>1. PICK n, k, fact, change :
          /\ n \in NodeIds /\ k \in PropertyKeys
          /\ FactFrame(d, e, n, k, fact, change)
          /\ fact.kind = None \/ PropertyAccepts(d, k, fact.kind)
    <3>1. \A kind : [kind |-> kind, revision |-> d.revision].kind = kind
      OBVIOUS
    <3> QED
      BY <1>0, <1>3, <3>1 DEF FactWritten
  <2>2. /\ e.propertyDefinitions = d.propertyDefinitions
        /\ \A m \in NodeIds, j \in PropertyKeys :
               e.properties[m][j] = IF m = n /\ j = k THEN fact ELSE d.properties[m][j]
    BY <1>0, <2>1 DEF FactFrame
  <2> QED
    BY <2>1, <2>2 DEF DefinedFactsMatch, PropertyAccepts
<1>4. CASE RelationshipWritten(d, e)
  BY <1>1, <1>4 DEF RelationshipWritten, RelationshipsFrame
<1>5. CASE PropertyDefinitionWritten(d, e)
  <2>1. PICK k \in PropertyKeys, definition \in DefinitionsOf(PropertyKeys) :
          /\ PropertyDefinitionFrame(d, e, k, definition)
          /\ \/ definition.registered = d.revision
             \/ definition.state = "none"
             \/ /\ definition.registered = d.propertyDefinitions[k].registered
                /\ d.propertyDefinitions[k].state # "none"
                /\ \/ definition.kind = d.propertyDefinitions[k].kind
                   \/ PropertyUsage(d, k) = {}
    <3>1. PICK k \in PropertyKeys, definition \in DefinitionsOf(PropertyKeys) :
            /\ PropertyDefinitionFrame(d, e, k, definition)
            /\ \/ \E kind : definition = Registered(kind, d.revision)
               \/ /\ d.propertyDefinitions[k].state # "none"
                  /\ \E kind :
                        /\ d.propertyDefinitions[k].kind = kind \/ PropertyUsage(d, k) = {}
                        /\ definition = Updated(d.propertyDefinitions[k], kind)
               \/ /\ d.propertyDefinitions[k].state # "none"
                  /\ \E r : definition = Deprecated(d.propertyDefinitions[k], r)
               \/ definition = NoDefinition
      BY <1>5 DEF PropertyDefinitionWritten
    <3>2. d.propertyDefinitions[k] \in DefinitionsOf(PropertyKeys)
      BY <1>0
    <3>3. /\ \A kind : Registered(kind, d.revision).registered = d.revision
          /\ NoDefinition.state = "none"
      BY DEF Registered, NoDefinition
    <3>4. /\ \A kind : /\ Updated(d.propertyDefinitions[k], kind).registered =
                              d.propertyDefinitions[k].registered
                       /\ Updated(d.propertyDefinitions[k], kind).kind = kind
          /\ \A r : /\ Deprecated(d.propertyDefinitions[k], r).registered =
                           d.propertyDefinitions[k].registered
                    /\ Deprecated(d.propertyDefinitions[k], r).kind =
                           d.propertyDefinitions[k].kind
      BY <3>2 DEF Updated, Deprecated, DefinitionsOf
    <3> QED
      BY <3>1, <3>3, <3>4
  <2>2. e.properties = d.properties
        /\ \A j \in PropertyKeys :
               e.propertyDefinitions[j] = IF j = k THEN definition ELSE d.propertyDefinitions[j]
    BY <1>0, <2>1 DEF PropertyDefinitionFrame
  <2>3. ASSUME NEW n \in NodeIds,
               d.properties[n][k].kind # None, definition.state # "none",
               d.properties[n][k].revision > definition.registered
        PROVE  definition.kind \in {None, d.properties[n][k].kind}
    <3>1. d.properties[n][k].revision \in Nat /\ definition.registered # d.revision
      BY <1>0, <2>3 DEF Facts
    <3>2. PropertyUsage(d, k) # {}
      BY <2>3 DEF PropertyUsage
    <3> QED
      BY <2>1, <2>3, <3>1, <3>2 DEF DefinedFactsMatch
  <2> QED
    BY <2>2, <2>3 DEF DefinedFactsMatch
<1>6. CASE RelationshipDefinitionWritten(d, e)
  BY <1>1, <1>6 DEF RelationshipDefinitionWritten, RelationshipDefinitionFrame
<1> QED
  BY <1>2, <1>3, <1>4, <1>5, <1>6 DEF Written, Mutated

FactsInvariant == DefinedFactsMatch(db) /\ DefinedFactsMatch(work)

LEMMA FactsStep == Inductive /\ FactsInvariant /\ [Next]_vars => FactsInvariant'
<1> SUFFICES ASSUME Inductive, FactsInvariant, [Next]_vars
             PROVE  DefinedFactsMatch(db') /\ DefinedFactsMatch(work')
  BY DEF FactsInvariant, DefinedFactsMatch
<1>0. /\ db \in Databases /\ work \in Databases /\ AtNextRevision(db) \in Databases
      /\ Consistent(AtNextRevision(db)) /\ Consistent(work)
      /\ DefinedFactsMatch(AtNextRevision(db))
  BY NextRevisionEffect, NextRevisionConsistent
     DEF Inductive, TypeOK, FactsInvariant, DefinedFactsMatch
<1>1. ASSUME BeginBatch \/ CommitBatch \/ RollbackBatch \/ UNCHANGED vars
      PROVE  DefinedFactsMatch(db') /\ DefinedFactsMatch(work')
  BY <1>0, <1>1 DEF BeginBatch, CommitBatch, RollbackBatch, vars, FactsInvariant
<1>2. ASSUME NEW e, Mutate(e), Mutated(work, e)
      PROVE  DefinedFactsMatch(db') /\ DefinedFactsMatch(work')
  BY <1>0, <1>2, WrittenFactsMatch DEF Mutate, Written, FactsInvariant
<1>3. ASSUME NEW e, InOneTransaction(e), Written(AtNextRevision(db), e)
      PROVE  DefinedFactsMatch(db') /\ DefinedFactsMatch(work')
  BY <1>0, <1>3, WrittenFactsMatch DEF InOneTransaction
<1>4. ASSUME NEW e, InOneTransaction(e), Prunes(db, e)
      PROVE  DefinedFactsMatch(db') /\ DefinedFactsMatch(work')
  BY <1>4 DEF InOneTransaction, Prunes, PruneFrame, FactsInvariant, DefinedFactsMatch
<1> QED
  BY <1>1, <1>2, <1>3, <1>4, StepShape DEF Inductive

\* On one connection no fact is ever of another kind than the definition that
\* was registered before it expects, for every set of Nodes, keys and kinds.
\* (Through several connections this fails: see the run definition_kinds.)
THEOREM FactsKeepTheirKind == Spec => []FactsMatchDefinitions
<1>1. Init => FactsInvariant
  BY DEF Init, EmptyDatabase, NoFact, NoDefinition, FactsInvariant, DefinedFactsMatch
<1>2. FactsInvariant => FactsMatchDefinitions
  BY DEF FactsInvariant, FactsMatchDefinitions
<1> QED
  BY <1>1, <1>2, FactsStep, InductiveInvariant, PTL DEF Spec

-----------------------------------------------------------------------------
(* Replacements *)

\* That replacements end is not inductive: a definition may come to replace
\* another only while it is active, and then it has no replacement itself.
SoundReplacements(definitions) ==
    /\ \A k \in DOMAIN definitions :
           definitions[k].state # "deprecated" => definitions[k].replacement = None
    /\ WellFoundedReplacements(definitions)

\* One row changed as any of the four operations changes it.
LEMMA ReplacementsChange ==
    ASSUME NEW keys, None \notin keys, NEW old \in [keys -> DefinitionsOf(keys)],
           SoundReplacements(old),
           NEW k \in keys, NEW definition \in DefinitionsOf(keys),
           definition.state # "deprecated" => definition.replacement = None,
           definition.state = "none" => Replaced(old, k) = {},
           \/ definition.replacement \in {None, old[k].replacement}
           \/ /\ definition.replacement \in keys \ {k}
              /\ old[definition.replacement].state = "active"
    PROVE  SoundReplacements([old EXCEPT ![k] = definition])
<1> DEFINE new == [old EXCEPT ![k] = definition]
           r == definition.replacement
<1>0. /\ DOMAIN old = keys /\ DOMAIN new = keys
      /\ \A j \in keys : new[j] = IF j = k THEN definition ELSE old[j]
      /\ r \in keys \cup {None}
      /\ \A j \in keys : old[j].replacement \in keys \cup {None}
      /\ \A j \in keys : old[j].state # "deprecated" => old[j].replacement = None
      /\ \A j \in keys : old[j].replacement # None => old[old[j].replacement].state # "none"
      /\ \A S \in SUBSET keys : S # {} => \E j \in S : old[j].replacement \notin S
  BY DEF DefinitionsOf, SoundReplacements, WellFoundedReplacements
<1> HIDE DEF new
<1>1. \A j \in keys : new[j].state # "deprecated" => new[j].replacement = None
  BY <1>0
<1>2. ASSUME NEW j \in keys, new[j].replacement # None
      PROVE  new[new[j].replacement].state # "none"
  <2>1. CASE new[j].replacement = k
    <3>1. definition.state # "none"
      BY <1>0, <1>2, <2>1 DEF Replaced
    <3> QED
      BY <1>0, <2>1, <3>1
  <2>2. CASE new[j].replacement # k
    <3>1. new[j].replacement \in keys /\ new[new[j].replacement] = old[new[j].replacement]
      BY <1>0, <1>2, <2>2
    <3>2. CASE j # k
      BY <1>0, <1>2, <3>1, <3>2
    <3>3. CASE j = k
      BY <1>0, <1>2, <3>1, <3>3
    <3> QED
      BY <3>2, <3>3
  <2> QED
    BY <2>1, <2>2
<1>3. ASSUME NEW S \in SUBSET keys, S # {}
      PROVE  \E j \in S : new[j].replacement \notin S
  <2>1. PICK j \in S : old[j].replacement \notin S
    BY <1>0, <1>3
  <2>2. CASE j # k
    BY <1>0, <2>1, <2>2
  <2>3. CASE j = k /\ r \notin S
    BY <1>0, <2>3
  <2>4. CASE j = k /\ r \in S
    <3>1. r # k /\ r \in keys /\ old[r].state = "active"
      BY <2>1, <2>4
    <3>2. new[r].replacement = None
      BY <1>0, <3>1
    <3> QED
      BY <2>4, <3>2
  <2> QED
    BY <2>2, <2>3, <2>4
<1> QED
  BY <1>0, <1>1, <1>2, <1>3 DEF SoundReplacements, WellFoundedReplacements, new

\* What the definitions written look like, in the terms of ReplacementsChange.
LEMMA DefinitionReplacements ==
    ASSUME NEW keys, NEW old \in DefinitionsOf(keys)
    PROVE  /\ \A kind, revision : /\ Registered(kind, revision).state = "active"
                                  /\ Registered(kind, revision).replacement = None
           /\ \A kind : /\ Updated(old, kind).state = old.state
                        /\ Updated(old, kind).replacement = old.replacement
           /\ \A r : /\ Deprecated(old, r).state = "deprecated"
                     /\ Deprecated(old, r).replacement = r
           /\ NoDefinition.state = "none" /\ NoDefinition.replacement = None
  BY DEF Registered, Updated, Deprecated, NoDefinition, DefinitionsOf

SoundDefinitions(d) ==
    /\ SoundReplacements(d.propertyDefinitions)
    /\ SoundReplacements(d.relationshipDefinitions)

LEMMA WrittenReplacements ==
    ASSUME NEW d \in Databases, NEW e, Written(d, e), SoundDefinitions(d)
    PROVE  SoundDefinitions(e)
<1>0. /\ d.propertyDefinitions \in [PropertyKeys -> DefinitionsOf(PropertyKeys)]
      /\ d.relationshipDefinitions \in [RelationshipKeys -> DefinitionsOf(RelationshipKeys)]
      /\ None \notin PropertyKeys /\ None \notin RelationshipKeys
  BY DatabaseFields, NoneAssumption
<1>1. CASE Mutated(d, e)
  <2>1. /\ e.propertyDefinitions = d.propertyDefinitions
        /\ e.relationshipDefinitions = d.relationshipDefinitions
    BY <1>1 DEF Mutated, NodesWritten, FactWritten, RelationshipWritten, NodesFrame,
                LifecycleFrame, PurgeFrame, FactFrame, RelationshipsFrame
  <2> QED
    BY <2>1 DEF SoundDefinitions
<1>2. CASE PropertyDefinitionWritten(d, e)
  <2> DEFINE old == d.propertyDefinitions
  <2>1. PICK k \in PropertyKeys, definition \in DefinitionsOf(PropertyKeys) :
          /\ PropertyDefinitionFrame(d, e, k, definition)
          /\ \/ \E kind : definition = Registered(kind, d.revision)
             \/ old[k].state # "none" /\ \E kind : definition = Updated(old[k], kind)
             \/ \E r \in PropertyKeys \cup {None} :
                    ValidReplacement(old, k, r) /\ definition = Deprecated(old[k], r)
             \/ Replaced(old, k) = {} /\ definition = NoDefinition
    BY <1>2 DEF PropertyDefinitionWritten
  <2>2. old[k] \in DefinitionsOf(PropertyKeys)
    BY <1>0
  <2>3. \A j \in PropertyKeys : old[j].state # "deprecated" => old[j].replacement = None
    BY <1>0 DEF SoundDefinitions, SoundReplacements
  <2>4. SoundReplacements([old EXCEPT ![k] = definition])
    <3>1. /\ definition.state # "deprecated" => definition.replacement = None
          /\ definition.state = "none" => Replaced(old, k) = {}
          /\ \/ definition.replacement \in {None, old[k].replacement}
             \/ /\ definition.replacement \in PropertyKeys \ {k}
                /\ old[definition.replacement].state = "active"
      BY <2>1, <2>2, <2>3, DefinitionReplacements DEF ValidReplacement
    <3>2. SoundReplacements(old)
      BY DEF SoundDefinitions
    <3> HIDE DEF old
    <3> QED
      BY <1>0, <3>1, <3>2, ReplacementsChange DEF old
  <2> QED
    BY <2>1, <2>4 DEF PropertyDefinitionFrame, SoundDefinitions
<1>3. CASE RelationshipDefinitionWritten(d, e)
  <2> DEFINE old == d.relationshipDefinitions
  <2>1. PICK k \in RelationshipKeys, definition \in DefinitionsOf(RelationshipKeys) :
          /\ RelationshipDefinitionFrame(d, e, k, definition)
          /\ \/ definition = Registered(None, d.revision)
             \/ old[k].state # "none" /\ definition = Updated(old[k], None)
             \/ \E r \in RelationshipKeys \cup {None} :
                    ValidReplacement(old, k, r) /\ definition = Deprecated(old[k], r)
             \/ Replaced(old, k) = {} /\ definition = NoDefinition
    BY <1>3 DEF RelationshipDefinitionWritten
  <2>2. old[k] \in DefinitionsOf(RelationshipKeys)
    BY <1>0
  <2>3. \A j \in RelationshipKeys : old[j].state # "deprecated" => old[j].replacement = None
    BY <1>0 DEF SoundDefinitions, SoundReplacements
  <2>4. SoundReplacements([old EXCEPT ![k] = definition])
    <3>1. /\ definition.state # "deprecated" => definition.replacement = None
          /\ definition.state = "none" => Replaced(old, k) = {}
          /\ \/ definition.replacement \in {None, old[k].replacement}
             \/ /\ definition.replacement \in RelationshipKeys \ {k}
                /\ old[definition.replacement].state = "active"
      BY <2>1, <2>2, <2>3, DefinitionReplacements DEF ValidReplacement
    <3>2. SoundReplacements(old)
      BY DEF SoundDefinitions
    <3> HIDE DEF old
    <3> QED
      BY <1>0, <3>1, <3>2, ReplacementsChange DEF old
  <2> QED
    BY <2>1, <2>4 DEF RelationshipDefinitionFrame, SoundDefinitions
<1> QED
  BY <1>1, <1>2, <1>3 DEF Written

ReplacementsInvariant == SoundDefinitions(db) /\ SoundDefinitions(work)

LEMMA ReplacementsStep == TypeOK /\ ReplacementsInvariant /\ [Next]_vars => ReplacementsInvariant'
<1> SUFFICES ASSUME TypeOK, ReplacementsInvariant, [Next]_vars
             PROVE  SoundDefinitions(db') /\ SoundDefinitions(work')
  BY DEF ReplacementsInvariant, SoundDefinitions, SoundReplacements, WellFoundedReplacements
<1>0. /\ db \in Databases /\ work \in Databases /\ AtNextRevision(db) \in Databases
      /\ SoundDefinitions(AtNextRevision(db))
  BY NextRevisionEffect DEF TypeOK, ReplacementsInvariant, SoundDefinitions
<1>1. ASSUME BeginBatch \/ CommitBatch \/ RollbackBatch \/ UNCHANGED vars
      PROVE  SoundDefinitions(db') /\ SoundDefinitions(work')
  BY <1>0, <1>1 DEF BeginBatch, CommitBatch, RollbackBatch, vars, ReplacementsInvariant
<1>2. ASSUME NEW e, Mutate(e), Mutated(work, e)
      PROVE  SoundDefinitions(db') /\ SoundDefinitions(work')
  BY <1>0, <1>2, WrittenReplacements DEF Mutate, Written, ReplacementsInvariant
<1>3. ASSUME NEW e, InOneTransaction(e), Written(AtNextRevision(db), e)
      PROVE  SoundDefinitions(db') /\ SoundDefinitions(work')
  BY <1>0, <1>3, WrittenReplacements DEF InOneTransaction
<1>4. ASSUME NEW e, InOneTransaction(e), Prunes(db, e)
      PROVE  SoundDefinitions(db') /\ SoundDefinitions(work')
  BY <1>4 DEF InOneTransaction, Prunes, PruneFrame, ReplacementsInvariant, SoundDefinitions
<1> QED
  BY <1>1, <1>2, <1>3, <1>4, StepShape

\* On one connection replacement keys always end at a definition that exists
\* and no set of definitions replaces itself, for every set of keys.  No
\* induction is needed: the new link of a deprecation leads to the end of a chain.
THEOREM ReplacementsEnd == Spec => []ReplacementsWellFounded
<1>1. Init => ReplacementsInvariant
  <2>1. ASSUME NEW keys, None \notin keys
        PROVE  SoundReplacements([k \in keys |-> NoDefinition])
    <3>1. NoDefinition.replacement = None
      BY DEF NoDefinition
    <3> QED
      BY <2>1, <3>1 DEF SoundReplacements, WellFoundedReplacements
  <2> QED
    BY <2>1, NoneAssumption DEF Init, EmptyDatabase, ReplacementsInvariant, SoundDefinitions
<1>2. ReplacementsInvariant => ReplacementsWellFounded
  BY DEF ReplacementsInvariant, SoundDefinitions, SoundReplacements, ReplacementsWellFounded
<1>3. Spec => []TypeOK
  BY TypeCorrect
<1> QED
  BY <1>1, <1>2, <1>3, ReplacementsStep, PTL DEF Spec
=============================================================================
