---------------------------- MODULE ProjectionProofs ----------------------------
(***************************************************************************)
(* What readers of the journal and of the stamps rely on, for every set of *)
(* identities, keys and kinds and every batch: the delta of a commit is    *)
(* complete, and a changed Node carries the commit's revision.             *)
(***************************************************************************)
EXTENDS Projection, RecordStoreProofs, WellFoundedInduction

-----------------------------------------------------------------------------
(* Covered changes *)

\* d and e differ at most in what the changes name, and identities are only
\* added, those of Nodes the changes create.
Covered(d, e, changes) ==
    /\ d.issued \subseteq e.issued
    /\ \A n \in e.issued \ d.issued : \E c \in changes : c.kind = "node_created" /\ c.node = n
    /\ \A n \in NodeIds \ NamedNodes(changes) :
           /\ e.lifecycle[n] = d.lifecycle[n]
           /\ e.modified[n] = d.modified[n]
           /\ e.properties[n] = d.properties[n]
    /\ \A x \in Relationships \ NamedRelationships(changes) :
           x \in e.relationships <=> x \in d.relationships
    /\ \A k \in PropertyKeys \ NamedPropertyDefinitions(changes) :
           e.propertyDefinitions[k] = d.propertyDefinitions[k]
    /\ \A k \in RelationshipKeys \ NamedRelationshipDefinitions(changes) :
           e.relationshipDefinitions[k] = d.relationshipDefinitions[k]

\* Then the delta that names them turns the rows of d into those of e.
LEMMA CoveredIsPatched ==
    ASSUME NEW d \in Databases, NEW e \in Databases, NEW changes, Covered(d, e, changes)
    PROVE  Content(e) = Patched(Content(d), e, changes)
<1>1. /\ NamedNodes(changes) \subseteq NodeIds
      /\ NamedRelationships(changes) \subseteq Relationships
      /\ NamedPropertyDefinitions(changes) \subseteq PropertyKeys
      /\ NamedRelationshipDefinitions(changes) \subseteq RelationshipKeys
  BY DEF NamedNodes, NamedRelationships, NamedPropertyDefinitions, NamedRelationshipDefinitions
<1>2. ASSUME NEW keys, NEW f, DOMAIN f = keys, NEW g, g = [k \in DOMAIN g |-> g[k]], DOMAIN g = keys,
             NEW named, \A k \in keys \ named : g[k] = f[k]
      PROVE  g = Overridden(f, g, named)
  <2>1. Overridden(f, g, named) = [k \in keys |-> g[k]]
    BY <1>2 DEF Overridden
  <2> QED
    BY <1>2, <2>1
<1>3. /\ e.lifecycle = Overridden(d.lifecycle, e.lifecycle, NamedNodes(changes))
      /\ e.modified = Overridden(d.modified, e.modified, NamedNodes(changes))
      /\ e.properties = Overridden(d.properties, e.properties, NamedNodes(changes))
      /\ e.propertyDefinitions =
             Overridden(d.propertyDefinitions, e.propertyDefinitions,
                        NamedPropertyDefinitions(changes))
      /\ e.relationshipDefinitions =
             Overridden(d.relationshipDefinitions, e.relationshipDefinitions,
                        NamedRelationshipDefinitions(changes))
  <2>1. /\ DOMAIN d.lifecycle = NodeIds /\ DOMAIN e.lifecycle = NodeIds
        /\ e.lifecycle = [n \in NodeIds |-> e.lifecycle[n]]
        /\ DOMAIN d.modified = NodeIds /\ DOMAIN e.modified = NodeIds
        /\ e.modified = [n \in NodeIds |-> e.modified[n]]
        /\ DOMAIN d.properties = NodeIds /\ DOMAIN e.properties = NodeIds
        /\ e.properties = [n \in NodeIds |-> e.properties[n]]
        /\ DOMAIN d.propertyDefinitions = PropertyKeys
        /\ DOMAIN e.propertyDefinitions = PropertyKeys
        /\ e.propertyDefinitions = [k \in PropertyKeys |-> e.propertyDefinitions[k]]
        /\ DOMAIN d.relationshipDefinitions = RelationshipKeys
        /\ DOMAIN e.relationshipDefinitions = RelationshipKeys
        /\ e.relationshipDefinitions = [k \in RelationshipKeys |-> e.relationshipDefinitions[k]]
    BY DatabaseFields
  <2> QED
    BY <1>2, <2>1 DEF Covered
<1>4. e.relationships = (d.relationships \ NamedRelationships(changes))
                            \cup (e.relationships \cap NamedRelationships(changes))
  BY DatabaseFields DEF Covered
<1> QED
  BY <1>3, <1>4 DEF Content, Patched, Overlaid, Named

LEMMA NamedMonotonic ==
    ASSUME NEW few, NEW many, few \subseteq many
    PROVE  /\ NamedNodes(few) \subseteq NamedNodes(many)
           /\ NamedRelationships(few) \subseteq NamedRelationships(many)
           /\ NamedPropertyDefinitions(few) \subseteq NamedPropertyDefinitions(many)
           /\ NamedRelationshipDefinitions(few) \subseteq NamedRelationshipDefinitions(many)
  BY DEF NamedNodes, NamedRelationships, NamedPropertyDefinitions, NamedRelationshipDefinitions

LEMMA CoveredTransitive ==
    ASSUME NEW d, NEW w, NEW e, NEW first, NEW second, NEW all,
           first \cup second \subseteq all, Covered(d, w, first), Covered(w, e, second)
    PROVE  Covered(d, e, all)
<1>1. first \subseteq all /\ second \subseteq all
  OBVIOUS
<1>2. /\ NamedNodes(first) \subseteq NamedNodes(all)
      /\ NamedRelationships(first) \subseteq NamedRelationships(all)
      /\ NamedPropertyDefinitions(first) \subseteq NamedPropertyDefinitions(all)
      /\ NamedRelationshipDefinitions(first) \subseteq NamedRelationshipDefinitions(all)
      /\ NamedNodes(second) \subseteq NamedNodes(all)
      /\ NamedRelationships(second) \subseteq NamedRelationships(all)
      /\ NamedPropertyDefinitions(second) \subseteq NamedPropertyDefinitions(all)
      /\ NamedRelationshipDefinitions(second) \subseteq NamedRelationshipDefinitions(all)
  BY <1>1, NamedMonotonic
<1> QED
  BY <1>2 DEF Covered

\* The rows of d's own revision.
Latest(d) == {c \in d.journal : c.revision = d.revision}

\* Every write names in the journal what it changes.
LEMMA StoredCovered ==
    ASSUME NEW d \in Databases, NEW e, Stored(d, e)
    PROVE  Covered(d, e, Latest(e))
<1>0. /\ d.lifecycle \in [NodeIds -> Lifecycles] /\ d.modified \in [NodeIds -> Nat]
      /\ d.properties \in [NodeIds -> [PropertyKeys -> Facts]]
      /\ d.propertyDefinitions \in [PropertyKeys -> DefinitionsOf(PropertyKeys)]
      /\ d.relationshipDefinitions \in [RelationshipKeys -> DefinitionsOf(RelationshipKeys)]
  BY DatabaseFields
<1>1. ASSUME NEW n \in NodeIds, NEW kind \in NodeChangeKinds, NEW k,
             NodeChange(d.revision, kind, n, k) \in Latest(e)
      PROVE  n \in NamedNodes(Latest(e))
  BY <1>1 DEF NodeChange, NamedNodes
<1>2. CASE NodesWritten(d, e)
  <2>0. {"node_created", "node_tombstoned", "node_restored", "node_purged"} \subseteq NodeChangeKinds
    BY DEF NodeChangeKinds
  <2>1. ASSUME NEW ids \in SUBSET NodeIds, NodesFrame(d, e, ids)
        PROVE  Covered(d, e, Latest(e))
    <3>1. \A n \in ids : NodeChange(d.revision, "node_created", n, None) \in Latest(e)
      BY <2>1, ChangeRevisions DEF NodesFrame, Latest
    <3>2. ids \subseteq NamedNodes(Latest(e))
      BY <1>1, <2>0, <3>1
    <3>3. \A n \in ids : \E c \in Latest(e) : c.kind = "node_created" /\ c.node = n
      <4>1. \A n : LET c == NodeChange(d.revision, "node_created", n, None)
                   IN  c.kind = "node_created" /\ c.node = n
        BY DEF NodeChange
      <4> QED
        BY <3>1, <4>1
    <3> QED
      BY <1>0, <2>1, <3>2, <3>3 DEF NodesFrame, Covered
  <2>2. ASSUME NEW n \in NodeIds, NEW state, NEW change \in NodeChangeKinds,
               LifecycleFrame(d, e, n, state, change)
        PROVE  Covered(d, e, Latest(e))
    <3>1. NodeChange(d.revision, change, n, None) \in Latest(e)
      BY <2>2, ChangeRevisions DEF LifecycleFrame, Latest
    <3>2. n \in NamedNodes(Latest(e))
      BY <1>1, <3>1
    <3> QED
      BY <1>0, <2>2, <3>2 DEF LifecycleFrame, Covered
  <2>3. ASSUME NEW n \in NodeIds, PurgeFrame(d, e, n)
        PROVE  Covered(d, e, Latest(e))
    <3>1. NodeChange(d.revision, "node_purged", n, None) \in Latest(e)
      BY <2>3, ChangeRevisions DEF PurgeFrame, Latest
    <3>2. n \in NamedNodes(Latest(e))
      BY <1>1, <2>0, <3>1
    <3> QED
      BY <1>0, <2>3, <3>2 DEF PurgeFrame, Covered
  <2> QED
    BY <1>2, <2>0, <2>1, <2>2, <2>3 DEF NodesWritten
<1>3. CASE FactWritten(d, e)
  <2>1. PICK n \in NodeIds, k \in PropertyKeys, change \in NodeChangeKinds :
          \E fact : FactFrame(d, e, n, k, fact, change)
    <3>1. "property_set" \in NodeChangeKinds /\ "property_removed" \in NodeChangeKinds
      BY DEF NodeChangeKinds
    <3>2. PICK n \in NodeIds, k \in PropertyKeys :
            \/ \E fact : FactFrame(d, e, n, k, fact, "property_set")
            \/ FactFrame(d, e, n, k, NoFact, "property_removed")
      BY <1>3 DEF FactWritten
    <3> QED
      BY <3>1, <3>2
  <2>2. NodeChange(d.revision, change, n, k) \in Latest(e)
    BY <2>1, ChangeRevisions DEF FactFrame, Latest
  <2>3. n \in NamedNodes(Latest(e))
    BY <1>1, <2>2
  <2> QED
    BY <1>0, <2>1, <2>3 DEF FactFrame, Covered
<1>4. CASE RelationshipWritten(d, e)
  <2>1. PICK s \in NodeIds, k \in RelationshipKeys, t \in NodeIds,
             change \in RelationshipChangeKinds, relationships \in SUBSET Relationships :
          /\ RelationshipsFrame(d, e, s, k, t, relationships, change)
          /\ \A x : x # <<s, k, t>> => (x \in relationships <=> x \in d.relationships)
    <3>1. /\ "relationship_added" \in RelationshipChangeKinds
          /\ "relationship_removed" \in RelationshipChangeKinds
      BY DEF RelationshipChangeKinds
    <3>2. PICK s \in NodeIds, k \in RelationshipKeys, t \in NodeIds :
            \/ RelationshipsFrame(d, e, s, k, t, d.relationships \cup {<<s, k, t>>},
                                  "relationship_added")
            \/ RelationshipsFrame(d, e, s, k, t, d.relationships \ {<<s, k, t>>},
                                  "relationship_removed")
      BY <1>4 DEF RelationshipWritten
    <3>0. /\ d.relationships \cup {<<s, k, t>>} \in SUBSET Relationships
          /\ d.relationships \ {<<s, k, t>>} \in SUBSET Relationships
      BY DatabaseFields DEF Relationships
    <3>3. CASE RelationshipsFrame(d, e, s, k, t, d.relationships \cup {<<s, k, t>>},
                                  "relationship_added")
      <4>1. \A x : x # <<s, k, t>> =>
              (x \in d.relationships \cup {<<s, k, t>>} <=> x \in d.relationships)
        OBVIOUS
      <4> QED
        BY <3>0, <3>1, <3>3, <4>1
    <3>4. CASE RelationshipsFrame(d, e, s, k, t, d.relationships \ {<<s, k, t>>},
                                  "relationship_removed")
      <4>1. \A x : x # <<s, k, t>> =>
              (x \in d.relationships \ {<<s, k, t>>} <=> x \in d.relationships)
        OBVIOUS
      <4> QED
        BY <3>0, <3>1, <3>4, <4>1
    <3> QED
      BY <3>2, <3>3, <3>4
  <2> DEFINE row == RelationshipChange(d.revision, change, s, k, t)
  <2>2. row \in Latest(e)
    BY <2>1, ChangeRevisions DEF RelationshipsFrame, Latest
  <2>3. row.kind = change /\ row.node = s /\ row.key = k /\ row.target = t
    BY DEF RelationshipChange
  <2> HIDE DEF row
  <2>4. {s, t} \subseteq NamedNodes(Latest(e))
    BY <2>2, <2>3 DEF NamedNodes
  <2>5. <<s, k, t>> \in NamedRelationships(Latest(e))
    BY <2>2, <2>3 DEF NamedRelationships, Relationships
  <2> QED
    BY <1>0, <2>1, <2>4, <2>5 DEF RelationshipsFrame, Covered
<1>5. CASE PropertyDefinitionStored(d, e)
  <2>1. PICK k \in PropertyKeys : \E definition : PropertyDefinitionFrame(d, e, k, definition)
    BY <1>5 DEF PropertyDefinitionStored
  <2>2. DefinitionChange(d.revision, "property_definition", k) \in Latest(e)
    BY <2>1, ChangeRevisions DEF PropertyDefinitionFrame, Latest
  <2>3. k \in NamedPropertyDefinitions(Latest(e))
    BY <2>2 DEF NamedPropertyDefinitions, DefinitionChange
  <2> QED
    BY <1>0, <2>1, <2>3 DEF PropertyDefinitionFrame, Covered
<1>6. CASE RelationshipDefinitionStored(d, e)
  <2>1. PICK k \in RelationshipKeys : \E definition : RelationshipDefinitionFrame(d, e, k, definition)
    BY <1>6 DEF RelationshipDefinitionStored
  <2>2. DefinitionChange(d.revision, "relationship_definition", k) \in Latest(e)
    BY <2>1, ChangeRevisions DEF RelationshipDefinitionFrame, Latest
  <2>3. k \in NamedRelationshipDefinitions(Latest(e))
    BY <2>2 DEF NamedRelationshipDefinitions, DefinitionChange
  <2> QED
    BY <1>0, <2>1, <2>3 DEF RelationshipDefinitionFrame, Covered
<1> QED
  BY <1>2, <1>3, <1>4, <1>5, <1>6 DEF Stored, Mutated

-----------------------------------------------------------------------------
(* Stamps *)

LinksOf(d, n) == {x \in d.relationships : n \in {x[1], x[3]}}

\* A Node that is live in e and differs from its state in d is stamped with e's
\* revision.
Marked(d, e) ==
    \A n \in NodeIds :
        \/ e.lifecycle[n] = "none"
        \/ e.modified[n] = e.revision
        \/ /\ e.lifecycle[n] = d.lifecycle[n]
           /\ e.modified[n] = d.modified[n]
           /\ e.properties[n] = d.properties[n]
           /\ LinksOf(e, n) = LinksOf(d, n)

LEMMA StoredMarked ==
    ASSUME NEW d \in Databases, NEW e, Stored(d, e)
    PROVE  \A n \in NodeIds :
               \/ e.lifecycle[n] = "none"
               \/ e.modified[n] = e.revision
               \/ /\ e.lifecycle[n] = d.lifecycle[n]
                  /\ e.modified[n] = d.modified[n]
                  /\ e.properties[n] = d.properties[n]
                  /\ LinksOf(e, n) = LinksOf(d, n)
<1>0. /\ d.lifecycle \in [NodeIds -> Lifecycles] /\ d.modified \in [NodeIds -> Nat]
      /\ d.properties \in [NodeIds -> [PropertyKeys -> Facts]]
  BY DatabaseFields
<1> SUFFICES ASSUME NEW n \in NodeIds
             PROVE  \/ e.lifecycle[n] = "none"
                    \/ e.modified[n] = e.revision
                    \/ /\ e.lifecycle[n] = d.lifecycle[n]
                       /\ e.modified[n] = d.modified[n]
                       /\ e.properties[n] = d.properties[n]
                       /\ LinksOf(e, n) = LinksOf(d, n)
  OBVIOUS
<1>1. CASE NodesWritten(d, e)
  <2>1. ASSUME NEW ids \in SUBSET NodeIds, NodesFrame(d, e, ids)
        PROVE  \/ e.modified[n] = e.revision
               \/ /\ e.lifecycle[n] = d.lifecycle[n]
                  /\ e.modified[n] = d.modified[n]
                  /\ e.properties[n] = d.properties[n]
                  /\ LinksOf(e, n) = LinksOf(d, n)
    BY <1>0, <2>1 DEF NodesFrame, LinksOf
  <2>2. ASSUME NEW m \in NodeIds, NEW state, NEW change, LifecycleFrame(d, e, m, state, change)
        PROVE  \/ e.modified[n] = e.revision
               \/ /\ e.lifecycle[n] = d.lifecycle[n]
                  /\ e.modified[n] = d.modified[n]
                  /\ e.properties[n] = d.properties[n]
                  /\ LinksOf(e, n) = LinksOf(d, n)
    BY <1>0, <2>2 DEF LifecycleFrame, LinksOf
  <2>3. ASSUME NEW m \in NodeIds, PurgeFrame(d, e, m)
        PROVE  \/ e.lifecycle[n] = "none"
               \/ /\ e.lifecycle[n] = d.lifecycle[n]
                  /\ e.modified[n] = d.modified[n]
                  /\ e.properties[n] = d.properties[n]
                  /\ LinksOf(e, n) = LinksOf(d, n)
    BY <1>0, <2>3 DEF PurgeFrame, LinksOf
  <2> QED
    BY <1>1, <2>1, <2>2, <2>3 DEF NodesWritten
<1>2. CASE FactWritten(d, e)
  <2>1. PICK m, k, fact, change :
          m \in NodeIds /\ k \in PropertyKeys /\ FactFrame(d, e, m, k, fact, change)
    BY <1>2 DEF FactWritten
  <2> QED
    BY <1>0, <2>1 DEF FactFrame, LinksOf
<1>3. CASE RelationshipWritten(d, e)
  <2>1. PICK s, k, t, relationships, change :
          /\ s \in NodeIds /\ k \in RelationshipKeys /\ t \in NodeIds
          /\ RelationshipsFrame(d, e, s, k, t, relationships, change)
          /\ \A x : x # <<s, k, t>> => (x \in relationships <=> x \in d.relationships)
    <3>1. PICK s, k, t, change :
            /\ s \in NodeIds /\ k \in RelationshipKeys /\ t \in NodeIds
            /\ \/ RelationshipsFrame(d, e, s, k, t, d.relationships \cup {<<s, k, t>>}, change)
               \/ RelationshipsFrame(d, e, s, k, t, d.relationships \ {<<s, k, t>>}, change)
      BY <1>3 DEF RelationshipWritten
    <3>2. \A x : x # <<s, k, t>> =>
            /\ x \in d.relationships \cup {<<s, k, t>>} <=> x \in d.relationships
            /\ x \in d.relationships \ {<<s, k, t>>} <=> x \in d.relationships
      OBVIOUS
    <3> QED
      BY <3>1, <3>2
  <2>2. CASE n \in {s, t}
    BY <1>0, <2>1, <2>2 DEF RelationshipsFrame
  <2>3. CASE n \notin {s, t}
    <3>1. \A x : n \in {x[1], x[3]} => x # <<s, k, t>>
      BY <2>3
    <3>2. LinksOf(e, n) = LinksOf(d, n)
      BY <2>1, <3>1 DEF RelationshipsFrame, LinksOf
    <3> QED
      BY <1>0, <2>1, <2>3, <3>2 DEF RelationshipsFrame
  <2> QED
    BY <2>2, <2>3
<1>4. CASE PropertyDefinitionStored(d, e)
  BY <1>4 DEF PropertyDefinitionStored, PropertyDefinitionFrame, LinksOf
<1>5. CASE RelationshipDefinitionStored(d, e)
  BY <1>5 DEF RelationshipDefinitionStored, RelationshipDefinitionFrame, LinksOf
<1> QED
  BY <1>1, <1>2, <1>3, <1>4, <1>5 DEF Stored, Mutated

LEMMA MarkedStep ==
    ASSUME NEW d \in Databases, NEW w \in Databases, NEW e, Marked(d, w), Stored(w, e)
    PROVE  Marked(d, e)
<1>1. e.revision = w.revision
  BY StoredType
<1> QED
  BY <1>1, StoredMarked DEF Marked

-----------------------------------------------------------------------------
(* Transactions *)

\* What the view of a transaction differs in is named by its journal rows and
\* marked by its stamps.
Accounted(d, e) == Covered(d, e, ChangesSince(e, d.revision)) /\ Marked(d, e)

LEMMA AccountedFirst ==
    ASSUME NEW d \in Databases
    PROVE  Accounted(d, AtNextRevision(d))
  BY NextRevisionEffect DEF Accounted, Covered, Marked, LinksOf

LEMMA AccountedStep ==
    ASSUME NEW d \in Databases, NEW w \in Databases, NEW e,
           Follows(d, w), Accounted(d, w), Stored(w, e)
    PROVE  Accounted(d, e)
<1>1. /\ d.revision \in Nat /\ w.revision = d.revision + 1 /\ e.revision = w.revision
      /\ w.journal \subseteq e.journal
  BY StoredType, StoredJournal, DatabaseFields DEF Follows
<1>2. ChangesSince(w, d.revision) \cup Latest(e) \subseteq ChangesSince(e, d.revision)
  BY <1>1 DEF ChangesSince, Latest
<1>3. Covered(w, e, Latest(e))
  BY StoredCovered
<1> QED
  BY <1>2, <1>3, CoveredTransitive, MarkedStep DEF Accounted

\* The open transaction is accounted for.
AccountedInvariant == txn = "open" => Accounted(db, work)

LEMMA AccountedInvariantStep ==
    ASSUME Inductive, AccountedInvariant, StoredStep
    PROVE  /\ AccountedInvariant'
           /\ db' = db \/ Prunes(db, db') \/ (Follows(db, db') /\ Accounted(db, db'))
<1>0. /\ db \in Databases /\ work \in Databases /\ AtNextRevision(db) \in Databases
      /\ Follows(db, AtNextRevision(db)) /\ Accounted(db, AtNextRevision(db))
  BY NextRevisionEffect, FollowsFirst, AccountedFirst DEF Inductive, TypeOK
<1>1. ASSUME BeginBatch \/ CommitBatch \/ RollbackBatch \/ UNCHANGED vars
      PROVE  /\ txn' = "open" => Accounted(db', work')
             /\ db' = db \/ (Follows(db, db') /\ Accounted(db, db'))
  BY <1>0, <1>1 DEF BeginBatch, CommitBatch, RollbackBatch, vars, Inductive, AccountedInvariant
<1>2. ASSUME NEW e, Mutate(e), Mutated(work, e)
      PROVE  (txn' = "open" => Accounted(db', work')) /\ db' = db
  <2>1. Accounted(db, e)
    BY <1>0, <1>2, AccountedStep DEF Mutate, Stored, Inductive, AccountedInvariant
  <2> QED
    BY <1>2, <2>1 DEF Mutate
<1>3. ASSUME NEW e, InOneTransaction(e), Stored(AtNextRevision(db), e)
      PROVE  txn' = "none" /\ Follows(db, db') /\ Accounted(db, db')
  BY <1>0, <1>3, FollowsStep, AccountedStep DEF InOneTransaction
<1>4. ASSUME NEW e, InOneTransaction(e), Prunes(db, e)
      PROVE  txn' = "none" /\ Prunes(db, db')
  BY <1>4 DEF InOneTransaction
<1>5. ASSUME txn' = "open" => Accounted(db', work')
      PROVE  AccountedInvariant'
  BY <1>5 DEF AccountedInvariant, Accounted, Covered, Marked, LinksOf, ChangesSince
<1> QED
  BY <1>1, <1>2, <1>3, <1>4, <1>5 DEF StoredStep

LEMMA AccountedAlways == Spec => []AccountedInvariant
<1>1. Init => AccountedInvariant
  BY DEF Init, AccountedInvariant
<1>2. Inductive /\ AccountedInvariant /\ [Next]_vars => AccountedInvariant'
  BY NextIsStoredStep, AccountedInvariantStep DEF Inductive
<1> QED
  BY <1>1, <1>2, InductiveInvariant, PTL DEF Spec

\* Every commit journals, under its own revision, everything it leaves different:
\* a reader that applies the delta to the old rows has the new ones, whatever a
\* batch wrote, removed and wrote again.
THEOREM DeltasAreComplete == Spec => JournalCoversCommit
<1>1. Inductive /\ Inductive' /\ AccountedInvariant /\ [Next]_vars =>
        [(db'.revision # db.revision \/ Content(db') # Content(db)) =>
            /\ db'.revision = db.revision + 1
            /\ Content(db') = Patched(Content(db), db', ChangesSince(db', db.revision))]_db
  <2> SUFFICES ASSUME Inductive, Inductive', AccountedInvariant, [Next]_vars,
                      db'.revision # db.revision \/ Content(db') # Content(db)
               PROVE  /\ db'.revision = db.revision + 1
                      /\ Content(db') = Patched(Content(db), db', ChangesSince(db', db.revision))
    OBVIOUS
  <2>1. db \in Databases /\ db' \in Databases
    BY DEF Inductive, TypeOK
  <2>2. db' = db \/ Prunes(db, db') \/ (Follows(db, db') /\ Accounted(db, db'))
    BY NextIsStoredStep, AccountedInvariantStep DEF Inductive
  <2>3. CASE Prunes(db, db')
    BY <2>3 DEF Prunes, PruneFrame, Content
  <2>4. CASE Follows(db, db') /\ Accounted(db, db')
    BY <2>1, <2>4, CoveredIsPatched DEF Follows, Accounted
  <2> QED
    BY <2>2, <2>3, <2>4
<1> QED
  BY <1>1, InductiveInvariant, AccountedAlways, PTL DEF Spec, JournalCoversCommit

\* A live Node that a commit changes, in its row, its properties or its
\* relationships, carries the commit's revision.
THEOREM ChangesAreStamped == Spec => ModifiedMarksChange
<1>1. Inductive /\ AccountedInvariant /\ [Next]_vars =>
        [\A n \in NodeIds :
            (/\ db'.lifecycle[n] # "none"
             /\ \/ db'.lifecycle[n] # db.lifecycle[n]
                \/ db'.properties[n] # db.properties[n]
                \/ {e \in db'.relationships : n \in {e[1], e[3]}} #
                       {e \in db.relationships : n \in {e[1], e[3]}})
            => db'.modified[n] = db'.revision]_db
  <2> SUFFICES ASSUME Inductive, AccountedInvariant, [Next]_vars, NEW n \in NodeIds,
                      db'.lifecycle[n] # "none",
                      \/ db'.lifecycle[n] # db.lifecycle[n]
                      \/ db'.properties[n] # db.properties[n]
                      \/ LinksOf(db', n) # LinksOf(db, n)
               PROVE  db'.modified[n] = db'.revision
    BY DEF LinksOf
  <2>1. db' = db \/ Prunes(db, db') \/ (Follows(db, db') /\ Accounted(db, db'))
    BY NextIsStoredStep, AccountedInvariantStep DEF Inductive
  <2>2. CASE Prunes(db, db')
    BY <2>2 DEF Prunes, PruneFrame, LinksOf
  <2>3. CASE Accounted(db, db')
    BY <2>3 DEF Accounted, Marked
  <2> QED
    BY <2>1, <2>2, <2>3
<1> QED
  BY <1>1, InductiveInvariant, AccountedAlways, PTL DEF Spec, ModifiedMarksChange

-----------------------------------------------------------------------------
(* Identities in the journal *)

\* Issued, and the Node is gone for good.
Retired(d, n) == n \in d.issued /\ d.lifecycle[n] = "none"

\* What the journal says was created is issued, what it says was purged retired.
LedgerJournalled(d) ==
    /\ \A c \in d.journal : c.kind = "node_created" => c.node \in d.issued
    /\ \A c \in d.journal : c.kind = "node_purged" => Retired(d, c.node)

LEMMA StoredLedger ==
    ASSUME NEW d \in Databases, NEW e, Stored(d, e), Consistent(d), LedgerJournalled(d)
    PROVE  LedgerJournalled(e)
<1>0. /\ d.lifecycle \in [NodeIds -> Lifecycles] /\ d.issued \in SUBSET NodeIds
      /\ \A n \in d.issued : n \in e.issued
      /\ \A n : Retired(d, n) => Retired(e, n)
  BY StoredIdentities, DatabaseFields DEF Retired
<1>1. ASSUME \A c \in e.journal \ d.journal :
                /\ c.kind = "node_created" => c.node \in e.issued
                /\ c.kind = "node_purged" => Retired(e, c.node)
      PROVE  LedgerJournalled(e)
  BY <1>0, <1>1 DEF LedgerJournalled
<1>2. CASE NodesWritten(d, e)
  <2>1. ASSUME NEW ids \in SUBSET NodeIds, NodesFrame(d, e, ids)
        PROVE  LedgerJournalled(e)
    <3>1. \A c \in e.journal \ d.journal : c.kind = "node_created" /\ c.node \in ids
      BY <2>1 DEF NodesFrame, NodeChange
    <3> QED
      BY <1>1, <2>1, <3>1 DEF NodesFrame
  <2>2. ASSUME NEW n \in NodeIds, NEW state,
               \/ LifecycleFrame(d, e, n, state, "node_tombstoned")
               \/ LifecycleFrame(d, e, n, state, "node_restored")
        PROVE  LedgerJournalled(e)
    <3>1. \A c \in e.journal \ d.journal : c.kind \in {"node_tombstoned", "node_restored"}
      BY <2>2 DEF LifecycleFrame, NodeChange
    <3> QED
      BY <1>1, <3>1
  <2>3. ASSUME NEW n \in NodeIds, d.lifecycle[n] = "tombstoned", PurgeFrame(d, e, n)
        PROVE  LedgerJournalled(e)
    <3>1. \A c \in e.journal \ d.journal : c.kind = "node_purged" /\ c.node = n
      BY <2>3 DEF PurgeFrame, NodeChange
    <3>2. Retired(e, n)
      BY <1>0, <2>3 DEF PurgeFrame, Retired, Consistent
    <3> QED
      BY <1>1, <3>1, <3>2
  <2> QED
    BY <1>2, <2>1, <2>2, <2>3 DEF NodesWritten
<1>3. CASE FactWritten(d, e)
  <2>1. \A c \in e.journal \ d.journal : c.kind \in {"property_set", "property_removed"}
    <3>1. ASSUME NEW n, NEW k, NEW fact, NEW change \in {"property_set", "property_removed"},
                 FactFrame(d, e, n, k, fact, change)
          PROVE  \A c \in e.journal \ d.journal : c.kind \in {"property_set", "property_removed"}
      BY <3>1 DEF FactFrame, NodeChange
    <3> QED
      BY <1>3, <3>1 DEF FactWritten
  <2> QED
    BY <1>1, <2>1
<1>4. CASE RelationshipWritten(d, e)
  <2>1. \A c \in e.journal \ d.journal : c.kind \in RelationshipChangeKinds
    BY <1>4 DEF RelationshipWritten, RelationshipsFrame, RelationshipChange,
                RelationshipChangeKinds
  <2> QED
    BY <1>1, <2>1 DEF RelationshipChangeKinds
<1>5. CASE PropertyDefinitionStored(d, e) \/ RelationshipDefinitionStored(d, e)
  <2>1. \A c \in e.journal \ d.journal : c.kind \in DefinitionChangeKinds
    <3>1. ASSUME NEW k, NEW definition,
                 \/ PropertyDefinitionFrame(d, e, k, definition)
                 \/ RelationshipDefinitionFrame(d, e, k, definition)
          PROVE  \A c \in e.journal \ d.journal : c.kind \in DefinitionChangeKinds
      BY <3>1 DEF PropertyDefinitionFrame, RelationshipDefinitionFrame, DefinitionChange,
                  DefinitionChangeKinds
    <3> QED
      BY <1>5, <3>1 DEF PropertyDefinitionStored, RelationshipDefinitionStored
  <2> QED
    BY <1>1, <2>1 DEF DefinitionChangeKinds
<1> QED
  BY <1>2, <1>3, <1>4, <1>5 DEF Stored, Mutated

LedgerInvariant == LedgerJournalled(db) /\ LedgerJournalled(work)

LEMMA LedgerStep ==
    ASSUME Inductive, LedgerInvariant, StoredStep
    PROVE  LedgerInvariant'
<1>0. /\ db \in Databases /\ work \in Databases /\ AtNextRevision(db) \in Databases
      /\ LedgerJournalled(AtNextRevision(db)) /\ Consistent(AtNextRevision(db))
      /\ Consistent(db) /\ Consistent(work)
  BY NextRevisionEffect, NextRevisionConsistent
     DEF Inductive, TypeOK, LedgerInvariant, LedgerJournalled, Retired
<1>1. ASSUME LedgerJournalled(db'), LedgerJournalled(work')
      PROVE  LedgerInvariant'
  BY <1>1 DEF LedgerInvariant, LedgerJournalled, Retired
<1>2. CASE BeginBatch \/ CommitBatch \/ RollbackBatch \/ UNCHANGED vars
  <2>1. db' \in {db, work} /\ work' \in {db, work, AtNextRevision(db)}
    BY <1>2 DEF BeginBatch, CommitBatch, RollbackBatch, vars
  <2> QED
    BY <1>0, <1>1, <2>1 DEF LedgerInvariant
<1>3. ASSUME NEW e, Mutate(e), Mutated(work, e)
      PROVE  LedgerInvariant'
  <2>1. LedgerJournalled(e)
    BY <1>0, <1>3, StoredLedger DEF Stored, LedgerInvariant
  <2> QED
    BY <1>1, <1>3, <2>1 DEF Mutate, LedgerInvariant
<1>4. ASSUME NEW e, InOneTransaction(e), Stored(AtNextRevision(db), e)
      PROVE  LedgerInvariant'
  <2>1. LedgerJournalled(e)
    BY <1>0, <1>4, StoredLedger
  <2> QED
    BY <1>1, <1>4, <2>1 DEF InOneTransaction
<1>5. ASSUME NEW e, InOneTransaction(e), Prunes(db, e)
      PROVE  LedgerInvariant'
  <2>1. LedgerJournalled(e)
    BY <1>5 DEF Prunes, PruneFrame, LedgerInvariant, LedgerJournalled, Retired
  <2> QED
    BY <1>1, <1>5, <2>1 DEF InOneTransaction
<1> QED
  BY <1>2, <1>3, <1>4, <1>5 DEF StoredStep

-----------------------------------------------------------------------------
(* Readers of the journal *)

\* As long as the journal of d reaches back to the state x, it names all that
\* has changed since.
Reaches(x, d) == Available(d, x.revision) => Covered(x, d, ChangesSince(d, x.revision))

\* What is known of the state that the history h has under r.
Recorded(h, r) ==
    /\ h[r] \in Databases
    /\ h[r].revision = r
    /\ h[r].journal = {}
    /\ Consistent(h[r])

LEMMA UnjournalledEffect ==
    ASSUME NEW d \in Databases
    PROVE  /\ Unjournalled(d) \in Databases
           /\ Unjournalled(d).revision = d.revision
           /\ Unjournalled(d).journal = {}
           /\ Unjournalled(d).issued = d.issued
           /\ Unjournalled(d).lifecycle = d.lifecycle
           /\ Content(Unjournalled(d)) = Content(d)
           /\ Consistent(d) => Consistent(Unjournalled(d))
<1>1. PruneFrame(d, Unjournalled(d), {})
  BY PruneEffect DEF Unjournalled
<1> QED
  BY <1>1 DEF PruneFrame, Content, Consistent

LEMMA ContentType ==
    ASSUME NEW d \in Databases
    PROVE  Content(d) \in Contents
  BY DatabaseFields DEF Content, Contents

\* A pruned journal that still reaches back has lost nothing of what came after.
LEMMA ReachesPruned ==
    ASSUME NEW x, x.revision \in Nat, NEW d \in Databases, NEW e, Prunes(d, e), Reaches(x, d)
    PROVE  Reaches(x, e) /\ Content(e) = Content(d) /\ Unjournalled(e) = Unjournalled(d)
<1>0. d.revision \in Nat /\ Retention \in Nat /\ e \in Databases /\ e.revision = d.revision
  BY DatabaseFields, RetentionAssumption DEF Prunes, PruneFrame
<1>1. /\ \A c \in d.journal : c.revision \in Nat
      /\ \A c : c \in e.journal <=> c \in d.journal /\ c.revision + Retention > d.revision
  BY DatabaseFields DEF Prunes, PruneFrame, Changes
<1>2. ASSUME Available(e, x.revision)
      PROVE  Covered(x, e, ChangesSince(e, x.revision))
  <2>1. Available(d, x.revision)
    BY <1>0, <1>1, <1>2 DEF Available, JournalIsContiguous
  <2>2. x.revision < d.revision
    BY <2>1 DEF Available
  <2>3. PICK c \in e.journal : c.revision = x.revision + 1
    BY <1>0, <1>2, <2>2 DEF Available, JournalIsContiguous
  <2>4. \A y \in d.journal : y.revision > x.revision => y \in e.journal
    BY <1>0, <1>1, <2>2, <2>3
  <2>5. ChangesSince(e, x.revision) = ChangesSince(d, x.revision)
    BY <1>1, <2>4 DEF ChangesSince
  <2> QED
    BY <2>1, <2>5 DEF Reaches, Prunes, PruneFrame, Covered
<1>3. Unjournalled(e) = Unjournalled(d)
  BY <1>0 DEF Prunes, PruneFrame, Unjournalled, Databases
<1> QED
  BY <1>2, <1>3 DEF Reaches, Prunes, PruneFrame, Content

\* The journal rows of a commit continue those that reached back before it.
LEMMA ReachesCommitted ==
    ASSUME NEW x, x.revision \in Nat, NEW d \in Databases, NEW e \in Databases,
           Consistent(d), Follows(d, e), Accounted(d, e), Reaches(x, d),
           x.revision <= d.revision, x.revision = d.revision => x = Unjournalled(d)
    PROVE  Reaches(x, e)
<1>0. /\ d.revision \in Nat /\ e.revision = d.revision + 1
      /\ d.journal \subseteq e.journal
      /\ \A c \in e.journal : c \in d.journal \/ c.revision = e.revision
      /\ \A c \in d.journal : c.revision \in Nat /\ c.revision <= d.revision
      /\ Covered(d, e, ChangesSince(e, d.revision))
  BY DatabaseFields DEF Follows, Accounted, Consistent, Changes
<1> SUFFICES ASSUME Available(e, x.revision)
             PROVE  Covered(x, e, ChangesSince(e, x.revision))
  BY DEF Reaches
<1>1. CASE x.revision = d.revision
  <2>1. x.issued = d.issued /\ Content(x) = Content(d)
    BY <1>1, UnjournalledEffect
  <2> QED
    BY <1>0, <1>1, <2>1 DEF Covered, Content
<1>2. CASE x.revision # d.revision
  <2>1. ASSUME NEW q \in (x.revision + 1) .. d.revision
        PROVE  \E c \in d.journal : c.revision = q
    <3>1. PICK c \in e.journal : c.revision = q
      BY <1>0, <2>1 DEF Available, JournalIsContiguous
    <3> QED
      BY <1>0, <2>1, <3>1
  <2>2. Covered(x, d, ChangesSince(d, x.revision))
    BY <1>0, <1>2, <2>1 DEF Reaches, Available, JournalIsContiguous
  <2>3. ChangesSince(d, x.revision) \cup ChangesSince(e, d.revision) \subseteq ChangesSince(e, x.revision)
    <3>1. \A c \in e.journal : c.revision > d.revision => c.revision > x.revision
      BY <1>0
    <3> QED
      BY <1>0, <3>1 DEF ChangesSince
  <2> QED
    BY <1>0, <2>2, <2>3, CoveredTransitive
<1> QED
  BY <1>1, <1>2

-----------------------------------------------------------------------------
(* The bound on revisions, which every operation that makes one observes *)

Bounded == db.revision <= MaxRevision /\ (txn = "open" => db.revision < MaxRevision)

LEMMA NextIsBounded ==
    ASSUME Next
    PROVE  txn = "open" \/ db.revision < MaxRevision \/ PruneChangeJournal
<1>1. CASE BeginBatch \/ CommitBatch \/ RollbackBatch
  BY <1>1 DEF BeginBatch, CommitBatch, RollbackBatch
<1>2. CASE NodeMutation
  BY <1>2 DEF NodeMutation, CreateNode, TombstoneNode, RestoreNode, PurgeNode, Mutate
<1>3. CASE PropertyMutation
  BY <1>3 DEF PropertyMutation, SetProperty, RemoveProperty, Mutate
<1>4. CASE RelationshipMutation
  BY <1>4 DEF RelationshipMutation, AddRelationship, RemoveRelationship, Mutate
<1>5. CASE \E ids \in SUBSET NodeIds : CreateNodes(ids)
  BY <1>5 DEF CreateNodes
<1>6. CASE PropertyDefinitionOperation
  BY <1>6 DEF PropertyDefinitionOperation, RegisterPropertyDefinition, UpdatePropertyDefinition,
              DeprecatePropertyDefinition, RemovePropertyDefinition, WritePropertyDefinition
<1>7. CASE RelationshipDefinitionOperation
  BY <1>7 DEF RelationshipDefinitionOperation, RegisterRelationshipDefinition,
              UpdateRelationshipDefinition, DeprecateRelationshipDefinition,
              RemoveRelationshipDefinition, WriteRelationshipDefinition
<1> QED
  BY <1>1, <1>2, <1>3, <1>4, <1>5, <1>6, <1>7 DEF Next

LEMMA PruneKeepsRevision ==
    ASSUME TypeOK, PruneChangeJournal
    PROVE  StoredStep /\ db'.revision = db.revision /\ txn' = "none"
<1>1. Next
  BY DEF Next
<1>2. {c \in db.journal : c.revision >= db.revision - Retention + 1} \in SUBSET db.journal
  OBVIOUS
<1>3. db'.revision = db.revision
  BY <1>2, PruneEffect DEF PruneChangeJournal, InOneTransaction, TypeOK, PruneFrame
<1> QED
  BY <1>1, <1>3, NextIsStoredStep DEF PruneChangeJournal, InOneTransaction

\* How a step of the Record Store keeps to the bound.
LEMMA StepKeepsBound ==
    ASSUME Inductive, Bounded, [Next]_vars
    PROVE  db'.revision <= MaxRevision /\ (txn' = "open" => db'.revision < MaxRevision)
<1>0. /\ db.revision \in Nat /\ MaxRevision \in Nat /\ TypeOK /\ Inductive
      /\ db.revision <= MaxRevision
      /\ txn = "open" => db.revision < MaxRevision
  BY DatabaseFields, BoundsAssumption DEF Bounded, Inductive, TypeOK
<1>1. CASE UNCHANGED vars
  BY <1>0, <1>1 DEF vars
<1>2. CASE PruneChangeJournal
  BY <1>0, <1>2, PruneKeepsRevision
<1>3. CASE Next /\ ~PruneChangeJournal
  <2>1. db.revision < MaxRevision
    BY <1>0, <1>3, NextIsBounded
  <2>2. db'.revision = db.revision \/ db'.revision = db.revision + 1
    BY <1>0, NextIsStoredStep, CommitShape DEF Prunes, PruneFrame, Follows
  <2>3. txn' = "open" => db' = db
    <3>1. CASE BeginBatch \/ CommitBatch \/ RollbackBatch \/ UNCHANGED vars
      BY <3>1 DEF BeginBatch, CommitBatch, RollbackBatch, vars
    <3>2. ASSUME NEW e, Mutate(e) \/ InOneTransaction(e)
          PROVE  txn' = "open" => db' = db
      BY <3>2 DEF Mutate, InOneTransaction
    <3> QED
      BY <1>0, <3>1, <3>2, StepShape
  <2> QED
    BY <1>0, <2>1, <2>2, <2>3
<1> QED
  BY <1>1, <1>2, <1>3

-----------------------------------------------------------------------------
(* Numbers *)

LEMMA LeastNumber ==
    ASSUME NEW S \in SUBSET Nat, S # {}
    PROVE  \E m \in S : \A n \in S : m <= n
<1> DEFINE R == {ss \in Nat \X Nat : ss[1] < ss[2]}
<1>0. IsWellFoundedOn(R, Nat)
  BY NatLessThanWellFounded DEF OpToRel
<1> HIDE DEF R
<1>1. PICK m \in S : \A n \in S : <<n, m>> \notin R
  BY <1>0, WFMin
<1>2. \A n \in S : ~(n < m)
  BY <1>1 DEF R
<1> QED
  BY <1>2
=============================================================================
