---------------------------- MODULE TraversalProofs ----------------------------
(***************************************************************************)
(* Theorems about the Index of a library that one Core has open, and about *)
(* callers that page through it or through stable snapshots, for every set *)
(* of identities and keys and every retention, while other connections     *)
(* commit between any two statements of a synchronization.                 *)
(***************************************************************************)
EXTENDS Traversals, ProjectionProofs, FiniteSetTheorems

-----------------------------------------------------------------------------
(* The Record Store *)

\* A Node that is not there has no stamp.
Absent(d) == \A n \in NodeIds : d.lifecycle[n] = "none" => d.modified[n] = 0

StoreInvariant ==
    /\ Inductive
    /\ AccountedInvariant
    /\ Absent(db)
    /\ Absent(work)

LEMMA StoredAbsent ==
    ASSUME NEW d \in Databases, NEW e, Stored(d, e), Absent(d)
    PROVE  Absent(e)
<1>0. d.lifecycle \in [NodeIds -> Lifecycles] /\ d.modified \in [NodeIds -> Nat]
  BY DatabaseFields
<1>1. CASE NodesWritten(d, e)
  <2>1. ASSUME NEW ids \in SUBSET NodeIds, NodesFrame(d, e, ids) PROVE Absent(e)
    BY <1>0, <2>1 DEF NodesFrame, Absent
  <2>2. ASSUME NEW n \in NodeIds,
               \/ LifecycleFrame(d, e, n, "tombstoned", "node_tombstoned")
               \/ LifecycleFrame(d, e, n, "active", "node_restored")
        PROVE  Absent(e)
    BY <1>0, <2>2 DEF LifecycleFrame, Absent
  <2>3. ASSUME NEW n \in NodeIds, PurgeFrame(d, e, n) PROVE Absent(e)
    BY <1>0, <2>3 DEF PurgeFrame, Absent
  <2> QED
    BY <1>1, <2>1, <2>2, <2>3 DEF NodesWritten
<1>2. CASE FactWritten(d, e)
  <2>1. PICK n, k, fact, change :
          n \in NodeIds /\ d.lifecycle[n] = "active" /\ FactFrame(d, e, n, k, fact, change)
    BY <1>2 DEF FactWritten
  <2> QED
    BY <1>0, <2>1 DEF FactFrame, Absent
<1>3. CASE RelationshipWritten(d, e)
  <2>1. PICK s, k, t, relationships, change : RelationshipsFrame(d, e, s, k, t, relationships, change)
    BY <1>3 DEF RelationshipWritten
  <2> QED
    BY <1>0, <2>1 DEF RelationshipsFrame, Absent
<1>4. CASE PropertyDefinitionStored(d, e) \/ RelationshipDefinitionStored(d, e)
  BY <1>4 DEF PropertyDefinitionStored, RelationshipDefinitionStored, PropertyDefinitionFrame,
              RelationshipDefinitionFrame, Absent
<1> QED
  BY <1>1, <1>2, <1>3, <1>4 DEF Stored, Mutated

LEMMA StoreInvariantInit == Init => StoreInvariant
<1> SUFFICES ASSUME Init PROVE StoreInvariant
  OBVIOUS
<1>1. Absent(EmptyDatabase)
  BY DEF Absent, EmptyDatabase
<1> QED
  BY <1>1, InductiveInit DEF Init, StoreInvariant, AccountedInvariant

\* What a step of any connection makes of the committed database.
LEMMA StoreInvariantStep ==
    ASSUME StoreInvariant, [Next]_vars
    PROVE  /\ StoreInvariant'
           /\ db' = db \/ Prunes(db, db') \/ (Follows(db, db') /\ Accounted(db, db'))
<1>0. StoredStep /\ Inductive /\ AccountedInvariant
  BY NextIsStoredStep DEF StoreInvariant, Inductive
<1>1. /\ Inductive' /\ AccountedInvariant'
      /\ db' = db \/ Prunes(db, db') \/ (Follows(db, db') /\ Accounted(db, db'))
  BY <1>0, InductiveStep, AccountedInvariantStep
<1>2. /\ db \in Databases /\ work \in Databases /\ AtNextRevision(db) \in Databases
      /\ Absent(db) /\ Absent(work) /\ Absent(AtNextRevision(db))
  BY NextRevisionEffect DEF StoreInvariant, Inductive, TypeOK, Absent
<1>3. CASE BeginBatch \/ CommitBatch \/ RollbackBatch \/ UNCHANGED vars
  <2>1. db' \in {db, work} /\ work' \in {db, work, AtNextRevision(db)}
    BY <1>3 DEF BeginBatch, CommitBatch, RollbackBatch, vars
  <2>2. Absent(db') /\ Absent(work')
    BY <1>2, <2>1
  <2> QED
    BY <1>1, <2>2 DEF StoreInvariant, Absent
<1>4. ASSUME NEW e, Mutate(e), Mutated(work, e)
      PROVE  Absent(db') /\ Absent(work')
  BY <1>2, <1>4, StoredAbsent DEF Mutate, Stored
<1>5. ASSUME NEW e, InOneTransaction(e), Stored(AtNextRevision(db), e)
      PROVE  Absent(db') /\ Absent(work')
  BY <1>2, <1>5, StoredAbsent DEF InOneTransaction
<1>6. ASSUME NEW e, InOneTransaction(e), Prunes(db, e)
      PROVE  Absent(db') /\ Absent(work')
  <2>1. Absent(e)
    BY <1>2, <1>6 DEF Prunes, PruneFrame, Absent
  <2> QED
    BY <1>6, <2>1 DEF InOneTransaction
<1> QED
  BY <1>0, <1>1, <1>3, <1>4, <1>5, <1>6 DEF StoredStep, StoreInvariant, Absent

\* The properties of an absent Node are those of the empty store.
LEMMA AbsentRows ==
    ASSUME NEW d \in Databases, Consistent(d), Absent(d), NEW n \in NodeIds,
           d.lifecycle[n] = "none"
    PROVE  /\ EmptyContent.lifecycle[n] = d.lifecycle[n]
           /\ EmptyContent.modified[n] = d.modified[n]
           /\ EmptyContent.properties[n] = d.properties[n]
<1>0. d.modified[n] = 0 /\ d.properties[n] \in [PropertyKeys -> Facts]
  BY DatabaseFields DEF Absent
<1>1. ASSUME NEW k \in PropertyKeys
      PROVE  d.properties[n][k] = NoFact
  <2>1. d.properties[n][k] \in Facts
    BY <1>0
  <2>2. d.properties[n][k].kind = None /\ d.properties[n][k].revision <= 0
    BY <1>0 DEF Consistent
  <2>3. d.properties[n][k].revision = 0
    BY <2>1, <2>2 DEF Facts
  <2> QED
    BY <2>1, <2>2, <2>3 DEF Facts, NoFact
<1>2. d.properties[n] = [k \in PropertyKeys |-> NoFact]
  BY <1>0, <1>1
<1> QED
  BY <1>0, <1>2 DEF EmptyContent, EmptyDatabase, Content

-----------------------------------------------------------------------------
(* Rows that were read earlier *)

\* Of these items, x and d differ at most in what the changes name.
AgreesBut(x, d, items, changes) ==
    /\ \A n \in items.nodes \ NamedNodes(changes) :
           x.lifecycle[n] = d.lifecycle[n] /\ x.modified[n] = d.modified[n]
    /\ \A n \in items.properties \ NamedNodes(changes) : x.properties[n] = d.properties[n]
    /\ \A e \in items.relationships \ NamedRelationships(changes) :
           e \in x.relationships <=> e \in d.relationships
    /\ \A k \in items.propertyDefinitions \ NamedPropertyDefinitions(changes) :
           x.propertyDefinitions[k] = d.propertyDefinitions[k]
    /\ \A k \in items.relationshipDefinitions \ NamedRelationshipDefinitions(changes) :
           x.relationshipDefinitions[k] = d.relationshipDefinitions[k]

\* What of these items is not as d has it, the journal of d names past t.
Fresh(x, items, t, d) ==
    Unavailable(d, t) \/ AgreesBut(x, d, items, ChangesSince(d, t))

LEMMA AgreesWeaken ==
    ASSUME NEW x, NEW d, NEW items, NEW few, NEW many, few \subseteq many,
           AgreesBut(x, d, items, few)
    PROVE  AgreesBut(x, d, items, many)
  BY NamedMonotonic DEF AgreesBut

\* A commit names what it changes, and pruning takes nothing that is needed.
LEMMA FreshKept ==
    ASSUME NEW d \in Databases, NEW e \in Databases, Consistent(d),
           e = d \/ Prunes(d, e) \/ (Follows(d, e) /\ Accounted(d, e)),
           NEW x, NEW items \in Items, NEW t \in Nat, t <= d.revision, Fresh(x, items, t, d)
    PROVE  t <= e.revision /\ Fresh(x, items, t, e)
<1>0. /\ d.revision \in Nat /\ e.revision \in Nat /\ Retention \in Nat
      /\ \A c \in d.journal : c.revision \in Nat /\ c.revision <= d.revision
  BY DatabaseFields, RetentionAssumption DEF Consistent, Changes
<1>1. CASE Prunes(d, e)
  <2>0. /\ e.revision = d.revision
        /\ \A c : c \in e.journal <=> c \in d.journal /\ c.revision + Retention > d.revision
        /\ \A few : AgreesBut(x, d, items, few) => AgreesBut(x, e, items, few)
    BY <1>1 DEF Prunes, PruneFrame, AgreesBut
  <2> SUFFICES ASSUME ~Unavailable(e, t) PROVE AgreesBut(x, e, items, ChangesSince(e, t))
    BY <2>0 DEF Fresh
  <2>1. CASE t = d.revision
    <3>1. ChangesSince(e, t) = {} /\ ChangesSince(d, t) = {}
      BY <1>0, <2>0, <2>1 DEF ChangesSince
    <3>2. ~Unavailable(d, t)
      BY <2>1 DEF Unavailable, Current
    <3> QED
      BY <2>0, <3>1, <3>2 DEF Fresh
  <2>2. CASE t < d.revision
    <3>1. JournalIsContiguous(e, t)
      BY <1>0, <2>0, <2>2 DEF Unavailable, Current, Available
    <3>2. PICK c \in e.journal : c.revision = t + 1
      BY <1>0, <2>0, <2>2, <3>1 DEF JournalIsContiguous
    <3>3. \A y \in d.journal : y.revision > t => y \in e.journal
      BY <1>0, <2>0, <2>2, <3>2
    <3>4. ChangesSince(e, t) = ChangesSince(d, t)
      BY <2>0, <3>3 DEF ChangesSince
    <3>5. ~Unavailable(d, t)
      BY <2>0, <2>2, <3>1 DEF Unavailable, Available, JournalIsContiguous
    <3> QED
      BY <2>0, <3>4, <3>5 DEF Fresh
  <2> QED
    BY <1>0, <2>1, <2>2
<1>2. CASE Follows(d, e) /\ Accounted(d, e)
  <2>0. /\ e.revision = d.revision + 1
        /\ d.journal \subseteq e.journal
        /\ \A c \in e.journal : c \in d.journal \/ c.revision = e.revision
        /\ Covered(d, e, ChangesSince(e, d.revision))
    BY <1>2 DEF Follows, Accounted
  <2> SUFFICES ASSUME ~Unavailable(e, t) PROVE AgreesBut(x, e, items, ChangesSince(e, t))
    BY <1>0, <2>0 DEF Fresh
  <2>1. JournalIsContiguous(e, t)
    BY <1>0, <2>0 DEF Unavailable, Current, Available
  <2>2. \A q \in (t + 1) .. d.revision : \E c \in d.journal : c.revision = q
    <3> TAKE q \in (t + 1) .. d.revision
    <3>1. PICK c \in e.journal : c.revision = q
      BY <1>0, <2>0, <2>1 DEF JournalIsContiguous
    <3> QED
      BY <1>0, <2>0, <3>1
  <2>3. ~Unavailable(d, t)
    BY <1>0, <2>2 DEF Unavailable, Current, Available, JournalIsContiguous
  <2>4. ChangesSince(d, t) \subseteq ChangesSince(e, t)
    BY <2>0 DEF ChangesSince
  <2>5. ChangesSince(e, d.revision) \subseteq ChangesSince(e, t)
    BY <1>0, <2>0 DEF ChangesSince
  <2>6. AgreesBut(x, d, items, ChangesSince(e, t))
    BY <2>3, <2>4, AgreesWeaken DEF Fresh
  <2>7. /\ NamedNodes(ChangesSince(e, d.revision)) \subseteq NamedNodes(ChangesSince(e, t))
        /\ NamedRelationships(ChangesSince(e, d.revision)) \subseteq NamedRelationships(ChangesSince(e, t))
        /\ NamedPropertyDefinitions(ChangesSince(e, d.revision))
               \subseteq NamedPropertyDefinitions(ChangesSince(e, t))
        /\ NamedRelationshipDefinitions(ChangesSince(e, d.revision))
               \subseteq NamedRelationshipDefinitions(ChangesSince(e, t))
    BY <2>5, NamedMonotonic
  <2> HIDE DEF Covered, AgreesBut
  <2> QED
    BY <2>0, <2>6, <2>7 DEF Covered, AgreesBut, Items
<1> QED
  BY <1>0, <1>1, <1>2

\* Rows that are all as d has them, but for what is named, are patched to d's.
LEMMA FreshIsPatched ==
    ASSUME NEW x \in Contents, NEW d \in Databases, NEW changes, AgreesBut(x, d, AllItems, changes)
    PROVE  Patched(x, d, changes) = Content(d)
<1>1. ASSUME NEW keys, NEW f, NEW g, DOMAIN f = keys, DOMAIN g = keys,
             g = [k \in keys |-> g[k]],
             NEW named, \A k \in keys \ named : f[k] = g[k]
      PROVE  Overridden(f, g, named) = g
  <2>1. Overridden(f, g, named) = [k \in keys |-> g[k]]
    BY <1>1 DEF Overridden
  <2> QED
    BY <1>1, <2>1
<1>2. /\ DOMAIN x.lifecycle = NodeIds /\ DOMAIN x.modified = NodeIds
      /\ DOMAIN x.properties = NodeIds /\ DOMAIN x.propertyDefinitions = PropertyKeys
      /\ DOMAIN x.relationshipDefinitions = RelationshipKeys
      /\ x.relationships \subseteq Relationships
  BY DEF Contents
<1>3. /\ DOMAIN d.lifecycle = NodeIds /\ d.lifecycle = [n \in NodeIds |-> d.lifecycle[n]]
      /\ DOMAIN d.modified = NodeIds /\ d.modified = [n \in NodeIds |-> d.modified[n]]
      /\ DOMAIN d.properties = NodeIds /\ d.properties = [n \in NodeIds |-> d.properties[n]]
      /\ DOMAIN d.propertyDefinitions = PropertyKeys
      /\ d.propertyDefinitions = [k \in PropertyKeys |-> d.propertyDefinitions[k]]
      /\ DOMAIN d.relationshipDefinitions = RelationshipKeys
      /\ d.relationshipDefinitions = [k \in RelationshipKeys |-> d.relationshipDefinitions[k]]
      /\ d.relationships \subseteq Relationships
  BY DatabaseFields
<1>4. /\ Overridden(x.lifecycle, d.lifecycle, NamedNodes(changes)) = d.lifecycle
      /\ Overridden(x.modified, d.modified, NamedNodes(changes)) = d.modified
      /\ Overridden(x.properties, d.properties, NamedNodes(changes)) = d.properties
      /\ Overridden(x.propertyDefinitions, d.propertyDefinitions,
                    NamedPropertyDefinitions(changes)) = d.propertyDefinitions
      /\ Overridden(x.relationshipDefinitions, d.relationshipDefinitions,
                    NamedRelationshipDefinitions(changes)) = d.relationshipDefinitions
  BY <1>1, <1>2, <1>3 DEF AgreesBut, AllItems
<1>5. (x.relationships \ NamedRelationships(changes))
          \cup (d.relationships \cap NamedRelationships(changes)) = d.relationships
  BY <1>2, <1>3 DEF AgreesBut, AllItems
<1> QED
  BY <1>4, <1>5 DEF Patched, Overlaid, Named, Content

\* z is x with the items as y has them.
IsOverlay(z, x, y, items) ==
    /\ z \in Contents
    /\ \A n \in NodeIds :
          /\ z.lifecycle[n] = IF n \in items.nodes THEN y.lifecycle[n] ELSE x.lifecycle[n]
          /\ z.modified[n] = IF n \in items.nodes THEN y.modified[n] ELSE x.modified[n]
          /\ z.properties[n] = IF n \in items.properties THEN y.properties[n] ELSE x.properties[n]
    /\ \A e : e \in z.relationships <=>
          IF e \in items.relationships THEN e \in y.relationships ELSE e \in x.relationships
    /\ \A k \in PropertyKeys :
          z.propertyDefinitions[k] = IF k \in items.propertyDefinitions
                                     THEN y.propertyDefinitions[k] ELSE x.propertyDefinitions[k]
    /\ \A k \in RelationshipKeys :
          z.relationshipDefinitions[k] = IF k \in items.relationshipDefinitions
                                         THEN y.relationshipDefinitions[k]
                                         ELSE x.relationshipDefinitions[k]

LEMMA OverlaidEffect ==
    ASSUME NEW x \in Contents, NEW y \in Contents, NEW items
    PROVE  IsOverlay(Overlaid(x, y, items), x, y, items)
<1>1. ASSUME NEW z \in Contents
      PROVE  /\ z.lifecycle \in [NodeIds -> Lifecycles] /\ z.modified \in [NodeIds -> Nat]
             /\ z.properties \in [NodeIds -> [PropertyKeys -> Facts]]
             /\ z.relationships \in SUBSET Relationships
             /\ z.propertyDefinitions \in [PropertyKeys -> DefinitionsOf(PropertyKeys)]
             /\ z.relationshipDefinitions \in [RelationshipKeys -> DefinitionsOf(RelationshipKeys)]
  BY DEF Contents
<1>2. /\ Overridden(x.lifecycle, y.lifecycle, items.nodes) \in [NodeIds -> Lifecycles]
      /\ \A k \in NodeIds : Overridden(x.lifecycle, y.lifecycle, items.nodes)[k] =
             IF k \in items.nodes THEN y.lifecycle[k] ELSE x.lifecycle[k]
  <2>1. x.lifecycle \in [NodeIds -> Lifecycles] /\ y.lifecycle \in [NodeIds -> Lifecycles]
    BY <1>1
  <2> QED
    BY <2>1 DEF Overridden
<1>3. /\ Overridden(x.modified, y.modified, items.nodes) \in [NodeIds -> Nat]
      /\ \A k \in NodeIds : Overridden(x.modified, y.modified, items.nodes)[k] =
             IF k \in items.nodes THEN y.modified[k] ELSE x.modified[k]
  <2>1. x.modified \in [NodeIds -> Nat] /\ y.modified \in [NodeIds -> Nat]
    BY <1>1
  <2> QED
    BY <2>1 DEF Overridden
<1>4. /\ Overridden(x.properties, y.properties, items.properties) \in [NodeIds -> [PropertyKeys -> Facts]]
      /\ \A k \in NodeIds : Overridden(x.properties, y.properties, items.properties)[k] =
             IF k \in items.properties THEN y.properties[k] ELSE x.properties[k]
  <2>1. x.properties \in [NodeIds -> [PropertyKeys -> Facts]] /\ y.properties \in [NodeIds -> [PropertyKeys -> Facts]]
    BY <1>1
  <2> QED
    BY <2>1 DEF Overridden
<1>5. /\ Overridden(x.propertyDefinitions, y.propertyDefinitions, items.propertyDefinitions) \in [PropertyKeys -> DefinitionsOf(PropertyKeys)]
      /\ \A k \in PropertyKeys : Overridden(x.propertyDefinitions, y.propertyDefinitions, items.propertyDefinitions)[k] =
             IF k \in items.propertyDefinitions THEN y.propertyDefinitions[k] ELSE x.propertyDefinitions[k]
  <2>1. x.propertyDefinitions \in [PropertyKeys -> DefinitionsOf(PropertyKeys)] /\ y.propertyDefinitions \in [PropertyKeys -> DefinitionsOf(PropertyKeys)]
    BY <1>1
  <2> QED
    BY <2>1 DEF Overridden
<1>6. /\ Overridden(x.relationshipDefinitions, y.relationshipDefinitions, items.relationshipDefinitions) \in [RelationshipKeys -> DefinitionsOf(RelationshipKeys)]
      /\ \A k \in RelationshipKeys : Overridden(x.relationshipDefinitions, y.relationshipDefinitions, items.relationshipDefinitions)[k] =
             IF k \in items.relationshipDefinitions THEN y.relationshipDefinitions[k] ELSE x.relationshipDefinitions[k]
  <2>1. x.relationshipDefinitions \in [RelationshipKeys -> DefinitionsOf(RelationshipKeys)] /\ y.relationshipDefinitions \in [RelationshipKeys -> DefinitionsOf(RelationshipKeys)]
    BY <1>1
  <2> QED
    BY <2>1 DEF Overridden
<1>7. Overlaid(x, y, items) \in Contents
  BY <1>1, <1>2, <1>3, <1>4, <1>5, <1>6 DEF Overlaid, Contents
<1> QED
  BY <1>2, <1>3, <1>4, <1>5, <1>6, <1>7 DEF Overlaid, IsOverlay

\* Another statement's rows, which are d's but for what is named.
LEMMA RowsRead ==
    ASSUME NEW x \in Contents, NEW y \in Contents, NEW d, NEW items \in Items, NEW left \in Items,
           NEW read, NEW changes, AgreesBut(x, d, Without(items, left), changes),
           AgreesBut(y, d, items, changes)
    PROVE  AgreesBut(Overlaid(x, y, read), d, Without(items, Without(left, read)), changes)
<1> DEFINE z == Overlaid(x, y, read)
           old == Without(items, left)
           new == Without(items, Without(left, read))
<1>1. /\ new.nodes \subseteq items.nodes /\ new.properties \subseteq items.properties
      /\ new.relationships \subseteq items.relationships
      /\ new.propertyDefinitions \subseteq items.propertyDefinitions
      /\ new.relationshipDefinitions \subseteq items.relationshipDefinitions
  BY DEF Without
<1>2. /\ new.nodes \subseteq old.nodes \cup read.nodes /\ new.nodes \subseteq NodeIds
      /\ new.properties \subseteq old.properties \cup read.properties
      /\ new.properties \subseteq NodeIds
      /\ new.relationships \subseteq old.relationships \cup read.relationships
      /\ new.propertyDefinitions \subseteq old.propertyDefinitions \cup read.propertyDefinitions
      /\ new.propertyDefinitions \subseteq PropertyKeys
      /\ new.relationshipDefinitions \subseteq
             old.relationshipDefinitions \cup read.relationshipDefinitions
      /\ new.relationshipDefinitions \subseteq RelationshipKeys
  BY DEF Without, Items
<1>3. /\ AgreesBut(x, d, old, changes) /\ AgreesBut(y, d, items, changes)
      /\ IsOverlay(z, x, y, read)
  BY OverlaidEffect
<1> HIDE DEF z, old, new
<1>4. \A n \in new.nodes \ NamedNodes(changes) :
          z.lifecycle[n] = d.lifecycle[n] /\ z.modified[n] = d.modified[n]
  BY <1>1, <1>2, <1>3 DEF AgreesBut, IsOverlay
<1>5. \A n \in new.properties \ NamedNodes(changes) : z.properties[n] = d.properties[n]
  BY <1>1, <1>2, <1>3 DEF AgreesBut, IsOverlay
<1>6. \A e \in new.relationships \ NamedRelationships(changes) :
          e \in z.relationships <=> e \in d.relationships
  BY <1>1, <1>2, <1>3 DEF AgreesBut, IsOverlay
<1>7. \A k \in new.propertyDefinitions \ NamedPropertyDefinitions(changes) :
          z.propertyDefinitions[k] = d.propertyDefinitions[k]
  BY <1>1, <1>2, <1>3 DEF AgreesBut, IsOverlay
<1>8. \A k \in new.relationshipDefinitions \ NamedRelationshipDefinitions(changes) :
          z.relationshipDefinitions[k] = d.relationshipDefinitions[k]
  BY <1>1, <1>2, <1>3 DEF AgreesBut, IsOverlay
<1>9. AgreesBut(z, d, new, changes)
  BY <1>4, <1>5, <1>6, <1>7, <1>8 DEF AgreesBut
<1> QED
  BY <1>9 DEF z, new

\* Whatever Node's properties a statement finds under a rowid, the other columns
\* and tables are those of the store.
LEMMA FoundTypes ==
    ASSUME db \in Databases, NEW s, NEW y \in ContentsFound(s)
    PROVE  /\ y \in Contents
           /\ y.lifecycle = db.lifecycle /\ y.modified = db.modified
           /\ y.relationships = db.relationships
           /\ y.propertyDefinitions = db.propertyDefinitions
           /\ y.relationshipDefinitions = db.relationshipDefinitions
<1>1. Content(db) \in Contents
  BY ContentType
<1>2. ASSUME NEW n \in NodeIds, NEW m \in NodeIds,
             y = [Content(db) EXCEPT !.properties[n] = db.properties[m]]
      PROVE  /\ y \in Contents
             /\ y.lifecycle = db.lifecycle /\ y.modified = db.modified
             /\ y.relationships = db.relationships
             /\ y.propertyDefinitions = db.propertyDefinitions
             /\ y.relationshipDefinitions = db.relationshipDefinitions
  <2>1. db.properties[m] \in [PropertyKeys -> Facts]
    BY DatabaseFields
  <2> QED
    BY <1>1, <1>2, <2>1 DEF Contents, Content
<1> QED
  BY <1>1, <1>2 DEF ContentsFound, Content

\* A Node whose properties are another's is one whose row has gone since it was
\* read, and that purge is named.
LEMMA FoundAgrees ==
    ASSUME db \in Databases, NEW s \in Synchronizations, s.items.nodes = s.items.properties,
           NEW changes, AgreesBut(s.rows, db, Without(s.items, s.pending), changes),
           NEW y \in ContentsFound(s)
    PROVE  AgreesBut(y, db, s.items, changes)
<1>1. ASSUME NEW n \in s.items.properties \ NamedNodes(changes)
      PROVE  y.properties[n] = db.properties[n]
  <2>1. CASE y = Content(db)
    BY <2>1 DEF Content
  <2>2. ASSUME NEW p \in NodeIds \ s.pending.nodes, NEW m \in NodeIds,
               s.rows.lifecycle[p] # "none", db.lifecycle[p] = "none",
               y = [Content(db) EXCEPT !.properties[p] = db.properties[m]]
        PROVE  y.properties[n] = db.properties[n]
    <3>1. ASSUME p = n PROVE FALSE
      <4>1. n \in Without(s.items, s.pending).nodes \ NamedNodes(changes)
        BY <1>1, <2>2, <3>1 DEF Without
      <4>2. s.rows.lifecycle[n] = db.lifecycle[n]
        BY <4>1 DEF AgreesBut
      <4> QED
        BY <2>2, <3>1, <4>2
    <3> QED
      BY <2>2, <3>1 DEF Content
  <2> QED
    BY <2>1, <2>2 DEF ContentsFound
<1> QED
  BY <1>1, FoundTypes DEF AgreesBut

\* A delta laid over the rows it does not name.
LEMMA DeltaApplied ==
    ASSUME NEW x \in Contents, NEW rows \in Contents, NEW d, NEW items \in Items, NEW changes,
           AgreesBut(x, d, Without(AllItems, items), changes),
           AgreesBut(rows, d, Without(items, NoItems), changes)
    PROVE  AgreesBut(Overlaid(x, rows, items), d, AllItems, changes)
<1> DEFINE z == Overlaid(x, rows, items)
           rest == Without(AllItems, items)
           all == Without(items, NoItems)
<1>1. /\ AllItems.nodes = NodeIds /\ AllItems.properties = NodeIds
      /\ AllItems.relationships = Relationships
      /\ AllItems.propertyDefinitions = PropertyKeys
      /\ AllItems.relationshipDefinitions = RelationshipKeys
  BY DEF AllItems
<1>2. /\ rest.nodes = NodeIds \ items.nodes /\ all.nodes = items.nodes
      /\ rest.properties = NodeIds \ items.properties /\ all.properties = items.properties
      /\ rest.relationships = Relationships \ items.relationships
      /\ all.relationships = items.relationships
      /\ rest.propertyDefinitions = PropertyKeys \ items.propertyDefinitions
      /\ all.propertyDefinitions = items.propertyDefinitions
      /\ rest.relationshipDefinitions = RelationshipKeys \ items.relationshipDefinitions
      /\ all.relationshipDefinitions = items.relationshipDefinitions
  BY <1>1 DEF Without, NoItems
<1>3. AgreesBut(x, d, rest, changes) /\ AgreesBut(rows, d, all, changes) /\ IsOverlay(z, x, rows, items)
  BY OverlaidEffect
<1> HIDE DEF z, rest, all
<1>4. \A n \in NodeIds \ NamedNodes(changes) :
          z.lifecycle[n] = d.lifecycle[n] /\ z.modified[n] = d.modified[n]
  BY <1>2, <1>3 DEF AgreesBut, IsOverlay
<1>5. \A n \in NodeIds \ NamedNodes(changes) : z.properties[n] = d.properties[n]
  BY <1>2, <1>3 DEF AgreesBut, IsOverlay
<1>6. \A e \in Relationships \ NamedRelationships(changes) :
          e \in z.relationships <=> e \in d.relationships
  BY <1>2, <1>3 DEF AgreesBut, IsOverlay
<1>7. \A k \in PropertyKeys \ NamedPropertyDefinitions(changes) :
          z.propertyDefinitions[k] = d.propertyDefinitions[k]
  BY <1>2, <1>3 DEF AgreesBut, IsOverlay
<1>8. \A k \in RelationshipKeys \ NamedRelationshipDefinitions(changes) :
          z.relationshipDefinitions[k] = d.relationshipDefinitions[k]
  BY <1>2, <1>3 DEF AgreesBut, IsOverlay
<1>9. AgreesBut(z, d, AllItems, changes)
  BY <1>1, <1>4, <1>5, <1>6, <1>7, <1>8 DEF AgreesBut
<1> QED
  BY <1>9 DEF z

-----------------------------------------------------------------------------
(* The synchronization of one Core *)

\* A synchronization s of the Index x has not read ahead of the revision it will
\* store, and the journal names what it has read too early.
SyncSound(s, x, d) ==
    /\ s.target <= d.revision
    /\ s.phase = "journal" => /\ s.checkpoint = x.checkpoint
                              /\ s.checkpoint <= s.target
                              /\ ~s.rebuild
    /\ s.phase = "ids" => s.rebuild /\ s.rows = EmptyContent
    /\ s.phase = "rows" =>
          /\ s.items.nodes = s.items.properties
          /\ Fresh(s.rows, Without(s.items, s.pending), s.target, d)
          /\ IF s.rebuild THEN s.items = AllItems
                          ELSE Fresh(x.content, Without(AllItems, s.items), s.target, d)

IndexSound(x, d) ==
    x.checkpoint <= d.revision /\ Fresh(x.content, AllItems, x.checkpoint, d)

\* The Core c, alone, has its own file open.
SyncInvariant(c) ==
    /\ StoreInvariant
    /\ SyncTypeOK
    /\ IndexSound(files[c], db)
    /\ SyncSound(sync[c], files[c], db)

LEMMA EmptyContentType == EmptyContent \in Contents
  BY EmptyType, ContentType DEF EmptyContent

LEMMA ItemsTypes ==
    /\ AllItems \in Items /\ NoItems \in Items
    /\ \A items \in Items : \A others : Without(items, others) \in Items
    /\ \A changes : Named(changes) \in Items
  BY DEF AllItems, NoItems, Items, Without, Named, NamedNodes, NamedRelationships,
         NamedPropertyDefinitions, NamedRelationshipDefinitions

LEMMA SyncFields ==
    ASSUME NEW s \in Synchronizations
    PROVE  /\ s.phase \in {"idle", "journal", "rebuild", "ids", "rows"} /\ s.rebuild \in BOOLEAN
           /\ s.checkpoint \in Nat /\ s.target \in Nat /\ s.items \in Items /\ s.pending \in Items
           /\ s.rows \in Contents
  BY DEF Synchronizations

LEMMA SyncFacts ==
    ASSUME NEW c, Cores = {c}, SyncInvariant(c)
    PROVE  /\ Files = {c} /\ handle[c] = c /\ IndexOf(c) = files[c]
           /\ files[c] \in Checkpointed /\ sync[c] \in Synchronizations
           /\ db \in Databases /\ db.revision \in Nat /\ Consistent(db) /\ Absent(db)
           /\ IndexSound(files[c], db) /\ SyncSound(sync[c], files[c], db)
<1>1. files \in [{c} -> Checkpointed] /\ handle \in [{c} -> {c}] /\ sync \in [{c} -> Synchronizations]
  BY DEF SyncInvariant, SyncTypeOK, Files
<1>2. db \in Databases /\ Consistent(db) /\ Absent(db)
  BY DEF SyncInvariant, StoreInvariant, Inductive, TypeOK
<1> QED
  BY <1>1, <1>2, DatabaseFields DEF SyncInvariant, Files, IndexOf

\* A step of the Core leaves the Record Store alone.
LEMMA CoreStepEffect ==
    ASSUME NEW c, Cores = {c}, SyncInvariant(c), NEW s \in Synchronizations, CoreStep(c, s),
           NEW x \in Checkpointed, files' = [files EXCEPT ![c] = x], handle'[c] = c,
           DOMAIN handle' = {c}, handle' = [d \in {c} |-> handle'[d]],
           IndexSound(x, db), SyncSound(s, x, db)
    PROVE  SyncInvariant(c)'
<1>1. UNCHANGED vars /\ db' = db
  BY DEF CoreStep, vars
<1>2. StoreInvariant'
  BY <1>1, StoreInvariantStep DEF SyncInvariant
<1>3. files \in [{c} -> Checkpointed] /\ sync \in [{c} -> Synchronizations]
  BY DEF SyncInvariant, SyncTypeOK, Files
<1>4. /\ files' \in [{c} -> Checkpointed] /\ files'[c] = x
      /\ sync' \in [{c} -> Synchronizations] /\ sync'[c] = s
      /\ handle' \in [{c} -> {c}]
  BY <1>3 DEF CoreStep
<1>5. TypeOK'
  BY <1>2 DEF StoreInvariant, Inductive
<1>6. SyncTypeOK'
  BY <1>4, <1>5 DEF SyncTypeOK, Files
<1>7. IndexSound(files[c], db)' /\ SyncSound(sync[c], files[c], db)'
  BY <1>1, <1>4
<1> QED
  BY <1>2, <1>6, <1>7 DEF SyncInvariant

\* ... and most of its steps leave the Index alone.
LEMMA CoreStepBeside ==
    ASSUME NEW c, Cores = {c}, SyncInvariant(c), NEW s \in Synchronizations, CoreStep(c, s),
           UNCHANGED <<files, handle>>, SyncSound(s, files[c], db)
    PROVE  SyncInvariant(c)'
<1>1. files \in [{c} -> Checkpointed] /\ handle \in [{c} -> {c}]
  BY DEF SyncInvariant, SyncTypeOK, Files
<1>2. /\ files[c] \in Checkpointed /\ files' = [files EXCEPT ![c] = files[c]]
      /\ handle'[c] = c /\ DOMAIN handle' = {c} /\ handle' = [d \in {c} |-> handle'[d]]
  BY <1>1
<1> QED
  BY <1>2, SyncFacts, CoreStepEffect

\* A commit of another connection or pruning.
LEMMA StoreStepKeeps ==
    ASSUME NEW c, Cores = {c}, SyncInvariant(c), [Next]_vars, UNCHANGED syncVars
    PROVE  SyncInvariant(c)'
<1>1. /\ StoreInvariant'
      /\ db' = db \/ Prunes(db, db') \/ (Follows(db, db') /\ Accounted(db, db'))
  BY StoreInvariantStep DEF SyncInvariant
<1>2. db' \in Databases /\ TypeOK'
  BY <1>1 DEF StoreInvariant, Inductive, TypeOK
<1>3. files' = files /\ handle' = handle /\ sync' = sync
  BY DEF syncVars
<1>4. SyncTypeOK'
  BY <1>2, <1>3 DEF SyncTypeOK, SyncInvariant
<1>5. db \in Databases /\ Consistent(db)
  BY SyncFacts
<1>6. ASSUME NEW x, NEW items \in Items, NEW t \in Nat, t <= db.revision, Fresh(x, items, t, db)
      PROVE  t <= db'.revision /\ Fresh(x, items, t, db')
  BY <1>1, <1>2, <1>5, <1>6, FreshKept
<1>7. db.revision <= db'.revision
  BY <1>1, SyncFacts DEF Prunes, PruneFrame, Follows
<1>8. IndexSound(files[c], db')
  <2>1. files[c].checkpoint \in Nat /\ AllItems \in Items
    BY SyncFacts, ItemsTypes DEF Checkpointed
  <2> QED
    BY <1>6, <2>1, SyncFacts DEF IndexSound
<1>9. SyncSound(sync[c], files[c], db')
  <2> DEFINE s == sync[c]
             x == files[c]
  <2>1. /\ s.target \in Nat /\ db.revision \in Nat /\ db'.revision \in Nat
        /\ Without(s.items, s.pending) \in Items /\ Without(AllItems, s.items) \in Items
        /\ SyncSound(s, x, db)
    BY <1>2, SyncFacts, SyncFields, ItemsTypes, DatabaseFields
  <2> HIDE DEF s, x
  <2>2. s.target <= db'.revision
    BY <1>7, <2>1 DEF SyncSound
  <2>3. ASSUME s.phase = "rows"
        PROVE  /\ s.items.nodes = s.items.properties
               /\ Fresh(s.rows, Without(s.items, s.pending), s.target, db')
               /\ ~s.rebuild => Fresh(x.content, Without(AllItems, s.items), s.target, db')
    BY <1>6, <2>1, <2>3 DEF SyncSound
  <2>4. SyncSound(s, x, db')
    BY <2>1, <2>2, <2>3 DEF SyncSound
  <2> QED
    BY <2>4 DEF s, x
<1>10. IndexSound(files[c], db)' /\ SyncSound(sync[c], files[c], db)'
  BY <1>3, <1>8, <1>9
<1> QED
  BY <1>1, <1>4, <1>10 DEF SyncInvariant

LEMMA IdleIsSound ==
    /\ Idle \in Synchronizations
    /\ \A x, d : d \in Databases => SyncSound(Idle, x, d)
<1>1. Idle \in Synchronizations
  BY ItemsTypes, EmptyContentType DEF Idle, Synchronizations
<1>2. Idle.target = 0 /\ Idle.phase = "idle"
  BY DEF Idle
<1> QED
  BY <1>1, <1>2, DatabaseFields DEF SyncSound

LEMMA BeginReconcileKeeps ==
    ASSUME NEW c, Cores = {c}, SyncInvariant(c), BeginReconcile(c)
    PROVE  SyncInvariant(c)'
<1> DEFINE phase == IF files[c].checkpoint < db.revision THEN "journal" ELSE "rebuild"
           s == [Idle EXCEPT !.phase = phase, !.checkpoint = files[c].checkpoint,
                           !.target = db.revision]
<1>1. /\ files[c].checkpoint \in Nat /\ db.revision \in Nat /\ IndexSound(files[c], db)
      /\ phase \in {"journal", "rebuild"}
      /\ phase = "journal" => files[c].checkpoint < db.revision
  BY SyncFacts DEF Checkpointed
<1>2. CoreStep(c, s) /\ UNCHANGED <<files, handle>>
  BY SyncFacts DEF BeginReconcile
<1> HIDE DEF phase
<1>3. /\ s \in Synchronizations
      /\ s.phase = phase /\ ~s.rebuild /\ s.checkpoint = files[c].checkpoint
      /\ s.target = db.revision
  BY <1>1, IdleIsSound DEF Idle, Synchronizations
<1> HIDE DEF s
<1>4. SyncSound(s, files[c], db)
  BY <1>1, <1>3 DEF SyncSound
<1> QED
  BY <1>2, <1>3, <1>4, CoreStepBeside

LEMMA BeginRebuildKeeps ==
    ASSUME NEW c, Cores = {c}, SyncInvariant(c), BeginRebuild(c)
    PROVE  SyncInvariant(c)'
<1> DEFINE s == [Idle EXCEPT !.phase = "rebuild"]
<1>1. db.revision \in Nat
  BY SyncFacts
<1>2. CoreStep(c, s) /\ UNCHANGED <<files, handle>>
  BY SyncFacts DEF BeginRebuild
<1>3. /\ s \in Synchronizations
      /\ s.phase = "rebuild" /\ s.target = 0
  BY <1>1, IdleIsSound DEF Idle, Synchronizations
<1> HIDE DEF s
<1>4. SyncSound(s, files[c], db)
  BY <1>1, <1>3 DEF SyncSound
<1> QED
  BY <1>2, <1>3, <1>4, CoreStepBeside

LEMMA ReadRevisionKeeps ==
    ASSUME NEW c, Cores = {c}, SyncInvariant(c), ReadRevision(c)
    PROVE  SyncInvariant(c)'
<1> DEFINE s == [Idle EXCEPT !.phase = "ids", !.rebuild = TRUE, !.target = db.revision]
<1>1. db.revision \in Nat
  BY SyncFacts
<1>2. CoreStep(c, s) /\ UNCHANGED <<files, handle>>
  BY SyncFacts DEF ReadRevision
<1>3. /\ s \in Synchronizations
      /\ s.phase = "ids" /\ s.rebuild /\ s.target = db.revision /\ s.rows = EmptyContent
  BY <1>1, IdleIsSound DEF Idle, Synchronizations
<1> HIDE DEF s
<1>4. SyncSound(s, files[c], db)
  BY <1>1, <1>3 DEF SyncSound
<1> QED
  BY <1>2, <1>3, <1>4, CoreStepBeside

LEMMA SyncFailsKeeps ==
    ASSUME NEW c, Cores = {c}, SyncInvariant(c), SyncFails(c)
    PROVE  SyncInvariant(c)'
  BY SyncFacts, IdleIsSound, CoreStepBeside DEF SyncFails

\* Nothing has been read of what the journal names, and the rows of the Index that
\* it does not name are those of the revision that was read.
LEMMA ReadJournalKeeps ==
    ASSUME NEW c, Cores = {c}, SyncInvariant(c), ReadJournal(c)
    PROVE  SyncInvariant(c)'
<1> DEFINE x == files[c]
           s == sync[c]
           changes == ChangesSince(db, s.checkpoint)
           items == Named(changes)
           reading == [s EXCEPT !.phase = "rows", !.items = items, !.pending = items]
           rebuilding == [Idle EXCEPT !.phase = "rebuild"]
<1>0. /\ x \in Checkpointed /\ s \in Synchronizations /\ db.revision \in Nat
      /\ IndexSound(x, db) /\ SyncSound(s, x, db) /\ s.phase = "journal"
  BY SyncFacts DEF ReadJournal
<1>1. CASE JournalReaches(s.checkpoint, s.target)
  <2>1. items \in Items
    BY ItemsTypes
  <2>2. /\ reading \in Synchronizations
        /\ reading.phase = "rows" /\ reading.rebuild = s.rebuild /\ reading.target = s.target
        /\ reading.items = items /\ reading.pending = items /\ reading.rows = s.rows
    <3> HIDE DEF items, s
    <3> QED
      BY <1>0, <2>1 DEF Synchronizations
  <2>3. CoreStep(c, reading) /\ UNCHANGED <<files, handle>>
    BY <1>1 DEF ReadJournal
  <2>4. s.checkpoint = x.checkpoint /\ ~s.rebuild /\ s.target <= db.revision
    BY <1>0 DEF SyncSound
  <2>5. ~Unavailable(db, s.checkpoint)
    <3>1. s.checkpoint <= db.revision /\ s.checkpoint \in Nat
      BY <1>0, <2>4 DEF IndexSound, Checkpointed
    <3> QED
      BY <1>0, <1>1, <3>1 DEF JournalReaches, Unavailable, Current, Available
  <2>6. AgreesBut(x.content, db, AllItems, changes)
    BY <1>0, <2>4, <2>5 DEF IndexSound, Fresh
  <2>7. AgreesBut(x.content, db, Without(AllItems, items), ChangesSince(db, s.target))
    BY <2>6 DEF AgreesBut, Without, AllItems, Named
  <2>8. AgreesBut(s.rows, db, Without(items, items), ChangesSince(db, s.target))
    BY DEF AgreesBut, Without
  <2>9. items.nodes = items.properties
    BY DEF Named
  <2> HIDE DEF items, changes, reading, s, x
  <2>10. SyncSound(reading, x, db)
    BY <2>2, <2>4, <2>7, <2>8, <2>9 DEF SyncSound, Fresh
  <2> QED
    BY <2>2, <2>3, <2>10, CoreStepBeside DEF x
<1>2. CASE ~JournalReaches(s.checkpoint, s.target)
  <2>1. /\ rebuilding \in Synchronizations
        /\ rebuilding.phase = "rebuild" /\ rebuilding.target = 0
    BY IdleIsSound DEF Idle, Synchronizations
  <2>2. CoreStep(c, rebuilding) /\ UNCHANGED <<files, handle>>
    BY <1>2 DEF ReadJournal
  <2> HIDE DEF rebuilding
  <2>3. SyncSound(rebuilding, x, db)
    BY <1>0, <2>1 DEF SyncSound
  <2> QED
    BY <2>1, <2>2, <2>3, CoreStepBeside
<1> QED
  BY <1>1, <1>2

\* A rebuild has the absent Nodes right before it has read any row.
LEMMA ReadNodeIdsKeeps ==
    ASSUME NEW c, Cores = {c}, SyncInvariant(c), ReadNodeIds(c)
    PROVE  SyncInvariant(c)'
<1> DEFINE s == sync[c]
           nodes == {n \in NodeIds : db.lifecycle[n] # "none"}
           pending == [AllItems EXCEPT !.nodes = nodes, !.properties = nodes]
           reading == [s EXCEPT !.phase = "rows", !.items = AllItems, !.pending = pending]
<1>0. /\ s \in Synchronizations /\ SyncSound(s, files[c], db) /\ s.phase = "ids"
      /\ db \in Databases /\ Consistent(db) /\ Absent(db)
  BY SyncFacts DEF ReadNodeIds
<1>1. s.rebuild /\ s.rows = EmptyContent /\ s.target <= db.revision
  BY <1>0 DEF SyncSound
<1>2. /\ pending \in Items
      /\ Without(AllItems, pending) =
             [nodes |-> NodeIds \ nodes, properties |-> NodeIds \ nodes, relationships |-> {},
              propertyDefinitions |-> {}, relationshipDefinitions |-> {}]
  BY DEF AllItems, Items, Without
<1>3. CoreStep(c, reading) /\ UNCHANGED <<files, handle>>
  BY DEF ReadNodeIds
<1> HIDE DEF pending
<1>4. /\ reading \in Synchronizations
      /\ reading.phase = "rows" /\ reading.rebuild = s.rebuild /\ reading.target = s.target
      /\ reading.items = AllItems /\ reading.pending = pending /\ reading.rows = s.rows
  <2> HIDE DEF s
  <2> QED
    BY <1>0, <1>2, ItemsTypes DEF Synchronizations
<1>5. AllItems.nodes = AllItems.properties
  BY DEF AllItems
<1>6. AgreesBut(s.rows, db, Without(AllItems, pending), ChangesSince(db, s.target))
  <2>1. ASSUME NEW n \in NodeIds \ nodes
        PROVE  /\ EmptyContent.lifecycle[n] = db.lifecycle[n]
               /\ EmptyContent.modified[n] = db.modified[n]
               /\ EmptyContent.properties[n] = db.properties[n]
    BY <1>0, <2>1, AbsentRows
  <2> QED
    BY <1>1, <1>2, <2>1 DEF AgreesBut
<1> HIDE DEF reading, s
<1>7. SyncSound(reading, files[c], db)
  BY <1>1, <1>4, <1>5, <1>6 DEF SyncSound, Fresh
<1> QED
  BY <1>3, <1>4, <1>7, CoreStepBeside

LEMMA ReadStatementKeeps ==
    ASSUME NEW c, Cores = {c}, SyncInvariant(c), ReadStatement(c)
    PROVE  SyncInvariant(c)'
<1> DEFINE s == sync[c]
           read == Statement(s)
<1>0. /\ s \in Synchronizations /\ SyncSound(s, files[c], db) /\ s.phase = "rows"
      /\ db \in Databases
  BY SyncFacts DEF ReadStatement
<1>1. PICK y \in ContentsFound(s) :
          CoreStep(c, [s EXCEPT !.rows = Overlaid(@, y, read), !.pending = Without(@, read)])
  BY DEF ReadStatement
<1> DEFINE rows == Overlaid(s.rows, y, read)
           pending == Without(s.pending, read)
           reading == [s EXCEPT !.rows = rows, !.pending = pending]
<1>2. UNCHANGED <<files, handle>> /\ CoreStep(c, reading)
  BY <1>1 DEF ReadStatement
<1>3. pending \in Items /\ rows \in Contents
  <2>1. s.rows \in Contents /\ y \in Contents /\ s.pending \in Items
    BY <1>0, SyncFields, FoundTypes
  <2>2. IsOverlay(rows, s.rows, y, read)
    BY <2>1, OverlaidEffect
  <2> QED
    BY <2>1, <2>2, ItemsTypes DEF IsOverlay
<1>4. ASSUME NEW changes, AgreesBut(s.rows, db, Without(s.items, s.pending), changes)
      PROVE  AgreesBut(rows, db, Without(s.items, pending), changes)
  <2>1. s.items.nodes = s.items.properties
    BY <1>0 DEF SyncSound
  <2>2. AgreesBut(y, db, s.items, changes)
    BY <1>0, <1>4, <2>1, FoundAgrees
  <2>3. /\ s.rows \in Contents /\ y \in Contents
        /\ s.items \in Items /\ s.pending \in Items
    BY <1>0, SyncFields, FoundTypes
  <2> QED
    BY <1>4, <2>2, <2>3, RowsRead
<1> HIDE DEF rows, pending, s, read
<1>5. /\ reading \in Synchronizations
      /\ reading.phase = "rows" /\ reading.rebuild = s.rebuild /\ reading.target = s.target
      /\ reading.items = s.items /\ reading.pending = pending /\ reading.rows = rows
  BY <1>0, <1>3 DEF Synchronizations
<1> HIDE DEF reading
<1>6. SyncSound(reading, files[c], db)
  BY <1>0, <1>4, <1>5 DEF SyncSound, Fresh
<1> QED
  BY <1>2, <1>5, <1>6, CoreStepBeside

\* With everything read, what is stored under the revision read first is fresh.
LEMMA AppliedKeeps ==
    ASSUME NEW c, Cores = {c}, SyncInvariant(c), ApplyPatch(c) \/ Promote(c)
    PROVE  SyncInvariant(c)'
<1> DEFINE s == sync[c]
           x == files[c]
<1>0. /\ s \in Synchronizations /\ SyncSound(s, x, db) /\ s.phase = "rows" /\ s.pending = NoItems
      /\ x \in Checkpointed /\ db \in Databases /\ CoreStep(c, Idle)
      /\ s.target \in Nat /\ s.target <= db.revision /\ s.rows \in Contents /\ s.items \in Items
      /\ Fresh(s.rows, Without(s.items, NoItems), s.target, db)
  BY SyncFacts, SyncFields DEF ApplyPatch, Promote, SyncSound
<1>1. ASSUME NEW content \in Contents, Fresh(content, AllItems, s.target, db),
             files' = [files EXCEPT ![c] = [checkpoint |-> s.target, content |-> content]],
             handle'[c] = c, DOMAIN handle' = {c}, handle' = [d \in {c} |-> handle'[d]]
      PROVE  SyncInvariant(c)'
  <2> DEFINE y == [checkpoint |-> s.target, content |-> content]
  <2>1. y \in Checkpointed /\ IndexSound(y, db)
    BY <1>0, <1>1 DEF Checkpointed, IndexSound
  <2>2. Idle \in Synchronizations /\ SyncSound(Idle, y, db)
    BY <1>0, IdleIsSound
  <2> HIDE DEF y
  <2> QED
    BY <1>0, <1>1, <2>1, <2>2, CoreStepEffect DEF y
<1>2. handle \in [{c} -> {c}]
  BY DEF SyncInvariant, SyncTypeOK, Files
<1>3. CASE ApplyPatch(c)
  <2>1. ~s.rebuild /\ handle' = handle /\ handle[c] = c
    BY <1>3, SyncFacts DEF ApplyPatch
  <2>2. Fresh(x.content, Without(AllItems, s.items), s.target, db)
    BY <1>0, <2>1 DEF SyncSound
  <2>3. x.content \in Contents
    BY <1>0 DEF Checkpointed
  <2>4. Fresh(Overlaid(x.content, s.rows, s.items), AllItems, s.target, db)
    BY <1>0, <2>2, <2>3, DeltaApplied DEF Fresh
  <2>5. Overlaid(x.content, s.rows, s.items) \in Contents
    <3>1. IsOverlay(Overlaid(x.content, s.rows, s.items), x.content, s.rows, s.items)
      BY <1>0, <2>3, OverlaidEffect
    <3> QED
      BY <3>1 DEF IsOverlay
  <2>6. files' = [files EXCEPT ![c] =
            [checkpoint |-> s.target, content |-> Overlaid(x.content, s.rows, s.items)]]
    BY <1>3, <2>1 DEF ApplyPatch
  <2> QED
    BY <1>1, <1>2, <2>1, <2>4, <2>5, <2>6
<1>4. CASE Promote(c)
  <2>1. s.rebuild /\ s.items = AllItems
    BY <1>0, <1>4 DEF Promote, SyncSound
  <2>2. Without(AllItems, NoItems) = AllItems
    BY DEF Without, AllItems, NoItems
  <2>3. Fresh(s.rows, AllItems, s.target, db)
    BY <1>0, <2>1, <2>2
  <2>4. (CHOOSE f \in Files : \A d \in Cores \ {c} : handle[d] # f) = c
    BY SyncFacts
  <2>5. handle' = [handle EXCEPT ![c] = c]
        /\ files' = [files EXCEPT ![c] = [checkpoint |-> s.target, content |-> s.rows]]
    BY <1>4, <2>4 DEF Promote
  <2> QED
    BY <1>0, <1>1, <1>2, <2>3, <2>5
<1> QED
  BY <1>3, <1>4

LEMMA SyncStepKeeps ==
    ASSUME NEW c, Cores = {c}, SyncInvariant(c), SyncNext \/ UNCHANGED <<vars, syncVars>>
    PROVE  SyncInvariant(c)'
<1>1. CASE StoreStep
  BY <1>1, StoreStepKeeps DEF StoreStep
<1>2. CASE UNCHANGED <<vars, syncVars>>
  BY <1>2, StoreStepKeeps
<1>3. ASSUME \/ BeginReconcile(c) \/ BeginRebuild(c)
             \/ ReadJournal(c) \/ ReadRevision(c) \/ ReadNodeIds(c) \/ ReadStatement(c)
             \/ ApplyPatch(c) \/ Promote(c) \/ SyncFails(c)
      PROVE  SyncInvariant(c)'
  BY <1>3, BeginReconcileKeeps, BeginRebuildKeeps, ReadJournalKeeps, ReadRevisionKeeps,
     ReadNodeIdsKeeps, ReadStatementKeeps, AppliedKeeps, SyncFailsKeeps
<1> QED
  BY <1>1, <1>2, <1>3 DEF SyncNext

LEMMA SyncInitially ==
    ASSUME NEW c, Cores = {c}, SyncInit
    PROVE  SyncInvariant(c)
<1>1. StoreInvariant /\ db = EmptyDatabase /\ TypeOK
  BY StoreInvariantInit DEF SyncInit, Init, StoreInvariant, Inductive
<1>2. /\ Files = {c} /\ handle = [d \in {c} |-> c] /\ sync = [d \in {c} |-> Idle]
      /\ files = [g \in {c} |-> [checkpoint |-> 0, content |-> EmptyContent]]
  BY DEF SyncInit, Files
<1>3. [checkpoint |-> 0, content |-> EmptyContent] \in Checkpointed
  BY EmptyContentType DEF Checkpointed
<1>4. SyncTypeOK
  BY <1>1, <1>2, <1>3, IdleIsSound DEF SyncTypeOK
<1>5. db.revision = 0 /\ db \in Databases
  BY <1>1, EmptyType DEF EmptyDatabase
<1>6. AgreesBut(EmptyContent, db, AllItems, ChangesSince(db, 0))
  BY <1>1 DEF AgreesBut, EmptyContent, Content
<1>7. IndexSound(files[c], db) /\ SyncSound(sync[c], files[c], db)
  BY <1>2, <1>5, <1>6, IdleIsSound DEF IndexSound, Fresh
<1> QED
  BY <1>1, <1>4, <1>7 DEF SyncInvariant

LEMMA SoundIsJournalled ==
    ASSUME NEW c, Cores = {c}, SyncInvariant(c)
    PROVE  StaleRowsAreJournalled
<1>1. /\ IndexOf(c) = files[c] /\ files[c] \in Checkpointed /\ db \in Databases
      /\ IndexSound(files[c], db)
  BY SyncFacts
<1>2. files[c].content \in Contents
  BY <1>1 DEF Checkpointed
<1> QED
  BY <1>1, <1>2, FreshIsPatched DEF StaleRowsAreJournalled, IndexSound, Fresh

\* Whatever the Index of the only Core of a library shows that the Record Store
\* no longer says, the journal past its checkpoint names, unless it has been
\* pruned so far that the next reconciliation rebuilds: a commit between any two
\* statements of a synchronization is repaired by the next one.
THEOREM StaleRowsAreRepaired ==
    ASSUME NEW c, Cores = {c}
    PROVE  SyncSpec => []StaleRowsAreJournalled
<1>1. SyncInit => SyncInvariant(c)
  BY SyncInitially
<1>2. SyncInvariant(c) /\ [SyncNext]_<<vars, syncVars>> => SyncInvariant(c)'
  BY SyncStepKeeps
<1>3. SyncInvariant(c) => StaleRowsAreJournalled
  BY SoundIsJournalled
<1> QED
  BY <1>1, <1>2, <1>3, PTL DEF SyncSpec

-----------------------------------------------------------------------------
(* Any number of Cores *)

\* Nobody has read ahead of the Record Store.
NobodyAhead ==
    /\ \A f \in Files : files[f].checkpoint <= db.revision
    /\ \A c \in Cores : sync[c].target <= db.revision

LibraryInvariant ==
    /\ StoreInvariant
    /\ Bounded
    /\ SyncTypeOK
    /\ NobodyAhead

LEMMA LibraryFacts ==
    ASSUME LibraryInvariant
    PROVE  /\ db \in Databases /\ db.revision \in Nat /\ Consistent(db) /\ Absent(db)
           /\ \A f \in Files : files[f] \in Checkpointed /\ files[f].checkpoint \in Nat
                               /\ files[f].content \in Contents
           /\ \A c \in Cores : /\ handle[c] \in Files /\ IndexOf(c) = files[handle[c]]
                               /\ sync[c] \in Synchronizations
<1>1. db \in Databases /\ Consistent(db) /\ Absent(db)
  BY DEF LibraryInvariant, StoreInvariant, Inductive, TypeOK
<1>2. files \in [Files -> Checkpointed] /\ handle \in [Cores -> Files] /\ sync \in [Cores -> Synchronizations]
  BY DEF LibraryInvariant, SyncTypeOK
<1> QED
  BY <1>1, <1>2, DatabaseFields DEF Checkpointed, IndexOf

\* The step of a Core that changes its synchronization and at most one file.
LEMMA LibraryCoreStep ==
    ASSUME LibraryInvariant, NEW c \in Cores, NEW s \in Synchronizations, s.target <= db.revision,
           CoreStep(c, s), NEW f \in Files, NEW x \in Checkpointed, x.checkpoint <= db.revision,
           files' = [files EXCEPT ![f] = x], NEW g \in Files, handle' = [handle EXCEPT ![c] = g]
    PROVE  LibraryInvariant'
<1>1. UNCHANGED vars /\ db' = db
  BY DEF CoreStep, vars
<1>2. StoreInvariant' /\ Bounded'
  BY <1>1, StoreInvariantStep DEF LibraryInvariant, Bounded, vars
<1>3. files \in [Files -> Checkpointed] /\ handle \in [Cores -> Files] /\ sync \in [Cores -> Synchronizations]
  BY DEF LibraryInvariant, SyncTypeOK
<1>4. /\ files' \in [Files -> Checkpointed] /\ handle' \in [Cores -> Files]
      /\ sync' \in [Cores -> Synchronizations]
      /\ \A h \in Files : files'[h] = IF h = f THEN x ELSE files[h]
      /\ \A d \in Cores : sync'[d] = IF d = c THEN s ELSE sync[d]
  BY <1>3 DEF CoreStep
<1>5. TypeOK' /\ SyncTypeOK'
  BY <1>2, <1>4 DEF SyncTypeOK, StoreInvariant, Inductive
<1>6. NobodyAhead'
  BY <1>1, <1>4 DEF NobodyAhead, LibraryInvariant
<1> QED
  BY <1>2, <1>5, <1>6 DEF LibraryInvariant

\* ... or no file.
LEMMA LibraryCoreStepBeside ==
    ASSUME LibraryInvariant, NEW c \in Cores, NEW s \in Synchronizations, s.target <= db.revision,
           CoreStep(c, s), UNCHANGED <<files, handle>>
    PROVE  LibraryInvariant'
<1>1. /\ handle[c] \in Files /\ files[handle[c]] \in Checkpointed
      /\ files[handle[c]].checkpoint <= db.revision
      /\ files' = [files EXCEPT ![handle[c]] = files[handle[c]]]
      /\ handle' = [handle EXCEPT ![c] = handle[c]]
  <2>1. files \in [Files -> Checkpointed] /\ handle \in [Cores -> Files]
    BY DEF LibraryInvariant, SyncTypeOK
  <2> QED
    BY <2>1 DEF LibraryInvariant, NobodyAhead
<1> QED
  BY <1>1, LibraryCoreStep

LEMMA LibraryStoreStep ==
    ASSUME LibraryInvariant, [Next]_vars, UNCHANGED syncVars
    PROVE  LibraryInvariant'
<1>1. /\ StoreInvariant'
      /\ db' = db \/ Prunes(db, db') \/ (Follows(db, db') /\ Accounted(db, db'))
  BY StoreInvariantStep DEF LibraryInvariant
<1>2. Bounded'
  BY StepKeepsBound DEF LibraryInvariant, StoreInvariant, Bounded
<1>3. TypeOK' /\ files' = files /\ handle' = handle /\ sync' = sync
  BY <1>1 DEF StoreInvariant, Inductive, syncVars
<1>4. SyncTypeOK'
  BY <1>3 DEF SyncTypeOK, LibraryInvariant
<1>5. db'.revision \in Nat /\ db.revision <= db'.revision
  BY <1>1, LibraryFacts DEF Prunes, PruneFrame, Follows
<1>6. NobodyAhead'
  BY <1>3, <1>5, LibraryFacts, SyncFields DEF NobodyAhead, LibraryInvariant
<1> QED
  BY <1>1, <1>2, <1>4, <1>6 DEF LibraryInvariant

\* One of the files is open at no other Core.
LEMMA SpareFile ==
    ASSUME LibraryInvariant, NEW c \in Cores
    PROVE  (CHOOSE f \in Files : \A d \in Cores \ {c} : handle[d] # f) \in Files
<1> DEFINE others == Cores \ {c}
           opened == {handle[d] : d \in others}
           open == [d \in others |-> handle[d]]
<1>1. opened \subseteq Files
  BY LibraryFacts
<1>2. open \in Surjection(others, opened)
  BY DEF Surjection
<1>3. IsFiniteSet(others) /\ Cardinality(others) = Cardinality(Cores) - 1
  BY FS_RemoveElement, FiniteCores
<1>4. Cardinality(opened) <= Cardinality(others)
  BY <1>2, <1>3, FS_Surjection
<1>5. Cardinality(Cores) \in Nat
  BY FiniteCores, FS_CardinalityType
<1>6. opened # Files
  <2> HIDE DEF others, opened
  <2> QED
    BY <1>3, <1>4, <1>5 DEF Files
<1>7. PICK f \in Files : f \notin opened
  BY <1>1, <1>6
<1>8. \A d \in Cores \ {c} : handle[d] # f
  BY <1>7
<1> QED
  BY <1>8

LEMMA LibraryStep ==
    ASSUME LibraryInvariant, [SyncNext]_<<vars, syncVars>>
    PROVE  LibraryInvariant'
<1>1. CASE StoreStep \/ UNCHANGED <<vars, syncVars>>
  BY <1>1, LibraryStoreStep DEF StoreStep
<1>2. ASSUME NEW c \in Cores,
             \/ BeginReconcile(c) \/ BeginRebuild(c)
             \/ ReadJournal(c) \/ ReadRevision(c) \/ ReadNodeIds(c) \/ ReadStatement(c)
             \/ ApplyPatch(c) \/ Promote(c) \/ SyncFails(c)
      PROVE  LibraryInvariant'
  <2> DEFINE s == sync[c]
             x == IndexOf(c)
  <2>0. /\ s \in Synchronizations /\ s.target \in Nat /\ s.items \in Items /\ s.pending \in Items
        /\ s.rows \in Contents /\ s.target <= db.revision
        /\ x \in Checkpointed /\ x.content \in Contents /\ x.checkpoint \in Nat
        /\ handle[c] \in Files
        /\ db.revision \in Nat /\ db \in Databases
        /\ Idle \in Synchronizations /\ Idle.target = 0 /\ 0 <= db.revision
    BY LibraryFacts, SyncFields, IdleIsSound DEF LibraryInvariant, NobodyAhead, Idle
  <2>1. ASSUME NEW t \in Synchronizations, t.target <= db.revision, CoreStep(c, t),
               UNCHANGED <<files, handle>>
        PROVE  LibraryInvariant'
    BY <2>1, LibraryCoreStepBeside
  <2>2. ASSUME NEW items \in Items, NEW pending \in Items, NEW t,
               t = [s EXCEPT !.phase = "rows", !.items = items, !.pending = pending]
        PROVE  t \in Synchronizations /\ t.target <= db.revision
    <3> HIDE DEF s, x
    <3> QED
      BY <2>0, <2>2 DEF Synchronizations
  <2> HIDE DEF s, x
  <2>4. ASSUME NEW phase \in {"rebuild", "idle"}, NEW t, t = [Idle EXCEPT !.phase = phase]
        PROVE  t \in Synchronizations /\ t.target = 0
    BY <2>0, <2>4 DEF Synchronizations
  <2> USE DEF s, x
  <2>5. CASE BeginReconcile(c)
    <3> DEFINE phase == IF x.checkpoint < db.revision THEN "journal" ELSE "rebuild"
               t == [Idle EXCEPT !.phase = phase, !.checkpoint = x.checkpoint, !.target = db.revision]
    <3>1. CoreStep(c, t) /\ UNCHANGED <<files, handle>> /\ phase \in {"journal", "rebuild"}
      BY <2>5 DEF BeginReconcile
    <3> HIDE DEF phase, x
    <3>0. x.checkpoint \in Nat /\ db.revision \in Nat
      BY <2>0
    <3>2. t \in Synchronizations /\ t.target = db.revision
      BY <3>0, <3>1, IdleIsSound DEF Idle, Synchronizations
    <3> HIDE DEF t
    <3> QED
      BY <2>0, <2>1, <3>1, <3>2
  <2>6. CASE BeginRebuild(c)
    BY <2>0, <2>1, <2>4, <2>6 DEF BeginRebuild
  <2>7. CASE ReadJournal(c)
    <3> DEFINE items == Named(ChangesSince(db, s.checkpoint))
               reading == [s EXCEPT !.phase = "rows", !.items = items, !.pending = items]
               rebuilding == [Idle EXCEPT !.phase = "rebuild"]
    <3>1. /\ CoreStep(c, reading) \/ CoreStep(c, rebuilding)
          /\ UNCHANGED <<files, handle>>
      BY <2>7 DEF ReadJournal
    <3>2. items \in Items
      BY ItemsTypes
    <3> HIDE DEF items, s
    <3>3. reading \in Synchronizations /\ reading.target <= db.revision
      BY <2>2, <3>2
    <3>4. rebuilding \in Synchronizations /\ rebuilding.target <= db.revision
      BY <2>0, <2>4
    <3> QED
      BY <2>1, <3>1, <3>3, <3>4
  <2>8. CASE ReadRevision(c)
    <3> DEFINE t == [Idle EXCEPT !.phase = "ids", !.rebuild = TRUE, !.target = db.revision]
    <3>1. db.revision \in Nat
      BY <2>0
    <3>2. t \in Synchronizations /\ t.target = db.revision
      BY <3>1, IdleIsSound DEF Idle, Synchronizations
    <3>3. CoreStep(c, t) /\ UNCHANGED <<files, handle>>
      BY <2>8 DEF ReadRevision
    <3> HIDE DEF t
    <3> QED
      BY <2>1, <3>1, <3>2, <3>3
  <2>9. CASE ReadNodeIds(c)
    <3> DEFINE nodes == {n \in NodeIds : db.lifecycle[n] # "none"}
               pending == [AllItems EXCEPT !.nodes = nodes, !.properties = nodes]
    <3>1. pending \in Items
      BY DEF AllItems, Items
    <3> QED
      BY <2>1, <2>2, <2>9, <3>1, ItemsTypes DEF ReadNodeIds
  <2>10. CASE ReadStatement(c)
    <3> DEFINE read == Statement(s)
    <3>0. PICK y \in ContentsFound(s) :
              CoreStep(c, [s EXCEPT !.rows = Overlaid(@, y, read), !.pending = Without(@, read)])
      BY <2>10 DEF ReadStatement
    <3> DEFINE rows == Overlaid(s.rows, y, read)
               pending == Without(s.pending, read)
               t == [s EXCEPT !.rows = rows, !.pending = pending]
    <3>1. rows \in Contents /\ pending \in Items
      <4>1. y \in Contents
        BY <2>0, <3>0, FoundTypes
      <4>2. IsOverlay(rows, s.rows, y, read)
        BY <2>0, <4>1, OverlaidEffect
      <4>3. pending \in Items
        BY <2>0, ItemsTypes
      <4> QED
        BY <4>2, <4>3 DEF IsOverlay
    <3>2. CoreStep(c, t) /\ UNCHANGED <<files, handle>>
      BY <2>10, <3>0 DEF ReadStatement
    <3> HIDE DEF rows, pending, s, read
    <3>3. t \in Synchronizations /\ t.target <= db.revision
      BY <2>0, <3>1 DEF Synchronizations
    <3> QED
      BY <2>1, <3>2, <3>3
  <2>11. CASE ApplyPatch(c)
    <3> DEFINE y == [checkpoint |-> s.target, content |-> Overlaid(x.content, s.rows, s.items)]
    <3>0. IsOverlay(Overlaid(x.content, s.rows, s.items), x.content, s.rows, s.items)
      BY <2>0, OverlaidEffect
    <3>1. Overlaid(x.content, s.rows, s.items) \in Contents
      BY <3>0 DEF IsOverlay
    <3>2. y \in Checkpointed /\ y.checkpoint <= db.revision
      BY <2>0, <3>1 DEF Checkpointed
    <3>3. /\ CoreStep(c, Idle) /\ files' = [files EXCEPT ![handle[c]] = y]
          /\ handle' = [handle EXCEPT ![c] = handle[c]]
      <4>1. handle \in [Cores -> Files]
        BY DEF LibraryInvariant, SyncTypeOK
      <4> QED
        BY <2>11, <4>1 DEF ApplyPatch, IndexOf
    <3> HIDE DEF y
    <3> QED
      BY <2>0, <3>2, <3>3, LibraryCoreStep
  <2>12. CASE Promote(c)
    <3> DEFINE file == CHOOSE f \in Files : \A d \in Cores \ {c} : handle[d] # f
               y == [checkpoint |-> s.target, content |-> s.rows]
    <3>1. y \in Checkpointed /\ y.checkpoint <= db.revision
      BY <2>0 DEF Checkpointed
    <3>2. /\ CoreStep(c, Idle) /\ files' = [files EXCEPT ![file] = y]
          /\ handle' = [handle EXCEPT ![c] = file]
      BY <2>12 DEF Promote
    <3>3. file \in Files
      BY SpareFile
    <3> HIDE DEF y, file
    <3> QED
      BY <2>0, <3>1, <3>2, <3>3, LibraryCoreStep
  <2>13. CASE SyncFails(c)
    BY <2>0, <2>1, <2>13 DEF SyncFails
  <2> QED
    BY <1>2, <2>5, <2>6, <2>7, <2>8, <2>9, <2>10, <2>11, <2>12, <2>13
<1> QED
  BY <1>1, <1>2 DEF SyncNext

LEMMA LibraryInitially == SyncInit => LibraryInvariant
<1> SUFFICES ASSUME SyncInit PROVE LibraryInvariant
  OBVIOUS
<1>1. StoreInvariant /\ TypeOK /\ db = EmptyDatabase /\ txn = "none"
  BY StoreInvariantInit DEF SyncInit, Init, StoreInvariant, Inductive
<1>2. db.revision = 0 /\ Bounded
  BY <1>1, BoundsAssumption DEF EmptyDatabase, Bounded
<1>3. [checkpoint |-> 0, content |-> EmptyContent] \in Checkpointed
  BY EmptyContentType DEF Checkpointed
<1>4. SyncTypeOK
  BY <1>1, <1>3, IdleIsSound DEF SyncTypeOK, SyncInit
<1>5. NobodyAhead
  BY <1>2 DEF NobodyAhead, SyncInit, Idle
<1> QED
  BY <1>1, <1>2, <1>4, <1>5 DEF LibraryInvariant

-----------------------------------------------------------------------------
(* Keys and their order *)

Singles == {<<k>> : k \in Nat}

Keys(collection) ==
    IF collection = IndexNodes THEN Nat \X Nat
    ELSE IF collection.table = "relationships" THEN Nat \X Nat \X Nat
    ELSE Singles

LEMMA SinglesOrder ==
    ASSUME NEW i \in Nat, NEW j \in Nat
    PROVE  Precedes(<<i>>, <<j>>) <=> i < j
<1>1. DOMAIN <<i>> = {1} /\ <<i>>[1] = i /\ <<j>>[1] = j
  OBVIOUS
<1>2. 1 .. (1 - 1) = {}
  OBVIOUS
<1> QED
  BY <1>1, <1>2 DEF Precedes

LEMMA TriplesOrder ==
    ASSUME NEW a \in Nat \X Nat \X Nat, NEW b \in Nat \X Nat \X Nat
    PROVE  Precedes(a, b) <=>
               \/ a[1] < b[1]
               \/ a[1] = b[1] /\ a[2] < b[2]
               \/ a[1] = b[1] /\ a[2] = b[2] /\ a[3] < b[3]
<1>1. DOMAIN a = {1, 2, 3}
  OBVIOUS
<1>2. 1 .. 0 = {} /\ 1 .. 1 = {1} /\ 1 .. 2 = {1, 2}
  OBVIOUS
<1>3. 1 - 1 = 0 /\ 2 - 1 = 1 /\ 3 - 1 = 2
  OBVIOUS
<1> QED
  BY <1>1, <1>2, <1>3 DEF Precedes

\* Each collection is totally ordered by its keys.
LEMMA KeyOrder ==
    ASSUME NEW collection, NEW a \in Keys(collection), NEW b \in Keys(collection)
    PROVE  /\ ~KeyBefore(collection, a, a)
           /\ ~(KeyBefore(collection, a, b) /\ KeyBefore(collection, b, a))
           /\ a = b \/ KeyBefore(collection, a, b) \/ KeyBefore(collection, b, a)
           /\ \A c \in Keys(collection) :
                  KeyBefore(collection, a, b) /\ KeyBefore(collection, b, c)
                      => KeyBefore(collection, a, c)
           /\ a # None
<1>1. CASE collection = IndexNodes
  <2>1. a \in Nat \X Nat /\ b \in Nat \X Nat /\ Keys(collection) = Nat \X Nat
    BY <1>1 DEF Keys
  <2>2. PICK x, y \in Nat : a = <<x, y>>
    BY <2>1
  <2>3. a # None
    <3>1. <<x, y>> \in Seq(Nat)
      OBVIOUS
    <3> QED
      BY <2>2, <3>1, NoneIsNoKey
  <2> QED
    BY <1>1, <2>1, <2>3 DEF KeyBefore
<1>2. CASE collection # IndexNodes /\ collection.table = "relationships"
  <2>1. /\ a \in Nat \X Nat \X Nat /\ b \in Nat \X Nat \X Nat
        /\ Keys(collection) = Nat \X Nat \X Nat
    BY <1>2 DEF Keys
  <2>2. PICK x, y, z \in Nat : a = <<x, y, z>>
    BY <2>1
  <2>3. a # None
    <3>1. <<x, y, z>> \in Seq(Nat)
      OBVIOUS
    <3> QED
      BY <2>2, <3>1, NoneIsNoKey
  <2>4. \A c, e \in Nat \X Nat \X Nat :
            KeyBefore(collection, c, e) <=>
               \/ c[1] < e[1]
               \/ c[1] = e[1] /\ c[2] < e[2]
               \/ c[1] = e[1] /\ c[2] = e[2] /\ c[3] < e[3]
    BY <1>2, TriplesOrder DEF KeyBefore
  <2> QED
    BY <2>1, <2>3, <2>4
<1>3. CASE collection # IndexNodes /\ collection.table # "relationships"
  <2>1. Keys(collection) = Singles
    BY <1>3 DEF Keys
  <2>2. PICK x \in Nat : a = <<x>>
    BY <2>1 DEF Singles
  <2>3. a # None
    <3>1. <<x>> \in Seq(Nat)
      OBVIOUS
    <3> QED
      BY <2>2, <3>1, NoneIsNoKey
  <2>4. \A i, j \in Nat : KeyBefore(collection, <<i>>, <<j>>) <=> i < j
    BY <1>3, SinglesOrder DEF KeyBefore
  <2> QED
    BY <2>1, <2>3, <2>4 DEF Singles
<1> QED
  BY <1>1, <1>2, <1>3

-----------------------------------------------------------------------------
(* Pages *)

\* Items whose keys order them.
Ordered(collection, items) ==
    /\ IsFiniteSet(items)
    /\ \A i \in items : i.key \in Keys(collection)
    /\ \A i, j \in items : i.key = j.key => i = j

Places(collection, rest, i) == {j \in rest : KeyBefore(collection, j.key, i.key)}

LEMMA PlacesGrow ==
    ASSUME NEW collection, NEW rest, Ordered(collection, rest),
           NEW i \in rest, NEW j \in rest, KeyBefore(collection, j.key, i.key)
    PROVE  /\ Cardinality(Places(collection, rest, i)) \in Nat
           /\ Cardinality(Places(collection, rest, j)) \in Nat
           /\ Cardinality(Places(collection, rest, j)) < Cardinality(Places(collection, rest, i))
<1>1. IsFiniteSet(Places(collection, rest, i)) /\ IsFiniteSet(Places(collection, rest, j))
  BY FS_Subset DEF Places, Ordered
<1>2. Places(collection, rest, j) \subseteq Places(collection, rest, i)
  BY KeyOrder DEF Places, Ordered
<1>3. j \in Places(collection, rest, i) /\ j \notin Places(collection, rest, j)
  BY KeyOrder DEF Places, Ordered
<1> QED
  BY <1>1, <1>2, <1>3, FS_Subset, FS_CardinalityType

\* The first of these items.
LEMMA FirstItem ==
    ASSUME NEW collection, NEW rest, Ordered(collection, rest), rest # {}
    PROVE  \E i \in rest : Cardinality(Places(collection, rest, i)) = 0
<1> DEFINE place(i) == Cardinality(Places(collection, rest, i))
           places == {place(i) : i \in rest}
<1>1. \A i \in rest : IsFiniteSet(Places(collection, rest, i)) /\ place(i) \in Nat
  BY FS_Subset, FS_CardinalityType DEF Places, Ordered
<1>2. PICK m \in places : \A n \in places : m <= n
  <2> HIDE DEF place
  <2>1. places \in SUBSET Nat /\ places # {}
    BY <1>1
  <2> HIDE DEF places
  <2> QED
    BY <2>1, LeastNumber
<1>3. PICK i \in rest : m = place(i)
  OBVIOUS
<1>4. \A j \in rest : ~KeyBefore(collection, j.key, i.key)
  BY <1>1, <1>2, <1>3, PlacesGrow
<1>5. Places(collection, rest, i) = {}
  BY <1>4 DEF Places
<1> QED
  BY <1>5, FS_EmptySet

\* The last of those among the first ones.
LEMMA LastItem ==
    ASSUME NEW collection, NEW items, Ordered(collection, items), items # {}
    PROVE  \E i \in items : \A j \in items \ {i} : KeyBefore(collection, j.key, i.key)
<1> DEFINE place(i) == Cardinality(Places(collection, items, i))
           size == Cardinality(items)
           gaps == {size - place(i) : i \in items}
<1>1. size \in Nat
  BY FS_CardinalityType DEF Ordered
<1>2. \A i \in items : place(i) \in Nat /\ place(i) <= size
  BY FS_Subset, FS_CardinalityType DEF Places, Ordered
<1>3. PICK m \in gaps : \A n \in gaps : m <= n
  <2> HIDE DEF place, size
  <2>1. gaps \in SUBSET Nat /\ gaps # {}
    BY <1>1, <1>2
  <2> HIDE DEF gaps
  <2> QED
    BY <2>1, LeastNumber
<1>4. PICK i \in items : m = size - place(i)
  OBVIOUS
<1>5. \A j \in items : place(j) <= place(i)
  <2> HIDE DEF place, size
  <2>1. ASSUME NEW j \in items PROVE place(j) <= place(i)
    <3>1. m <= size - place(j)
      BY <1>3
    <3> QED
      BY <3>1, <1>1, <1>2, <1>4
  <2> QED
    BY <2>1
<1>6. ASSUME NEW j \in items \ {i} PROVE KeyBefore(collection, j.key, i.key)
  <2>1. ~KeyBefore(collection, i.key, j.key)
    <3>1. KeyBefore(collection, i.key, j.key) => place(i) < place(j)
      BY PlacesGrow
    <3> QED
      BY <3>1, <1>2, <1>5
  <2>2. i.key \in Keys(collection) /\ j.key \in Keys(collection) /\ i.key # j.key
    BY <1>6 DEF Ordered
  <2> QED
    BY <2>1, <2>2, KeyOrder
<1> QED
  BY <1>6

\* A page and the cursor behind it.
LEMMA PageShape ==
    ASSUME NEW collection, NEW items, Ordered(collection, items), NEW after,
           NEW limit \in Nat \ {0}
    PROVE  LET page == Page(collection, items, after, limit)
               next == LastKey(collection, page.items)
           IN  /\ page.more \in BOOLEAN
               /\ ~page.more =>
                      page.items = {i \in items : Behind(collection, i.key, after)}
               /\ page.more =>
                      /\ next \in Keys(collection)
                      /\ Behind(collection, next, after)
                      /\ page.items = {i \in items : /\ Behind(collection, i.key, after)
                                                     /\ ~KeyBefore(collection, next, i.key)}
<1> DEFINE rest == {i \in items : Behind(collection, i.key, after)}
           place(i) == Cardinality(Places(collection, rest, i))
           first == {i \in rest : place(i) < limit}
           next == LastKey(collection, first)
<1>1. Page(collection, items, after, limit) = [items |-> first, more |-> rest \ first # {}]
  BY DEF Page, Places
<1>2. Ordered(collection, rest) /\ Ordered(collection, first)
  BY FS_Subset DEF Ordered
<1>3. \A i \in rest : place(i) \in Nat
  BY <1>2, FS_Subset, FS_CardinalityType DEF Places, Ordered
<1>4. ASSUME NEW i \in first, NEW j \in rest, KeyBefore(collection, j.key, i.key)
      PROVE  j \in first
  <2>1. place(j) < place(i)
    BY <1>2, <1>4, PlacesGrow
  <2>2. place(i) < limit /\ place(i) \in Nat /\ place(j) \in Nat
    BY <1>3
  <2> QED
    BY <2>1, <2>2
<1>5. ASSUME rest \ first # {}
      PROVE  /\ next \in Keys(collection)
             /\ Behind(collection, next, after)
             /\ first = {i \in rest : ~KeyBefore(collection, next, i.key)}
  <2>1. first # {}
    <3>1. PICK i \in rest : place(i) = 0
      BY <1>2, <1>5, FirstItem
    <3>2. i \in first
      BY <3>1
    <3> QED
      BY <3>2
  <2>2. PICK last : /\ last \in first /\ next = last.key
                    /\ \A j \in first \ {last} : KeyBefore(collection, j.key, last.key)
    <3> HIDE DEF first
    <3> QED
      BY <1>2, <2>1, LastItem DEF LastKey
  <2>3. \A i \in rest : i.key \in Keys(collection)
    BY <1>2 DEF Ordered
  <2>4. next \in Keys(collection) /\ Behind(collection, next, after)
    BY <2>2, <2>3
  <2>5. ASSUME NEW i \in first PROVE ~KeyBefore(collection, next, i.key)
    BY <2>2, <2>3, KeyOrder
  <2>6. ASSUME NEW i \in rest, ~KeyBefore(collection, next, i.key) PROVE i \in first
    <3>1. CASE i.key = next
      BY <1>2, <2>2, <3>1 DEF Ordered
    <3>2. CASE KeyBefore(collection, i.key, next)
      BY <1>4, <2>2, <3>2
    <3> QED
      BY <2>3, <2>4, <2>6, <3>1, <3>2, KeyOrder
  <2>7. first \subseteq rest
    OBVIOUS
  <2> HIDE DEF first, rest, next
  <2>8. first = {i \in rest : ~KeyBefore(collection, next, i.key)}
    BY <2>5, <2>6, <2>7
  <2> QED
    BY <2>4, <2>8
<1>6. rest \ first = {} => first = rest
  OBVIOUS
<1>7. /\ Page(collection, items, after, limit).items = first
      /\ Page(collection, items, after, limit).more = (rest \ first # {})
  BY <1>1
<1>8. /\ (rest \ first # {}) \in BOOLEAN
      /\ ~(rest \ first # {}) => first = rest
      /\ rest \ first # {} =>
             /\ next \in Keys(collection)
             /\ Behind(collection, next, after)
             /\ first = {i \in items : /\ Behind(collection, i.key, after)
                                      /\ ~KeyBefore(collection, next, i.key)}
  BY <1>5, <1>6
<1> QED
  BY <1>7, <1>8

LEMMA FiniteImage ==
    ASSUME NEW S, IsFiniteSet(S), NEW f, NEW T, \A t \in T : \E i \in S : t = f[i]
    PROVE  IsFiniteSet(T)
<1> DEFINE R == {i \in S : f[i] \in T}
           g == [i \in R |-> f[i]]
<1>1. g \in Surjection(R, T)
  BY DEF Surjection
<1>2. IsFiniteSet(R)
  BY FS_Subset
<1> QED
  BY <1>1, <1>2, FS_Surjection

LEMMA KeysAreFinite ==
    /\ IsFiniteSet(NodeIds) /\ IsFiniteSet(PropertyKeys) /\ IsFiniteSet(RelationshipKeys)
    /\ IsFiniteSet(Relationships)
<1>1. IsFiniteSet(NodeIds) /\ IsFiniteSet(PropertyKeys) /\ IsFiniteSet(RelationshipKeys)
  BY FiniteKeys, FS_Subset
<1>2. IsFiniteSet((NodeIds \X RelationshipKeys) \X NodeIds)
  <2>1. IsFiniteSet(NodeIds \X RelationshipKeys)
    BY <1>1, FS_Product
  <2> QED
    BY <1>1, <2>1, FS_Product
<1>3. IsFiniteSet(Relationships)
  <2> DEFINE f == [p \in (NodeIds \X RelationshipKeys) \X NodeIds |-> <<p[1][1], p[1][2], p[2]>>]
  <2>1. \A e \in Relationships : \E p \in (NodeIds \X RelationshipKeys) \X NodeIds : e = f[p]
    <3>1. ASSUME NEW e \in Relationships
          PROVE  \E p \in (NodeIds \X RelationshipKeys) \X NodeIds : e = f[p]
      <4>1. PICK s \in NodeIds, k \in RelationshipKeys, t \in NodeIds : e = <<s, k, t>>
        BY DEF Relationships
      <4>2. <<<<s, k>>, t>> \in (NodeIds \X RelationshipKeys) \X NodeIds
        OBVIOUS
      <4> QED
        BY <4>1, <4>2
    <3> QED
      BY <3>1
  <2> HIDE DEF f
  <2> QED
    BY <1>2, <2>1, FiniteImage
<1> QED
  BY <1>1, <1>3

\* Rows under keys of one column.
RowsOf(items, S, f) == \A x \in items : \E i \in S : x = Item(<<i>>, f[i])

LEMMA SinglesOrdered ==
    ASSUME NEW collection, Keys(collection) = Singles,
           NEW S \in SUBSET Nat, IsFiniteSet(S), NEW f, NEW items,
           RowsOf(items, S, f)
    PROVE  Ordered(collection, items)
<1> DEFINE g == [i \in S |-> Item(<<i>>, f[i])]
<1>1. \A x \in items : \E i \in S : x = g[i]
  BY DEF RowsOf
<1>2. IsFiniteSet(items)
  <2> HIDE DEF g
  <2> QED
    BY <1>1, FiniteImage
<1>3. \A x \in items : \E i \in S : x.key = <<i>> /\ x = Item(<<i>>, f[i])
  BY DEF Item, RowsOf
<1>4. \A x \in items : x.key \in Keys(collection)
  BY <1>3 DEF Singles
<1>5. ASSUME NEW x \in items, NEW y \in items, x.key = y.key PROVE x = y
  <2>1. PICK i \in S : x.key = <<i>> /\ x = Item(<<i>>, f[i])
    BY <1>3
  <2>2. PICK j \in S : y.key = <<j>> /\ y = Item(<<j>>, f[j])
    BY <1>3
  <2>3. <<i>>[1] = <<j>>[1]
    BY <1>5, <2>1, <2>2
  <2> QED
    BY <2>1, <2>2, <2>3
<1> QED
  BY <1>2, <1>4, <1>5 DEF Ordered

LEMMA StableItemsOrdered ==
    ASSUME NEW d \in Databases, NEW collection \in Collections, collection # IndexNodes
    PROVE  Ordered(collection, StableItems(d, collection))
<1> DEFINE n == collection.owner
           items == StableItems(d, collection)
<1>0. /\ d.issued \in SUBSET NodeIds /\ d.relationships \in SUBSET Relationships
      /\ DOMAIN d.propertyDefinitions = PropertyKeys
      /\ DOMAIN d.relationshipDefinitions = RelationshipKeys
  BY DatabaseFields
<1>1. /\ collection.table \in {"issued_ids", "nodes", "relationships", "properties",
                                "property_definitions", "relationship_definitions"}
  BY DEF Collections, IndexNodes, Collection
<1>2. NodeIds \subseteq Nat /\ PropertyKeys \subseteq Nat /\ RelationshipKeys \subseteq Nat
  BY OrderedNodeIds, OrderedKeys
<1>3. CASE collection.table = "relationships"
  <2>1. items = {Item(e, None) : e \in d.relationships}
    BY <1>3 DEF StableItems
  <2>2. Keys(collection) = Nat \X Nat \X Nat
    BY <1>3 DEF Keys
  <2>3. IsFiniteSet(d.relationships)
    BY <1>0, KeysAreFinite, FS_Subset
  <2> DEFINE g == [e \in d.relationships |-> Item(e, None)]
  <2>4. \A i \in items : \E e \in d.relationships : i = g[e]
    BY <2>1
  <2>5. IsFiniteSet(items)
    <3> HIDE DEF g, items
    <3> QED
      BY <2>3, <2>4, FiniteImage
  <2>6. d.relationships \subseteq Nat \X Nat \X Nat
    BY <1>0, <1>2 DEF Relationships
  <2>7. \A i \in items : i.key \in d.relationships /\ i = Item(i.key, None)
    BY <2>1 DEF Item
  <2> QED
    BY <2>2, <2>5, <2>6, <2>7 DEF Ordered
<1>4. CASE collection.table # "relationships"
  <2>1. Keys(collection) = Singles
    BY <1>4 DEF Keys
  <2>2. CASE collection.table = "issued_ids"
    <3> DEFINE S == d.issued
               f == [i \in S |-> None]
    <3>1. RowsOf(items, S, f)
      BY <2>2 DEF StableItems, RowsOf
    <3>2. S \in SUBSET NodeIds
      BY <1>0
    <3>3. S \in SUBSET Nat /\ IsFiniteSet(S)
      BY <1>2, <3>2, KeysAreFinite, FS_Subset
    <3> HIDE DEF S, f, items
    <3>4. Ordered(collection, items)
      BY <2>1, <3>1, <3>3, SinglesOrdered
    <3> QED
      BY <3>4 DEF items
  <2>3. CASE collection.table = "nodes"
    <3> DEFINE S == {i \in NodeIds : d.lifecycle[i] # "none"}
    <3>1. RowsOf(items, S, d.lifecycle)
      BY <2>3 DEF StableItems, RowsOf
    <3>2. S \in SUBSET NodeIds
      OBVIOUS
    <3> HIDE DEF S, items
    <3> QED
      BY <1>2, <2>1, <3>1, <3>2, KeysAreFinite, FS_Subset, SinglesOrdered DEF items
  <2>4. CASE collection.table = "properties"
    <3> DEFINE S == {k \in PropertyKeys : d.properties[n][k].kind # None}
               f == [k \in S |-> d.properties[n][k].kind]
    <3>1. RowsOf(items, S, f)
      BY <2>4 DEF StableItems, RowsOf
    <3>2. S \in SUBSET PropertyKeys
      OBVIOUS
    <3>3. S \in SUBSET Nat /\ IsFiniteSet(S)
      BY <1>2, <3>2, KeysAreFinite, FS_Subset
    <3> HIDE DEF S, f, items
    <3>4. Ordered(collection, items)
      BY <2>1, <3>1, <3>3, SinglesOrdered
    <3> QED
      BY <3>4 DEF items
  <2>5. CASE collection.table = "property_definitions"
    <3> DEFINE S == {k \in PropertyKeys : d.propertyDefinitions[k].state # "none"}
    <3>1. RowsOf(items, S, d.propertyDefinitions)
      BY <1>0, <2>5 DEF StableItems, DefinitionItems, RowsOf
    <3>2. S \in SUBSET PropertyKeys
      OBVIOUS
    <3> HIDE DEF S, items
    <3> QED
      BY <1>2, <2>1, <3>1, <3>2, KeysAreFinite, FS_Subset, SinglesOrdered DEF items
  <2>6. CASE collection.table = "relationship_definitions"
    <3> DEFINE S == {k \in RelationshipKeys : d.relationshipDefinitions[k].state # "none"}
    <3>1. RowsOf(items, S, d.relationshipDefinitions)
      BY <1>0, <2>6 DEF StableItems, DefinitionItems, RowsOf
    <3>2. S \in SUBSET RelationshipKeys
      OBVIOUS
    <3> HIDE DEF S, items
    <3> QED
      BY <1>2, <2>1, <3>1, <3>2, KeysAreFinite, FS_Subset, SinglesOrdered DEF items
  <2> QED
    BY <1>1, <1>4, <2>2, <2>3, <2>4, <2>5, <2>6
<1> QED
  BY <1>3, <1>4

LEMMA IndexItemsOrdered ==
    ASSUME NEW x, x.content \in Contents, NEW watermark
    PROVE  Ordered(IndexNodes, IndexItems(x, watermark))
<1> DEFINE S == {n \in NodeIds : /\ x.content.lifecycle[n] # "none"
                                 /\ x.content.modified[n] <= watermark}
           f == [n \in S |-> Item(<<x.content.modified[n], n>>, x.content.lifecycle[n])]
           items == IndexItems(x, watermark)
<1>1. \A i \in items : \E n \in S : i = f[n]
  BY DEF IndexItems
<1>2. IsFiniteSet(S)
  BY KeysAreFinite, FS_Subset
<1>3. IsFiniteSet(items)
  <2> HIDE DEF S, f, items
  <2> QED
    BY <1>1, <1>2, FiniteImage
<1>4. \A n \in NodeIds : x.content.modified[n] \in Nat /\ n \in Nat
  BY OrderedNodeIds DEF Contents
<1>5. Keys(IndexNodes) = Nat \X Nat
  BY DEF Keys
<1>6. \A i \in items : \E n \in S : i.key = <<x.content.modified[n], n>> /\ i = f[n]
  BY <1>1 DEF Item
<1>7. \A i \in items : i.key \in Keys(IndexNodes)
  BY <1>4, <1>5, <1>6
<1>8. ASSUME NEW i \in items, NEW j \in items, i.key = j.key PROVE i = j
  <2>1. PICK n \in S : i.key = <<x.content.modified[n], n>> /\ i = f[n]
    BY <1>6
  <2>2. PICK m \in S : j.key = <<x.content.modified[m], m>> /\ j = f[m]
    BY <1>6
  <2>3. <<x.content.modified[n], n>>[2] = <<x.content.modified[m], m>>[2]
    BY <1>8, <2>1, <2>2
  <2> QED
    BY <2>1, <2>2, <2>3
<1> QED
  BY <1>3, <1>7, <1>8 DEF Ordered

-----------------------------------------------------------------------------
(* One traversal *)

Merged(pages) == UNION {pages[i] : i \in DOMAIN pages}
ReturnedBy(t) == Merged(t.pages)

\* The traversal t is past this key.
Past(t, key) == t.done \/ ~KeyBefore(t.collection, t.after, key)

DisjointPages(pages) ==
    \A i, j \in DOMAIN pages :
        i # j => {a.key : a \in pages[i]} \cap {b.key : b \in pages[j]} = {}

\* A traversal that has returned nothing yet, or is past all it has returned.
Journey(t) ==
    /\ t = [collection |-> t.collection, revision |-> t.revision, after |-> t.after,
            pages |-> t.pages, origin |-> t.origin, done |-> t.done]
    /\ t.collection \in Collections
    /\ t.done \in BOOLEAN
    /\ \E S : t.pages \in Seq(SUBSET S)
    /\ DisjointPages(t.pages)
    /\ t.after # None => t.after \in Keys(t.collection)
    /\ \A i \in ReturnedBy(t) :
           i.key \in Keys(t.collection) /\ (t.done \/ t.after # None) /\ Past(t, i.key)

\* The next page u of t was taken from these items.
Advanced(t, u, items) ==
    /\ u.collection = t.collection /\ u.revision = t.revision /\ u.origin = t.origin
    /\ u.done \/ u.after # None
    /\ ReturnedBy(u) = ReturnedBy(t) \cup
           {i \in items : Behind(t.collection, i.key, t.after) /\ Past(u, i.key)}
    /\ \A key \in Keys(t.collection) :
           ~Behind(t.collection, key, t.after) => Past(u, key)

LEMMA PagesAppended ==
    ASSUME NEW pages, NEW S, pages \in Seq(SUBSET S), NEW page
    PROVE  /\ Append(pages, page) \in Seq(SUBSET (S \cup page))
           /\ Merged(Append(pages, page)) = Merged(pages) \cup page
           /\ (/\ DisjointPages(pages)
               /\ \A a \in Merged(pages) : \A b \in page : a.key # b.key)
              => DisjointPages(Append(pages, page))
<1> DEFINE more == Append(pages, page)
<1>1. pages \in Seq(SUBSET (S \cup page)) /\ page \in SUBSET (S \cup page)
  OBVIOUS
<1>2. /\ more \in Seq(SUBSET (S \cup page))
      /\ Len(pages) \in Nat /\ DOMAIN pages = 1 .. Len(pages)
      /\ DOMAIN more = 1 .. (Len(pages) + 1)
      /\ more[Len(pages) + 1] = page
      /\ \A i \in 1 .. Len(pages) : more[i] = pages[i]
  BY <1>1
<1> HIDE DEF more
<1>3. \A i \in DOMAIN more : i \in DOMAIN pages \/ i = Len(pages) + 1
  BY <1>2
<1>4. DOMAIN pages \subseteq DOMAIN more /\ Len(pages) + 1 \in DOMAIN more
  BY <1>2
<1>5. Merged(more) = Merged(pages) \cup page
  <2>1. \A x : x \in Merged(more) <=> \E i \in DOMAIN more : x \in more[i]
    BY DEF Merged
  <2>2. \A x : x \in Merged(pages) <=> \E i \in DOMAIN pages : x \in pages[i]
    BY DEF Merged
  <2> QED
    BY <1>2, <1>3, <1>4, <2>1, <2>2
<1>6. ASSUME DisjointPages(pages),
             \A a \in Merged(pages) : \A b \in page : a.key # b.key
      PROVE  DisjointPages(more)
  <2> SUFFICES ASSUME NEW i \in DOMAIN more, NEW j \in DOMAIN more, i # j,
                      NEW a \in more[i], NEW b \in more[j], a.key = b.key
               PROVE  FALSE
    BY DEF DisjointPages
  <2>1. CASE i \in DOMAIN pages /\ j \in DOMAIN pages
    <3>1. a \in pages[i] /\ b \in pages[j]
      BY <1>2, <2>1
    <3> QED
      BY <1>6, <2>1, <3>1 DEF DisjointPages
  <2>2. CASE i = Len(pages) + 1 /\ j \in DOMAIN pages
    <3>1. a \in page /\ b \in pages[j]
      BY <1>2, <2>2
    <3> QED
      BY <1>6, <2>2, <3>1 DEF Merged
  <2>3. CASE i \in DOMAIN pages /\ j = Len(pages) + 1
    <3>1. a \in pages[i] /\ b \in page
      BY <1>2, <2>3
    <3> QED
      BY <1>6, <2>3, <3>1 DEF Merged
  <2> QED
    BY <1>3, <2>1, <2>2, <2>3
<1> QED
  BY <1>2, <1>5, <1>6 DEF more

LEMMA PageTaken ==
    ASSUME NEW t, Journey(t), ~t.done, NEW items, Ordered(t.collection, items), TakePage(t, items)
    PROVE  Journey(traversal') /\ Advanced(t, traversal', items)
<1> DEFINE collection == t.collection
           u == traversal'
<1>1. PICK limit \in PageLimits :
        LET page == Page(t.collection, items, t.after, limit)
        IN  u = [t EXCEPT
                !.pages = Append(@, page.items),
                !.after = IF page.more THEN LastKey(t.collection, page.items) ELSE None,
                !.done = ~page.more]
  BY DEF TakePage
<1> DEFINE page == Page(collection, items, t.after, limit)
           p == page.items
           next == LastKey(collection, p)
<1>2. limit \in Nat \ {0}
  BY PageLimitsAssumption
<1>3. /\ page.more \in BOOLEAN
      /\ ~page.more => p = {i \in items : Behind(collection, i.key, t.after)}
      /\ page.more =>
             /\ next \in Keys(collection)
             /\ Behind(collection, next, t.after)
             /\ p = {i \in items : /\ Behind(collection, i.key, t.after)
                                   /\ ~KeyBefore(collection, next, i.key)}
  BY <1>2, PageShape
<1>4. /\ u = [collection |-> u.collection, revision |-> u.revision, after |-> u.after,
              pages |-> u.pages, origin |-> u.origin, done |-> u.done]
      /\ u.collection = t.collection /\ u.revision = t.revision /\ u.origin = t.origin
      /\ u.pages = Append(t.pages, p)
      /\ u.after = IF page.more THEN next ELSE None
      /\ u.done = ~page.more
  <2>1. t = [collection |-> t.collection, revision |-> t.revision, after |-> t.after,
             pages |-> t.pages, origin |-> t.origin, done |-> t.done]
    BY DEF Journey
  <2>2. u = [t EXCEPT !.pages = Append(t.pages, p),
                      !.after = IF page.more THEN next ELSE None,
                      !.done = ~page.more]
    BY <1>1
  <2> HIDE DEF page, p, next, u
  <2> QED
    BY <2>1, <2>2
<1> HIDE DEF page, p, next, u
<1>5. \A i \in items : i.key \in Keys(collection)
  BY DEF Ordered
<1>6. u.done \in BOOLEAN /\ (u.done \/ (u.after # None /\ u.after \in Keys(collection)))
  BY <1>3, <1>4, KeyOrder
<1>7. p = {i \in items : Behind(collection, i.key, t.after) /\ Past(u, i.key)}
  BY <1>3, <1>4 DEF Past
<1>8. ASSUME NEW key \in Keys(collection), ~Behind(collection, key, t.after)
      PROVE  Past(u, key)
  <2>1. t.after # None /\ t.after \in Keys(collection) /\ ~KeyBefore(collection, t.after, key)
    BY <1>8 DEF Behind, Journey
  <2>2. CASE u.done
    BY <2>2 DEF Past
  <2>3. CASE ~u.done
    <3>1. u.after \in Keys(collection) /\ KeyBefore(collection, t.after, u.after)
      BY <1>3, <1>4, <2>1, <2>3 DEF Behind
    <3> QED
      BY <1>4, <2>1, <3>1, KeyOrder DEF Past
  <2> QED
    BY <2>2, <2>3
<1>9. PICK S : t.pages \in Seq(SUBSET S)
  BY DEF Journey
<1>10. /\ u.pages \in Seq(SUBSET (S \cup p))
       /\ ReturnedBy(u) = ReturnedBy(t) \cup p
       /\ DisjointPages(u.pages)
  <2>1. ASSUME NEW a \in ReturnedBy(t), NEW b \in p PROVE a.key # b.key
    <3>1. ~Behind(collection, a.key, t.after)
      BY DEF Journey, Past, Behind
    <3>2. Behind(collection, b.key, t.after)
      BY <1>7
    <3> QED
      BY <3>1, <3>2
  <2> QED
    <3> DEFINE pages == t.pages
    <3>1. pages \in Seq(SUBSET S) /\ u.pages = Append(pages, p)
      BY <1>4, <1>9
    <3>2. DisjointPages(pages) /\ \A a \in Merged(pages) : \A b \in p : a.key # b.key
      BY <2>1 DEF ReturnedBy, Journey
    <3> HIDE DEF pages
    <3>3. Append(pages, p) \in Seq(SUBSET (S \cup p))
      BY <3>1, PagesAppended
    <3>4. Merged(Append(pages, p)) = Merged(pages) \cup p
      BY <3>1, PagesAppended
    <3>5. DisjointPages(Append(pages, p))
      BY <3>1, <3>2, PagesAppended
    <3> QED
      BY <3>1, <3>3, <3>4, <3>5 DEF ReturnedBy, pages
<1>11. ASSUME NEW i \in ReturnedBy(u)
       PROVE  i.key \in Keys(collection) /\ Past(u, i.key)
  <2>1. CASE i \in p
    BY <1>5, <1>7, <2>1
  <2>2. CASE i \in ReturnedBy(t)
    <3>1. i.key \in Keys(collection) /\ ~Behind(collection, i.key, t.after)
      BY <2>2 DEF Journey, Past, Behind
    <3> QED
      BY <1>8, <3>1
  <2> QED
    BY <1>10, <2>1, <2>2
<1>12. Journey(u)
  <2>1. u.after # None => u.after \in Keys(u.collection)
    BY <1>3, <1>4
  <2> QED
    BY <1>4, <1>6, <1>10, <1>11, <2>1 DEF Journey
<1>13. Advanced(t, u, items)
  BY <1>4, <1>6, <1>7, <1>8, <1>10 DEF Advanced
<1> QED
  BY <1>12, <1>13 DEF u

LEMMA JourneyStarted ==
    ASSUME NEW collection \in Collections, NEW revision, NEW items
    PROVE  LET t == Started(collection, revision, items)
           IN  /\ Journey(t) /\ ~t.done /\ ReturnedBy(t) = {}
               /\ t.collection = collection /\ t.revision = revision /\ t.origin = items
               /\ t.after = None
<1> DEFINE t == Started(collection, revision, items)
<1>1. t = [collection |-> collection, revision |-> revision, after |-> None, pages |-> <<>>,
           origin |-> items, done |-> FALSE]
  BY DEF Started
<1> HIDE DEF t
<1>2. /\ t.collection = collection /\ t.revision = revision /\ t.origin = items
      /\ t.after = None /\ t.done = FALSE /\ t.pages = <<>>
  BY <1>1
<1>3. <<>> \in Seq(SUBSET {}) /\ DOMAIN <<>> = {}
  OBVIOUS
<1>4. ReturnedBy(t) = {} /\ DisjointPages(t.pages)
  BY <1>2, <1>3 DEF ReturnedBy, Merged, DisjointPages
<1>5. t = [collection |-> t.collection, revision |-> t.revision, after |-> t.after,
           pages |-> t.pages, origin |-> t.origin, done |-> t.done]
  BY <1>1, <1>2
<1>6. \E S : t.pages \in Seq(SUBSET S)
  BY <1>2, <1>3
<1>7. Journey(t)
  BY <1>2, <1>4, <1>5, <1>6 DEF Journey
<1> QED
  BY <1>2, <1>4, <1>7 DEF t

-----------------------------------------------------------------------------
(* Snapshots and stable scans *)

\* While nothing is committed, a snapshot is the store.
SnapshotSound(snap, d) ==
    snap # None =>
        /\ snap \in Databases
        /\ snap.revision <= d.revision
        /\ (snap.revision = d.revision => snap = Unjournalled(d))

\* What a scan began with is what any snapshot of its revision has.
ScanSound(t, snap, d) ==
    t.collection # IndexNodes =>
        /\ ReturnedBy(t) = {i \in t.origin : Past(t, i.key)}
        /\ (snap # None /\ t.revision = snap.revision)
               => t.origin = StableItems(snap, t.collection)
        /\ t.revision = d.revision => t.origin = StableItems(Unjournalled(d), t.collection)

TraversalSound(t, snap, d) ==
    t # None =>
        /\ Journey(t)
        /\ t.done \/ t.after # None
        /\ t.revision \in Nat /\ t.revision <= d.revision
        /\ ScanSound(t, snap, d)

TraversalInvariant ==
    /\ LibraryInvariant
    /\ SnapshotSound(snapshot, db)
    /\ TraversalSound(traversal, snapshot, db)

LEMMA SyncNextEffect ==
    ASSUME LibraryInvariant, SyncNext
    PROVE  db' = db \/ Prunes(db, db') \/ (Follows(db, db') /\ Accounted(db, db'))
<1>1. CASE StoreStep
  BY <1>1, StoreInvariantStep DEF StoreStep, LibraryInvariant
<1>2. CASE ~StoreStep
  BY <1>2 DEF SyncNext, BeginReconcile, BeginRebuild, ReadJournal, ReadRevision, ReadNodeIds,
              ReadStatement, ApplyPatch, Promote, SyncFails, CoreStep, vars
<1> QED
  BY <1>1, <1>2

\* A commit moves the revision on, and pruning changes no collection.
LEMMA StoreMoves ==
    ASSUME NEW d \in Databases, NEW e \in Databases,
           d = e \/ Prunes(d, e) \/ Follows(d, e)
    PROVE  /\ d.revision <= e.revision
           /\ e.revision = d.revision => Unjournalled(e) = Unjournalled(d)
<1>0. d.revision \in Nat /\ e.revision \in Nat
  BY DatabaseFields
<1>1. CASE Prunes(d, e)
  <2>1. e.revision = d.revision
    BY <1>1 DEF Prunes, PruneFrame
  <2>2. Unjournalled(e) = Unjournalled(d)
    BY <1>1 DEF Prunes, PruneFrame, Unjournalled, Databases
  <2> QED
    BY <1>0, <2>1, <2>2
<1> QED
  BY <1>0, <1>1 DEF Follows

LEMMA SoundKept ==
    ASSUME NEW d \in Databases, NEW e \in Databases,
           d = e \/ Prunes(d, e) \/ Follows(d, e),
           NEW snap, SnapshotSound(snap, d), NEW t, TraversalSound(t, snap, d)
    PROVE  SnapshotSound(snap, e) /\ TraversalSound(t, snap, e)
<1>0. /\ d.revision \in Nat /\ e.revision \in Nat /\ d.revision <= e.revision
      /\ e.revision = d.revision => Unjournalled(e) = Unjournalled(d)
  BY StoreMoves, DatabaseFields
<1>1. SnapshotSound(snap, e)
  <2> SUFFICES ASSUME snap # None PROVE SnapshotSound(snap, e)
    BY DEF SnapshotSound
  <2>1. /\ snap \in Databases /\ snap.revision <= d.revision
        /\ (snap.revision = d.revision => snap = Unjournalled(d))
    BY DEF SnapshotSound
  <2>2. snap.revision \in Nat
    BY <2>1, DatabaseFields
  <2> QED
    BY <1>0, <2>1, <2>2 DEF SnapshotSound
<1>2. TraversalSound(t, snap, e)
  BY <1>0 DEF TraversalSound, ScanSound
<1> QED
  BY <1>1, <1>2

\* One more page of a stable scan.
LEMMA ScanAdvanced ==
    ASSUME NEW t, Journey(t), ~t.done, NEW u, Journey(u), Advanced(t, u, t.origin),
           t.after = None => ReturnedBy(t) = {},
           t.after # None => ReturnedBy(t) = {i \in t.origin : Past(t, i.key)},
           \A i \in t.origin : i.key \in Keys(t.collection)
    PROVE  ReturnedBy(u) = {i \in u.origin : Past(u, i.key)}
<1>1. /\ u.origin = t.origin
      /\ ReturnedBy(u) = ReturnedBy(t) \cup
             {i \in t.origin : Behind(t.collection, i.key, t.after) /\ Past(u, i.key)}
      /\ \A key \in Keys(t.collection) : ~Behind(t.collection, key, t.after) => Past(u, key)
  BY DEF Advanced
<1>2. CASE t.after = None
  BY <1>1, <1>2 DEF Behind
<1>3. CASE t.after # None
  <2>1. ASSUME NEW i \in t.origin
        PROVE  i \in ReturnedBy(t) <=> ~Behind(t.collection, i.key, t.after)
    BY <1>3 DEF Past, Behind
  <2>2. ReturnedBy(t) \subseteq t.origin
    BY <1>3
  <2> QED
    BY <1>1, <2>1, <2>2
<1> QED
  BY <1>2, <1>3

LEMMA TraversalStep ==
    ASSUME TraversalInvariant, [TraversalNext]_<<vars, syncVars, traversalVars>>
    PROVE  TraversalInvariant'
<1>0. /\ db \in Databases /\ db.revision \in Nat /\ LibraryInvariant
      /\ SnapshotSound(snapshot, db) /\ TraversalSound(traversal, snapshot, db)
  BY LibraryFacts DEF TraversalInvariant
<1>1. CASE SyncStep
  <2>1. SyncNext /\ snapshot' = snapshot /\ traversal' = traversal
    BY <1>1 DEF SyncStep, traversalVars
  <2>2. LibraryInvariant'
    BY <1>0, <2>1, LibraryStep
  <2>3. db' \in Databases
    BY <2>2 DEF LibraryInvariant, StoreInvariant, Inductive, TypeOK
  <2>4. SnapshotSound(snapshot, db') /\ TraversalSound(traversal, snapshot, db')
    BY <1>0, <2>1, <2>3, SyncNextEffect, SoundKept
  <2> QED
    BY <2>1, <2>2, <2>4 DEF TraversalInvariant
<1>2. ASSUME UNCHANGED <<vars, syncVars>>
      PROVE  LibraryInvariant' /\ db' = db
  BY <1>0, <1>2, LibraryStep DEF vars
<1>3. ASSUME NEW c \in Cores, OpenSnapshot(c)
      PROVE  TraversalInvariant'
  <2>1. snapshot = None /\ snapshot' = Unjournalled(db) /\ traversal' = traversal
    BY <1>3 DEF OpenSnapshot
  <2>2. LibraryInvariant' /\ db' = db
    BY <1>2, <1>3 DEF OpenSnapshot
  <2>3. Unjournalled(db) \in Databases /\ Unjournalled(db).revision = db.revision
    BY <1>0, UnjournalledEffect
  <2>4. SnapshotSound(Unjournalled(db), db)
    BY <1>0, <2>3 DEF SnapshotSound
  <2>5. TraversalSound(traversal, Unjournalled(db), db)
    BY <1>0, <2>3 DEF TraversalSound, ScanSound
  <2> QED
    BY <2>1, <2>2, <2>4, <2>5 DEF TraversalInvariant
<1>4. CASE CloseSnapshot
  <2>1. snapshot' = None /\ traversal' = traversal /\ LibraryInvariant' /\ db' = db
    BY <1>2, <1>4 DEF CloseSnapshot
  <2>2. SnapshotSound(None, db) /\ TraversalSound(traversal, None, db)
    BY <1>0 DEF SnapshotSound, TraversalSound, ScanSound
  <2> QED
    BY <2>1, <2>2 DEF TraversalInvariant
<1>5. CASE EndTraversal
  <2>1. snapshot' = snapshot /\ traversal' = None /\ LibraryInvariant' /\ db' = db
    BY <1>2, <1>5 DEF EndTraversal
  <2>2. TraversalSound(None, snapshot, db)
    BY DEF TraversalSound
  <2> QED
    BY <1>0, <2>1, <2>2 DEF TraversalInvariant
<1>6. ASSUME NEW collection \in Collections, FirstStablePage(collection)
      PROVE  TraversalInvariant'
  <2> DEFINE items == StableItems(snapshot, collection)
             t == Started(collection, snapshot.revision, items)
             u == traversal'
  <2>1. /\ snapshot # None /\ collection # IndexNodes /\ TakePage(t, items)
        /\ snapshot' = snapshot /\ LibraryInvariant' /\ db' = db
    BY <1>2, <1>6 DEF FirstStablePage
  <2>2. /\ snapshot \in Databases /\ snapshot.revision <= db.revision
        /\ (snapshot.revision = db.revision => snapshot = Unjournalled(db))
    BY <1>0, <2>1 DEF SnapshotSound
  <2>3. Ordered(collection, items)
    BY <2>1, <2>2, StableItemsOrdered
  <2>4. /\ Journey(t) /\ ~t.done /\ ReturnedBy(t) = {}
        /\ t.collection = collection /\ t.revision = snapshot.revision /\ t.origin = items
        /\ t.after = None
    BY JourneyStarted
  <2> HIDE DEF t, u, items
  <2>5. Journey(u) /\ Advanced(t, u, items)
    BY <2>1, <2>3, <2>4, PageTaken DEF u
  <2>6. \A i \in t.origin : i.key \in Keys(t.collection)
    BY <2>3, <2>4 DEF Ordered
  <2>7. ReturnedBy(u) = {i \in u.origin : Past(u, i.key)}
    BY <2>4, <2>5, <2>6, ScanAdvanced
  <2>8. /\ u.collection = collection /\ u.revision = snapshot.revision /\ u.origin = items
        /\ u.done \/ u.after # None
    BY <2>4, <2>5 DEF Advanced
  <2>9. snapshot.revision \in Nat
    BY <2>2, DatabaseFields
  <2>10. ScanSound(u, snapshot, db)
    BY <2>2, <2>7, <2>8 DEF ScanSound, items
  <2>11. TraversalSound(u, snapshot, db)
    BY <2>2, <2>5, <2>8, <2>9, <2>10 DEF TraversalSound
  <2> QED
    BY <1>0, <2>1, <2>11 DEF TraversalInvariant, u
<1>7. CASE NextStablePage
  <2> DEFINE t == traversal
             items == StableItems(snapshot, t.collection)
             u == traversal'
  <2>1. /\ snapshot # None /\ t.collection # IndexNodes /\ TakePage(t, items)
        /\ t # None /\ ~t.done /\ t.revision = snapshot.revision
        /\ snapshot' = snapshot /\ LibraryInvariant' /\ db' = db
    BY <1>2, <1>7 DEF NextStablePage, Going
  <2>2. snapshot \in Databases
    BY <1>0, <2>1 DEF SnapshotSound
  <2>3. /\ Journey(t) /\ t.after # None /\ t.revision \in Nat /\ t.revision <= db.revision
        /\ ReturnedBy(t) = {i \in t.origin : Past(t, i.key)}
        /\ t.origin = items
        /\ t.revision = db.revision => t.origin = StableItems(Unjournalled(db), t.collection)
    BY <1>0, <2>1 DEF TraversalSound, ScanSound
  <2>4. Ordered(t.collection, items)
    BY <2>1, <2>2, <2>3, StableItemsOrdered DEF Journey
  <2> HIDE DEF t, u, items
  <2>5. Journey(u) /\ Advanced(t, u, items)
    BY <2>1, <2>3, <2>4, PageTaken DEF u
  <2>6. \A i \in t.origin : i.key \in Keys(t.collection)
    BY <2>3, <2>4 DEF Ordered
  <2>7. ReturnedBy(u) = {i \in u.origin : Past(u, i.key)}
    BY <2>1, <2>3, <2>5, <2>6, ScanAdvanced
  <2>8. /\ u.collection = t.collection /\ u.revision = t.revision /\ u.origin = t.origin
        /\ u.done \/ u.after # None
    BY <2>5 DEF Advanced
  <2>10. ScanSound(u, snapshot, db)
    BY <2>3, <2>7, <2>8 DEF ScanSound, items
  <2>11. TraversalSound(u, snapshot, db)
    BY <2>3, <2>5, <2>8, <2>10 DEF TraversalSound
  <2> QED
    BY <1>0, <2>1, <2>11 DEF TraversalInvariant, u
<1>8. ASSUME NEW c \in Cores, FirstIndexPage(c)
      PROVE  TraversalInvariant'
  <2> DEFINE watermark == IndexOf(c).checkpoint
             items == IndexItems(IndexOf(c), watermark)
             t == Started(IndexNodes, watermark, items)
             u == traversal'
  <2>1. TakePage(t, items) /\ snapshot' = snapshot /\ LibraryInvariant' /\ db' = db
    BY <1>2, <1>8 DEF FirstIndexPage
  <2>2. /\ IndexOf(c).content \in Contents
        /\ watermark \in Nat /\ watermark <= db.revision
    BY <1>0, LibraryFacts DEF LibraryInvariant, NobodyAhead
  <2>3. Ordered(IndexNodes, items) /\ IndexNodes \in Collections
    BY <2>2, IndexItemsOrdered DEF IndexNodes, Collection, Collections
  <2>4. Journey(t) /\ ~t.done /\ t.collection = IndexNodes /\ t.revision = watermark
    BY <2>3, JourneyStarted
  <2> HIDE DEF t, u, items, watermark
  <2>5. Journey(u) /\ Advanced(t, u, items)
    BY <2>1, <2>3, <2>4, PageTaken DEF u
  <2>6. u.collection = IndexNodes /\ u.revision = watermark /\ (u.done \/ u.after # None)
    BY <2>4, <2>5 DEF Advanced
  <2>7. TraversalSound(u, snapshot, db)
    BY <2>2, <2>5, <2>6 DEF TraversalSound, ScanSound
  <2> QED
    BY <1>0, <2>1, <2>7 DEF TraversalInvariant, u
<1>9. ASSUME NEW c \in Cores, NextIndexPage(c)
      PROVE  TraversalInvariant'
  <2> DEFINE t == traversal
             items == IndexItems(IndexOf(c), t.revision)
             u == traversal'
  <2>1. /\ TakePage(t, items) /\ t # None /\ ~t.done /\ t.collection = IndexNodes
        /\ snapshot' = snapshot /\ LibraryInvariant' /\ db' = db
    BY <1>2, <1>9 DEF NextIndexPage, Going
  <2>2. IndexOf(c).content \in Contents
    BY <1>0, LibraryFacts
  <2>3. Ordered(IndexNodes, items)
    BY <2>2, IndexItemsOrdered
  <2>4. Journey(t) /\ t.revision \in Nat /\ t.revision <= db.revision
    BY <1>0, <2>1 DEF TraversalSound
  <2> HIDE DEF t, u, items
  <2>5. Journey(u) /\ Advanced(t, u, items)
    BY <2>1, <2>3, <2>4, PageTaken DEF u
  <2>6. u.collection = IndexNodes /\ u.revision = t.revision /\ (u.done \/ u.after # None)
    BY <2>1, <2>5 DEF Advanced
  <2>7. TraversalSound(u, snapshot, db)
    BY <2>4, <2>5, <2>6 DEF TraversalSound, ScanSound
  <2> QED
    BY <1>0, <2>1, <2>7 DEF TraversalInvariant, u
<1>10. CASE UNCHANGED <<vars, syncVars, traversalVars>>
  BY <1>0, <1>2, <1>10 DEF traversalVars, TraversalInvariant
<1> QED
  BY <1>1, <1>3, <1>4, <1>5, <1>6, <1>7, <1>8, <1>9, <1>10 DEF TraversalNext

LEMMA TraversalInductive == TraversalSpec => []TraversalInvariant
<1>1. TraversalInit => TraversalInvariant
  BY LibraryInitially DEF TraversalInit, TraversalInvariant, SnapshotSound, TraversalSound
<1> QED
  BY <1>1, TraversalStep, PTL DEF TraversalSpec

\* Indexes, synchronizations, snapshots and traversals are of their types, and no
\* cursor carries a revision that there has not been.
THEOREM TraversalTypeCorrect == TraversalSpec => []TraversalTypeOK
<1>1. TraversalInvariant => TraversalTypeOK
  <2> SUFFICES ASSUME TraversalInvariant PROVE TraversalTypeOK
    OBVIOUS
  <2>1. SyncTypeOK /\ db.revision \in Nat /\ db.revision <= MaxRevision /\ MaxRevision \in Nat
    BY LibraryFacts, BoundsAssumption DEF TraversalInvariant, LibraryInvariant, Bounded
  <2> QED
    BY <2>1 DEF TraversalInvariant, SnapshotSound, TraversalSound, Journey, TraversalTypeOK
<1> QED
  BY <1>1, TraversalInductive, PTL

\* A stable scan returns the collection as it was when it began, although its
\* pages are taken in several callbacks between which others commit.
THEOREM StableScansAreExact == TraversalSpec => []StableScanIsExact
<1>1. TraversalInvariant => StableScanIsExact
  BY DEF TraversalInvariant, TraversalSound, ScanSound, StableScanIsExact, Returned, Passed,
         ReturnedBy, Merged, Past
<1> QED
  BY <1>1, TraversalInductive, PTL

\* No two pages of a traversal have a key in common, for any number of Cores that
\* replace the rows of the Index meanwhile.
THEOREM PagesNeverOverlap == TraversalSpec => []PagesAreDisjoint
<1>1. TraversalInvariant => PagesAreDisjoint
  BY DEF TraversalInvariant, TraversalSound, Journey, DisjointPages, PagesAreDisjoint
<1> QED
  BY <1>1, TraversalInductive, PTL

-----------------------------------------------------------------------------
(* Traversals of the Index of the only Core *)

\* Of these Nodes, x shows those as d does that d has not changed since t.
Settled(x, nodes, t, d) ==
    \A n \in nodes : d.lifecycle[n] # "none" /\ d.modified[n] <= t =>
        x.lifecycle[n] = d.lifecycle[n] /\ x.modified[n] = d.modified[n]

\* The Index x and what the synchronization s will make of it.
RowsSettled(s, x, d) ==
    /\ Settled(x.content, NodeIds, x.checkpoint, d)
    /\ s.phase # "rows" => s.rows = EmptyContent
    /\ s.phase = "rows" =>
          /\ Settled(s.rows, s.items.nodes \ s.pending.nodes, s.target, d)
          /\ ~s.rebuild => Settled(x.content, NodeIds \ s.items.nodes, s.target, d)

LEMMA SettledKept ==
    ASSUME NEW d \in Databases, NEW e \in Databases,
           e = d \/ Prunes(d, e) \/ (Follows(d, e) /\ Accounted(d, e)),
           NEW x, NEW nodes \in SUBSET NodeIds, NEW t \in Nat, t <= d.revision,
           Settled(x, nodes, t, d)
    PROVE  Settled(x, nodes, t, e)
<1>0. d.revision \in Nat /\ e.revision \in Nat
  BY DatabaseFields
<1>1. CASE Prunes(d, e)
  BY <1>1 DEF Prunes, PruneFrame, Settled
<1>2. CASE Follows(d, e) /\ Accounted(d, e)
  <2>1. e.revision = d.revision + 1 /\ Marked(d, e)
    BY <1>2 DEF Follows, Accounted
  <2>2. ASSUME NEW n \in nodes, e.lifecycle[n] # "none", e.modified[n] <= t
        PROVE  d.lifecycle[n] = e.lifecycle[n] /\ d.modified[n] = e.modified[n]
    <3>1. e.modified[n] # e.revision
      BY <1>0, <2>1, <2>2
    <3> QED
      BY <2>1, <2>2, <3>1 DEF Marked
  <2> QED
    BY <2>2 DEF Settled
<1> QED
  BY <1>1, <1>2

\* The rows of z are each those of x or those of y.
RowsFrom(z, x, y) ==
    \A n \in NodeIds :
        \/ z.lifecycle[n] = x.lifecycle[n] /\ z.modified[n] = x.modified[n]
        \/ z.lifecycle[n] = y.lifecycle[n] /\ z.modified[n] = y.modified[n]

\* What the step of the Core c does to its rows.
RowsMoved(c) ==
    /\ files'[c] = files[c] \/ RowsFrom(files'[c].content, files[c].content, sync[c].rows)
    /\ sync'[c].rows = EmptyContent \/ RowsFrom(sync'[c].rows, sync[c].rows, Content(db))

LEMMA RowsRefl == \A x, y : RowsFrom(x, x, y) /\ RowsFrom(x, y, x)
  BY DEF RowsFrom

LEMMA OverlaidRows ==
    ASSUME NEW x \in Contents, NEW y \in Contents, NEW items
    PROVE  RowsFrom(Overlaid(x, y, items), x, y)
<1>1. IsOverlay(Overlaid(x, y, items), x, y, items)
  BY OverlaidEffect
<1> QED
  BY <1>1 DEF IsOverlay, RowsFrom

CoreAction(c) ==
    \/ BeginReconcile(c) \/ BeginRebuild(c)
    \/ ReadJournal(c) \/ ReadRevision(c) \/ ReadNodeIds(c) \/ ReadStatement(c)
    \/ ApplyPatch(c) \/ Promote(c) \/ SyncFails(c)

LEMMA IdleRows == Idle.phase = "idle" /\ Idle.rows = EmptyContent
  BY DEF Idle

LEMMA RowsSettledByCore ==
    ASSUME NEW c, Cores = {c}, SyncInvariant(c), RowsSettled(sync[c], files[c], db), CoreAction(c)
    PROVE  RowsSettled(sync'[c], files'[c], db) /\ RowsMoved(c) /\ db' = db
<1> DEFINE s == sync[c]
           x == files[c]
           u == sync'[c]
           y == files'[c]
<1>0. /\ handle[c] = c /\ IndexOf(c) = x /\ x \in Checkpointed /\ x.content \in Contents
      /\ s \in Synchronizations /\ s.items \in Items /\ s.pending \in Items /\ s.rows \in Contents
      /\ db \in Databases /\ Content(db) \in Contents
      /\ SyncSound(s, x, db) /\ IndexSound(x, db)
      /\ RowsSettled(s, x, db)
  BY SyncFacts, SyncFields, ContentType DEF Checkpointed
<1>1. /\ sync \in [{c} -> Synchronizations] /\ files \in [{c} -> Checkpointed]
      /\ handle \in [{c} -> {c}]
  BY DEF SyncInvariant, SyncTypeOK, Files
<1>2. ASSUME NEW r, CoreStep(c, r)
      PROVE  u = r /\ db' = db
  BY <1>1, <1>2 DEF CoreStep, vars
<1>3. ASSUME u.phase # "rows", u.rows = EmptyContent, UNCHANGED files, db' = db
      PROVE  RowsSettled(u, y, db) /\ RowsMoved(c) /\ db' = db
  BY <1>0, <1>3 DEF RowsSettled, RowsMoved
<1>4. CASE BeginReconcile(c)
  <2> DEFINE phase == IF x.checkpoint < db.revision THEN "journal" ELSE "rebuild"
             r == [Idle EXCEPT !.phase = phase, !.checkpoint = x.checkpoint, !.target = db.revision]
  <2>1. CoreStep(c, r) /\ UNCHANGED files /\ phase # "rows"
    BY <1>0, <1>4 DEF BeginReconcile
  <2>2. r.phase = phase /\ r.rows = EmptyContent
    BY DEF Idle
  <2> HIDE DEF r, phase
  <2> QED
    BY <1>2, <1>3, <2>1, <2>2
<1>5. CASE BeginRebuild(c)
  <2> DEFINE r == [Idle EXCEPT !.phase = "rebuild"]
  <2>1. CoreStep(c, r) /\ UNCHANGED files /\ r.phase = "rebuild" /\ r.rows = EmptyContent
    BY <1>5 DEF BeginRebuild, Idle
  <2> HIDE DEF r
  <2> QED
    BY <1>2, <1>3, <2>1
<1>6. CASE ReadRevision(c)
  <2> DEFINE r == [Idle EXCEPT !.phase = "ids", !.rebuild = TRUE, !.target = db.revision]
  <2>1. CoreStep(c, r) /\ UNCHANGED files
    BY <1>6 DEF ReadRevision
  <2>2. r.phase = "ids" /\ r.rows = EmptyContent
    BY DEF Idle
  <2> HIDE DEF r
  <2> QED
    BY <1>2, <1>3, <2>1, <2>2
<1>7. CASE SyncFails(c)
  BY <1>2, <1>3, <1>7, IdleRows DEF SyncFails
<1>8. CASE ReadJournal(c)
  <2> DEFINE items == Named(ChangesSince(db, s.checkpoint))
             reading == [s EXCEPT !.phase = "rows", !.items = items, !.pending = items]
             rebuilding == [Idle EXCEPT !.phase = "rebuild"]
  <2>0. s.phase = "journal" /\ UNCHANGED files /\ s.rows = EmptyContent
    BY <1>0, <1>8 DEF ReadJournal, RowsSettled
  <2>1. CASE ~JournalReaches(s.checkpoint, s.target)
    <3>1. CoreStep(c, rebuilding)
      BY <1>8, <2>1 DEF ReadJournal
    <3>2. rebuilding.phase = "rebuild" /\ rebuilding.rows = EmptyContent
      BY DEF Idle
    <3> HIDE DEF rebuilding
    <3> QED
      BY <1>2, <1>3, <2>0, <3>1, <3>2
  <2>2. CASE JournalReaches(s.checkpoint, s.target)
    <3>1. CoreStep(c, reading)
      BY <1>8, <2>2 DEF ReadJournal
    <3>2. /\ reading.phase = "rows" /\ reading.items = items /\ reading.pending = items
          /\ reading.rows = EmptyContent /\ reading.target = s.target
      <4> HIDE DEF items
      <4> QED
        BY <1>0, <2>0 DEF Synchronizations
    <3>3. s.checkpoint = x.checkpoint /\ x.checkpoint <= db.revision /\ x.checkpoint \in Nat
      BY <1>0, <2>0 DEF SyncSound, IndexSound, Checkpointed
    <3>4. ~Unavailable(db, x.checkpoint)
      BY <2>2, <3>3, SyncFacts DEF JournalReaches, Unavailable, Current, Available
    <3>5. AgreesBut(x.content, db, AllItems, ChangesSince(db, x.checkpoint))
      BY <1>0, <3>4 DEF IndexSound, Fresh
    <3>6. Settled(x.content, NodeIds \ items.nodes, s.target, db)
      BY <3>3, <3>5 DEF Settled, AgreesBut, AllItems, Named
    <3>7. u = reading /\ db' = db /\ y = x
      BY <1>2, <2>0, <3>1
    <3> HIDE DEF reading, items
    <3>8. Settled(u.rows, u.items.nodes \ u.pending.nodes, u.target, db)
      BY <3>2, <3>7 DEF Settled
    <3> QED
      BY <1>0, <3>2, <3>6, <3>7, <3>8 DEF RowsSettled, RowsMoved
  <2> QED
    BY <2>1, <2>2
<1>9. CASE ReadNodeIds(c)
  <2> DEFINE nodes == {n \in NodeIds : db.lifecycle[n] # "none"}
             pending == [AllItems EXCEPT !.nodes = nodes, !.properties = nodes]
             reading == [s EXCEPT !.phase = "rows", !.items = AllItems, !.pending = pending]
  <2>1. /\ s.phase = "ids" /\ UNCHANGED files /\ s.rebuild /\ s.rows = EmptyContent
        /\ CoreStep(c, reading)
    BY <1>0, <1>9 DEF ReadNodeIds, SyncSound
  <2>2. pending.nodes = nodes /\ AllItems.nodes = NodeIds
    BY DEF AllItems
  <2>3. /\ reading.phase = "rows" /\ reading.items = AllItems /\ reading.pending = pending
        /\ reading.rows = EmptyContent /\ reading.rebuild
    <3> HIDE DEF pending
    <3> QED
      BY <1>0, <2>1 DEF Synchronizations
  <2>4. u = reading /\ db' = db /\ y = x
    BY <1>2, <2>1
  <2> HIDE DEF reading, pending
  <2>5. Settled(u.rows, u.items.nodes \ u.pending.nodes, u.target, db)
    BY <2>2, <2>3, <2>4 DEF Settled
  <2> QED
    BY <1>0, <2>3, <2>4, <2>5 DEF RowsSettled, RowsMoved
<1>10. CASE ReadStatement(c)
  <2> DEFINE read == Statement(s)
  <2>0. PICK found \in ContentsFound(s) :
            CoreStep(c, [s EXCEPT !.rows = Overlaid(@, found, read), !.pending = Without(@, read)])
    BY <1>10 DEF ReadStatement
  <2> DEFINE rows == Overlaid(s.rows, found, read)
             pending == Without(s.pending, read)
             reading == [s EXCEPT !.rows = rows, !.pending = pending]
  <2>1. s.phase = "rows" /\ UNCHANGED files /\ CoreStep(c, reading)
    BY <1>10, <2>0 DEF ReadStatement
  <2>2. /\ found \in Contents
        /\ found.lifecycle = db.lifecycle /\ found.modified = db.modified
    BY <1>0, <2>0, FoundTypes
  <2>3. RowsFrom(rows, s.rows, Content(db))
    <3>1. RowsFrom(rows, s.rows, found)
      BY <1>0, <2>2, OverlaidRows
    <3> QED
      BY <2>2, <3>1 DEF RowsFrom, Content
  <2>4. /\ IsOverlay(rows, s.rows, found, read)
        /\ pending.nodes = s.pending.nodes \ read.nodes
    BY <1>0, <2>2, OverlaidEffect DEF Without
  <2> HIDE DEF rows, pending, read
  <2>5. /\ reading.phase = "rows" /\ reading.items = s.items /\ reading.pending = pending
        /\ reading.rows = rows /\ reading.rebuild = s.rebuild /\ reading.target = s.target
    BY <1>0, <2>1 DEF Synchronizations
  <2>6. u = reading /\ db' = db /\ y = x
    BY <1>2, <2>1
  <2> HIDE DEF reading
  <2>7. s.items.nodes \subseteq NodeIds
    BY <1>0 DEF Items
  <2>8. Settled(rows, s.items.nodes \ pending.nodes, s.target, db)
    BY <1>0, <2>1, <2>4, <2>7, <2>2 DEF RowsSettled, Settled, IsOverlay
  <2> QED
    BY <1>0, <2>1, <2>5, <2>6, <2>8, <2>3 DEF RowsSettled, RowsMoved
<1>11. ASSUME NEW content, Settled(content, NodeIds, s.target, db),
              RowsFrom(content, x.content, s.rows),
              files' = [files EXCEPT ![c] = [checkpoint |-> s.target, content |-> content]],
              CoreStep(c, Idle)
       PROVE  RowsSettled(u, y, db) /\ RowsMoved(c) /\ db' = db
  <2>1. u = Idle /\ db' = db
    BY <1>2, <1>11
  <2>2. y.checkpoint = s.target /\ y.content = content
    BY <1>1, <1>11
  <2> QED
    BY <1>11, <2>1, <2>2, IdleRows DEF RowsSettled, RowsMoved
<1>12. CASE ApplyPatch(c)
  <2> DEFINE content == Overlaid(x.content, s.rows, s.items)
  <2>1. /\ s.phase = "rows" /\ s.pending = NoItems /\ ~s.rebuild /\ CoreStep(c, Idle)
        /\ files' = [files EXCEPT ![c] = [checkpoint |-> s.target, content |-> content]]
    BY <1>0, <1>12 DEF ApplyPatch
  <2>2. IsOverlay(content, x.content, s.rows, s.items) /\ RowsFrom(content, x.content, s.rows)
    BY <1>0, OverlaidEffect, OverlaidRows
  <2> HIDE DEF content
  <2>3. /\ Settled(s.rows, s.items.nodes, s.target, db)
        /\ Settled(x.content, NodeIds \ s.items.nodes, s.target, db)
    BY <1>0, <2>1 DEF RowsSettled, NoItems
  <2>4. Settled(content, NodeIds, s.target, db)
    BY <2>2, <2>3 DEF Settled, IsOverlay
  <2> QED
    BY <1>11, <2>1, <2>2, <2>4
<1>13. CASE Promote(c)
  <2>1. /\ s.phase = "rows" /\ s.pending = NoItems /\ s.rebuild /\ CoreStep(c, Idle)
        /\ files' = [files EXCEPT ![CHOOSE f \in Files : \A d \in Cores \ {c} : handle[d] # f] =
                         [checkpoint |-> s.target, content |-> s.rows]]
    BY <1>13 DEF Promote
  <2>2. (CHOOSE f \in Files : \A d \in Cores \ {c} : handle[d] # f) = c
    BY SyncFacts
  <2>3. s.items = AllItems
    BY <1>0, <2>1 DEF SyncSound
  <2>4. Settled(s.rows, NodeIds, s.target, db)
    BY <1>0, <2>1, <2>3 DEF RowsSettled, NoItems, AllItems
  <2>5. RowsFrom(s.rows, x.content, s.rows)
    BY RowsRefl
  <2> QED
    BY <1>11, <2>1, <2>2, <2>4, <2>5
<1> QED
  BY <1>4, <1>5, <1>6, <1>7, <1>8, <1>9, <1>10, <1>12, <1>13 DEF CoreAction

LEMMA RowsSettledKept ==
    ASSUME NEW c, Cores = {c}, SyncInvariant(c), RowsSettled(sync[c], files[c], db),
           StoreStep
    PROVE  RowsSettled(sync[c], files[c], db')
<1> DEFINE s == sync[c]
           x == files[c]
<1>1. /\ x \in Checkpointed /\ s \in Synchronizations /\ s.items \in Items /\ s.target \in Nat
      /\ x.checkpoint \in Nat /\ x.checkpoint <= db.revision /\ s.target <= db.revision
      /\ db \in Databases
  BY SyncFacts, SyncFields DEF Checkpointed, IndexSound, SyncSound
<1>2. /\ db' = db \/ Prunes(db, db') \/ (Follows(db, db') /\ Accounted(db, db'))
      /\ db' \in Databases
  BY StoreInvariantStep DEF StoreStep, SyncInvariant, StoreInvariant, Inductive, TypeOK
<1>3. /\ s.items.nodes \ s.pending.nodes \in SUBSET NodeIds
      /\ NodeIds \ s.items.nodes \in SUBSET NodeIds
  BY <1>1 DEF Items
<1>4. ASSUME NEW rows, NEW nodes \in SUBSET NodeIds, NEW t \in Nat, t <= db.revision,
             Settled(rows, nodes, t, db)
      PROVE  Settled(rows, nodes, t, db')
  BY <1>1, <1>2, <1>4, SettledKept
<1> HIDE DEF s, x
<1>5. RowsSettled(s, x, db) => RowsSettled(s, x, db')
  BY <1>1, <1>3, <1>4 DEF RowsSettled
<1> QED
  BY <1>5 DEF s, x

\* The rows of this content that are not newer than a watermark.
RowItems(content, watermark) == IndexItems([content |-> content], watermark)

\* What a traversal of the Index may yet meet under its watermark.
Visible(x, s, d, watermark) ==
    RowItems(x.content, watermark) \cup RowItems(s.rows, watermark)
        \cup RowItems(Content(d), watermark)

\* The Index is read without a row the traversal does not know from its beginning,
\* or one it has passed without returning it.
IndexScanSound(t, x, s, d) ==
    (t # None /\ t.collection = IndexNodes) =>
        /\ ReturnedBy(t) \subseteq t.origin
        /\ Visible(x, s, d, t.revision) \subseteq t.origin
        /\ \A i \in Visible(x, s, d, t.revision) : Past(t, i.key) => i \in ReturnedBy(t)

LEMMA RowItemsFrom ==
    ASSUME NEW x, NEW y, NEW z, RowsFrom(z, x, y), NEW watermark
    PROVE  RowItems(z, watermark) \subseteq RowItems(x, watermark) \cup RowItems(y, watermark)
  BY DEF RowItems, IndexItems, RowsFrom

LEMMA NoRowItems ==
    ASSUME NEW watermark
    PROVE  RowItems(EmptyContent, watermark) = {}
  BY DEF RowItems, IndexItems, EmptyContent, Content, EmptyDatabase

LEMMA IndexRowItems ==
    ASSUME NEW x, NEW watermark
    PROVE  IndexItems(x, watermark) = RowItems(x.content, watermark)
  BY DEF RowItems, IndexItems

\* What is not newer than a watermark and still there is as it was.
LEMMA StoredRowItems ==
    ASSUME NEW d \in Databases, NEW e \in Databases,
           e = d \/ Prunes(d, e) \/ (Follows(d, e) /\ Accounted(d, e)),
           NEW watermark \in Nat, watermark <= d.revision
    PROVE  RowItems(Content(e), watermark) \subseteq RowItems(Content(d), watermark)
<1>0. d.revision \in Nat /\ e.revision \in Nat
  BY DatabaseFields
<1>1. ASSUME NEW n \in NodeIds, e.lifecycle[n] # "none", e.modified[n] <= watermark
      PROVE  d.lifecycle[n] = e.lifecycle[n] /\ d.modified[n] = e.modified[n]
  <2>1. Settled(Content(d), NodeIds, watermark, d)
    BY DEF Settled, Content
  <2>2. Settled(Content(d), NodeIds, watermark, e)
    BY <2>1, SettledKept
  <2> QED
    BY <1>1, <2>2 DEF Settled, Content
<1> QED
  BY <1>1 DEF RowItems, IndexItems, Content

\* Rows that are settled up to their checkpoint include those of the store.
LEMMA SettledRowItems ==
    ASSUME NEW x, NEW t \in Nat, NEW d \in Databases, Settled(x, NodeIds, t, d),
           NEW watermark \in Nat, watermark <= t
    PROVE  RowItems(Content(d), watermark) \subseteq RowItems(x, watermark)
<1>1. \A n \in NodeIds : d.modified[n] \in Nat
  BY DatabaseFields
<1>2. ASSUME NEW n \in NodeIds, d.lifecycle[n] # "none", d.modified[n] <= watermark
      PROVE  x.lifecycle[n] = d.lifecycle[n] /\ x.modified[n] = d.modified[n]
  <2>1. d.modified[n] \in Nat /\ d.modified[n] <= t
    BY <1>1, <1>2
  <2> QED
    BY <1>2, <2>1 DEF Settled
<1> QED
  BY <1>2 DEF RowItems, IndexItems, Content

LEMMA VisibleShrinks ==
    ASSUME NEW c, Cores = {c}, SyncInvariant(c), RowsSettled(sync[c], files[c], db), SyncNext,
           NEW watermark \in Nat, watermark <= db.revision
    PROVE  /\ RowsSettled(sync'[c], files'[c], db')
           /\ Visible(files'[c], sync'[c], db', watermark)
                  \subseteq Visible(files[c], sync[c], db, watermark)
<1>1. CASE StoreStep
  <2>1. /\ db' = db \/ Prunes(db, db') \/ (Follows(db, db') /\ Accounted(db, db'))
        /\ db \in Databases /\ db' \in Databases /\ files' = files /\ sync' = sync
    BY <1>1, SyncFacts, StoreInvariantStep
       DEF StoreStep, SyncInvariant, StoreInvariant, Inductive, TypeOK, syncVars
  <2>2. RowItems(Content(db'), watermark) \subseteq RowItems(Content(db), watermark)
    BY <2>1, StoredRowItems
  <2> QED
    BY <1>1, <2>1, <2>2, RowsSettledKept DEF Visible
<1>2. CASE CoreAction(c)
  <2>1. RowsSettled(sync'[c], files'[c], db) /\ RowsMoved(c) /\ db' = db
    BY <1>2, RowsSettledByCore
  <2>2. RowItems(files'[c].content, watermark) \subseteq
            RowItems(files[c].content, watermark) \cup RowItems(sync[c].rows, watermark)
    BY <2>1, RowItemsFrom DEF RowsMoved
  <2>3. RowItems(sync'[c].rows, watermark) \subseteq
            RowItems(sync[c].rows, watermark) \cup RowItems(Content(db), watermark)
    BY <2>1, RowItemsFrom, NoRowItems DEF RowsMoved
  <2> QED
    BY <2>1, <2>2, <2>3 DEF Visible
<1> QED
  BY <1>1, <1>2 DEF SyncNext, CoreAction

\* One more page of a traversal of the Index.
LEMMA IndexAdvanced ==
    ASSUME NEW x, NEW s, NEW d \in Databases, NEW w \in Nat, w <= x.checkpoint,
           x.checkpoint \in Nat, s.phase = "idle", RowsSettled(s, x, d),
           NEW t, NEW u, t.revision = w, t.collection = IndexNodes,
           Advanced(t, u, IndexItems(x, w)), Ordered(IndexNodes, IndexItems(x, w)),
           ReturnedBy(t) \subseteq t.origin, IndexItems(x, w) \subseteq t.origin,
           \A i \in IndexItems(x, w) :
               ~Behind(IndexNodes, i.key, t.after) => i \in ReturnedBy(t)
    PROVE  IndexScanSound(u, x, s, d)
<1>1. RowItems(s.rows, w) = {}
  BY NoRowItems DEF RowsSettled
<1>2. RowItems(Content(d), w) \subseteq RowItems(x.content, w)
  BY SettledRowItems DEF RowsSettled
<1>3. Visible(x, s, d, w) = IndexItems(x, w)
  BY <1>1, <1>2, IndexRowItems DEF Visible
<1>4. /\ u.origin = t.origin /\ u.revision = w
      /\ ReturnedBy(u) = ReturnedBy(t) \cup
             {i \in IndexItems(x, w) : Behind(IndexNodes, i.key, t.after) /\ Past(u, i.key)}
  BY DEF Advanced
<1> QED
  BY <1>3, <1>4 DEF IndexScanSound

IndexInvariant(c) ==
    /\ SyncInvariant(c)
    /\ TraversalInvariant
    /\ RowsSettled(sync[c], files[c], db)
    /\ IndexScanSound(traversal, files[c], sync[c], db)

\* A page changes where a traversal is, and not what it traverses.
LEMMA PageGoesOn ==
    ASSUME NEW t, NEW items, TakePage(t, items)
    PROVE  \E pages, after, done :
               traversal' = [t EXCEPT !.pages = pages, !.after = after, !.done = done]
<1>1. PICK limit \in PageLimits :
          LET page == Page(t.collection, items, t.after, limit)
          IN  traversal' = [t EXCEPT
                  !.pages = Append(@, page.items),
                  !.after = IF page.more THEN LastKey(t.collection, page.items) ELSE None,
                  !.done = ~page.more]
  BY DEF TakePage
<1> DEFINE page == Page(t.collection, items, t.after, limit)
<1>2. traversal' = [t EXCEPT
          !.pages = Append(t.pages, page.items),
          !.after = IF page.more THEN LastKey(t.collection, page.items) ELSE None,
          !.done = ~page.more]
  BY <1>1
<1> HIDE DEF page
<1> QED
  BY <1>2

LEMMA IndexStep ==
    ASSUME NEW c, Cores = {c}, IndexInvariant(c),
           [TraversalNext]_<<vars, syncVars, traversalVars>>
    PROVE  IndexInvariant(c)'
<1> DEFINE x == files[c]
           s == sync[c]
<1>0. /\ SyncInvariant(c) /\ RowsSettled(s, x, db) /\ IndexScanSound(traversal, x, s, db)
      /\ IndexOf(c) = x /\ db \in Databases /\ x.checkpoint \in Nat /\ x.content \in Contents
      /\ TraversalSound(traversal, snapshot, db)
  BY SyncFacts DEF IndexInvariant, Checkpointed, TraversalInvariant
<1>1. TraversalInvariant'
  BY TraversalStep DEF IndexInvariant
<1>2. CASE SyncStep
  <2>1. SyncNext /\ traversal' = traversal
    BY <1>2 DEF SyncStep, traversalVars
  <2>2. SyncInvariant(c)'
    BY <1>0, <2>1, SyncStepKeeps
  <2>3. RowsSettled(sync'[c], files'[c], db')
    <3>1. 0 \in Nat /\ 0 <= db.revision
      BY <1>0, DatabaseFields
    <3> QED
      BY <1>0, <2>1, <3>1, VisibleShrinks
  <2>4. IndexScanSound(traversal, files'[c], sync'[c], db')
    <3> SUFFICES ASSUME traversal # None, traversal.collection = IndexNodes
                 PROVE  IndexScanSound(traversal, files'[c], sync'[c], db')
      BY DEF IndexScanSound
    <3>1. traversal.revision \in Nat /\ traversal.revision <= db.revision
      BY <1>0 DEF TraversalSound
    <3>2. Visible(files'[c], sync'[c], db', traversal.revision)
              \subseteq Visible(x, s, db, traversal.revision)
      BY <1>0, <2>1, <3>1, VisibleShrinks
    <3> QED
      BY <1>0, <3>2 DEF IndexScanSound
  <2> QED
    BY <1>1, <2>1, <2>2, <2>3, <2>4 DEF IndexInvariant
<1>3. ASSUME UNCHANGED <<vars, syncVars>>
      PROVE  /\ SyncInvariant(c)' /\ db' = db /\ files' = files /\ sync' = sync
             /\ RowsSettled(sync'[c], files'[c], db')
             /\ IndexScanSound(traversal', x, s, db) => IndexInvariant(c)'
  <2>1. SyncInvariant(c)' /\ db' = db /\ files' = files /\ sync' = sync
    BY <1>0, <1>3, SyncStepKeeps DEF vars, syncVars
  <2> QED
    BY <1>0, <1>1, <2>1 DEF IndexInvariant
<1>4. CASE \/ CloseSnapshot \/ UNCHANGED <<vars, syncVars, traversalVars>>
           \/ \E d \in Cores : OpenSnapshot(d)
  <2>1. UNCHANGED <<vars, syncVars>> /\ traversal' = traversal
    BY <1>4 DEF CloseSnapshot, OpenSnapshot, traversalVars
  <2> QED
    BY <1>0, <1>3, <2>1
<1>5. CASE EndTraversal
  <2>1. UNCHANGED <<vars, syncVars>> /\ traversal' = None
    BY <1>5 DEF EndTraversal
  <2>2. IndexScanSound(None, x, s, db)
    BY DEF IndexScanSound
  <2> QED
    BY <1>3, <2>1, <2>2
<1>6. ASSUME NEW collection \in Collections, FirstStablePage(collection)
      PROVE  IndexInvariant(c)'
  <2> DEFINE t == Started(collection, snapshot.revision, StableItems(snapshot, collection))
  <2>1. /\ UNCHANGED <<vars, syncVars>> /\ collection # IndexNodes
        /\ \E pages, after, done :
               traversal' = [t EXCEPT !.pages = pages, !.after = after, !.done = done]
    <3>1. /\ UNCHANGED <<vars, syncVars>> /\ collection # IndexNodes
          /\ TakePage(t, StableItems(snapshot, collection))
      BY <1>6 DEF FirstStablePage
    <3> HIDE DEF t
    <3> QED
      BY <3>1, PageGoesOn
  <2>2. traversal'.collection = collection
    BY <2>1 DEF Started
  <2>3. IndexScanSound(traversal', x, s, db)
    BY <2>1, <2>2 DEF IndexScanSound
  <2> QED
    BY <1>3, <2>1, <2>3
<1>7. CASE NextStablePage
  <2>1. /\ UNCHANGED <<vars, syncVars>> /\ traversal.collection # IndexNodes
        /\ traversal # None /\ ~traversal.done
        /\ \E pages, after, done :
               traversal' = [traversal EXCEPT !.pages = pages, !.after = after, !.done = done]
    <3>1. /\ UNCHANGED <<vars, syncVars>> /\ traversal.collection # IndexNodes
          /\ traversal # None /\ ~traversal.done
          /\ TakePage(traversal, StableItems(snapshot, traversal.collection))
      BY <1>7 DEF NextStablePage, Going
    <3> QED
      BY <3>1, PageGoesOn
  <2>2. traversal = [collection |-> traversal.collection, revision |-> traversal.revision,
                     after |-> traversal.after, pages |-> traversal.pages,
                     origin |-> traversal.origin, done |-> traversal.done]
    BY <1>0, <2>1 DEF TraversalSound, Journey
  <2>3. traversal'.collection = traversal.collection
    BY <2>1, <2>2
  <2>4. IndexScanSound(traversal', x, s, db)
    BY <2>1, <2>3 DEF IndexScanSound
  <2> QED
    BY <1>3, <2>1, <2>4
<1>8. CASE FirstIndexPage(c)
  <2> DEFINE w == x.checkpoint
             items == IndexItems(x, w)
             t == Started(IndexNodes, w, items)
             u == traversal'
  <2>1. TakePage(t, items) /\ s.phase = "idle" /\ UNCHANGED <<vars, syncVars>>
    BY <1>0, <1>8 DEF FirstIndexPage
  <2>2. Ordered(IndexNodes, items) /\ IndexNodes \in Collections
    BY <1>0, IndexItemsOrdered DEF IndexNodes, Collection, Collections
  <2>3. /\ Journey(t) /\ ~t.done /\ ReturnedBy(t) = {}
        /\ t.collection = IndexNodes /\ t.revision = w /\ t.origin = items /\ t.after = None
    BY <2>2, JourneyStarted
  <2> HIDE DEF t, u
  <2>4. Advanced(t, u, items)
    BY <2>1, <2>2, <2>3, PageTaken DEF u
  <2>5. \A i \in items : Behind(IndexNodes, i.key, t.after)
    BY <2>3 DEF Behind
  <2>6. IndexScanSound(u, x, s, db)
    BY <1>0, <2>1, <2>2, <2>3, <2>4, <2>5, IndexAdvanced
  <2> QED
    BY <1>3, <2>1, <2>6 DEF u
<1>9. CASE NextIndexPage(c)
  <2> DEFINE t == traversal
             w == t.revision
             items == IndexItems(x, w)
             u == traversal'
  <2>1. /\ TakePage(t, items) /\ s.phase = "idle" /\ UNCHANGED <<vars, syncVars>>
        /\ t # None /\ ~t.done /\ t.collection = IndexNodes /\ w <= x.checkpoint
    BY <1>0, <1>9 DEF NextIndexPage, Going
  <2>2. Ordered(IndexNodes, items)
    BY <1>0, IndexItemsOrdered
  <2>3. Journey(t) /\ w \in Nat /\ t.after # None
    BY <1>0, <2>1 DEF TraversalSound
  <2>4. /\ ReturnedBy(t) \subseteq t.origin /\ items \subseteq t.origin
        /\ \A i \in items : ~Behind(IndexNodes, i.key, t.after) => i \in ReturnedBy(t)
    <3>1. items \subseteq Visible(x, s, db, w)
      BY IndexRowItems DEF Visible
    <3> QED
      BY <1>0, <2>1, <2>3, <3>1 DEF IndexScanSound, Past, Behind
  <2> HIDE DEF t, u
  <2>5. Advanced(t, u, items)
    BY <2>1, <2>2, <2>3, PageTaken DEF u
  <2>6. IndexScanSound(u, x, s, db)
    BY <1>0, <2>1, <2>2, <2>3, <2>4, <2>5, IndexAdvanced
  <2> QED
    BY <1>3, <2>1, <2>6 DEF u
<1> QED
  BY <1>2, <1>4, <1>5, <1>6, <1>7, <1>8, <1>9 DEF TraversalNext

\* A traversal of the Index of the only Core of a library returns nothing that was
\* not there when it began, and misses nothing that is still as it was then.
THEOREM IndexTraversalsLoseOnlyMoved ==
    ASSUME NEW c, Cores = {c}
    PROVE  TraversalSpec => []IndexTraversalLosesOnlyMoved
<1>1. TraversalInit => IndexInvariant(c)
  <2> SUFFICES ASSUME TraversalInit PROVE IndexInvariant(c)
    OBVIOUS
  <2>1. SyncInvariant(c) /\ traversal = None
    BY SyncInitially DEF TraversalInit
  <2>2. TraversalInvariant
    BY LibraryInitially DEF TraversalInit, TraversalInvariant, SnapshotSound, TraversalSound
  <2>3. sync[c] = Idle /\ files[c] = [checkpoint |-> 0, content |-> EmptyContent] /\ db = EmptyDatabase
    BY DEF TraversalInit, SyncInit, Files, Init
  <2>4. Settled(EmptyContent, NodeIds, 0, EmptyDatabase)
    BY DEF Settled, EmptyContent, Content
  <2>5. RowsSettled(sync[c], files[c], db)
    BY <2>3, <2>4, IdleRows DEF RowsSettled
  <2> QED
    BY <2>1, <2>2, <2>5 DEF IndexInvariant, IndexScanSound
<1>2. IndexInvariant(c) => IndexTraversalLosesOnlyMoved
  <2> SUFFICES ASSUME IndexInvariant(c), traversal # None, traversal.collection = IndexNodes
               PROVE  /\ Returned \subseteq traversal.origin
                      /\ \A i \in Passed \ Returned :
                             i \notin IndexItems(IndexOf(c), traversal.revision)
    BY DEF IndexTraversalLosesOnlyMoved
  <2>1. IndexOf(c) = files[c] /\ IndexScanSound(traversal, files[c], sync[c], db)
    BY SyncFacts DEF IndexInvariant
  <2>2. IndexItems(files[c], traversal.revision)
            \subseteq Visible(files[c], sync[c], db, traversal.revision)
    BY IndexRowItems DEF Visible
  <2>3. Returned = ReturnedBy(traversal) /\ \A i \in Passed : Past(traversal, i.key)
    BY DEF Returned, ReturnedBy, Merged, Passed, Past
  <2> QED
    BY <2>1, <2>2, <2>3 DEF IndexScanSound
<1> QED
  BY <1>1, <1>2, IndexStep, PTL DEF TraversalSpec

===============================================================================
