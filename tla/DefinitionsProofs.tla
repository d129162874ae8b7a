--------------------------- MODULE DefinitionsProofs ---------------------------
(***************************************************************************)
(* Theorems about definitions written by any number of connections, whose  *)
(* checks may be out of date when they write.                              *)
(***************************************************************************)
EXTENDS Definitions, RecordStoreProofs

DefTypeOK ==
    /\ TypeOK
    /\ pending \in [Connections -> Operations \cup {None}]

-----------------------------------------------------------------------------
(* The shape of a step *)

\* The row of k becomes `definition`, in a transaction of its own.  Of what was
\* checked, only what the transaction itself guarantees is left.
DefinitionWrite(k, definition) ==
    LET definitions == db.propertyDefinitions
        old == definitions[k]
    IN  /\ db'.propertyDefinitions = [definitions EXCEPT ![k] = definition]
        /\ definition \in DefinitionsOf(PropertyKeys)
        /\ \/ old.state = "none" /\ definition = NoDefinition
           \/ old.state = "none" /\ \E kind, revision : definition = Registered(kind, revision)
           \/ old.state # "none" /\ \E kind : definition = Updated(old, kind)
           \/ /\ old.state # "none"
              /\ \E r \in PropertyKeys \cup {None} :
                    /\ definition = Deprecated(old, r)
                    /\ r # None => definitions[r].state # "none"
           \/ Replaced(definitions, k) \subseteq {k} /\ definition = NoDefinition

LEMMA WritePropertyDefinitionStored ==
    ASSUME TypeOK, NEW k \in PropertyKeys, NEW definition \in DefinitionsOf(PropertyKeys),
           WritePropertyDefinition(k, definition)
    PROVE  /\ \E e : InOneTransaction(e) /\ Stored(AtNextRevision(db), e)
           /\ db'.propertyDefinitions = [db.propertyDefinitions EXCEPT ![k] = definition]
<1> DEFINE d == AtNextRevision(db)
           e == WithPropertyDefinition(d, k, definition)
<1>1. d \in Databases /\ d.propertyDefinitions = db.propertyDefinitions
  BY NextRevisionEffect DEF TypeOK
<1>2. InOneTransaction(e)
  BY DEF WritePropertyDefinition
<1> HIDE DEF d
<1>3. PropertyDefinitionFrame(d, e, k, definition)
  BY <1>1, PropertyDefinitionEffect
<1> HIDE DEF e
<1>4. Stored(d, e)
  BY <1>3 DEF Stored, PropertyDefinitionStored
<1> QED
  BY <1>1, <1>2, <1>3, <1>4 DEF PropertyDefinitionFrame, InOneTransaction, d

LEMMA CheckedWrites ==
    ASSUME DefTypeOK, NEW c \in Connections,
           WriteUpdate(c) \/ WriteDeprecation(c) \/ WriteRemoval(c)
    PROVE  /\ \E e : InOneTransaction(e) /\ Stored(AtNextRevision(db), e)
           /\ \E k \in PropertyKeys : \E definition : DefinitionWrite(k, definition)
<1> DEFINE k == pending[c].key
           old == db.propertyDefinitions[k]
<1>0. /\ pending[c] \in Operations /\ k \in PropertyKeys
      /\ pending[c].kind \in Kinds \cup {None}
      /\ pending[c].replacement \in PropertyKeys \cup {None}
      /\ old \in DefinitionsOf(PropertyKeys)
      /\ NoDefinition \in DefinitionsOf(PropertyKeys)
  <2>1. pending[c] \in Operations
    BY DEF DefTypeOK, WriteUpdate, WriteDeprecation, WriteRemoval
  <2>2. NoDefinition \in DefinitionsOf(PropertyKeys)
    BY DEF NoDefinition, DefinitionsOf
  <2> QED
    BY <2>1, <2>2, DatabaseFields DEF Operations, DefTypeOK, TypeOK
<1>1. ASSUME NEW definition \in DefinitionsOf(PropertyKeys), WriteChecked(k, definition),
             \/ \E kind : definition = Updated(old, kind)
             \/ \E r \in PropertyKeys \cup {None} :
                   /\ definition = Deprecated(old, r)
                   /\ old.state # "none" /\ r # None => db.propertyDefinitions[r].state # "none"
             \/ Replaced(db.propertyDefinitions, k) \subseteq {k} /\ definition = NoDefinition
      PROVE  /\ \E e : InOneTransaction(e) /\ Stored(AtNextRevision(db), e)
             /\ \E j \in PropertyKeys : \E new : DefinitionWrite(j, new)
  <2> DEFINE new == IF old.state = "none" THEN NoDefinition ELSE definition
  <2>1. new \in DefinitionsOf(PropertyKeys) /\ WritePropertyDefinition(k, new)
    BY <1>0, <1>1 DEF WriteChecked
  <2>2. /\ \E e : InOneTransaction(e) /\ Stored(AtNextRevision(db), e)
        /\ db'.propertyDefinitions = [db.propertyDefinitions EXCEPT ![k] = new]
    BY <1>0, <2>1, WritePropertyDefinitionStored DEF DefTypeOK
  <2>3. DefinitionWrite(k, new)
    <3>1. CASE old.state = "none"
      BY <2>1, <2>2, <3>1 DEF DefinitionWrite
    <3>2. CASE old.state # "none"
      <4>1. new = definition
        BY <3>2
      <4> HIDE DEF new
      <4> QED
        BY <1>1, <2>1, <2>2, <3>2, <4>1 DEF DefinitionWrite
    <3> QED
      BY <3>1, <3>2
  <2> QED
    BY <1>0, <2>2, <2>3
<1>2. CASE WriteUpdate(c)
  <2>1. Updated(old, pending[c].kind) \in DefinitionsOf(PropertyKeys)
    BY <1>0, DefinitionTypes
  <2> QED
    BY <1>1, <1>2, <2>1 DEF WriteUpdate
<1>3. CASE WriteDeprecation(c)
  <2>1. Deprecated(old, pending[c].replacement) \in DefinitionsOf(PropertyKeys)
    BY <1>0, DefinitionTypes
  <2> QED
    BY <1>0, <1>1, <1>3, <2>1 DEF WriteDeprecation, ReferencesHold
<1>4. CASE WriteRemoval(c)
  BY <1>0, <1>1, <1>4 DEF WriteRemoval
<1> QED
  BY <1>2, <1>3, <1>4

LEMMA TransactionIsNext == Transaction => Next
  BY DEF Transaction, Next, PropertyDefinitionOperation

LEMMA DefNextIsStoredStep == DefTypeOK /\ [DefNext]_defVars => StoredStep
<1> SUFFICES ASSUME DefTypeOK, [DefNext]_defVars
             PROVE  StoredStep
  OBVIOUS
<1>1. CASE Transaction
  BY <1>1, TransactionIsNext, NextIsStoredStep DEF DefTypeOK
<1>2. ASSUME UNCHANGED vars
      PROVE  StoredStep
  BY <1>2 DEF StoredStep
<1>3. ASSUME NEW c \in Connections, WriteUpdate(c) \/ WriteDeprecation(c) \/ WriteRemoval(c)
      PROVE  StoredStep
  BY <1>3, CheckedWrites DEF StoredStep
<1>4. ASSUME NEW c \in Connections, NEW k \in PropertyKeys,
             \/ \E kind \in Kinds \cup {None} : CheckUpdate(c, k, kind)
             \/ \E r \in PropertyKeys \cup {None} : CheckDeprecation(c, k, r)
             \/ CheckRemoval(c, k)
      PROVE  UNCHANGED vars
  BY <1>4 DEF CheckUpdate, CheckDeprecation, CheckRemoval, Check
<1>5. ASSUME NEW c \in Connections, Fail(c)
      PROVE  UNCHANGED vars
  BY <1>5 DEF Fail
<1> QED
  BY <1>1, <1>2, <1>3, <1>4, <1>5 DEF DefNext, defVars

LEMMA DefTypeStep == DefTypeOK /\ [DefNext]_defVars => DefTypeOK'
<1> SUFFICES ASSUME DefTypeOK, [DefNext]_defVars
             PROVE  pending' \in [Connections -> Operations \cup {None}]
  BY DefNextIsStoredStep, TypeStep DEF DefTypeOK
<1>1. ASSUME NEW c \in Connections, Done(c)
      PROVE  pending' \in [Connections -> Operations \cup {None}]
  BY <1>1 DEF Done, DefTypeOK
<1>2. ASSUME NEW c \in Connections, NEW write \in {"update", "deprecate", "remove"},
             NEW k \in PropertyKeys, NEW kind \in Kinds \cup {None},
             NEW r \in PropertyKeys \cup {None}, Check(c, write, k, kind, r)
      PROVE  pending' \in [Connections -> Operations \cup {None}]
  <2>1. db.propertyDefinitions[k] \in DefinitionsOf(PropertyKeys)
    BY DatabaseFields DEF DefTypeOK, TypeOK
  <2>2. [write |-> write, key |-> k, kind |-> kind, replacement |-> r,
         read |-> db.propertyDefinitions[k]] \in Operations
    BY <2>1 DEF Operations
  <2> QED
    BY <1>2, <2>2 DEF Check, DefTypeOK
<1>3. ASSUME NEW c \in Connections, NEW k \in PropertyKeys,
             \/ \E kind \in Kinds \cup {None} : CheckUpdate(c, k, kind)
             \/ \E r \in PropertyKeys \cup {None} : CheckDeprecation(c, k, r)
             \/ CheckRemoval(c, k)
      PROVE  pending' \in [Connections -> Operations \cup {None}]
  BY <1>2, <1>3 DEF CheckUpdate, CheckDeprecation, CheckRemoval
<1>4. CASE Transaction \/ UNCHANGED defVars
  BY <1>4 DEF Transaction, defVars, DefTypeOK
<1> QED
  BY <1>1, <1>3, <1>4 DEF DefNext, WriteUpdate, WriteDeprecation, WriteRemoval, Fail

-----------------------------------------------------------------------------
(* The invariant: a batch writes no definition, so that what a batch commits   *)
(* brings no old one back.                                                     *)

DefInductive ==
    /\ DefTypeOK
    /\ Inductive
    /\ Unbroken(db)
    /\ txn = "open" => work.propertyDefinitions = db.propertyDefinitions

LEMMA MutatedDefinitions ==
    ASSUME NEW d, NEW e, Mutated(d, e)
    PROVE  e.propertyDefinitions = d.propertyDefinitions
  BY DEF Mutated, NodesWritten, FactWritten, RelationshipWritten, NodesFrame, LifecycleFrame,
         PurgeFrame, FactFrame, RelationshipsFrame

LEMMA WrittenDefinition ==
    ASSUME TypeOK, NEW e, InOneTransaction(e), Written(AtNextRevision(db), e)
    PROVE  \/ db'.propertyDefinitions = db.propertyDefinitions
           \/ \E k \in PropertyKeys : \E definition : DefinitionWrite(k, definition)
<1> DEFINE d == AtNextRevision(db)
<1>1. d.propertyDefinitions = db.propertyDefinitions /\ db' = e
  BY NextRevisionEffect DEF TypeOK, InOneTransaction
<1> HIDE DEF d
<1>2. CASE Mutated(d, e)
  BY <1>1, <1>2, MutatedDefinitions
<1>3. CASE RelationshipDefinitionWritten(d, e)
  BY <1>1, <1>3 DEF RelationshipDefinitionWritten, RelationshipDefinitionFrame
<1>4. CASE PropertyDefinitionWritten(d, e)
  <2> DEFINE definitions == db.propertyDefinitions
  <2>1. PICK k \in PropertyKeys, definition \in DefinitionsOf(PropertyKeys) :
          /\ PropertyDefinitionFrame(d, e, k, definition)
          /\ \/ /\ definitions[k].state = "none"
                /\ \E kind : definition = Registered(kind, d.revision)
             \/ definitions[k].state # "none" /\ \E kind : definition = Updated(definitions[k], kind)
             \/ /\ definitions[k].state # "none"
                /\ \E r \in PropertyKeys \cup {None} :
                      /\ ValidReplacement(definitions, k, r)
                      /\ definition = Deprecated(definitions[k], r)
             \/ Replaced(definitions, k) = {} /\ definition = NoDefinition
    BY <1>1, <1>4 DEF PropertyDefinitionWritten
  <2>2. db'.propertyDefinitions = [definitions EXCEPT ![k] = definition]
    BY <1>1, <2>1 DEF PropertyDefinitionFrame
  <2>3. \A r : ValidReplacement(definitions, k, r) /\ r # None => definitions[r].state # "none"
    BY DEF ValidReplacement
  <2>4. DefinitionWrite(k, definition)
    BY <2>1, <2>2, <2>3 DEF DefinitionWrite
  <2> QED
    BY <2>4
<1> QED
  BY <1>2, <1>3, <1>4 DEF Written, d

LEMMA DefinitionShape ==
    ASSUME DefInductive, [DefNext]_defVars
    PROVE  /\ \/ db'.propertyDefinitions = db.propertyDefinitions
              \/ \E k \in PropertyKeys : \E definition : DefinitionWrite(k, definition)
           /\ txn' = "open" => work'.propertyDefinitions = db'.propertyDefinitions
<1>0. TypeOK /\ db \in Databases
  BY DEF DefInductive, DefTypeOK, TypeOK
<1>1. ASSUME UNCHANGED vars
      PROVE  /\ db'.propertyDefinitions = db.propertyDefinitions
             /\ txn' = "open" => work'.propertyDefinitions = db'.propertyDefinitions
  BY <1>1 DEF vars, DefInductive
<1>2. ASSUME NEW c \in Connections, WriteUpdate(c) \/ WriteDeprecation(c) \/ WriteRemoval(c)
      PROVE  /\ \E k \in PropertyKeys : \E definition : DefinitionWrite(k, definition)
             /\ txn' # "open"
  <2>1. PICK e : InOneTransaction(e)
    BY <1>2, CheckedWrites DEF DefInductive
  <2> QED
    BY <1>2, <2>1, CheckedWrites DEF DefInductive, InOneTransaction
<1>3. CASE Transaction
  <2>1. ASSUME BeginBatch \/ CommitBatch \/ RollbackBatch
        PROVE  /\ db'.propertyDefinitions = db.propertyDefinitions
               /\ txn' = "open" => work'.propertyDefinitions = db'.propertyDefinitions
    BY <1>0, <2>1, NextRevisionEffect DEF BeginBatch, CommitBatch, RollbackBatch, DefInductive
  <2>2. ASSUME NEW e, Mutate(e), Mutated(work, e)
        PROVE  /\ db'.propertyDefinitions = db.propertyDefinitions
               /\ txn' = "open" => work'.propertyDefinitions = db'.propertyDefinitions
    BY <2>2, MutatedDefinitions DEF Mutate, DefInductive
  <2>3. ASSUME NEW e, InOneTransaction(e), Written(AtNextRevision(db), e)
        PROVE  /\ \/ db'.propertyDefinitions = db.propertyDefinitions
                  \/ \E k \in PropertyKeys : \E definition : DefinitionWrite(k, definition)
               /\ txn' # "open"
    BY <1>0, <2>3, WrittenDefinition DEF InOneTransaction
  <2>4. ASSUME NEW e, InOneTransaction(e), Prunes(db, e)
        PROVE  db'.propertyDefinitions = db.propertyDefinitions /\ txn' # "open"
    BY <2>4 DEF InOneTransaction, Prunes, PruneFrame
  <2> QED
    BY <1>0, <1>1, <1>3, <2>1, <2>2, <2>3, <2>4, TransactionIsNext, StepShape
<1>4. ASSUME NEW c \in Connections, NEW k \in PropertyKeys,
             \/ \E kind \in Kinds \cup {None} : CheckUpdate(c, k, kind)
             \/ \E r \in PropertyKeys \cup {None} : CheckDeprecation(c, k, r)
             \/ CheckRemoval(c, k)
      PROVE  UNCHANGED vars
  BY <1>4 DEF CheckUpdate, CheckDeprecation, CheckRemoval, Check
<1>5. ASSUME NEW c \in Connections, Fail(c)
      PROVE  UNCHANGED vars
  BY <1>5 DEF Fail
<1> QED
  BY <1>1, <1>2, <1>3, <1>4, <1>5 DEF DefNext, defVars

LEMMA DefInductiveInit == DefInit => DefInductive
<1> SUFFICES ASSUME DefInit PROVE DefInductive
  OBVIOUS
<1>1. Inductive /\ TypeOK
  BY InductiveInit DEF DefInit, Inductive
<1>2. Unbroken(db)
  BY DEF DefInit, Init, EmptyDatabase, Unbroken
<1> QED
  BY <1>1, <1>2 DEF DefInit, Init, DefInductive, DefTypeOK

LEMMA DefInductiveStep == DefInductive /\ [DefNext]_defVars => DefInductive'
<1> SUFFICES ASSUME DefInductive, [DefNext]_defVars
             PROVE  DefInductive'
  OBVIOUS
<1>1. StoredStep /\ DefTypeOK'
  BY DefNextIsStoredStep, DefTypeStep DEF DefInductive
<1> QED
  BY <1>1, InductiveStep, UnbrokenStep, DefinitionShape DEF DefInductive

LEMMA DefInductiveInvariant == DefSpec => []DefInductive
  BY DefInductiveInit, DefInductiveStep, PTL DEF DefSpec

-----------------------------------------------------------------------------
(* Theorems *)

\* A replacement key always names a definition that exists, for any number of
\* connections and keys, although every check may be out of date.
THEOREM ReplacementTargetsExist == DefSpec => []ReplacementsExist
<1>1. DefInit => ReplacementsExist
  BY DEF DefInit, Init, EmptyDatabase, NoDefinition, ReplacementsExist
<1>2. DefInductive /\ ReplacementsExist /\ [DefNext]_defVars => ReplacementsExist'
  <2> SUFFICES ASSUME DefInductive, ReplacementsExist, [DefNext]_defVars
               PROVE  ReplacementsExist'
    OBVIOUS
  <2>1. CASE db'.propertyDefinitions = db.propertyDefinitions
    BY <2>1 DEF ReplacementsExist
  <2>2. ASSUME NEW k \in PropertyKeys, NEW definition, DefinitionWrite(k, definition)
        PROVE  ReplacementsExist'
    <3> DEFINE old == db.propertyDefinitions
               new == db'.propertyDefinitions
    <3>0. /\ old \in [PropertyKeys -> DefinitionsOf(PropertyKeys)]
          /\ None \notin PropertyKeys
      BY DatabaseFields, NoneAssumption DEF DefInductive, DefTypeOK, TypeOK
    <3>1. \A j \in PropertyKeys : new[j] = IF j = k THEN definition ELSE old[j]
      BY <2>2, <3>0 DEF DefinitionWrite
    <3>2. \A j \in PropertyKeys :
            /\ old[j].replacement \in PropertyKeys \cup {None}
            /\ old[j].replacement # None => old[old[j].replacement].state # "none"
      BY <3>0 DEF ReplacementsExist, DefinitionsOf
    <3>3. definition.replacement \in PropertyKeys \cup {None}
      BY <2>2 DEF DefinitionWrite, DefinitionsOf
    <3>4. /\ definition.state = "none" => \A j \in PropertyKeys \ {k} : old[j].replacement # k
          /\ definition.state = "none" => definition.replacement = None
          /\ definition.replacement # None => old[definition.replacement].state # "none"
      <4>1. old[k] \in DefinitionsOf(PropertyKeys) /\ DOMAIN old = PropertyKeys
        BY <3>0
      <4>2. CASE old[k].state = "none" /\ definition = NoDefinition
        BY <3>0, <3>2, <4>1, <4>2, DefinitionReplacements
      <4>3. CASE \E kind, revision : definition = Registered(kind, revision)
        BY <4>1, <4>3, DefinitionReplacements
      <4>4. CASE old[k].state # "none" /\ \E kind : definition = Updated(old[k], kind)
        BY <3>2, <4>1, <4>4, DefinitionReplacements
      <4>5. CASE \E r \in PropertyKeys \cup {None} :
                    /\ definition = Deprecated(old[k], r)
                    /\ r # None => old[r].state # "none"
        BY <4>1, <4>5, DefinitionReplacements
      <4>6. CASE Replaced(old, k) \subseteq {k} /\ definition = NoDefinition
        BY <4>1, <4>6, DefinitionReplacements DEF Replaced
      <4> QED
        BY <2>2, <4>2, <4>3, <4>4, <4>5, <4>6 DEF DefinitionWrite
    <3> HIDE DEF old, new
    <3>5. ASSUME NEW j \in PropertyKeys, new[j].replacement # None
          PROVE  new[new[j].replacement].state # "none"
      <4>1. new[j].replacement \in PropertyKeys /\ old[new[j].replacement].state # "none"
        BY <3>1, <3>2, <3>3, <3>4, <3>5
      <4>2. CASE new[j].replacement = k
        BY <3>1, <3>4, <3>5, <4>1, <4>2
      <4>3. CASE new[j].replacement # k
        BY <3>1, <4>1, <4>3
      <4> QED
        BY <4>2, <4>3
    <3> QED
      BY <3>5 DEF ReplacementsExist, new
  <2> QED
    BY <2>1, <2>2, DefinitionShape
<1> QED
  BY <1>1, <1>2, DefInductiveInvariant, PTL DEF DefSpec

\* A write that was computed from an old read never undoes another: versions go
\* up by one and a deprecation is not taken back, for any number of connections.
THEOREM StaleWritesAdvance == DefSpec => DefinitionsAdvance
<1>1. DefInductive /\ [DefNext]_defVars =>
        [\A k \in PropertyKeys :
          LET old == db.propertyDefinitions[k]
              new == db'.propertyDefinitions[k]
          IN  (new # old /\ old.state # "none" /\ new.state # "none") =>
                  /\ new.version = old.version + 1
                  /\ old.state = "deprecated" => new.state = "deprecated"]_db
  <2> SUFFICES ASSUME DefInductive, [DefNext]_defVars, NEW j \in PropertyKeys,
                      db'.propertyDefinitions[j] # db.propertyDefinitions[j],
                      db.propertyDefinitions[j].state # "none",
                      db'.propertyDefinitions[j].state # "none"
               PROVE  /\ db'.propertyDefinitions[j].version = db.propertyDefinitions[j].version + 1
                      /\ db.propertyDefinitions[j].state = "deprecated" =>
                             db'.propertyDefinitions[j].state = "deprecated"
    OBVIOUS
  <2>1. PICK k, definition : k \in PropertyKeys /\ DefinitionWrite(k, definition)
    BY DefinitionShape
  <2> DEFINE old == db.propertyDefinitions[j]
  <2>2. /\ old \in DefinitionsOf(PropertyKeys)
        /\ j = k /\ db'.propertyDefinitions[j] = definition
    BY <2>1, DatabaseFields DEF DefinitionWrite, DefInductive, DefTypeOK, TypeOK
  <2>3. \/ \E kind : definition = Updated(old, kind)
        \/ \E r : definition = Deprecated(old, r)
    BY <2>1, <2>2 DEF DefinitionWrite, NoDefinition
  <2>4. /\ \A kind : /\ Updated(old, kind).version = old.version + 1
                     /\ Updated(old, kind).state = old.state
        /\ \A r : /\ Deprecated(old, r).version = old.version + 1
                  /\ Deprecated(old, r).state = "deprecated"
    BY <2>2 DEF Updated, Deprecated, DefinitionsOf
  <2> QED
    BY <2>2, <2>3, <2>4
<1> QED
  BY <1>1, DefInductiveInvariant, PTL DEF DefSpec, DefinitionsAdvance

\* The journal has no gap either when any number of connections write: a write
\* that matches no row any more is journalled under its revision all the same.
THEOREM SharedJournalHasNoGap == DefSpec => []JournalUnbroken
<1>1. DefInductive => JournalUnbroken
  BY UnbrokenMeaning DEF DefInductive, DefTypeOK, TypeOK
<1> QED
  BY <1>1, DefInductiveInvariant, PTL
=============================================================================
