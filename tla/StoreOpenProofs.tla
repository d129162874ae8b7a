---------------------------- MODULE StoreOpenProofs ----------------------------
(***************************************************************************)
(* Proofs about module StoreOpen, for any set of connections and any       *)
(* bounds.  Between two statements of a connection the store may change in *)
(* ways its reads do not show, so the invariant relates what it has read   *)
(* to the store as it is: while the revision does not cover the history,   *)
(* nobody has opened the store and what was read is what is there; once it *)
(* does, what was read is behind the revision.                             *)
(***************************************************************************)
EXTENDS StoreOpen, TLAPS

Repaired(s) == Covers(s, s.revision)

\* What a connection that has read o may rely on of the store s.
MigrationInv(o, s) ==
    /\ o.stage = "empty" => o.schema = 0
    /\ o.stage = "migrated" => s.schema = CurrentSchema
    /\ o.stage \in {"valid", "current", "latest", "tail", "open"} => Valid(s)

CurrentInv(o, s) ==
    o.stage \in {"current", "latest", "tail"} =>
        /\ o.current \in Revisions
        /\ o.current <= s.revision
        /\ Repaired(s) \/ s.revision = o.current

LatestInv(o, s) ==
    o.stage \in {"latest", "tail"} =>
        /\ o.latest \in Revisions
        /\ o.latest # o.current
        /\ Repaired(s) => o.latest <= s.revision
        /\ ~Repaired(s) => IsLatestFact(s, o.latest)

TailInv(o, s) ==
    /\ o.stage = "tail" =>
           /\ o.current < o.latest
           /\ s.revision = o.current => o.latest \in s.journal
    /\ o.stage = "open" => Repaired(s)

OpenerInv(o, s) ==
    /\ MigrationInv(o, s)
    /\ CurrentInv(o, s)
    /\ LatestInv(o, s)
    /\ TailInv(o, s)

OpenInvariant ==
    /\ OpenTypeOK
    /\ \A c \in Connections : OpenerInv(opener[c], store)

-----------------------------------------------------------------------------
(* The types *)

LEMMA FoundIsStore == ASSUME NEW s \in Found PROVE s \in Stores
<1> USE BoundsAssumption DEF Schemas, Supported, CurrentSchema, Revisions
<1>1. CASE s = EmptyStore
    BY <1>1 DEF EmptyStore, Stores
<1>2. CASE s # EmptyStore
  <2>1. 0..MaxFound \subseteq Revisions /\ SUBSET (1..MaxFound) \subseteq SUBSET Revisions
      OBVIOUS
  <2>2. s \in [schema : Schemas, tables : {TRUE}, meta : Schemas, intact : BOOLEAN,
               references : BOOLEAN, ledger : BOOLEAN, revision : 0..MaxFound,
               rows : 0..MaxFound, journal : SUBSET (1..MaxFound)]
      BY <1>2, Zenon DEF Found
  <2>3. /\ s.schema \in Schemas /\ s.tables \in BOOLEAN /\ s.meta \in Schemas
        /\ s.intact \in BOOLEAN /\ s.references \in BOOLEAN /\ s.ledger \in BOOLEAN
        /\ s.revision \in 0..MaxFound /\ s.rows \in 0..MaxFound
        /\ s.journal \in SUBSET (1..MaxFound)
        /\ s = [schema |-> s.schema, tables |-> s.tables, meta |-> s.meta,
                intact |-> s.intact, references |-> s.references, ledger |-> s.ledger,
                revision |-> s.revision, rows |-> s.rows, journal |-> s.journal]
      BY <2>2
  <2>4. s.revision \in Revisions /\ s.rows \in Revisions /\ s.journal \in SUBSET Revisions
      BY <2>1, <2>3
  <2> HIDE DEF Schemas, Revisions
  <2> QED
      BY <2>3, <2>4 DEF Stores
<1> QED
    BY <1>1, <1>2

\* What a step of a connection may do to the type of what it has read.
LEMMA OpenerType ==
    ASSUME OpenTypeOK, NEW c \in Connections, NEW o \in Openers,
           opener' = [opener EXCEPT ![c] = o]
    PROVE  opener' \in [Connections -> Openers]
    BY DEF OpenTypeOK

LEMMA ReachesType ==
    ASSUME OpenTypeOK, NEW c \in Connections, NEW stage \in Stages, Reaches(c, stage)
    PROVE  opener' \in [Connections -> Openers]
    BY DEF OpenTypeOK, Reaches, Openers

\* Every step keeps the types of the store and of what is read of it.
LEMMA OpenTypePreserved == OpenInvariant /\ [OpenNext]_openVars => OpenTypeOK'
<1> SUFFICES ASSUME OpenInvariant, [OpenNext]_openVars
             PROVE  OpenTypeOK'
    OBVIOUS
<1> USE DEF OpenTypeOK
<1>0. OpenTypeOK
    BY DEF OpenInvariant
<1>1. CASE UNCHANGED openVars
    BY <1>0, <1>1 DEF openVars
<1>2. ASSUME NEW c \in Connections, Opens(c) \/ Commit(c) \/ Prune(c) \/ Close(c)
      PROVE  OpenTypeOK'
  <2>1. opener[c] \in Openers /\ store \in Stores
      BY <1>0
  <2>2. CASE ReadSchema(c)
      BY <1>0, <2>2 DEF ReadSchema, Stages, Openers, Stores
  <2>3. CASE CountTables(c) \/ Validate(c)
      BY <1>0, <2>3, ReachesType DEF CountTables, Validate, Stages
  <2>4. CASE Migrate(c)
    <3>1. opener' \in [Connections -> Openers]
        BY <1>0, <2>4, ReachesType DEF Migrate, Stages
    <3>2. store' = store \/ \E ledger \in BOOLEAN :
              store' = [store EXCEPT !.schema = CurrentSchema, !.meta = CurrentSchema,
                                     !.tables = TRUE, !.ledger = ledger]
        BY <2>1, <2>4 DEF Migrate, Stores
    <3>3. CurrentSchema \in Schemas
        BY DEF Schemas
    <3> QED
        BY <2>1, <3>1, <3>2, <3>3 DEF Stores
  <2>5. CASE ReadCurrent(c)
    <3>1. store.revision \in Revisions
        BY <2>1 DEF Stores
    <3> QED
        BY <1>0, <2>5, <3>1 DEF ReadCurrent, Stages, Openers
  <2>6. CASE ReadLatest(c)
      BY <1>0, <2>6 DEF ReadLatest, Stages, Openers
  <2>7. CASE ReadTail(c)
    <3>1. store.journal \in SUBSET Revisions
        BY <2>1 DEF Stores
    <3>2. PICK stage \in {"tail", "open", "refused"} :
              opener' = [opener EXCEPT ![c].journal = store.journal, ![c].stage = stage]
      <4>1. CASE Establishes(store.journal, opener[c].current, opener[c].latest)
        <5>1. opener[c].current \in Nat /\ opener[c].latest \in Nat
            BY <2>7, BoundsAssumption
            DEF ReadTail, OpenInvariant, OpenerInv, CurrentInv, LatestInv, Revisions
        <5>2. ~(opener[c].latest <= opener[c].current)
            BY <4>1, <5>1 DEF Establishes
        <5> QED
            BY <2>7, <4>1, <5>2 DEF ReadTail
      <4>2. CASE /\ ~Establishes(store.journal, opener[c].current, opener[c].latest)
                 /\ opener[c].latest <= opener[c].current /\ store.journal = {}
          BY <2>7, <4>2 DEF ReadTail
      <4>3. CASE /\ ~Establishes(store.journal, opener[c].current, opener[c].latest)
                 /\ ~(opener[c].latest <= opener[c].current /\ store.journal = {})
          BY <2>7, <4>3 DEF ReadTail
      <4> QED
          BY <4>1, <4>2, <4>3
    <3>3. [opener[c] EXCEPT !.journal = store.journal, !.stage = stage] \in Openers
        BY <2>1, <3>1 DEF Openers, Stages
    <3>4. opener' \in [Connections -> Openers]
        BY <1>0, <3>2, <3>3
    <3> QED
        BY <1>0, <2>7, <3>4 DEF ReadTail
  <2>8. CASE AdvanceRevision(c)
    <3>1. opener[c].latest \in Revisions
        BY <2>8 DEF AdvanceRevision, OpenInvariant, OpenerInv, LatestInv
    <3>2. store' = store \/ store' = [store EXCEPT !.revision = opener[c].latest]
        BY <2>1, <2>8 DEF AdvanceRevision, Stores
    <3>3. opener' \in [Connections -> Openers]
        BY <1>0, <2>8, ReachesType DEF AdvanceRevision, Stages
    <3> QED
        BY <2>1, <3>1, <3>2, <3>3 DEF Stores
  <2>9. CASE Commit(c)
    <3>1. store.revision + 1 \in Revisions /\ 0..store.rows \subseteq Revisions
        BY <2>1, <2>9, BoundsAssumption DEF Commit, Stores, Revisions
    <3>2. PICK rows \in Revisions :
              store' = [store EXCEPT !.revision = store.revision + 1,
                                     !.journal = store.journal \cup {store.revision + 1},
                                     !.rows = rows]
        BY <2>1, <2>9, <3>1 DEF Commit, Stores
    <3>3. store.journal \cup {store.revision + 1} \in SUBSET Revisions
        BY <2>1, <3>1 DEF Stores
    <3> QED
        BY <1>0, <2>9, <3>1, <3>2, <3>3 DEF Commit, Stores
  <2>10. CASE Prune(c)
      BY <1>0, <2>10 DEF Prune, Stores
  <2>11. CASE Close(c)
      BY <1>0, <2>11 DEF Close, Closed, Stages, Openers
  <2> QED
      BY <1>2, <2>2, <2>3, <2>4, <2>5, <2>6, <2>7, <2>8, <2>9, <2>10, <2>11 DEF Opens
<1> QED
    BY <1>1, <1>2 DEF OpenNext

\* Opening is type correct only together with what is known of a connection:
\* the latest fact may be written as a revision because it has been read.
LEMMA InitialInvariant == OpenInit => OpenInvariant
<1> SUFFICES ASSUME OpenInit PROVE OpenInvariant
    OBVIOUS
<1>1. store \in Stores
    BY FoundIsStore DEF OpenInit
<1>2. opener \in [Connections -> Openers]
    BY DEF OpenInit, Closed, Openers, Stages
<1>3. ASSUME NEW c \in Connections PROVE OpenerInv(opener[c], store)
    BY DEF OpenInit, Closed, OpenerInv, MigrationInv, CurrentInv, LatestInv, TailInv
<1> QED
    BY <1>1, <1>2, <1>3 DEF OpenInvariant, OpenTypeOK

-----------------------------------------------------------------------------
(* How the store changes under a connection's reads *)

\* A step of the store that the reads of every connection survive: it keeps
\* what validation saw and the revision moves up only.
Survives(s, t) ==
    /\ Valid(s) => Valid(t)
    /\ s.schema = CurrentSchema => t.schema = CurrentSchema
    /\ t.revision >= s.revision

\* A migration changes nothing that reconcile_revision reads.
LEMMA MigrationSurvives ==
    ASSUME OpenTypeOK, NEW c \in Connections, Migrate(c)
    PROVE  /\ Survives(store, store')
           /\ store'.revision = store.revision
           /\ store'.rows = store.rows
           /\ store'.journal = store.journal
<1>1. CASE store' = store
    BY <1>1, BoundsAssumption DEF Survives, OpenTypeOK, Stores, Revisions
<1>2. ASSUME NEW ledger \in BOOLEAN, store.ledger => ledger,
             store' = [store EXCEPT !.schema = CurrentSchema, !.meta = CurrentSchema,
                                    !.tables = TRUE, !.ledger = ledger]
      PROVE  /\ Survives(store, store')
             /\ store'.revision = store.revision
             /\ store'.rows = store.rows
             /\ store'.journal = store.journal
    BY <1>2, BoundsAssumption DEF Survives, OpenTypeOK, Stores, Revisions, Valid
<1>3. store' = store \/ \E ledger \in BOOLEAN :
          /\ store.ledger => ledger
          /\ store' = [store EXCEPT !.schema = CurrentSchema, !.meta = CurrentSchema,
                                    !.tables = TRUE, !.ledger = ledger]
    BY DEF Migrate, OpenTypeOK, Stores
<1> QED
    BY <1>1, <1>2, <1>3

\* A commit or a pruning finds the revision covering the history and leaves it so.
LEMMA CommitSurvives ==
    ASSUME OpenInvariant, NEW c \in Connections, Commit(c)
    PROVE  /\ Survives(store, store')
           /\ Repaired(store) /\ Repaired(store')
           /\ store'.revision = store.revision + 1
           /\ store'.revision \in store'.journal
<1>1. /\ store \in Stores /\ store.revision \in Nat /\ store.rows \in Nat
      /\ store.journal \in SUBSET Nat
    BY BoundsAssumption DEF OpenInvariant, OpenTypeOK, Stores, Revisions
<1>2. Repaired(store)
    BY DEF Commit, OpenInvariant, OpenerInv, TailInv
<1>3. PICK rows \in 0..store.rows \cup {store.revision + 1} :
          store' = [store EXCEPT !.revision = store.revision + 1,
                                 !.journal = store.journal \cup {store.revision + 1},
                                 !.rows = rows]
    BY <1>1 DEF Commit, Stores
<1>4. /\ store'.revision = store.revision + 1
      /\ store'.rows = rows
      /\ store'.journal = store.journal \cup {store.revision + 1}
      /\ store'.schema = store.schema /\ store'.meta = store.meta
      /\ store'.intact = store.intact /\ store'.references = store.references
      /\ store'.ledger = store.ledger
    BY <1>1, <1>3 DEF Stores
<1>5. Repaired(store')
    BY <1>1, <1>2, <1>4 DEF Repaired, Covers
<1> QED
    BY <1>1, <1>2, <1>4, <1>5 DEF Survives, Valid

LEMMA PruneSurvives ==
    ASSUME OpenInvariant, NEW c \in Connections, Prune(c)
    PROVE  /\ Survives(store, store')
           /\ Repaired(store) /\ Repaired(store')
           /\ store'.revision = store.revision
<1>1. /\ store \in Stores /\ store.revision \in Nat /\ store.rows \in Nat
      /\ store.journal \in SUBSET Nat
    BY BoundsAssumption DEF OpenInvariant, OpenTypeOK, Stores, Revisions
<1>2. Repaired(store)
    BY DEF Prune, OpenInvariant, OpenerInv, TailInv
<1>3. PICK kept \in SUBSET store.journal : store' = [store EXCEPT !.journal = kept]
    BY <1>1 DEF Prune, Stores
<1> QED
    BY <1>1, <1>2, <1>3 DEF Stores, Repaired, Covers, Survives, Valid

\* The UPDATE of reconcile_revision takes effect only while the revision does
\* not cover the history, and then makes it the latest fact there is.
LEMMA AdvanceSurvives ==
    ASSUME OpenInvariant, NEW c \in Connections, AdvanceRevision(c), store' # store
    PROVE  /\ Survives(store, store')
           /\ ~Repaired(store) /\ Repaired(store')
           /\ store'.revision > store.revision
           /\ IsLatestFact(store, store'.revision)
           /\ store'.revision \in store'.journal
<1>1. /\ store \in Stores /\ store.revision \in Nat /\ store.rows \in Nat
      /\ store.journal \in SUBSET Nat
    BY BoundsAssumption DEF OpenInvariant, OpenTypeOK, Stores, Revisions
<1>2. /\ opener[c].current \in Nat /\ opener[c].latest \in Nat
      /\ opener[c].current < opener[c].latest
      /\ store.revision = opener[c].current => opener[c].latest \in store.journal
      /\ ~Repaired(store) => IsLatestFact(store, opener[c].latest)
    BY BoundsAssumption
    DEF AdvanceRevision, OpenInvariant, OpenerInv, CurrentInv, LatestInv, TailInv, Revisions
<1>3. /\ store.revision = opener[c].current
      /\ store' = [store EXCEPT !.revision = opener[c].latest]
    BY <1>1 DEF AdvanceRevision, Stores
<1>4. /\ store'.revision = opener[c].latest
      /\ store'.rows = store.rows /\ store'.journal = store.journal
      /\ store'.schema = store.schema /\ store'.meta = store.meta
      /\ store'.intact = store.intact /\ store'.references = store.references
      /\ store'.ledger = store.ledger
    BY <1>1, <1>3 DEF Stores
<1>5. ~Repaired(store)
    BY <1>1, <1>2, <1>3 DEF Repaired, Covers
<1> QED
    BY <1>1, <1>2, <1>3, <1>4, <1>5 DEF IsLatestFact, Repaired, Covers, Survives, Valid

\* The three ways the store may change: what the three reads see stays, the
\* revision covered the history before, or it is made the latest fact.
Kept(s, t) == t.revision = s.revision /\ t.rows = s.rows /\ t.journal = s.journal

Follows(s, t) == Repaired(s) /\ Repaired(t)

Repairs(s, t) ==
    /\ ~Repaired(s) /\ Repaired(t)
    /\ t.revision > s.revision
    /\ IsLatestFact(s, t.revision)

\* In each of them, what a connection has read keeps its relation to the store.
LEMMA ReadsSurvive ==
    ASSUME OpenInvariant, OpenTypeOK', NEW d \in Connections, Survives(store, store'),
           Kept(store, store') \/ Follows(store, store') \/ Repairs(store, store')
    PROVE  OpenerInv(opener[d], store')
<1> DEFINE o == opener[d]
<1>1. /\ store.revision \in Nat /\ store.rows \in Nat /\ store.journal \in SUBSET Nat
      /\ store'.revision \in Nat /\ store'.rows \in Nat /\ store'.journal \in SUBSET Nat
    BY BoundsAssumption DEF OpenInvariant, OpenTypeOK, Stores, Revisions
<1>2. OpenerInv(o, store)
    BY DEF OpenInvariant
<1>3. MigrationInv(o, store')
    BY <1>2 DEF OpenerInv, MigrationInv, Survives
<1>4. Repaired(store) => Repaired(store')
    BY DEF Kept, Follows, Repairs, Repaired, Covers
<1>5. /\ o.stage \in {"current", "latest", "tail"} => o.current \in Nat
      /\ o.stage \in {"latest", "tail"} => o.latest \in Nat
    BY <1>2, BoundsAssumption DEF OpenerInv, CurrentInv, LatestInv, Revisions
<1>6. CurrentInv(o, store')
    BY <1>1, <1>2, <1>4, <1>5
    DEF OpenerInv, CurrentInv, Survives, Kept, Follows, Repairs
<1>7. LatestInv(o, store')
  <2>1. CASE Kept(store, store')
      BY <1>2, <2>1 DEF OpenerInv, LatestInv, Kept, Repaired, IsLatestFact, Covers
  <2>2. CASE Follows(store, store')
      BY <1>1, <1>2, <1>5, <2>2 DEF OpenerInv, LatestInv, Survives, Follows
  <2>3. CASE Repairs(store, store')
      BY <1>1, <1>2, <1>5, <2>3 DEF OpenerInv, LatestInv, Repairs, IsLatestFact, Covers
  <2> QED
      BY <2>1, <2>2, <2>3
<1>8. TailInv(o, store')
  <2>1. o.stage = "open" => Repaired(store')
      BY <1>2, <1>4 DEF OpenerInv, TailInv
  <2>2. ASSUME o.stage = "tail"
        PROVE  /\ o.current < o.latest
               /\ store'.revision = o.current => o.latest \in store'.journal
    <3>1. /\ o.current \in Nat /\ o.latest \in Nat /\ o.current <= store.revision
          /\ o.current < o.latest
          /\ store.revision = o.current => o.latest \in store.journal
          /\ Repaired(store) => o.latest <= store.revision
        BY <1>2, <1>5, <2>2 DEF OpenerInv, CurrentInv, LatestInv, TailInv
    <3>2. CASE Kept(store, store')
        BY <3>1, <3>2 DEF Kept
    <3>3. CASE ~Kept(store, store')
        BY <1>1, <3>1, <3>3 DEF Survives, Follows, Repairs
    <3> QED
        BY <3>2, <3>3
  <2> QED
      BY <2>1, <2>2 DEF TailInv
<1> QED
    BY <1>3, <1>6, <1>7, <1>8 DEF OpenerInv

-----------------------------------------------------------------------------
(* The invariant *)

\* A step of one connection that leaves the store alone keeps the invariant of
\* the others; of its own it is shown action by action.
LEMMA OwnRead ==
    ASSUME OpenInvariant, OpenTypeOK', NEW c \in Connections, UNCHANGED store,
           OpenerInv(opener'[c], store),
           \A d \in Connections \ {c} : opener'[d] = opener[d]
    PROVE  OpenInvariant'
    BY DEF OpenInvariant

\* Every step keeps the invariant.
LEMMA InvariantPreserved == OpenInvariant /\ [OpenNext]_openVars => OpenInvariant'
<1> SUFFICES ASSUME OpenInvariant, [OpenNext]_openVars
             PROVE  OpenInvariant'
    OBVIOUS
<1>1. OpenTypeOK'
    BY OpenTypePreserved
<1>2. CASE UNCHANGED openVars
    BY <1>2 DEF openVars, OpenInvariant, OpenTypeOK
<1>3. ASSUME NEW c \in Connections, Opens(c) \/ Commit(c) \/ Prune(c) \/ Close(c)
      PROVE  OpenInvariant'
  <2>1. /\ store \in Stores /\ store.revision \in Nat /\ store.rows \in Nat
        /\ store.journal \in SUBSET Nat /\ store.journal \in SUBSET Revisions
        /\ store.revision \in Revisions /\ opener \in [Connections -> Openers]
        /\ opener[c] \in Openers
      BY BoundsAssumption DEF OpenInvariant, OpenTypeOK, Stores, Revisions
  <2>2. OpenerInv(opener[c], store)
      BY DEF OpenInvariant
  <2>3. CASE ReadSchema(c)
      BY <1>1, <2>1, <2>3, OwnRead
      DEF ReadSchema, OpenerInv, MigrationInv, CurrentInv, LatestInv, TailInv, Supported
  <2>4. CASE CountTables(c)
      BY <1>1, <2>1, <2>4, OwnRead
      DEF CountTables, Reaches, OpenerInv, MigrationInv, CurrentInv, LatestInv, TailInv
  <2>5. CASE Migrate(c)
    <3>1. /\ opener'[c].stage \in {"migrated", "refused"}
          /\ opener'[c].stage = "migrated" => store'.schema = CurrentSchema
          /\ \A d \in Connections \ {c} : opener'[d] = opener[d]
      <4>1. CASE store.schema = opener[c].schema /\ store.meta = opener[c].schema
        <5>1. Reaches(c, "migrated") /\ store'.schema = CurrentSchema
            BY <2>1, <2>5, <4>1 DEF Migrate, Stores
        <5> QED
            BY <2>1, <5>1 DEF Reaches, Openers
      <4>2. CASE ~(store.schema = opener[c].schema /\ store.meta = opener[c].schema)
        <5>1. Reaches(c, "refused")
            BY <2>5, <4>2 DEF Migrate
        <5> QED
            BY <2>1, <5>1 DEF Reaches, Openers
      <4> QED
          BY <4>1, <4>2
    <3>2. ASSUME NEW d \in Connections \ {c} PROVE OpenerInv(opener'[d], store')
        BY <1>1, <2>5, <3>1, MigrationSurvives, ReadsSurvive DEF OpenInvariant, Kept
    <3>3. OpenerInv(opener'[c], store')
        BY <3>1 DEF OpenerInv, MigrationInv, CurrentInv, LatestInv, TailInv
    <3> QED
        BY <1>1, <3>2, <3>3 DEF OpenInvariant
  <2>6. CASE Validate(c)
      BY <1>1, <2>1, <2>6, OwnRead
      DEF Validate, Reaches, OpenerInv, MigrationInv, CurrentInv, LatestInv, TailInv
  <2>7. CASE ReadCurrent(c)
      BY <1>1, <2>1, <2>2, <2>7, OwnRead
      DEF ReadCurrent, OpenerInv, MigrationInv, CurrentInv, LatestInv, TailInv
  <2>8. CASE ReadLatest(c)
    <3>1. PICK fact \in Revisions :
              /\ IsLatestFact(store, fact)
              /\ opener' = [opener EXCEPT
                     ![c].latest = fact,
                     ![c].stage = IF opener[c].current = fact THEN "open" ELSE "latest"]
        BY <2>8 DEF ReadLatest
    <3>2. /\ opener'[c].current = opener[c].current /\ opener'[c].latest = fact
          /\ opener'[c].stage = IF opener[c].current = fact THEN "open" ELSE "latest"
        BY <2>1, <3>1 DEF Openers
    <3>3. /\ Valid(store) /\ opener[c].current \in Revisions
          /\ opener[c].current <= store.revision
          /\ Repaired(store) \/ store.revision = opener[c].current
        BY <2>2, <2>8 DEF ReadLatest, OpenerInv, MigrationInv, CurrentInv
    <3>4. Repaired(store) => fact <= store.revision
        BY <2>1, <3>1 DEF IsLatestFact, Repaired, Covers
    <3>5. fact = opener[c].current => Repaired(store)
        BY <3>1, <3>3 DEF IsLatestFact, Repaired
    <3>6. OpenerInv(opener'[c], store)
        BY <3>1, <3>2, <3>3, <3>4, <3>5
        DEF OpenerInv, MigrationInv, CurrentInv, LatestInv, TailInv
    <3> QED
        BY <1>1, <2>1, <2>8, <3>1, <3>6, OwnRead DEF ReadLatest
  <2>9. CASE ReadTail(c)
    <3>1. /\ opener[c].stage = "latest" /\ Valid(store)
          /\ opener[c].current \in Revisions /\ opener[c].current <= store.revision
          /\ Repaired(store) \/ store.revision = opener[c].current
          /\ opener[c].latest \in Revisions /\ opener[c].latest # opener[c].current
          /\ Repaired(store) => opener[c].latest <= store.revision
          /\ ~Repaired(store) => IsLatestFact(store, opener[c].latest)
        BY <2>2, <2>9 DEF ReadTail, OpenerInv, MigrationInv, CurrentInv, LatestInv
    <3>2. /\ opener'[c].current = opener[c].current /\ opener'[c].latest = opener[c].latest
          /\ \A d \in Connections \ {c} : opener'[d] = opener[d]
        BY <2>1, <2>9 DEF ReadTail, Openers
    <3>3. opener[c].current \in Nat /\ opener[c].latest \in Nat
        BY <3>1, BoundsAssumption DEF Revisions
    <3>4. CASE Establishes(store.journal, opener[c].current, opener[c].latest)
      <4>1. opener[c].current < opener[c].latest /\ opener[c].latest \in store.journal
          BY <2>1, <3>3, <3>4 DEF Establishes, TailReaches
      <4>2. opener'[c].stage = "tail"
          BY <2>1, <2>9, <3>3, <3>4, <4>1 DEF ReadTail, Openers
      <4>3. OpenerInv(opener'[c], store)
          BY <3>1, <3>2, <4>1, <4>2
          DEF OpenerInv, MigrationInv, CurrentInv, LatestInv, TailInv
      <4> QED
          BY <1>1, <2>9, <3>2, <4>3, OwnRead DEF ReadTail
    <3>5. CASE /\ ~Establishes(store.journal, opener[c].current, opener[c].latest)
               /\ opener[c].latest <= opener[c].current /\ store.journal = {}
      <4>1. opener'[c].stage = "open"
          BY <2>1, <2>9, <3>5 DEF ReadTail, Openers
      <4>2. Repaired(store)
          BY <2>1, <3>1, <3>3, <3>5 DEF Repaired, IsLatestFact, Covers
      <4>3. OpenerInv(opener'[c], store)
          BY <3>1, <4>1, <4>2 DEF OpenerInv, MigrationInv, CurrentInv, LatestInv, TailInv
      <4> QED
          BY <1>1, <2>9, <3>2, <4>3, OwnRead DEF ReadTail
    <3>6. CASE /\ ~Establishes(store.journal, opener[c].current, opener[c].latest)
               /\ ~(opener[c].latest <= opener[c].current /\ store.journal = {})
      <4>1. opener'[c].stage = "refused"
          BY <2>1, <2>9, <3>6 DEF ReadTail, Openers
      <4>2. OpenerInv(opener'[c], store)
          BY <4>1 DEF OpenerInv, MigrationInv, CurrentInv, LatestInv, TailInv
      <4> QED
          BY <1>1, <2>9, <3>2, <4>2, OwnRead DEF ReadTail
    <3> QED
        BY <3>4, <3>5, <3>6
  <2>10. CASE AdvanceRevision(c)
    <3>1. /\ opener'[c].stage = "open" /\ Valid(store)
          /\ \A d \in Connections \ {c} : opener'[d] = opener[d]
        BY <2>1, <2>2, <2>10
        DEF AdvanceRevision, Reaches, Openers, OpenerInv, MigrationInv
    <3>2. CASE store' = store
      <4>1. Repaired(store)
        <5>1. /\ opener[c].stage = "tail"
              /\ Repaired(store) \/ store.revision = opener[c].current
              /\ opener[c].current \in Nat /\ opener[c].latest \in Nat
              /\ opener[c].current < opener[c].latest
            BY <2>2, <2>10, BoundsAssumption
            DEF AdvanceRevision, OpenerInv, CurrentInv, LatestInv, TailInv, Revisions
        <5>2. store'.revision = IF store.revision = opener[c].current
                                THEN opener[c].latest ELSE store.revision
            BY <2>1, <2>10 DEF AdvanceRevision, Stores
        <5> QED
            BY <3>2, <5>1, <5>2
      <4>2. OpenerInv(opener'[c], store)
          BY <3>1, <4>1 DEF OpenerInv, MigrationInv, CurrentInv, LatestInv, TailInv
      <4> QED
          BY <1>1, <3>1, <3>2, <4>2, OwnRead
    <3>3. CASE store' # store
      <4>1. /\ Survives(store, store') /\ Repairs(store, store') /\ Repaired(store')
          BY <2>10, <3>3, AdvanceSurvives DEF Repairs
      <4>2. ASSUME NEW d \in Connections \ {c} PROVE OpenerInv(opener'[d], store')
          BY <1>1, <3>1, <4>1, ReadsSurvive
      <4>3. OpenerInv(opener'[c], store')
          BY <3>1, <4>1
          DEF Survives, OpenerInv, MigrationInv, CurrentInv, LatestInv, TailInv
      <4> QED
          BY <1>1, <4>2, <4>3 DEF OpenInvariant
    <3> QED
        BY <3>2, <3>3
  <2>11. CASE Commit(c) \/ Prune(c)
    <3>1. Survives(store, store') /\ Follows(store, store') /\ opener' = opener
        BY <2>11, CommitSurvives, PruneSurvives DEF Follows, Commit, Prune
    <3>2. ASSUME NEW d \in Connections PROVE OpenerInv(opener'[d], store')
        BY <1>1, <3>1, ReadsSurvive
    <3> QED
        BY <1>1, <3>2 DEF OpenInvariant
  <2>12. CASE Close(c)
      BY <1>1, <2>1, <2>12, OwnRead
      DEF Close, Closed, OpenerInv, MigrationInv, CurrentInv, LatestInv, TailInv
  <2> QED
      BY <1>3, <2>3, <2>4, <2>5, <2>6, <2>7, <2>8, <2>9, <2>10, <2>11, <2>12 DEF Opens
<1> QED
    BY <1>2, <1>3 DEF OpenNext

-----------------------------------------------------------------------------
(* Theorems *)

LEMMA InvariantHolds == OpenSpec => []OpenInvariant
    BY InitialInvariant, InvariantPreserved, PTL DEF OpenSpec

\* The store and what is read of it have the shapes of their declarations,
\* for any number of connections and any retention.
THEOREM OpenTypeCorrect == OpenSpec => []OpenTypeOK
<1>1. OpenInvariant => OpenTypeOK
    BY DEF OpenInvariant
<1> QED
    BY <1>1, InvariantHolds, PTL

\* An opened store is valid and its revision covers its rows and its journal,
\* however many connections open, repair and change it at the same time
\* (reconcile_revision, record_store/mod.rs).
THEOREM OpenedStoresCover == OpenSpec => []OpenStoreCoversItsHistory
<1>1. OpenInvariant => OpenStoreCoversItsHistory
    BY DEF OpenInvariant, OpenerInv, MigrationInv, TailInv, Repaired,
           OpenStoreCoversItsHistory
<1> QED
    BY <1>1, InvariantHolds, PTL

\* Neither a commit nor a repair takes the revision back or to one that the
\* journal does not have.
THEOREM RevisionsAreJournalled == OpenSpec => RevisionIsJournalled
<1> DEFINE A == store'.revision # store.revision =>
                    /\ store'.revision > store.revision
                    /\ store'.revision \in store'.journal
<1>1. OpenInvariant /\ [OpenNext]_openVars => [A]_openVars
  <2> SUFFICES ASSUME OpenInvariant, [OpenNext]_openVars PROVE [A]_openVars
      OBVIOUS
  <2>1. store.revision \in Nat
      BY BoundsAssumption DEF OpenInvariant, OpenTypeOK, Stores, Revisions
  <2>2. CASE UNCHANGED openVars
      BY <2>2
  <2>3. ASSUME NEW c \in Connections, Opens(c) \/ Commit(c) \/ Prune(c) \/ Close(c)
        PROVE  A
    <3>1. CASE UNCHANGED store
        BY <3>1
    <3>2. CASE Migrate(c)
        BY <3>2, MigrationSurvives DEF OpenInvariant
    <3>3. CASE AdvanceRevision(c)
        BY <3>1, <3>3, AdvanceSurvives
    <3>4. CASE Commit(c)
        BY <2>1, <3>4, CommitSurvives
    <3>5. CASE Prune(c)
        BY <3>5, PruneSurvives
    <3> QED
        BY <2>3, <3>1, <3>2, <3>3, <3>4, <3>5
        DEF Opens, ReadSchema, CountTables, Validate, ReadCurrent, ReadLatest, ReadTail, Close
  <2> QED
      BY <2>2, <2>3 DEF OpenNext
<1> QED
    BY <1>1, InvariantHolds, PTL DEF OpenSpec, RevisionIsJournalled

\* A sound store is refused only to a connection that others have overtaken.
THEOREM SoundStoresAreAccepted == OpenSpec => SoundStoreRefusedOnlyWhenOvertaken
<1> DEFINE Overtaken(c) ==
        \/ /\ opener[c].stage \in {"empty", "legacy"}
           /\ opener[c].schema # store.schema
        \/ /\ opener[c].current < opener[c].latest
           /\ opener[c].latest < store.revision
        \/ opener[c].latest < opener[c].current
    A == \A c \in Connections : Refuses(c) /\ Sound(store) => Overtaken(c)
<1>1. OpenInvariant /\ [OpenNext]_openVars => [A]_openVars
  <2> SUFFICES ASSUME OpenInvariant, [OpenNext]_openVars, NEW c \in Connections,
                      Refuses(c), Sound(store)
               PROVE  Overtaken(c)
      OBVIOUS
  <2> HIDE DEF A
  <2>1. /\ store.revision \in Nat /\ store.rows \in Nat /\ store.journal \in SUBSET Nat
        /\ opener \in [Connections -> Openers]
      BY BoundsAssumption DEF OpenInvariant, OpenTypeOK, Stores, Revisions
  <2>2. OpenerInv(opener[c], store)
      BY DEF OpenInvariant
  <2>3. opener # opener'
      BY DEF Refuses
  <2>4. Opens(c)
    <3>1. PICK d \in Connections : Opens(d) \/ Commit(d) \/ Prune(d) \/ Close(d)
        BY <2>3 DEF OpenNext, openVars
    <3>2. ASSUME d # c PROVE opener'[c] = opener[c]
        BY <2>1, <3>1, <3>2
        DEF Opens, ReadSchema, CountTables, Migrate, Validate, ReadCurrent, ReadLatest,
            ReadTail, AdvanceRevision, Commit, Prune, Close, Reaches
    <3>3. d = c
        BY <3>2 DEF Refuses
    <3>4. ~Close(c)
        BY <2>1 DEF Close, Closed, Refuses
    <3> QED
        BY <2>3, <3>1, <3>3, <3>4 DEF Commit, Prune
  <2>5. CASE ReadSchema(c)
      BY <2>1, <2>5 DEF ReadSchema, Refuses, Sound, EmptyStore, Supported, CurrentSchema
  <2>6. CASE CountTables(c)
    <3>1. store.tables /\ opener[c].stage = "empty" /\ opener[c].schema = 0
        BY <2>1, <2>2, <2>6
        DEF CountTables, Reaches, Refuses, OpenerInv, MigrationInv, Openers
    <3>2. store.schema # 0
        BY <3>1 DEF Sound, EmptyStore, Supported, CurrentSchema
    <3> QED
        BY <3>1, <3>2
  <2>7. CASE Migrate(c)
    <3>1. /\ opener[c].stage = "legacy"
          /\ ~(store.schema = opener[c].schema /\ store.meta = opener[c].schema)
      <4>1. ~Reaches(c, "migrated")
          BY <2>1 DEF Openers, Reaches, Refuses
      <4> QED
          BY <2>7, <4>1 DEF Migrate
    <3>2. store.schema = store.meta
        BY DEF Sound, EmptyStore
    <3> QED
        BY <3>1, <3>2
  <2>8. CASE Validate(c)
    <3>1. ~Valid(store)
        BY <2>1, <2>8 DEF Validate, Reaches, Refuses
    <3>2. store.schema = CurrentSchema
        BY <2>2, <2>8 DEF Validate, OpenerInv, MigrationInv
    <3> QED
        BY <3>1, <3>2 DEF Sound, Valid, EmptyStore, CurrentSchema, Supported
  <2>9. CASE ReadTail(c)
    <3>1. /\ opener[c].stage = "latest" /\ Valid(store)
          /\ opener[c].current \in Nat /\ opener[c].latest \in Nat
          /\ opener[c].latest # opener[c].current
          /\ Repaired(store) => opener[c].latest <= store.revision
        BY <2>2, <2>9, BoundsAssumption
        DEF ReadTail, OpenerInv, MigrationInv, CurrentInv, LatestInv, Revisions
    <3>2. store # EmptyStore
        BY <3>1 DEF Valid, EmptyStore, CurrentSchema
    <3>3. /\ IsLatestFact(store, store.revision)
          /\ TailReaches(store.journal, store.revision)
             \/ (store.journal = {} /\ store.revision = 0)
        BY <3>2 DEF Sound
    <3>4. opener[c].latest <= store.revision
        BY <3>1, <3>3 DEF IsLatestFact, Repaired
    <3>5. ~Establishes(store.journal, opener[c].current, opener[c].latest)
        BY <2>1, <2>9 DEF ReadTail, Refuses
    <3>6. CASE opener[c].current < opener[c].latest
      <4>1. ~TailReaches(store.journal, opener[c].latest)
          BY <3>5, <3>6 DEF Establishes
      <4>2. opener[c].latest # store.revision
          BY <2>1, <3>1, <3>3, <3>6, <4>1
      <4> QED
          BY <2>1, <3>1, <3>4, <3>6, <4>2
    <3>7. CASE opener[c].latest < opener[c].current
        BY <3>7
    <3> QED
        BY <3>1, <3>6, <3>7
  <2>10. CASE ReadCurrent(c) \/ AdvanceRevision(c)
      BY <2>1, <2>10 DEF Openers, ReadCurrent, AdvanceRevision, Reaches, Refuses
  <2>11. CASE ReadLatest(c)
    <3>1. opener'[c].stage \in {"open", "latest"}
      <4>1. PICK fact \in Revisions :
                opener' = [opener EXCEPT
                    ![c].latest = fact,
                    ![c].stage = IF opener[c].current = fact THEN "open" ELSE "latest"]
          BY <2>11 DEF ReadLatest
      <4> QED
          BY <2>1, <4>1 DEF Openers
    <3> QED
        BY <3>1 DEF Refuses
  <2> QED
      BY <2>4, <2>5, <2>6, <2>7, <2>8, <2>9, <2>10, <2>11 DEF Opens
<1>2. OpenSpec => [][A]_openVars
    BY <1>1, InvariantHolds, PTL DEF OpenSpec
<1> QED
    BY <1>2 DEF SoundStoreRefusedOnlyWhenOvertaken
=============================================================================
