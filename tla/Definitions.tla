------------------------------ MODULE Definitions ------------------------------
(***************************************************************************)
(* Property definitions changed through several connections.  Update,      *)
(* deprecation and removal first check the definition with plain reads,    *)
(* outside any transaction, and then write it in an Immediate transaction  *)
(* that checks nothing (src/record_store/operations.rs).  One Core holds   *)
(* its Record Store lock throughout, but "Separate Core connections may    *)
(* continue to write" (src/lib.rs).  Batches and registrations check inside*)
(* their transaction: they are the steps of RecordStore, of any connection.*)
(*                                                                         *)
(* The reads of one check are one step here.  A relationship definition    *)
(* follows the same code for deprecation and removal, by table name.       *)
(***************************************************************************)
EXTENDS Projection

CONSTANT Connections

ASSUME ConnectionsAssumption == None \notin Connections

VARIABLE pending    \* per connection, the operation that passed its check

defVars == <<vars, pending>>

Operations ==
    [write : {"update", "deprecate", "remove"}, key : PropertyKeys,
     kind : Kinds \cup {None}, replacement : PropertyKeys \cup {None},
     read : DefinitionsOf(PropertyKeys)]

DefInit == Init /\ pending = [c \in Connections |-> None]

\* A check reads the committed database, whether or not another connection has
\* a transaction open.
Check(c, write, k, kind, r) ==
    /\ pending[c] = None
    /\ db.propertyDefinitions[k].state # "none"
    /\ pending' = [pending EXCEPT ![c] =
           [write |-> write, key |-> k, kind |-> kind, replacement |-> r,
            read |-> db.propertyDefinitions[k]]]
    /\ UNCHANGED vars

CheckUpdate(c, k, kind) ==
    /\ \/ db.propertyDefinitions[k].kind = kind
       \/ PropertyUsage(db, k) = {}
    /\ Check(c, "update", k, kind, None)

CheckDeprecation(c, k, r) ==
    /\ ValidReplacement(db.propertyDefinitions, k, r)
    /\ Check(c, "deprecate", k, None, r)

CheckRemoval(c, k) ==
    /\ PropertyUsage(db, k) = {}
    /\ Replaced(db.propertyDefinitions, k) = {}
    /\ Check(c, "remove", k, None, None)

\* Fault: the journal row is left out when no row matched.
WriteCheckedQuietly(k, definition) ==
    IF db.propertyDefinitions[k].state # "none"
    THEN WritePropertyDefinition(k, definition)
    ELSE db.revision < MaxRevision /\ InOneTransaction(AtNextRevision(db))

\* UPDATE or DELETE ... WHERE key = ?: no row may match any more; the revision
\* and the journal row are written all the same.
WriteChecked(k, definition) ==
    WritePropertyDefinition(k,
        IF db.propertyDefinitions[k].state = "none" THEN NoDefinition ELSE definition)

Done(c) == pending' = [pending EXCEPT ![c] = None]

\* Fault: the columns the check read are written back.
WriteUpdateStale(c) ==
    /\ pending[c] # None /\ pending[c].write = "update"
    /\ WriteChecked(pending[c].key, Updated(pending[c].read, pending[c].kind))
    /\ Done(c)

WriteUpdate(c) ==
    /\ pending[c] # None /\ pending[c].write = "update"
    /\ WriteChecked(pending[c].key,
                    Updated(db.propertyDefinitions[pending[c].key], pending[c].kind))
    /\ Done(c)

\* Fault: foreign_keys is not switched on for the connection.
ReferencesHoldUnchecked(k, r) == TRUE

\* The foreign key of replacement_key: a row must not name a missing replacement.
ReferencesHold(k, r) ==
    (db.propertyDefinitions[k].state # "none" /\ r # None) =>
        db.propertyDefinitions[r].state # "none"

WriteDeprecation(c) ==
    /\ pending[c] # None /\ pending[c].write = "deprecate"
    /\ ReferencesHold(pending[c].key, pending[c].replacement)
    /\ WriteChecked(pending[c].key,
                    Deprecated(db.propertyDefinitions[pending[c].key],
                               pending[c].replacement))
    /\ Done(c)

WriteRemoval(c) ==
    /\ pending[c] # None /\ pending[c].write = "remove"
    /\ Replaced(db.propertyDefinitions, pending[c].key) \subseteq {pending[c].key}
    /\ WriteChecked(pending[c].key, NoDefinition)
    /\ Done(c)

\* A foreign key refused the write, it waited out its busy timeout for another
\* connection's transaction, or the process died: nothing was written.
Fail(c) ==
    /\ pending[c] # None
    /\ Done(c)
    /\ UNCHANGED vars

\* What checks inside its own transaction, and the pruning of a Core that opens.
Transaction ==
    /\ \/ BeginBatch
       \/ NodeMutation
       \/ PropertyMutation
       \/ CommitBatch
       \/ RollbackBatch
       \/ \E k \in PropertyKeys, kind \in Kinds \cup {None} :
              RegisterPropertyDefinition(k, kind)
       \/ PruneChangeJournal
    /\ UNCHANGED pending

DefNext ==
    \/ Transaction
    \/ \E c \in Connections :
           \/ \E k \in PropertyKeys :
                  \/ \E kind \in Kinds \cup {None} : CheckUpdate(c, k, kind)
                  \/ \E r \in PropertyKeys \cup {None} : CheckDeprecation(c, k, r)
                  \/ CheckRemoval(c, k)
           \/ WriteUpdate(c) \/ WriteDeprecation(c) \/ WriteRemoval(c)
           \/ Fail(c)

DefSpec == DefInit /\ [][DefNext]_defVars

-----------------------------------------------------------------------------
(* Properties *)

\* A replacement key names a definition that exists, though the one operation
\* that checks for uses and the one that adds a use each check too early: the
\* foreign key of schema.rs:63 decides.
ReplacementsExist ==
    \A k \in PropertyKeys :
        LET r == db.propertyDefinitions[k].replacement
        IN  r # None => db.propertyDefinitions[r].state # "none"

\* A write computed from an old read undoes nothing: a definition that stays
\* goes up one version at a time and, once deprecated, stays deprecated.
DefinitionsAdvance ==
    [][\A k \in PropertyKeys :
          LET old == db.propertyDefinitions[k]
              new == db'.propertyDefinitions[k]
          IN  (new # old /\ old.state # "none" /\ new.state # "none") =>
                  /\ new.version = old.version + 1
                  /\ old.state = "deprecated" => new.state = "deprecated"]_db
==============================================================================
