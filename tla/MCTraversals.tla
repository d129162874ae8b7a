----------------------------- MODULE MCTraversals -----------------------------
(***************************************************************************)
(* Traversals while one Core synchronizes and other connections commit,    *)
(* from a library that one batch has populated.                            *)
(***************************************************************************)
EXTENDS Traversals

CONSTANT Populated  \* the Nodes there are in the beginning

Links == {e \in Relationships : <<e[1], e[3]>> \in {<<1, 1>>, <<1, 2>>, <<2, 1>>}}

\* What a batch leaves that creates the Nodes and links the first two.
PopulatedDatabase ==
    LET d == WithNodes(AtNextRevision(EmptyDatabase), Populated)
    IN  [d EXCEPT
            !.relationships = Links,
            !.journal = @ \cup
                {RelationshipChange(1, "relationship_added", e[1], e[2], e[3]) : e \in Links}]

PopulatedInit ==
    /\ db = PopulatedDatabase
    /\ txn = "none"
    /\ work = db
    /\ ordinal = 0
    /\ \E f \in Files :
           /\ files = [g \in Files |-> [checkpoint |-> 1, content |-> Content(PopulatedDatabase)]]
           /\ handle = [c \in Cores |-> f]
    /\ sync = [c \in Cores |-> Idle]
    /\ snapshot = None
    /\ traversal = None

PopulatedSpec == PopulatedInit /\ [][TraversalNext]_<<vars, syncVars, traversalVars>>
=============================================================================
