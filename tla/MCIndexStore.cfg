SPECIFICATION IndexSpec
CONSTANTS
    NodeIds = {n1, n2}
    PropertyKeys = {}
    RelationshipKeys = {r}
    Kinds = {}
    None = None
    Retention = 1
    MaxRevision = 3
    MaxBatch = 1
    DocumentKeys = {k1}
    MaxDerived = 1
SYMMETRY Symmetry
INVARIANTS
    IndexTypeOK
    IndexShowsCommittedState
    ContentRefersToIndexedNodes
    DocumentsAreSearchable
    AnswersNameActiveNodes
    OrphanAnswersAgree
