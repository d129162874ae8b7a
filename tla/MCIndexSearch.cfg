SPECIFICATION IndexSpec
CONSTANTS
    NodeIds = {n1, n2}
    PropertyKeys = {}
    RelationshipKeys = {}
    Kinds = {}
    None = None
    Retention = 1
    MaxRevision = 3
    MaxBatch = 2
    DocumentKeys = {k1}
    MaxDerived = 1
SYMMETRY Symmetry
INVARIANTS
    SearchNamesNoRetiredNode
