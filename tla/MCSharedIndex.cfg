SPECIFICATION SyncSpec
CONSTANTS
    NodeIds = {1, 2}
    PropertyKeys = {}
    RelationshipKeys = {}
    Kinds = {}
    None = None
    Retention = 4
    MaxRevision = 4
    MaxBatch = 1
    Cores = {a, b}
SYMMETRY Symmetry
INVARIANTS
    CurrentIndexIsExact
CHECK_DEADLOCK FALSE
