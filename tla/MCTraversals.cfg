SPECIFICATION PopulatedSpec
CONSTANTS
    NodeIds = {1, 2, 3}
    PropertyKeys = {5}
    RelationshipKeys = {4}
    Kinds = {k}
    None = None
    Retention = 1
    MaxRevision = 3
    MaxBatch = 1
    Cores = {a}
    PageLimits = {1}
    Populated = {1, 2}
INVARIANTS
    TraversalTypeOK
    StaleRowsAreJournalled
    StableScanIsExact
    PagesAreDisjoint
    IndexTraversalLosesOnlyMoved
