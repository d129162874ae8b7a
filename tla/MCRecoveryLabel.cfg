SPECIFICATION RecoverySpec
CONSTANTS
    NodeIds = {n1}
    PropertyKeys = {}
    RelationshipKeys = {r1}
    Kinds = {}
    None = None
    Retention = 2
    MaxRevision = 2
    MaxBatch = 1
    SegmentsPerBaseline = 1
    Unlabelled = {r1}
    Faults = {"loss"}
INVARIANTS
    ValidPlansReplay
