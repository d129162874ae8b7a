SPECIFICATION RecoverySpec
CONSTANTS
    NodeIds = {n1}
    PropertyKeys = {}
    RelationshipKeys = {}
    Kinds = {}
    None = None
    Retention = 2
    MaxRevision = 3
    MaxBatch = 1
    SegmentsPerBaseline = 1
    Unlabelled = {}
    Faults = {"io", "damage", "loss"}
INVARIANTS
    RecoveryTypeOK
    RecoveredStatesWereCommitted
    PurgesStayPurged
    CoverageHoldsNoRetiredNode
    ManifestIsReachable
    ValidPlansReplay
PROPERTIES
    ArtifactsOutliveManifest
