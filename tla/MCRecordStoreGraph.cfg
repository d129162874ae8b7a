SPECIFICATION Spec
CONSTANTS
    NodeIds = {n1, n2}
    PropertyKeys = {p1}
    RelationshipKeys = {r1}
    Kinds = {text}
    None = None
    Retention = 1
    MaxRevision = 3
    MaxBatch = 3
INVARIANTS
    TypeOK
    StoreConsistent
    JournalUnbroken
PROPERTIES
    ImplementsIdentityLedger
    JournalCoversCommit
    ModifiedMarksChange
