SPECIFICATION DefSpec
CONSTANTS
    NodeIds = {n1}
    PropertyKeys = {p1, p2}
    RelationshipKeys = {}
    Kinds = {text}
    None = None
    Retention = 2
    MaxRevision = 4
    MaxBatch = 1
    Connections = {c1, c2}
SYMMETRY Symmetry
INVARIANTS
    ReplacementsExist
    JournalUnbroken
PROPERTIES
    DefinitionsAdvance
