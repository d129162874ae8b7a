SPECIFICATION Spec
CONSTANTS
    NodeIds = {n1}
    PropertyKeys = {p1, p2}
    RelationshipKeys = {}
    Kinds = {text, integer}
    None = None
    Retention = 2
    MaxRevision = 4
    MaxBatch = 2
INVARIANTS
    FactsMatchDefinitions
    ReplacementsWellFounded
PROPERTIES
    JournalCoversCommit
    ModifiedMarksChange
