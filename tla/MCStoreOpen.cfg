SPECIFICATION OpenSpec
CONSTANTS
    Connections = {c1, c2, c3}
    None = None
    Retention = 2
    MaxFound = 2
    MaxRevision = 3
SYMMETRY Symmetry
INVARIANTS
    OpenTypeOK
    OpenStoreCoversItsHistory
PROPERTIES
    RevisionIsJournalled
    SoundStoreRefusedOnlyWhenOvertaken
