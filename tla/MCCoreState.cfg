SPECIFICATION CoreSpec
CONSTANTS
    Threads = {t1, t2, t3}
    MaxCalls = 1
CHECK_DEADLOCK FALSE
INVARIANTS
    CoreTypeOK
    QuiescentIsCurrent
    ArtifactsSpanNoPurge
PROPERTIES
    EveryCallReturns
    PurgesBecomeProtected
