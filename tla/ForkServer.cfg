SPECIFICATION FairSpec
CONSTANTS
    Persistent = TRUE
    MaxExec = 4
    MaxChild = 4
    MayStop = TRUE
    MayFail = TRUE
INVARIANTS
    VerdictIsRight
    NoOrphans
    PipesInStep
PROPERTIES
    RunsEnd
CHECK_DEADLOCK FALSE
