SPECIFICATION FilesSpec
CONSTANTS
    Cnt = 2
    Size = {1}
    MaxRound = 3
INVARIANTS
    OneMixUpPerKill
PROPERTIES
    EveryCaseRuns
CHECK_DEADLOCK FALSE
