SPECIFICATION FilesSpec
CONSTANTS
    Cnt = 2
    Size = {1, 2}
    MaxRound = 3
INVARIANTS
    TypesAreConsumed

CHECK_DEADLOCK FALSE
