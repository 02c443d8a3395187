SPECIFICATION BuilderSpec
CONSTANTS
    VarTypes <- FewTypes
    InScope = 2
    DEPTH = 2
    FUNC_SIZE = 2
    Ops <- FewOps
    MaxStack = 4
INVARIANTS
    ContextIsClosed
    NodesMatch
    NestingIsBounded
    NewVariablesCanBeMade
CHECK_DEADLOCK FALSE
