SPECIFICATION Spec
CONSTANTS
    Rest = FALSE
    Node <- MCNode
    Root <- MCRoot
    Parent <- MCParent
    Kind <- MCKind
    Role <- MCRole
    Typed <- MCTyped
    Body <- MCBody
    Stmts <- MCStmts
    Op <- MCOp
    OpOf <- MCOpOf
    OfNumbers = {}
    Vars <- MCVars
    MUTATE_MIN = 2
    MUTATE_MAX = 3
    INSERT_LOC_MAX = 2
    MAX_TRY = 2
    Cnt = 2
INVARIANTS
    RevertRestores
    DeclarationsAreKept
    NeverAfterReturn
    VarsAreFresh
PROPERTIES
    MutationsDontOverlap
CHECK_DEADLOCK FALSE
