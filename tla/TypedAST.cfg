SPECIFICATION Spec
CONSTANTS
    Programs <- MCPrograms
    FuncNames <- MCFuncNames
    INFER_ROUNDS = 9
    MAX_WRITE = 2
INVARIANTS
    InferenceSettles
    CallsAgree
    TypesStayAligned
    WeightsAreDefined
CHECK_DEADLOCK FALSE
