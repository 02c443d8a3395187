SPECIFICATION Spec
CONSTANTS
    Proc = {p1, p2}
    Find = {c1, c2}
    Plans <- Campaigns
SYMMETRY Symmetry
INVARIANTS
    OwnerIsAlone
    CleanupCopes
PROPERTIES
    OldFindingsStay
    CutOffIsLeft
    ResumeKeepsCrashes
CHECK_DEADLOCK FALSE
