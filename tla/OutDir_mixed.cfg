SPECIFICATION Spec
CONSTANTS
    Proc = {p1}
    Find = {c1, c2}
    Plans <- ResumedTwice
PROPERTY
    ResumeKeepsAll
CHECK_DEADLOCK FALSE
