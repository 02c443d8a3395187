SPECIFICATION Spec
CONSTANTS
    f1 = f1
    f2 = f2
    f3 = f3
    long = long
    l = l
    m = m
    a = a
    b = b
    c = c
    Noise = Noise
    Broken = Broken
    Undecodable = Undecodable
    Absent = Absent
    Torn = Torn
    File = {f1, f2, f3, long}
    Size <- MCSize
    MAX_SIZE = 3
    Loc = {l, m}
    Type = {a, b, c}
    Output <- MCOutput
    CpuCount = {3, 4, 5, 6, 7}
    MaxRun = 2
INVARIANTS
    TypesAreWhole
    CorpusIsDealt
CHECK_DEADLOCK FALSE
