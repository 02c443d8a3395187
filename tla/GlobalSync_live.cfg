SPECIFICATION FairRaceSpec
CONSTANTS
    p = p
    f1 = f1
    f2 = f2
    a0 = a0
    a1 = a1
    b0 = b0
    Fuzzer = {p, f1, f2}
    Starts <- PopulateThenFuzz
    Bit = {a0, b0}
    Byte <- MCByte
    ByteOf <- MCByteOf
    Bit0 = a0
    MaxRun = 1
    CorpusSize = 1
    KEEP_UNIQUE_CRASH = 1
    Crashing = {f1}
    MayDie = FALSE
INVARIANTS
    OnlyRacersRepeat
PROPERTIES
    NewCoverageIsScheduled
    OldCasesRecur
CHECK_DEADLOCK FALSE
