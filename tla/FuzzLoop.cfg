SPECIFICATION FairSpec
CONSTANTS
    a01 = a01
    a80 = a80
    Bit = {a01, a80}
    Byte <- OneByte
    ByteOf <- OneByteOf
    Busy <- OneBusy
    Quiet <- OneQuiet
    Setups <- AnySetup
    TMOUT_LIMIT = 1
    KEEP_UNIQUE_HANG = 1
    KEEP_UNIQUE_CRASH = 1
    MaxRound = 2
    MaxFile = 2
INVARIANTS
    KeptIsPaidFor
    CountersAgree
    AtMostOneLate
PROPERTIES
    AbandonsForAReason
    StopEnds
    PopulatingEnds
CHECK_DEADLOCK FALSE
