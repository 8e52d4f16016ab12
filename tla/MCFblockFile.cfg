SPECIFICATION Spec
CONSTANTS
    FSIZE = 2
    Byte <- MCByte
    LzmaSize <- MCLzmaSize
    MaxFblocks = 2
    MaxAppend = 2
    MaxOpen = 1
    WordSize = 8
    RandomCompressPeriod = 1
    Requests <- MCRequests
    SparseFblocks = TRUE
INVARIANTS
    TypeOK
    ContentsKept
    BuffersValid
    ImageFaithfulWithLookup
CHECK_DEADLOCK FALSE
