SPECIFICATION Spec
CONSTANTS
    FSIZE = 2
    Byte <- MCByte
    LzmaSize <- MCLzmaSize
    MaxFblocks = 1
    MaxAppend = 2
    MaxOpen = 1
    WordSize = 8
    RandomCompressPeriod = 1
    Requests <- MCRequests
    SparseFblocks = TRUE
INVARIANT ImageFaithful
CHECK_DEADLOCK FALSE
