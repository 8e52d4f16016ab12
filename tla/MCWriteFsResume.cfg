CONSTANTS
    NumFblocks = 3
    Thread = {t1, t2}
    FSIZE = 2
    BlockSize = 2
    Compressed <- MCAllZeros
    SparseModes = {FALSE}
    MayBeInvalid = FALSE
    MayFill = FALSE
    HeaderSize = 1
SPECIFICATION Spec
INVARIANT ResumeFinishes
CHECK_DEADLOCK FALSE
