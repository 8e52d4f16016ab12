CONSTANTS
    NumFblocks = 3
    Thread = {t1, t2}
    FSIZE = 2
    BlockSize = 2
    Compressed <- MCCompressed
    SparseModes = {TRUE, FALSE}
    MayBeInvalid = TRUE
    MayFill = TRUE
    HeaderSize = 1
SPECIFICATION Spec
INVARIANTS NothingLost ResumeKeepsImage
PROPERTY WriteEnds
CHECK_DEADLOCK FALSE
