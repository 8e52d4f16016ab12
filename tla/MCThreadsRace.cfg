CONSTANTS
    FSIZE = 5
    BSIZE = 3
    MinimumFreeSpace = 1
    OverlapGranularity = 1
    AutoIndexPeriod = 2
    MaxFblockCountForBruteForce = 2
    MaxLen = 3
    Writes = 2
    Byte <- MCByte
    Thread = {t1, t2}
    Stores <- MCStores
    Data <- MCData
    Threads = 2
    LongBits = 4
    UnsignedBits = 3
    Shifts = {"wraps", "zero"}
    CacheMaxSize = 2
    MaxReads = 2
    NumFblocks = 4
    NumBlocks = 3
    BlockSizes = {2}
    ByteSizes = {5}
    Offsets = {0, 1, 4}
    ReadSizes = {2, 3, 6}
    Requests <- MCRequests
    Images <- MCImages
    NumThreads = 2
    MaxUnits = 3
    MaxEntries = 3
    MaxCalls = 3
SPECIFICATION MCSpec
INVARIANT BestFitFound
CHECK_DEADLOCK FALSE
