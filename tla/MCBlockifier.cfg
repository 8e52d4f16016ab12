CONSTANTS
    FSIZE = 4
    BSIZE = 2
    MinimumFreeSpace = 2
    OverlapGranularity = 1
    AutoIndexPeriod = 2
    MaxFblockCountForBruteForce = 2
    AutoIndexStep = 2
    MaxLen = 3
    NumSources = 2
    Sizes = {1,2}
    LargeSize = 5
    Methods = {"None", "BlanksOnly", "All", "All_Speedup", "All_Prepass", "Collect", "Collect_Speedup"}
    Resume = TRUE
    Zero = 0
    Source <- MCSource
    SortKey <- MCSortKey
    Byte <- MCByte
    Hash <- MCHash
    Inputs <- MCInputs
    BSizes <- MCBSizes
SPECIFICATION Spec
INVARIANTS TypeOK LocatorsResolve FblocksFit FlushComplete IndexesSound IdenticalBlocksMerged 
PROPERTY OnlyAppends
CHECK_DEADLOCK FALSE
