CONSTANTS
    BlockSize = 2
    Zero = 0
    Byte <- MCByte
    Buffers = {}
    Positions = {}
    Writings <- MCWritings
    BufSize = 3
    PageSize = 2
    ZeroBlockSize = 3
    InotabSizes = {1, 2, 5}
    BlockCounts <- MCBlockCounts
    Searches <- MCSearches
    Letters = {0, 1}
    WordSize = 4
    IntSize = 2
    LzmaThreads = {1, 2, 3}
    Limits <- MCLimits
    LzmaCalls <- MCLzmaCalls
    Kinds = {"lzo_sparse", "trivial", "google", "file_large", "file_small"}
    Hashes = {0, 1, 3, 10, 19, 30}
    Granu = 2
    HashMax = 31
    MaxStripes = 2
    PerFile = 8
    MaxBlocks = 5
    SourceSizes <- MCSourceSizes
    Mappings = {"whole", "part", "none"}
    Team = {1, 2}
    MaxOpen <- MCMaxOpen
    MapLength = 1
    MaxCandidates = 2
    OptionValues <- MCOptionValues
    BitLists <- MCBitLists
    OrderKinds = {"link", "dir", "file", "inotab", "wrong"}
    MaxOptions = 3
    MaxFsize = 2147483646
    Compressions <- MCCompressions
    ByteBits = 3
    ModelBits = 4
    MoveBits = 2
    LenBits <- MCLenBits
    SlotBits = 3
    EndPosModel = 6
    AlignBits = 1
    RequiredInput = 9
    MaxDict = 12
    Cuts = {0, 1, 3}
    Finds <- MCFinds
    SymbolBits = 1
    Crc <- MCCrc
    Hash2Size = 8
    Hash3Size = 4
    HashMask = 127
    KeepAddBufferBefore = 1
    MatchMaxLen = 5
    KeepAddBufferAfter = 1
    SizeReserv = 1
    MaxValForNormalize = 15
    NormalizeStep = 2
    Parses <- MCParses
    NumFastBytes = 4
    MatchLenMax = 5
    NumOpts = 7
    NumReps = 2
    FarDistances <- MCFarDistances
    ChangeFactor = 2
    Calls <- MCCalls
    InotabFblock <- MCInotabFblock
    DirFblocks = {5}
    FblockMax = 4
    SimImages <- MCSimImages
    FblockSpan = 8
SPECIFICATION LibSpec
INVARIANT WrittenFaithfully
