CONSTANTS
    Radix = 6
    FSIZE = 64
    NameSize <- MCNameSize
    Trees <- MCTrees
    Root = "root"
    Hidden = {9}
    BSIZE = 32
    UserChoices <- MCChoices
    PerFblock = 2
    LzmaSize = 14
    Conversions <- MCConversions
    Handles = {1, 2}
    ReaddirSizes = {56, 96}
    ReaddirMax = 2
    Getuid = 9
SPECIFICATION Spec
CONSTRAINTS OneListing OneReply KeepsBlockSizes PacksWhatFits
INVARIANTS TypeOK LayoutSound
PROPERTY DriverShowsTree
