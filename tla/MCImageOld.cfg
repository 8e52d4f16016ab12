CONSTANTS
    Radix = 6
    FSIZE = 64
    NameSize <- MCNameSize
    Trees <- MCTrees
    Root = "root"
    Hidden = {9}
    BSIZE = 32
    UserChoices <- WideChoices
    PerFblock = 2
    LzmaSize = 14
    Conversions <- Downgrade
    Handles = {1}
    ReaddirSizes = {56, 96}
    ReaddirMax = 2
    Getuid = 9
SPECIFICATION Spec
CONSTRAINT OneReply
INVARIANT NoDamage
