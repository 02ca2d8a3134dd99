CONSTANTS
    a = a
    disk_fs = disk_fs
    foreign = foreign
    good = good
    bad = bad
    Names <- MCNames
    NoName = NoName
    Sizes <- MCSizes
    BlockSize = 4
    FatBlocks = 2
    PerBlock = 2
    NEntries = 2
    Whole = 1
    MaxOpen = 1
    Offsets = {0}
    Garbage <- MCGarbage
    NameChecks = {TRUE}
    Paths <- MCPaths
    NoPath = NoPath
    HostFds = {3}
    Superblocks <- MCSuperblocks
    Accepted <- MCAccepted
    Outset <- MCOutset
    DiskFaults = {"io", "short"}
SPECIFICATION LayerSpec
VIEW ButForTheAnswers
INVARIANTS
    FileChainsIntact
PROPERTIES
    ImplementsFileSystem
    OnlyMetadataWritten
