CONSTANTS
    a = a
    b = b
    disk1 = disk1
    disk2 = disk2
    Disks <- MCDisks
    Names <- MCNames
    NoName = NoName
    Sizes <- MCSizes
    BlockSize = 4
    FatBlocks = 1
    PerBlock = 4
    NEntries = 4
    Whole = 2
    MaxOpen = 1
    Offsets = {2}
    Garbage <- MCGarbage
    NameChecks = {TRUE}
    Faults = {}
    Images <- MCImages
SPECIFICATION Spec
VIEW ButForTheAnswer
INVARIANTS
    MemoryChainsIntact
    ImageChainsIntact
    TwinsAgree
PROPERTIES
    DeleteLeavesAtMostOneBlock
    NamesNeverMultiply
