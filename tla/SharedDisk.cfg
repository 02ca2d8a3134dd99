CONSTANTS
    a = a
    b = b
    c = c
    p1 = p1
    p2 = p2
    Names <- MCNames
    NoName = NoName
    Sizes <- MCSizes
    BlockSize = 4
    FatBlocks = 2
    PerBlock = 4
    NEntries = 3
    Whole = 2
    Procs <- MCProcs
    CreateNames <- MCCreateNames
    DeleteNames <- MCDeleteNames
    Garbage <- MCGarbage
    Outset <- MCOutset
SPECIFICATION SharedSpec
SYMMETRY ProcessesAlike
INVARIANTS
    OverlappingLookersKeepDisk
    MixturesOnlyFree
    SeparateTransfersKeepChains
PROPERTIES
    UndisturbedSaveIsWhole
