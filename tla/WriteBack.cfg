CONSTANTS
    a = a
    b = b
    disk1 = disk1
    disk2 = disk2
    Disks <- MCTwoDisks
    Names = {a}
    NoName = NoName
    Sizes <- MCSizes
    BlockSize = 4
    FatBlocks = 2
    PerBlock = 4
    NEntries = 3
    Whole = 1
    MaxOpen = 1
    Offsets = {2}
    Garbage <- MCFreshHeap
    NameChecks = {TRUE}
    Faults = {}
    Images <- MCTwoImages
SPECIFICATION Spec
VIEW ButForTheAnswer
INVARIANT OpenFilesAreEmpty
PROPERTIES
    FatWrittenBack
    RootWrittenBack
