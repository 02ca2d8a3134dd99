CONSTANTS
    a = a
    b = b
    disk1 = disk1
    disk2 = disk2
    Disks <- MCDisks
    Names <- MCNames
    NoName = NoName
    Sizes <- MCSizes
    BlockSize = 4
    FatBlocks = 1
    PerBlock = 4
    NEntries = 3
    Whole = 1
    MaxOpen = 1
    Offsets = {2}
    Garbage <- MCFewGarbage
    NameChecks = {TRUE, FALSE}
    Faults = {"io", "umount_unchecked"}
    Images <- MCOneImage
SPECIFICATION Spec
VIEW ButForTheAnswer
INVARIANTS
    TypeOK
    DiskHeld
PROPERTY TableSteps
