CONSTANTS
    good = good
    odd = odd
    none = none
    Paths <- MCPaths
    NoPath = NoPath
    Values = {0, 1}
    BlockSize = 2
    MaxBlocks = 3
    HostFds = {3, 4, 5}
    Outset <- MCOutset
    Replacements <- MCReplacements
    Faults = {"io", "short", "outside"}
SPECIFICATION DiskSpec
VIEW ButForTheAnswer
INVARIANTS
    DiskTypeOK
    DescriptorsAccounted
    CountIsImage
PROPERTY WritesStayInBlock
