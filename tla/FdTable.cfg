CONSTANTS
    Names = {a, b}
    NoName = NoName
    MaxOpen = 3
    Offsets = {0, 2}
SPECIFICATION FdSpec
INVARIANTS
    FdTypeOK
    UsedIffNamed
    OnlyIssuedAreNamed
    OpenAtStart
PROPERTY RefinesIssuer
