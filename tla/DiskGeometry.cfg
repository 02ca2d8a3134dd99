CONSTANT Disks <- MCDisks
SPECIFICATION GeometrySpec
INVARIANTS
    AcceptedLayout
    FormattedAccepted
CHECK_DEADLOCK FALSE
