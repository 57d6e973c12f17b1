CONSTANTS
    a = a
    b = b
    c = c
    Ids <- InstanceIds
    Movers <- MovingIds
    Unchecked <- UncheckedIds
    Invalid <- InvalidIds
    Modes = {TRUE}
    FullPushThreshold = 2
    Confirmations = 2
    MaxIndex = 3
    MaxFaults = 1
    MaxTicks = 1
SPECIFICATION Spec
INVARIANTS
    QuietTickRepairs
PROPERTIES
    CacheNeverRegresses
    EmptyIsConfirmed
CHECK_DEADLOCK FALSE
