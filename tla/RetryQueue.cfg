SPECIFICATION FairSpec
CONSTANTS
    s1 = s1
    s2 = s2
    h1 = h1
    h2 = h2
    k1 = k1
    Sinks <- MCSinks
    Handlers <- MCHandlers
    Keys <- MCKeys
    Rejected <- RefuseFirst
    StaleIn = {"operation"}
    Generation = 1
    MaxRev = 2
    MaxChanges = 2
    MaxFulls = 1
    MaxFailures = 2
    None = None
INVARIANTS
    NothingForgotten
    NoSecondPush
    FullsAreRetried
PROPERTIES
    QueueDrains
CHECK_DEADLOCK FALSE
