SPECIFICATION Spec
CONSTANTS
    s1 = s1
    s2 = s2
    h1 = h1
    h2 = h2
    k1 = k1
    Sinks <- MCSinks
    Handlers <- MCHandlers
    Keys <- MCKeys
    Rejected <- RefuseNone
    StaleIn = {"operation", "fallback"}
    Generation = 1
    MaxRev = 1
    MaxChanges = 1
    MaxFulls = 1
    MaxFailures = 1
    None = None
INVARIANT FullsAreRetried
CHECK_DEADLOCK FALSE
