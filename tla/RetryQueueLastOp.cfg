SPECIFICATION Spec
CONSTANTS
    s1 = s1
    s2 = s2
    h1 = h1
    h2 = h2
    k1 = k1
    Sinks <- MCSinks
    Handlers <- MCHandlers
    Keys <- MCKeys
    Rejected <- RefuseNone
    StaleIn = {}
    Generation = 1
    MaxRev = 1
    MaxChanges = 2
    MaxFulls = 0
    MaxFailures = 2
    None = None
INVARIANT LastOpWins
CHECK_DEADLOCK FALSE
