SPECIFICATION FairSpec
CONSTANTS
    g1 = g1
    g2 = g2
    g3 = g3
    a1 = a1
    a2 = a2
    a3 = a3
    Callers <- MCCallers
    Keys <- MCKeys
    Addresses <- MCAddresses
    NoCaller = NoCaller
    Nil = Nil
PROPERTIES
    ImplementsMutex
    EveryCallerGetsIn
