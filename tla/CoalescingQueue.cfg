SPECIFICATION FairSpec
CONSTANTS
    a = a
    b = b
    c = c
    Pods <- MCPods
    Capacity = 2
    MaxEvents = 3
INVARIANTS
    ChangesAreKept
PROPERTIES
    EventsInOrder
    WaitingPodsArePopped
CHECK_DEADLOCK FALSE
