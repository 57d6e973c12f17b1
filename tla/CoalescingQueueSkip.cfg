SPECIFICATION Spec
CONSTANTS
    a = a
    b = b
    c = c
    Pods <- MCPods
    Capacity = 2
    MaxEvents = 3
PROPERTY SkippedIsOlder
CHECK_DEADLOCK FALSE
