SPECIFICATION FairSpec
CONSTANTS
    a = a
    b = b
    c = c
    Keys <- MCKeys
    MaxKeys = 2
    MaxTasks = 2
    MaxRefusals = 1
    None = None
INVARIANTS
    NewestIsKept
PROPERTIES
    AcceptedIsSubmitted
CHECK_DEADLOCK FALSE
