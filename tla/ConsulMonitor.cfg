CONSTANTS
    MaxChanges = 4
    MaxRestores = 1
SPECIFICATION FairSpec
PROPERTIES
    ChangesReachTheHandler
CHECK_DEADLOCK FALSE
