CONSTANTS
    Keys = {p}
    Shapes <- PodShapes
    PushAppCodes = {"app"}
    Modes = {TRUE, FALSE}
    Relists = TRUE
    Confirmations = 2
    MaxVersion = 3
SPECIFICATION Spec
INVARIANTS
    CacheFollowsPods
    ComparisonIsOrderFree
PROPERTIES
    CorrectionsGiveWay
    ConfirmedEmptyIsEmpty
CHECK_DEADLOCK FALSE
