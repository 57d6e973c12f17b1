CONSTANTS
    Keys = {p}
    Shapes <- PodShapes
    PushAppCodes = {"app"}
    Modes = {TRUE, FALSE}
    Relists = TRUE
    Confirmations = 2
    MaxVersion = 2
SPECIFICATION FairSpec
PROPERTIES
    ShutdownCompletes
    LivePodsAreServed
CHECK_DEADLOCK FALSE
