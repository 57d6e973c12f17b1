CONSTANTS
    Keys = {p}
    Shapes <- PodShapes
    PushAppCodes = {"app"}
    Modes = {TRUE}
    Relists = FALSE
    Confirmations = 2
    MaxVersion = 3
SPECIFICATION Spec
INVARIANT NoGhosts
CHECK_DEADLOCK FALSE
