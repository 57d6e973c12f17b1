SPECIFICATION Spec
CONSTANTS
    Configs <- Deployments
    MaxWins = 2
    MaxFailures = 1
    DialAttempts = 2
    ProviderNames <- Configured
INVARIANTS
    NoRogueProviders
    NothingLeaks
PROPERTIES
    StopQuiesces
    LeaderServes
CHECK_DEADLOCK FALSE
