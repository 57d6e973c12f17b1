SPECIFICATION Spec
CONSTANTS
    Configs <- Deployments
    MaxWins = 2
    MaxFailures = 0
    DialAttempts = 2
    ProviderNames <- Configured
INVARIANT
    BeliefMatchesObservation
CHECK_DEADLOCK FALSE
