SPECIFICATION Spec
CONSTANTS
    g1 = g1
    g2 = g2
    k1 = k1
    k2 = k2
    ecs1 = ecs1
    ecs2 = ecs2
    k8s = k8s
    Callers <- MCCallers
    Keys <- MCKeys
    Scopes = {k8s}
    ScopeOf <- Kubernetes
    ClusterOf <- SourceCluster
    FullKinds = {"operation"}
    Drifting = {}
    MaxRev = 2
    MaxEvents = 3
    MaxFailures = 1
    NoCaller = NoCaller
    None = None
SYMMETRY Symmetry
INVARIANTS
    ConfirmedEmptyPrunes
