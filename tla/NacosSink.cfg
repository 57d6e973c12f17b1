CONSTANTS
    x = x  y = y  z = z  u = u  v = v
    wx = wx  wz = wz  wu = wu
    A = A  B = B
    api = api  web = web  east = east
    NoInstance = NoInstance
    Foreign = Foreign
    NoSource = NoSource
    Instances = {x, y, z, u, v}
    Wires = {wx, wz, wu}
    WireOf <- MCWireOf
    SourceOf <- MCSourceOf
    Pairs = {api, web}
    PairOf <- MCPairOf
    ClusterOf <- MCClusterOf
    Snapshots <- MCSnapshots
    InitialCatalogs <- MCInitialCatalogs
    Scopes = {east}
    Concurrency = 2
    BatchSize = 1
    MaxPushes = 3
    MaxFaults = 1
    MaxRestarts = 1
SPECIFICATION Spec
INVARIANTS
    NobodyStranded
    NoClaimLeftBehind
    FullPushIsExact
    BatchesPartition
    ListingIsComplete
    ReadinessLeavesNothing
PROPERTIES
    HealthCheckFirst
    NoTakeover
CHECK_DEADLOCK FALSE
