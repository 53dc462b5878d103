SPECIFICATION FairSpec
CONSTANTS
    e1 = e1
    e2 = e2
    v1 = v1
    b1 = b1
    k1 = k1
    p1 = p1
    p2 = p2
    w1 = w1
    w2 = w2
    NoKey = NoKey
    Environments = {e1, e2}
    Versions = {v1}
    Digests = {b1}
    Keys = {k1}
    CleanupBatch = 1
    MaxDeployments = 1
    MaxOperations = 1
    Processes = {p1}
    Workers = {w1, w2}
    Home <- OneHome
    Requests <- EitherEnvironment
    RollbackConfigured <- ConfiguredForE1
    PrecheckConfigured <- ConfiguredForE1
    MaxVerificationAttempts = 2
    MaxCrashes = 2
    SingleInstance = TRUE
    StorageFaults = TRUE
    TransportLoss = TRUE
PROPERTIES
    RollbackIsTried
    ServesRecovered
    RequestEnds
    StartupEnds
CHECK_DEADLOCK FALSE
