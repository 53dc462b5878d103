SPECIFICATION HostedSpec
CONSTANTS
    e1 = e1
    v1 = v1
    b1 = b1
    b2 = b2
    b3 = b3
    k1 = k1
    p1 = p1
    p2 = p2
    w1 = w1
    w2 = w2
    NoKey = NoKey
    Environments = {e1}
    Versions = {v1}
    Digests = {b1, b2, b3}
    Keys = {k1}
    CleanupBatch = 1
    MaxDeployments = 1
    MaxOperations = 1
    Processes = {p1}
    Workers = {w1}
    Home <- SoleHome
    Requests <- Keyed
    RollbackConfigured <- AllConfigured
    PrecheckConfigured <- AllConfigured
    MaxVerificationAttempts = 1
    MaxCrashes = 1
    SingleInstance = TRUE
    StorageFaults = FALSE
    TransportLoss = FALSE
    Contracts <- TwoContracts
    NotConfigured = NotConfigured
    NoReference = NoReference
    SizeOf <- Sizes
    Grants <- WithOrWithoutRollback
INVARIANTS
    ReferenceOfItsContract
CHECK_DEADLOCK FALSE
