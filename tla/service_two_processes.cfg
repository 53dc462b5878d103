SPECIFICATION AnswerSpec
CONSTANTS
    e1 = e1
    v1 = v1
    b1 = b1
    b2 = b2
    k1 = k1
    p1 = p1
    p2 = p2
    w1 = w1
    w2 = w2
    NoKey = NoKey
    Environments = {e1}
    Versions = {v1}
    Digests = {b1}
    Keys = {}
    CleanupBatch = 1
    MaxDeployments = 2
    MaxOperations = 1
    Processes = {p1, p2}
    Workers = {w1, w2}
    Home <- TwoHomes
    Requests <- Unkeyed
    RollbackConfigured <- AllConfigured
    PrecheckConfigured <- AllConfigured
    MaxVerificationAttempts = 1
    MaxCrashes = 0
    SingleInstance = FALSE
    StorageFaults = FALSE
    TransportLoss = TRUE
INVARIANTS
    DiscardedNeverMutates
    AnswersStand
    ReferencesInOrder
SYMMETRY AnyProcess
CHECK_DEADLOCK FALSE
