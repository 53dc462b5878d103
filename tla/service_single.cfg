SPECIFICATION AnswerSpec
CONSTANTS
    e1 = e1
    v1 = v1
    b1 = b1
    b2 = b2
    k1 = k1
    p1 = p1
    p2 = p2
    w1 = w1
    w2 = w2
    NoKey = NoKey
    Environments = {e1}
    Versions = {v1}
    Digests = {b1, b2}
    Keys = {k1}
    CleanupBatch = 1
    MaxDeployments = 2
    MaxOperations = 1
    Processes = {p1}
    Workers = {w1, w2}
    Home <- OneHome
    Requests <- Conflicting
    RollbackConfigured <- AllConfigured
    PrecheckConfigured <- AllConfigured
    MaxVerificationAttempts = 2
    MaxCrashes = 1
    SingleInstance = TRUE
    StorageFaults = TRUE
    TransportLoss = FALSE
INVARIANTS
    IdentityStable
    LeaseHeldOnce
    RunsOnItsRecord
    AttemptsClosed
    CallsGuarded
    OneMutationAtATime
    AnswersTypeOK
    OpenAnswerHoldsEnvironment
    ReferenceToldIsKept
SYMMETRY AnyWorker
CHECK_DEADLOCK FALSE
