SPECIFICATION Spec
CONSTANTS
    e1 = e1
    v1 = v1
    b1 = b1
    NoKey = NoKey
    Environments = {e1}
    Versions = {v1}
    Digests = {b1}
    Keys = {}
    CleanupBatch = 1
    MaxDeployments = 3
    MaxOperations = 2
INVARIANTS
    TypeOK
    GuardExclusive
    IncidentSubjectFailed
    RecoveryNeverBlocked
    StartedRollbackHoldsReference
    OneActiveReference
    ConsumedByOneRollback
PROPERTIES
    HistoryIsFinal
    ImplementsGuard
CHECK_DEADLOCK FALSE
