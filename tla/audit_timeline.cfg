SPECIFICATION AuditSpec
CONSTANTS
    e1 = e1
    v1 = v1
    b1 = b1
    NoKey = NoKey
    Environments = {e1}
    Versions = {v1}
    Digests = {b1}
    Keys = {}
    CleanupBatch = 1
    MaxDeployments = 1
    MaxOperations = 2
    RetentionTime = 1
    MaxTime = 2
    MaxAttempts = 1
    MaxReads = 1
INVARIANTS
    TimelineFollowsCauses
    TransitionsLeadToState
    PrunedWhenOld
    DetailsReachState
PROPERTIES
    HistoryAppends
CHECK_DEADLOCK FALSE
