SPECIFICATION Spec
CONSTANTS
    a1 = a1
    a2 = a2
    i1 = i1
    Artifacts = {a1, a2}
    Images = {i1}
    Absent = Absent
    MaxRows = 3
    Contracts <- FiveContracts
    NotConfigured = NotConfigured
INVARIANTS
    DeploymentsReadAsMeant
    DriftSeenAcrossReleases
    NoBlankReference
CHECK_DEADLOCK FALSE
