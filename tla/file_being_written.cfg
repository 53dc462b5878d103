SPECIFICATION FileSpec
CONSTANTS
    build1 = build1
    build2 = build2
    outside = outside
    x = x
    y = y
    CanonicalPath = {build1, build2, outside}
    Allowed = {build1, build2}
    Block = {x, y}
    MaxLength = 2
    MaxWrites = 2
INVARIANTS
    RecordedWasThere
    StagedAsRecorded
CHECK_DEADLOCK FALSE
