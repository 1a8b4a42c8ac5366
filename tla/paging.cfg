SPECIFICATION PagingSpec
CONSTANTS
    Initial = 4
    MaxSeq = 5
    MaxDeletes = 2
    MaxFaults = 1
    Cap = 2
    Limits <- MCLimits
    Batch = 2
INVARIANTS NoHoles ExportMissesFew
PROPERTY ScrollingReachesAll
CHECK_DEADLOCK FALSE
