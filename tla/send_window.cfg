SPECIFICATION Spec
CONSTANTS
    k1 = k1
    d1 = d1
    o1 = o1
    o2 = o2
    Sends <- MCSends
    Deletes <- MCDeletes
    Others <- MCOthers
    PageLimit = 2
    MaxSeq = 2
    MaxFaults = 1
INVARIANTS PaleWhilePending OnceUnlessOvertaken
PROPERTIES EveryMessageAppears DeletedDisappear
CHECK_DEADLOCK FALSE
