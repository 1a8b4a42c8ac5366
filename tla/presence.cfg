SPECIFICATION Spec
CONSTANTS
    c1 = c1
    c2 = c2
    t1 = t1
    t2 = t2
    Calls <- MCCalls
    Tabs <- MCTabs
    Limit = 2
    Window = 4
    Delay = 1
    Interval = 2
    TTL = 4
    MaxFaults = 1
    MaxOther = 1
    MaxTime = 7
SYMMETRY MCSymmetry
INVARIANTS WithinLimit RejectedWithCause OpenTabCounted GhostsFade
CHECK_DEADLOCK FALSE
