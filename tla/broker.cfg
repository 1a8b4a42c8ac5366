CONSTANTS
    p1 = p1
    q1 = q1
    q2 = q2
    q3 = q3
    Procs <- OneProc
    Polls <- ThreePolls
    Home <- HomesOneProc
    QueueCap = 1
    MaxPublish = 2
    MaxLost = 1
SPECIFICATION FairSpec
INVARIANTS NoLeak NoLostWakeup
PROPERTIES DuePollsEnd ReadersEnd
CHECK_DEADLOCK FALSE
