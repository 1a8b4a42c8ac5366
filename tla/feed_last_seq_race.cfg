CONSTANTS
    Writers = {w1, w2}
    Clients = {c1}
    None = None
    InitPage = 1
    PageLimit = 1
    MaxSeq = 2
    MaxChanges = 0
    MaxFaults = 0
SPECIFICATION FairSpec
PROPERTY EventuallyShown
