CONSTANTS
    Writers = {w1}
    Clients = {c1}
    None = None
    InitPage = 1
    PageLimit = 1
    MaxSeq = 3
    MaxChanges = 1
    MaxFaults = 0
SPECIFICATION FairSpec
PROPERTIES EventuallyShown PollParks
