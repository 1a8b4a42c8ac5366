CONSTANTS
    Writers = {w1, w2}
    Clients = {c1}
    None = None
    InitPage = 1
    PageLimit = 2
    MaxSeq = 3
    MaxChanges = 0
    MaxFaults <- FewerThanAPage
SPECIFICATION FairSpec
CHECK_DEADLOCK FALSE
INVARIANTS StoredIsPrefix NoHoles
PROPERTIES RefinesOrderedFeed Delivery
