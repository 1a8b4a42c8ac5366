CONSTANTS
    Writers = {w1}
    Clients = {c1}
    None = None
    Initial = 2
    MaxSeq = 3
    InitPage = 2
    MaxEdits = 2
    MaxDeletes = 1
    Events <- Failing
    MaxEvents = 1
SPECIFICATION FairSpec
INVARIANTS PassedDeletions PassedEdits
PROPERTIES DeletionsArrive EditsArrive
