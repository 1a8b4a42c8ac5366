SPECIFICATION Spec
CONSTANTS
    e1 = e1
    e2 = e2
    r1 = r1
    ann = ann
    bob = bob
    cat = cat
    sly = sly
    i1 = i1
    i2 = i2
    i3 = i3
    i4 = i4
    None = None
    Parent = Parent
    Events <- MCEvents
    Rooms <- MCRooms
    Clients <- MCClients
    ChatIds <- MCChatIds
    Claims <- MCClaims
    Asks <- MCAsks
    MaxSeq = 2
    MaxFaults = 2
SYMMETRY IdSymmetry
INVARIANTS SameRoomSameChat SeqsAreDense OpenCanSend
PROPERTIES RefinesRoomLogs
