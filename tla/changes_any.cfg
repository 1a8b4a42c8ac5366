CONSTANTS
    Writers = {w1, w2}
    Clients = {c1}
    None = None
    Initial = 2
    MaxSeq = 3
    InitPage = 1
    MaxEdits = 1
    MaxDeletes = 1
    Events <- AllEvents
    MaxEvents = 3
SPECIFICATION Spec
SYMMETRY Symmetry
INVARIANTS OnlyDeletedVanish
PROPERTY StaysRemoved
