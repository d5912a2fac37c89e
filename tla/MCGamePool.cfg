CONSTANTS
    a = a
    b = b
    r1 = r1
    r2 = r2
    NoPlayer = NoPlayer
    Players = {a, b}
    Requests = {r1, r2}
    MaxActive = 1
    GiveUp = TRUE
    MaxMgr = 2
    MaxMoves = 1
SYMMETRY Symmetry
SPECIFICATION Spec
INVARIANTS TypeOK PoolBound EntryNotClosed ProcessOwned BusyIsTemporary ResetStartsFresh
