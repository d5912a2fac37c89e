CONSTANTS
    p1 = p1
    p2 = p2
    NoPlayer = NoPlayer
    Players = {p1, p2}
    Admins = {}
    MaxWatchers = 1
    MaxNum = 1
    MaxActive = 1
    MaxBacklog = 1
    PollOn = FALSE
    Faults = {}
    Ops = {"start", "watch", "game"}
SYMMETRY Symmetry
SPECIFICATION Spec
INVARIANT EveryEndNotifies
