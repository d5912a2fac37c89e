CONSTANTS
    p1 = p1
    p2 = p2
    NoPlayer = NoPlayer
    Players = {p1, p2}
    Admins = {}
    MaxWatchers = 1
    MaxNum = 2
    MaxActive = 2
    MaxBacklog = 1
    PollOn = FALSE
    Faults = {}
    Ops = {"start", "end", "watch", "reset"}
SYMMETRY Symmetry
SPECIFICATION Spec
INVARIANT PlayingXorWatching
