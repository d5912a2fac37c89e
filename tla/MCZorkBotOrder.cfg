CONSTANTS
    p1 = p1
    p2 = p2
    NoPlayer = NoPlayer
    Players = {p1, p2}
    Admins = {p2}
    MaxWatchers = 1
    MaxNum = 1
    MaxActive = 1
    MaxBacklog = 1
    PollOn = FALSE
    Faults = {}
    Ops = {"start", "adminEnd", "watch", "game"}
SPECIFICATION Spec
INVARIANT NothingAfterNotice
