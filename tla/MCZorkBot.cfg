CONSTANTS
    p1 = p1
    p2 = p2
    NoPlayer = NoPlayer
    Players = {p1, p2}
    Admins = {}
    MaxWatchers = 1
    MaxNum = 1
    MaxActive = 1
    MaxBacklog = 1
    PollOn = TRUE
    Faults = {"http", "radio", "slow"}
    Ops = {"start", "end", "watch", "reset", "game", "info", "stop"}
SPECIFICATION Spec
SYMMETRY Symmetry
INVARIANTS TypeOK WorkerServesQueue OneConsumer NoticeOwed
CHECK_DEADLOCK FALSE
