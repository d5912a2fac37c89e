CONSTANTS
    p1 = p1
    p2 = p2
    NoPlayer = NoPlayer
    Players = {p1, p2}
    Admins = {}
    MaxWatchers = 1
    MaxNum = 2
    MaxActive = 2
    MaxBacklog = 1
    PollOn = FALSE
    Faults = {"http", "slow"}
    Ops = {"start", "end", "watch", "reset"}
    Numbers = {1, 2}
    NoNumber = 0
    Streams = {1, 2, 3}
    MaxStreams = 2
    StreamQueue = 2
    t1 = t1
    t2 = t2
    Loggers = {t1, t2}
    NoThread = NoThread
    Tails = {1, 2}
    MaxRecords = 4
    BufferSize = 2
    MaxTails = 1
    TailQueue = 1
    Slots = {0, 1}
    x = x
    Names = {x}
    k1 = k1
    k2 = k2
    Keys = {k1, k2}
    Hash <- MCHash
    Blank = Blank
    Served = {0}
    c1 = c1
    c2 = c2
    Clients = {c1, c2}
    NoClient = NoClient
    CacheSeconds = 2
    WriteGap = 1
    LinkFaults = {"raise", "silent", "unread", "refuse"}
    Texts <- MCTexts
    Leads = {0, 2, 4, 12, 13}
    MaxChars = 13
SYMMETRY Symmetry
SPECIFICATION MCSpec
INVARIANTS StartingHasNoSession IndexInverse WatchConsistent NoSelfWatch
           StreamCountExact EndStillToCome TailComplete
           CacheIsTrue AddFindsBlank PackedWell
PROPERTIES NumbersNotReused RegSpec OkIsRadios
