CONSTANTS
    a = a
    NoPlayer = NoPlayer
    Players = {a}
    MaxEvents = 4
    QueueSize = 3
    BatchSize = 2
    Faulty = TRUE
    zork = zork
    Channels = {zork}
    p1 = p1
    p2 = p2
    p3 = p3
    Contacts = {p1, p2, p3}
    NoContact = NoContact
    Elsewhere = Elsewhere
    RadioRoom = 2
    FlushCap = 2
    Window = 2
    MaxContacts = 2
    MaxRecorded = 4
    s1 = s1
    s2 = s2
    s3 = s3
    s4 = s4
    Senders = {s1, s2, s3, s4}
    Adverters = {s1, s2}
    RollCallers = {s4}
    MaxDepth = 3
    Spacing = 1
    Guard = 2
    MaxRx = 2
    AdvertCooldown = 3
    BotsCooldown = 3
    DelayMin = 1
    DelayMax = 2
SPECIFICATION MCSpec
INVARIANTS RollbackNeedsFault OldNotAnswered WindowsRecent
           TypeOK OneOnAir DepthExact NoLostWakeup
PROPERTIES EventLogSpec EventsSettled StartupEnds
           QuietAirAtStart FirstComeFirstServed EveryPacketLeaves BroadcastGaps
