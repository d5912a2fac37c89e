CONSTANTS
    s1 = s1
    s2 = s2
    Senders = {s1, s2}
    Adverters = {s1, s2}
    RollCallers = {}
    MaxDepth = 2
    Spacing = 1
    Guard = 1
    MaxRx = 0
    AdvertCooldown = 3
    BotsCooldown = 3
    DelayMin = 1
    DelayMax = 2
SPECIFICATION BroadcastSpec
PROPERTY AdvertOncePerCooldown
