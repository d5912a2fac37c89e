CONSTANTS
    Slots = {0, 1}
    x = x
    Names = {x}
    k1 = k1
    k2 = k2
    Keys = {k1, k2}
    Hash <- MCHash
    Blank = Blank
    Served = {0}
    c1 = c1
    Clients = {c1}
    NoClient = NoClient
    CacheSeconds = 1
    WriteGap = 1
    LinkFaults = {"refuse"}
SPECIFICATION MCSpec
PROPERTY RejectionReadsAsFailure
