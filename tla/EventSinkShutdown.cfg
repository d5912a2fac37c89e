CONSTANTS
    a = a
    NoPlayer = NoPlayer
    Players = {a}
    MaxEvents = 4
    QueueSize = 4
    BatchSize = 2
    Faulty = FALSE
SPECIFICATION SinkSpec
INVARIANT ShutdownClosesRows
CHECK_DEADLOCK FALSE
