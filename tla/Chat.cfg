SPECIFICATION MCSpec
CONSTANTS
    None = None
    Nil = Nil
    MaxPeers = 2
    MaxConnections = 2
    MaxMembers = 2
    MaxPushes = 3
    PushesPerRound = 1
    QueuedPerLink = 2
    MaxSessions = 2
    Characters = {c, d}
    Texts = {x}
    MaxGeneration = 2
    MaxRequests = 2
    MaxFaults = 1
    MaxTogether = 5
    CallCapacity = 2
    JoinAttempts = 2
    MaxBuffered = 1
    PushCapacity = 2
    Producers = {p, q}
    Levels = {2}
    QueueCapacity = 1
    MaxEvents = 3
    MaxErrors = 1
    MaxSettings = 1
INVARIANT NothingMissed
INVARIANT AcceptedOnce
INVARIANT NoOrphanMember
INVARIANT AcceptedIsKept
SYMMETRY Symmetry
CHECK_DEADLOCK FALSE
