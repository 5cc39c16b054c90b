SPECIFICATION Spec
CONSTANTS
    FrameSize = 2
    SockRoom = 1
    MaxPending = 1
    TlsPeers = {1, 2, 3, 4, 5}
    MaxSessions = 1
    Budget <- Budgets
    Frames <- TlsFrames
    Oversized <- SecondBad
    QuicPeers = {11, 12, 13, 14}
    MaxConns = 1
    EventCapacity = 2
    MaxOut = 1
    QuicFrames <- StreamFrames
    TooLong <- TwelfthBad
    Roaming = {12}
    Groups <- Alone
INVARIANTS HeardOut
PROPERTIES KeepsContract EventuallyCarried
CHECK_DEADLOCK FALSE
