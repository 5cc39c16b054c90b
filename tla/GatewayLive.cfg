\* A second connection takes the place of the first at max_sessions; addresses
\* change; no event is lost and, at one event in a batch, none overtakes
\* another; fair threads.
SPECIFICATION FairSpec
CONSTANTS
    Conns = {1, 2}
    MaxSessions = 1
    InboundCapacity = 8
    OutboundCapacity = 1
    MaxCommands = 1
    MaxMessages = 1
    MaxBatch = 1
    Moves = TRUE
    FetchCapacity = 1
    Workers = 1
    RetryMax = 0
    MaxEvents = 1
    MaxAttempts = 2
    MayFail = FALSE
INVARIANT ConnectionsMatched
PROPERTY EventuallySettled
