\* Two connections share a fetch slot; the inbound queue overflows, the I/O loop
\* may fail and the service stop.
SPECIFICATION Spec
CONSTANTS
    Conns = {1, 2}
    MaxSessions = 2
    InboundCapacity = 1
    OutboundCapacity = 1
    MaxCommands = 1
    MaxMessages = 1
    MaxBatch = 1
    Moves = FALSE
    FetchCapacity = 1
    Workers = 1
    RetryMax = 1
    MaxEvents = 1
    MaxAttempts = 2
    MayFail = TRUE
CHECK_DEADLOCK FALSE
INVARIANT Accounting
INVARIANT HandlesSettled
PROPERTY NoReleaseAfterCommit
