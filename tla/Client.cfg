SPECIFICATION Spec
CONSTANTS
    None = None
    Nobody = Nobody
    MaxFaults = 2
    MaxGenerations = 2
    MaxSeq = 3
    MaxCalls = 3
    MaxNotices = 2
    MaxStream = 2
    MaxMissing = 1
INVARIANT NeverShownAgain
INVARIANT TlsTried
INVARIANT NothingSkipped
PROPERTY EventuallyEnds
CHECK_DEADLOCK FALSE
