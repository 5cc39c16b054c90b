\* Clocks never step back; a write that timed out is not applied later.
\* No symmetry with a liveness property.
SPECIFICATION FairSpec
CONSTANTS
    Identities = {a, b}
    Expiry = 2
    IdentityExpiry <- SameExpiry
    NumberTtl = 2
    GrantWindow = 1
    Leeway = 1
    LeaseBucket = 2
    ReleaseStep = 2
    MaxAllowance = 2
    MaxNumber = 3
    MaxTime = 3
    MaxStepBack = 0
    MaxLate = 0
CHECK_DEADLOCK FALSE
INVARIANT UniqueNumbers
INVARIANT RestartAccepted
PROPERTY ReleasesKept
PROPERTY EventuallyReleased
