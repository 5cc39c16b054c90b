\* Timed out writes may be applied later, and the wall clock may step back by
\* no more than the lease of a mapping outlives its identity (Bucket - Expiry).
SPECIFICATION QueueSpec
CONSTANTS
    Identities = {a, b}
    Expiry = 1
    IdentityExpiry <- SameExpiry
    NumberTtl = 1
    GrantWindow = 1
    Leeway = 1
    LeaseBucket = 2
    ReleaseStep = 1
    MaxAllowance = 1
    MaxNumber = 3
    MaxTime = 2
    MaxStepBack = 1
    MaxLate = 1
SYMMETRY Symmetry
CHECK_DEADLOCK FALSE
INVARIANT StableNumber
