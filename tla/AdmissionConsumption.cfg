\* Clock skew and frame stall are together below the retention slack.
SPECIFICATION MCSpec
CONSTANTS
    a = a
    b = b
    c = c
    Attempts = {a, b, c}
    Owner <- ReusedOwner
    Skew <- BAhead
    Until = 1
    ReservationTtl = 1
    RetentionSlack = 3
    MaxTries = 2
    MaxSkew = 1
    MaxStall = 1
    MaxTime = 3
    None = None
    Logins = {1}
    Leeway = 1
    IdentityTtl = 2
    NumberTtl = 2
    GrantWindow = 1
    TicketTtl = 1
    Skews <- SomeSkews
    MaxKey = 2
    MaxClock = 5
CHECK_DEADLOCK FALSE
INVARIANT AtMostOnce
INVARIANT RedeemedOnce
INVARIANT GoodAccepted
PROPERTY ConsumedForGood
PROPERTY ActsAtomically
