SPECIFICATION Spec
CONSTANTS
    None = None
    Shards = {1, 2}
    Instances = {1, 2}
    Positions = {1}
    MaxSessions = 2
    MaxSeq = 2
    MaxVersion = 2
    MaxJobs = 2
    MaxOutstanding = 1
    MaxFaults = 1
    Faulty = {1}
    Kinds = {"timeout", "uncertain", "select", "reset", "discovery", "crash", "drain", "realm", "expire"}
INVARIANT ActiveCommitted
INVARIANT AnswersTrue
INVARIANT NoGhost
INVARIANT LiveNotReleased
CHECK_DEADLOCK FALSE
