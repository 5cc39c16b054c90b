\* One process with three services, one of which is followed into etcd.
SPECIFICATION Spec
CONSTANTS
    None = None
    Own = "realm"
    Required = FALSE
    Waits = {"gateway"}
    Topologies <- SomeTopologies
    Leases = {1, 2}
    MaxIncarnations = 2
    Capacity = 2
    ThresholdPct = 60
    MaxChanges = 2
    MaxFaults = 1
CHECK_DEADLOCK FALSE
INVARIANT ReadyMeansComplete
INVARIANT WholeOrDown
PROPERTY ShownWhileRunning
PROPERTY EventuallyResolved
