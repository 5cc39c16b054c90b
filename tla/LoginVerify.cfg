SPECIFICATION Spec
CONSTANTS
    Clients = {1, 2}
    Script <- Scripts
    Descriptors = {1}
    MaxConnections = 1
    MaxInput = 3
    MaxOutput = 1
    SockRoom = 1
    Workers = 1
    Capacity = 1
INVARIANTS OwnAnswers
PROPERTIES EventuallyAnswered
CHECK_DEADLOCK FALSE
