\* A connection gets a descriptor whose session is still to be closed.
SPECIFICATION Spec
CONSTANTS
    NWorkers = 2
    Descriptors = {f1, f2, f3}
    MaxConnections = 3
INVARIANTS
    SessionsAlwaysOwn
CHECK_DEADLOCK FALSE
