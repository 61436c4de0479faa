\* Connections come and go in any order; a descriptor is free before its session is closed.
SPECIFICATION Spec
CONSTANTS
    NWorkers = 3
    Descriptors = {f1, f2, f3}
    MaxConnections = 4
INVARIANTS
    TypeOK
    SessionsOwn
    Balanced
CHECK_DEADLOCK FALSE
