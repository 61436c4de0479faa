\* A client that joins through another worker than the one that edits.
SPECIFICATION Spec
CONSTANTS
    Clients = {1, 2}
    Sites = {1, 2}
    Joiners = {2}
    NWorkers = 2
    WorkerOf <- OwnWorker
    MaxPos = 1
    MaxCount = 2
    Formats = {0}
    DefaultFormat = 0
    Formatters = {1, 2}
    Replacing = FALSE
    MaxEdits = 2
INVARIANTS
    NoDuplicates
CHECK_DEADLOCK FALSE
