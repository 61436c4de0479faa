\* A client that joins through another worker than those that edit.
SPECIFICATION FairSpec
CONSTANTS
    Clients = {1, 2, 3}
    Sites = {1, 2, 3}
    Joiners = {3}
    NWorkers = 3
    WorkerOf <- OwnWorker
    MaxPos = 1
    MaxCount = 2
    Formats = {0}
    DefaultFormat = 0
    Formatters = {1, 2, 3}
    Replacing = TRUE
    MaxEdits = 2
INVARIANTS
    NothingMissing
PROPERTIES
    EveryoneLearns
CHECK_DEADLOCK FALSE
