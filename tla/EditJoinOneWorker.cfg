\* A client joins a session of a typing and a formatting user, one worker.
SPECIFICATION Spec
CONSTANTS
    Clients = {1, 2, 3}
    Sites = {1, 2, 3}
    Joiners = {3}
    NWorkers = 1
    WorkerOf <- OneWorker
    MaxPos = 2
    MaxCount = 4
    Formats = {0, 1}
    DefaultFormat = 0
    Formatters = {1}
    Replacing = FALSE
    MaxEdits = 4
INVARIANTS
    ViewsCoherent
    NoDuplicates
PROPERTIES
    NoResurrection
CHECK_DEADLOCK FALSE
