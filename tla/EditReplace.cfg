\* A user types over a selected character.
SPECIFICATION Spec
CONSTANTS
    Clients = {1, 2}
    Sites = {1, 2}
    Joiners = {}
    NWorkers = 1
    WorkerOf <- OneWorker
    MaxPos = 1
    MaxCount = 2
    Formats = {0}
    DefaultFormat = 0
    Formatters = {1, 2}
    Replacing = TRUE
    MaxEdits = 2
INVARIANTS
    ViewsCoherent
CHECK_DEADLOCK FALSE
