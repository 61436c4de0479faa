\* Two clients change the format of the same character.
SPECIFICATION Spec
CONSTANTS
    Clients = {1, 2}
    Sites = {1, 2}
    Joiners = {}
    NWorkers = 1
    WorkerOf <- OneWorker
    MaxPos = 1
    MaxCount = 3
    Formats = {0, 1, 2}
    DefaultFormat = 0
    Formatters = {1, 2}
    Replacing = FALSE
    MaxEdits = 3
INVARIANTS
    ViewsCoherent
CHECK_DEADLOCK FALSE
