\* One user changes the format of what another one types; three workers.
SPECIFICATION Spec
CONSTANTS
    Clients = {1, 2, 3}
    Sites = {1, 2, 3}
    Joiners = {}
    NWorkers = 3
    WorkerOf <- OwnWorker
    MaxPos = 1
    MaxCount = 2
    Formats = {0, 1}
    DefaultFormat = 0
    Formatters = {1}
    Replacing = FALSE
    MaxEdits = 2
INVARIANTS
    ViewsCoherent
CHECK_DEADLOCK FALSE
