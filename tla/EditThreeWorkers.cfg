\* Three clients, each on a worker of its own, with the document open.
SPECIFICATION Spec
CONSTANTS
    Clients = {1, 2, 3}
    Sites = {1, 2, 3}
    Joiners = {}
    NWorkers = 3
    WorkerOf <- OwnWorker
    MaxPos = 2
    MaxCount = 3
    Formats = {0}
    DefaultFormat = 0
    Formatters = {1, 2, 3}
    Replacing = FALSE
    MaxEdits = 3
INVARIANTS
    TypeOK
    Coherent
    ViewsAligned
    ServerNeverBuffers
PROPERTIES
    Implements
CHECK_DEADLOCK FALSE
