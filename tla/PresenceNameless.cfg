\* A user joins by the link while the document is opened elsewhere.
SPECIFICATION Spec
CONSTANTS
    ann = ann
    bob = bob
    Clients = {1, 2}
    Users = {ann, bob}
    UserOf <- TwoOfBob
    Authors <- OnlyAnn
    NWorkers = 2
    WorkerOf <- OwnWorker
    Frail = {}
    MaxSites = 2
    MaxMoves <- NoMoves
INVARIANTS
    NobodyNameless
CHECK_DEADLOCK FALSE
