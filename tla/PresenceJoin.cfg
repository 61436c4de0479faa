\* A client joins through another worker while one leaves.
SPECIFICATION Spec
CONSTANTS
    ann = ann
    bob = bob
    Clients = {1, 2}
    Users = {ann, bob}
    UserOf <- TwoOfBob
    Authors <- OnlyAnn
    NWorkers = 2
    WorkerOf <- OwnWorker
    Frail = {2}
    MaxSites = 2
    MaxMoves <- OneByFirst
INVARIANTS
    CursorsKnown
CHECK_DEADLOCK FALSE
