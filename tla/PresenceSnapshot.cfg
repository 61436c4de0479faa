\* Two clients of one user open through two workers at once.
SPECIFICATION Spec
CONSTANTS
    ann = ann
    bob = bob
    Clients = {1, 2}
    Users = {ann, bob}
    UserOf <- TwoOfBob
    Authors <- OnlyAnn
    NWorkers = 2
    WorkerOf <- OwnWorker
    Frail = {}
    MaxSites = 2
    MaxMoves <- NoMoves
INVARIANTS
    DocumentsComplete
CHECK_DEADLOCK FALSE
