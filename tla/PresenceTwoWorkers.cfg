\* Ann's client on one worker; Bob's on both.
SPECIFICATION Spec
CONSTANTS
    ann = ann
    bob = bob
    Clients = {1, 2, 3}
    Users = {ann, bob}
    UserOf <- TwoOfBob
    Authors <- OnlyAnn
    NWorkers = 2
    WorkerOf <- TwoAndOne
    Frail = {2}
    MaxSites = 3
    MaxMoves <- OneBySecond
INVARIANTS
    TypeOK
    UsersAgree
    UsersKnown
    NoGhosts
CHECK_DEADLOCK FALSE
