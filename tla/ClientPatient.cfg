\* A user who waits for answers beside an impatient one.
SPECIFICATION FairSpec
CONSTANTS
    n1 = n1
    u1 = u1
    u2 = u2
    c1 = c1
    Clients = {c1, c2}
    Users = {u1, u2}
    NoUser = nouser
    Names = {n1}
    Accounts = {u1}
    Stored <- OneDocument
    Patient = {c1}
    Faces = {old, new, wrong}
    NoFace = noface
    OldFace = old
    Invalid = {wrong}
    MaxRequests <- FiveAndFour
INVARIANTS
    TypeOK
    WindowsAgree
    NoBadClient
    OpenedIsAccessible
PROPERTIES
    KeepsProtocol
    FormsComeBack
CHECK_DEADLOCK FALSE
