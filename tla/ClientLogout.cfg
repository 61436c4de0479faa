\* A user logs out while a document is on its way.
SPECIFICATION Spec
CONSTANTS
    n1 = n1
    u1 = u1
    u2 = u2
    c1 = c1
    Clients = {c1}
    Users = {u1, u2}
    NoUser = nouser
    Names = {n1}
    Accounts = {u1, u2}
    Stored <- OneDocument
    Patient = {}
    Faces = {old}
    NoFace = noface
    OldFace = old
    Invalid = {}
    MaxRequests <- Four
INVARIANTS
    WindowsAlwaysAgree
CHECK_DEADLOCK FALSE
