\* A user saves a profile after the connection was lost.
SPECIFICATION Spec
CONSTANTS
    n1 = n1
    u1 = u1
    u2 = u2
    c1 = c1
    Clients = {c1}
    Users = {u1, u2}
    NoUser = nouser
    Names = {}
    Accounts = {u1, u2}
    Stored = {}
    Patient = {c1}
    Faces = {old, new}
    NoFace = noface
    OldFace = old
    Invalid = {}
    MaxRequests <- Five
INVARIANTS
    NoNullPointer
CHECK_DEADLOCK FALSE
