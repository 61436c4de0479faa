\* A user cancels and opens the profile dialog again before the answer.
SPECIFICATION Spec
CONSTANTS
    n1 = n1
    u1 = u1
    u2 = u2
    c1 = c1
    Clients = {c1}
    Users = {u1, u2}
    NoUser = nouser
    Names = {}
    Accounts = {u1, u2}
    Stored = {}
    Patient = {}
    Faces = {old, new}
    NoFace = noface
    OldFace = old
    Invalid = {}
    MaxRequests <- Six
INVARIANTS
    ProfileAlwaysShown
CHECK_DEADLOCK FALSE
