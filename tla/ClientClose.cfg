\* A user closes an editor while another one edits.
SPECIFICATION Spec
CONSTANTS
    n1 = n1
    u1 = u1
    u2 = u2
    c1 = c1
    Clients = {c1, c2}
    Users = {u1, u2}
    NoUser = nouser
    Names = {n1}
    Accounts = {u1, u2}
    Stored <- OneDocument
    Patient = {c1, c2}
    Faces = {old}
    NoFace = noface
    OldFace = old
    Invalid = {}
    MaxRequests <- Five
INVARIANTS
    NoNullPointer
CHECK_DEADLOCK FALSE
