\* Three threads of sessions and a server that may end at any time.
SPECIFICATION Spec
CONSTANTS
    u1 = u1
    u2 = u2
    Sessions = {s1, s2, s3}
    Users = {u1, u2}
    NoUser = nouser
    Docs = {d1}
    NoDoc = nodoc
    Owner <- OneOwner
SYMMETRY Symmetry
INVARIANTS
    TypeOK
    SessionsHaveUsers
    SharingsHold
    OnlyNewcomersDiffer
