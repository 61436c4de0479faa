\* The sharing of a link is not committed.
SPECIFICATION Spec
CONSTANTS
    u1 = u1
    u2 = u2
    Sessions = {s1, s2}
    Users = {u1, u2}
    NoUser = nouser
    Docs = {d1}
    NoDoc = nodoc
    Owner <- OneOwner
INVARIANTS
    Defined
