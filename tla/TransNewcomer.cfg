\* A user comes in by the link of a document in memory while it is opened.
SPECIFICATION Spec
CONSTANTS
    u1 = u1
    u2 = u2
    Sessions = {s1, s2}
    Users = {u1, u2}
    NoUser = nouser
    Docs = {d1}
    NoDoc = nodoc
    Owner <- OneOwner
INVARIANTS
    UsersHaveSites
