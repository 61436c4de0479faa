\* Two sessions open the same document.
SPECIFICATION Spec
CONSTANTS
    Sessions = {s1, s2}
    Docs = {d1}
    Saver = saver
    Free = free
    NoDoc = nodoc
    CommitCanFail = FALSE
    MaxSites = 2
    MaxEdits = 1
INVARIANTS
    CursorsHaveUsers
