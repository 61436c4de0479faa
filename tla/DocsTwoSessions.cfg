\* Two sessions share two documents.
SPECIFICATION Spec
CONSTANTS
    Sessions = {s1, s2}
    Docs = {d1, d2}
    Saver = saver
    Free = free
    NoDoc = nodoc
    CommitCanFail = TRUE
    MaxSites = 2
    MaxEdits = 1
SYMMETRY Symmetry
INVARIANTS
    TypeOK
    RefCounts
    NoDangling
PROPERTIES
    DbKeepsEdits
    StoresDocuments
