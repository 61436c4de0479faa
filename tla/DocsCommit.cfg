\* A commit fails.
SPECIFICATION Spec
CONSTANTS
    Sessions = {s1}
    Docs = {d1}
    Saver = saver
    Free = free
    NoDoc = nodoc
    CommitCanFail = TRUE
    MaxSites = 1
    MaxEdits = 1
INVARIANTS
    CleanIsSaved
