\* One session edits and closes while the saver passes.
SPECIFICATION Spec
CONSTANTS
    Sessions = {s1}
    Docs = {d1}
    Saver = saver
    Free = free
    NoDoc = nodoc
    CommitCanFail = FALSE
    MaxSites = 1
    MaxEdits = 1
PROPERTIES
    RemovedAreSaved
