\* Two sessions and the saver on one document.
SPECIFICATION FairSpec
CONSTANTS
    Sessions = {s1, s2}
    Docs = {d1}
    Saver = saver
    Free = free
    NoDoc = nodoc
    CommitCanFail = FALSE
    MaxSites = 3
    MaxEdits = 1
INVARIANTS
    SitesDistinct
    CleanIsSaved
PROPERTIES
    RequestsEnd
    EditsSaved
