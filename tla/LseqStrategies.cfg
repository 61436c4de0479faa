\* A site that edits a text other sites have made deep.
SPECIFICATION Spec
CONSTANTS
    Begin = 0
    End = 2
    Boundary = 2
    Sites = {1, 2}
    MaxSymbols = 4
INVARIANTS
    OneStrategyPerDepth
CHECK_DEADLOCK FALSE
