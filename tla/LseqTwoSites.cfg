\* Two sites type and erase concurrently; nodes have two inner children.
SPECIFICATION Spec
CONSTANTS
    Begin = 0
    End = 3
    Boundary = 2
    Sites = {1, 2}
    MaxSymbols = 3
INVARIANTS
    TypeOK
    Sorted
    SameSymbolsSameText
    RoomBetweenDifferent
CHECK_DEADLOCK FALSE
