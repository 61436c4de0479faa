\* Two sites may draw the same position for different symbols.
SPECIFICATION Spec
CONSTANTS
    Begin = 0
    End = 3
    Boundary = 2
    Sites = {1, 2}
    MaxSymbols = 3
INVARIANTS
    NoOutOfBounds
CHECK_DEADLOCK FALSE
