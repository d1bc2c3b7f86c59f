SPECIFICATION Spec
CONSTANTS
    a = a
    b = b
    c = c
    d = d
    NoPane = NoPane
    Panes = {a, b, c, d}
    Sizes <- MCSizes
    Requests <- MCRequests
    Gap = 0
    Deltas <- MCDeltas
    MaxMoves = 2
SYMMETRY MCSymmetry
INVARIANTS
    TypeOK
PROPERTIES
    PanesKeepLayout
    SizesKeepLayout
    DragStaysInside
    FocusKept
CHECK_DEADLOCK FALSE
