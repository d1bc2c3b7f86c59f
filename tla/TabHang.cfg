SPECIFICATION Spec
CONSTANTS
    a = a
    b = b
    c = c
    NoPane = NoPane
    Panes = {a, b, c}
    Sizes <- MCSizes
    Requests <- MCRequests
    Gap = 0
    Deltas <- MCDeltas
    MaxMoves = 3
SYMMETRY MCSymmetry
INVARIANT ResizeReturns
CHECK_DEADLOCK FALSE
