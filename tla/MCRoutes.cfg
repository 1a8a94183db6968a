SPECIFICATION Spec
CONSTANTS
    Delivery = {d1, d2}
    Stop = {1, 2}
    FirstSeq <- MCFirstSeq
    Selections <- MCSelections
    Lists <- MCLists
    Key = {k1}
    Procs = {p1, p2}
    None = None
    MaxRoutes = 3
    MaxStopTx = 1
SYMMETRY MCSymmetry
CHECK_DEADLOCK FALSE
INVARIANTS RoutesAreComplete OneRoutePerKey NoUniqueFailure NoCircularWait
