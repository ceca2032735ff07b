SPECIFICATION Spec
CONSTANTS
    Rows = {r1}
    Pages = {p1, p2}
    Threshold = 3
    Cycle = 2
    AddrListMax = 3
    Counts = {0, 2}
    MaxTime = 4
    MaxEvents = 4
SYMMETRY RowSymmetry
INVARIANTS SlidingWindow
PROPERTIES HotRowsAreOfflined OfflinedIsRemembered
CHECK_DEADLOCK FALSE
