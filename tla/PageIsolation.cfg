SPECIFICATION Spec
CONSTANTS
    Pages = {p1, p2}
    Threshold = 3
    Cycle = 2
    ULONG = 64
    UINT = 32
    OutOfOrder = FALSE
    MaxTime = 5
    MaxTotal = 5
SYMMETRY PageSymmetry
INVARIANTS TypeOK IsolatedIffHot CycleConserved
PROPERTIES OfflinedForGood HardIsLastResort RefreshOnlyAfterCycle
CHECK_DEADLOCK FALSE
