SPECIFICATION Spec
CONSTANTS
    CPUs = {c1, c2}
    ConfLimit = 1
    Threshold = 3
    Cycle = 2
    Reports <- MCReports
    MaxToggles = 0
    MaxTime = 2
    MaxEvents = 2
INVARIANTS NoSegfault
CHECK_DEADLOCK FALSE
