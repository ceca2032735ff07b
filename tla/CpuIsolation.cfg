SPECIFICATION Spec
CONSTANTS
    CPUs = {c1, c2}
    ConfLimit = 3
    Threshold = 3
    Cycle = 2
    Reports <- MCReports
    MaxToggles = 1
    MaxTime = 3
    MaxEvents = 4
INVARIANTS LimitKept
PROPERTIES IsolatedOnWindow
CHECK_DEADLOCK FALSE
