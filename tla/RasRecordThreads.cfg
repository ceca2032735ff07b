SPECIFICATION Spec
CONSTANTS
    Threads = {t1, t2}
    Events = {e1, e2}
    NCols = 2
    NoEvent = NoEvent
INVARIANTS RowsAreEvents
CHECK_DEADLOCK FALSE
