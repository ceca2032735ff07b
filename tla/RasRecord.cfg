SPECIFICATION Spec
CONSTANTS
    Threads = {t1}
    Events = {e1, e2, e3}
    NCols = 3
    NoEvent = NoEvent
INVARIANTS TypeOK
PROPERTIES ImplementsEventLog
CHECK_DEADLOCK FALSE
