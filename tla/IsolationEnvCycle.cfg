SPECIFICATION Spec
CONSTANTS
    ULONG = 1000000
    MaxValue = 48
INVARIANTS CycleAsDocumented
