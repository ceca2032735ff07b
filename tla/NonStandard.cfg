SPECIFICATION Spec
CONSTANTS
    MaxRuns = 2
    MaxFaults = 1
    VeraSections <- MCVeraSections
    SIZE_MAX = 1073741823
INVARIANTS
    RowsOwn
    SectionKept
    VeraReadsInside
    OpenIsComplete
    UpgradeConverges
    SqlFits
CHECK_DEADLOCK FALSE
