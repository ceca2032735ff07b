SPECIFICATION StartSpec
CHECK_DEADLOCK FALSE
CONSTANTS
    ULONG = 256
    MaxValue = 260
    Modelled = {"mc_event", "mce_record", "net_dev_xmit_timeout", "signal_generate"}
    Absent <- MCAbsent
    Disables <- MCDisables
    Records = {"r1", "r2"}
    Cpus <- MCCpus
    CpuInfos <- MCCpuInfos
    MaxRuns = 2
    MaxCommands = 1
    MaxFaults = 1
INVARIANTS FlaggedOrExact CountedIsHeard DisableStops SignalsFiltered ErstNotLost CpuTypeDecoded
