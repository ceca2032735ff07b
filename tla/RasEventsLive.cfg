SPECIFICATION FairSpec
CONSTANTS
    NCPUS = 2
    NDecoders = 0
    MaxFlaws = 0
    RecordEvents = TRUE
    MaxEvents = 2
PROPERTIES BuffersDrained SignalTerminates LockGranted
