SPECIFICATION Spec
CONSTANTS
    NCPUS = 3
    NDecoders = 1
    MaxFlaws = 1
    RecordEvents = TRUE
    MaxEvents = 1
CONSTRAINT FlawedIsQuiet
INVARIANTS NoStaleHandle HandledIsRecorded CleanClose FreedWhenQuiet
