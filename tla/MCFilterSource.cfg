CONSTANTS
    MaxChunks = 7
    MaxNumThreads = 4
    Tasks = {t1, t2, t3, t4}
SPECIFICATION FairSpec
INVARIANTS
    TypeOK
    EmittedAtMostOnce
    EmittedWhenClaimed
PROPERTIES
    SourceTerminates
CHECK_DEADLOCK FALSE
