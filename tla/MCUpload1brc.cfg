SPECIFICATION FairSpec
CONSTANTS
    w1 = w1
    w2 = w2
    Workers <- TwoWorkers
    Loads <- AllLoads
    Targets = 2
    MaxAttempts = 2
    HasDeadline = TRUE
    DiskFails = TRUE
INVARIANTS
    TypeOK
    StoredAtMostOnce
    FilesAreTrue
    DeadlineBoundsAttempts
PROPERTIES
    Termination
    ImplementsBatchLoad
