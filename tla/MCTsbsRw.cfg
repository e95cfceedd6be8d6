SPECIFICATION FairSpec
CONSTANTS
    w1 = w1
    w2 = w2
    Workers <- TwoWorkers
    Files <- AllFiles
    TargetSamples = 2
    MaxSamples = 3
    Targets = 2
    MaxAttempts = 2
    HasDeadline = TRUE
INVARIANTS
    TypeOK
    ReportIsTrue
PROPERTIES
    Termination
    ImplementsBatchLoad
