SPECIFICATION FairSpec
CONSTANTS
    Durations = {1}
    Slack = 3
    Graceful = 1
    MaxStartup = 2
    Remote = TRUE
    MaxRuns = 2
    MaxFaults = 1
INVARIANTS
    TypeOK
    DoneRunIsSound
    WatcherDoesItsPart
PROPERTIES
    RunEnds
