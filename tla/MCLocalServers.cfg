SPECIFICATION FairSpec
CONSTANTS
    MaxStarts = 4
    MaxScripts = 3
    MaxCrashes = 1
    WaitAttempts = 2
    HealthAttempts = 2
    BootAttempts = 2
    Points = 2
    SlowExit = FALSE
    MaxInterrupts = 1
INVARIANTS
    TypeOK
    ServersAccountedFor
    SweepIsCold
PROPERTIES
    ScriptsEnd
