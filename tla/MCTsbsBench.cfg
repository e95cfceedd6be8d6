SPECIFICATION FairSpec
CONSTANTS
    s1 = s1
    s2 = s2
    Scales = {s1, s2}
    Sweeps <- BothScales
    HourCounts = {1}
    Midnights <- OneDay
    Slack = 0
    MaxHot = 1
    MaxRuns = 2
    MaxKills = 1
    MaxFailures = 1
INVARIANTS
    TypeOK
    WindowsDisjoint
    DataIsWhole
    ReportsAreOwn

    
