SPECIFICATION Spec
CONSTANTS
    s1 = s1
    s2 = s2
    Scales = {s1, s2}
    Sweeps <- OneScale
    HourCounts = {1}
    Midnights <- OneDay
    Slack = 0
    MaxHot = 1
    MaxRuns = 2
    MaxKills = 0
    MaxFailures = 0
INVARIANTS
    RefusalIsShown
