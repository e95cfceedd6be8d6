SPECIFICATION FairSpec
CONSTANTS
    Points = 2
    Clusters = {1, 2}
    HalfMinute = 1
    MaxSweeps = 2
    MaxDeaths = 1
INVARIANTS
    TypeOK
    LoadsAreGated
    ResultsAreOwn
    LastTickInTime

    
