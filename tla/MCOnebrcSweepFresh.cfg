SPECIFICATION Spec
CONSTANTS
    Points = 2
    MaxSweeps = 2
    MaxKills = 0
INVARIANTS
    FreshTablePerPoint
