SPECIFICATION FairSpec
CONSTANTS
    Points = 2
    MaxSweeps = 3
    MaxKills = 2
INVARIANTS
    TypeOK
    ReportsOwnUpload
    UploadsReadWholeCsv
PROPERTIES
    SweepEnds
