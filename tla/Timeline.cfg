SPECIFICATION FairSpec
CONSTANTS
    Methods = {"f", "g"}
    MaxDepth = 3
    MaxWork = 1
    MaxRecords = 5
INVARIANTS
    TypeOK
    ShowsInnermost
    RowsOncePerInstance
PROPERTY
    TrackWritten
