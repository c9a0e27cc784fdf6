SPECIFICATION FairSpec
CONSTANTS
    Path = 2
    MaxUnits = 3
INVARIANTS
    TypeOK
    ReturnsAll
    ClosedUnlessCut
PROPERTIES
    EndsWithServer
CHECK_DEADLOCK FALSE
