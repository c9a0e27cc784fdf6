SPECIFICATION FairSpec
CONSTANTS
    MaxConns = 2
    HasCmd = TRUE
INVARIANTS
    TypeOK
    StoppedFirst
    AddressRemoved
PROPERTIES
    OneEndsAll
CHECK_DEADLOCK FALSE
