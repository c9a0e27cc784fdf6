SPECIFICATION FairSpec
CONSTANTS
    Pty = TRUE
    Limit = 1
    MaxMade = 3
INVARIANTS
    TypeOK
    NoEndBeforeExit
    PipeIsComplete
PROPERTIES
    NothingHeld
CHECK_DEADLOCK FALSE
