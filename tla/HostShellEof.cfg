SPECIFICATION Spec
CONSTANTS
    Pty = TRUE
    Limit = 1
    MaxMade = 2
INVARIANTS
    CleanEof
CHECK_DEADLOCK FALSE
