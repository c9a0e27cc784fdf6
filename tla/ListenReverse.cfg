SPECIFICATION FairSpec
CONSTANTS
    Conns = {c1, c2, c3}
    ListenerWaits = FALSE
    Ports = {p1, p2}
    NoPort = none
    Retries = 2
INVARIANTS
    TypeOK
    OnlyLateRun
    MappedIsListening
PROPERTIES
    StopEnds
CHECK_DEADLOCK FALSE
