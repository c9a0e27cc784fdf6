SPECIFICATION Spec
CONSTANTS
    Conns = {c1, c2}
    ListenerWaits = FALSE
    Ports = {p1}
    NoPort = none
    Retries = 1
INVARIANTS
    PendingFinished
CHECK_DEADLOCK FALSE
