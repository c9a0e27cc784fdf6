SPECIFICATION Spec
CONSTANTS
    MaxId = 2
    RemoteIds = {5, 6}
    OpenIds = {5}
    MaxReverse = 1
    ProxyMax = 2
    ServerMax = 1
    MaxWrites = 0
    MaxMade = 0
    WaitTakesCoroutines = TRUE
INVARIANTS
    RightPeer
    CleanTeardown
CHECK_DEADLOCK FALSE
