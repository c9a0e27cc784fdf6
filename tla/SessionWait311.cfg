SPECIFICATION Spec
CONSTANTS
    MaxId = 1
    RemoteIds = {5}
    OpenIds = {5}
    MaxReverse = 0
    ProxyMax = 2
    ServerMax = 1
    MaxWrites = 0
    MaxMade = 0
    WaitTakesCoroutines = FALSE
INVARIANTS
    CleanTeardown
CHECK_DEADLOCK FALSE
