SPECIFICATION FairSpec
CONSTANTS
    MaxId = 1
    RemoteIds = {5}
    OpenIds = {}
    MaxReverse = 1
    ProxyMax = 2
    ServerMax = 1
    MaxWrites = 2
    MaxMade = 2
    WaitTakesCoroutines = TRUE
INVARIANTS
    RightPeer
PROPERTIES
    ImplementsStreams
    DeviceEndClosesSocket
CHECK_DEADLOCK FALSE
