SPECIFICATION FairSpec
CONSTANTS
    MaxId = 1
    RemoteIds = {5}
    OpenIds = {5}
    MaxReverse = 0
    ProxyMax = 2
    ServerMax = 1
    MaxWrites = 2
    MaxMade = 2
    WaitTakesCoroutines = TRUE
INVARIANTS
    TypeOK
    OneClose
    NoOrphanSink
    NoOrphanWriter
    FlowControl
    OpenAnsweredOnce
PROPERTIES
    ImplementsStreams
    NoWrteAfterClose
    DeviceEndClosesSocket
    ServerCloseEndsStream
    LostConnectionEnds
CHECK_DEADLOCK FALSE
