SPECIFICATION Spec
CONSTANTS
    MaxRequests = 3
    Remotes = {r1, r2}
    AnyPort = AnyPort
INVARIANTS
    TypeOK
    OpenListenerOwned
    RegisteredOpen
    AgreesWithDevice
CHECK_DEADLOCK FALSE
