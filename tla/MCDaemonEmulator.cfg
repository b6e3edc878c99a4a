CONSTANTS
    Port = "websocket"
    Closable = {"All"}
    Registrations = 0
    MaxLosses = 1
SPECIFICATION FairSpec
CHECK_DEADLOCK FALSE
INVARIANTS
    DtndFirst
    CloseIsKept
PROPERTIES
    ShutdownOrMissed
