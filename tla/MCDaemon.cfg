CONSTANTS
    Port = "serial"
    Closable <- Targets
    Registrations = 1
    MaxLosses = 0
SPECIFICATION FairSpec
CHECK_DEADLOCK FALSE
INVARIANTS
    TypeOK
PROPERTIES
    CancelledEnds
    ComesUp
