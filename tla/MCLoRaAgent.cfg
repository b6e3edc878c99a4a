CONSTANTS
    CommandCap = 1
    RxCap = 1
    MaxTx = 2
    MaxRx = 2
    MaxCloses = 1
    MaxLags = 1
SPECIFICATION FairSpec
CHECK_DEADLOCK FALSE
INVARIANTS
    TypeOK
    ClosedIsClosed
    RobustnessCosts
PROPERTIES
    ImplementsPipe
    NothingIsStuck
    AirIsCounted
    CloseSettles
