CONSTANTS
    p1 = p1
    p2 = p2
    Peer = {p1, p2}
    MaxAge = 2
    Window = {1, 3}
    Word = 32
    Epoch = 9
    MaxTime = 4
    MaxStep = 2
    MaxSets = 2
    MaxRecords = 3
SPECIFICATION Spec
CHECK_DEADLOCK FALSE
SYMMETRY Symmetry
INVARIANTS
    TypeOK
    SeenIsRecent
    RecentIsSeen
    StopIsSafe
    WindowIsRecent
