CONSTANTS
    b1 = b1
    b2 = b2
    Bundle = {b1, b2}
    n1 = n1
    Name = {n1}
    NoName = NoName
    MinScore = 0
    MaxScore = 2
    SendPackets = 2
    MaxArrivals = 4
    MaxRenames = 2
SPECIFICATION Spec
INVARIANTS
    TypeOK
    NoMoreThanHandedIn
PROPERTIES
    ImplementsOutbox
