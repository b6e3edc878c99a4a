CONSTANTS
    n1 = n1
    n2 = n2
    Node = {n1, n2}
    Bundle = {b1}
    NoName = NoName
    Source <- Anywhere
    TooLong <- N2TooLong
    SendPackets = 1
    MaxInbox = 1
    MaxAdverts = 1
    MaxFaults = 0
SPECIFICATION FairSpec
PROPERTIES
    NeighboursServed
    SpreadSettles
