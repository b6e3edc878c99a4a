CONSTANTS
    n1 = n1
    n2 = n2
    Node = {n1, n2}
    NoName = NoName
    Asker = n1
    Named = {n1}
    MaxPings = 3
    MaxOther = 1
    MaxRenames = 1
SPECIFICATION FairSpec
CHECK_DEADLOCK FALSE
INVARIANTS
    TypeOK
    NoPongStorm
    OnlyWhatWasHeard
PROPERTIES
    RequestEnds
