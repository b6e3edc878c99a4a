CONSTANTS
    n1 = n1
    n2 = n2
    Node = {n1, n2}
    Bundle = {b1}
    NoName = NoName
    Source <- AtN1
    TooLong <- Nothing
    SendPackets = 1
    MaxInbox = 1
    MaxAdverts = 1
    MaxFaults = 1
SPECIFICATION Spec
INVARIANTS
    TypeOK
    KnowledgeSound
    SpreadOmitsNobody
