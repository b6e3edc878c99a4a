\* A local bundle and a foreign one; two peers, one of them the destination;
\* a copy to spray and one to wait with; and a node id that changes once, at
\* any moment.
CONSTANTS
    p1 = p1
    Peer = {p1, p2}
    Bundle = {own, foreign}
    Own = {own}
    Dest <- ToP1
    MaxCopies = 2
    SendPackets = 2
    Word = 8
    MaxRenames = 1
    MaxSlot = 1
SPECIFICATION Spec
CHECK_DEADLOCK FALSE
INVARIANTS
    TypeOK
    CopyBudget
    ForeignSentOnce
    LastCopyWaits
