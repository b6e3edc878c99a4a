\* The ECLA connection is lost once while bundles wait in the queue.
CONSTANTS
    p1 = p1
    Peer = {p1, p2}
    Bundle = {own, foreign}
    Own = {own}
    Dest <- ToP1
    MaxCopies = 2
    SendPackets = 2
    Word = 8
    MaxRenames = 1
    MaxSlot = 1
SPECIFICATION Spec
CHECK_DEADLOCK FALSE
PROPERTY NoCopiesNoSending
