\* One bundle in two encodings and advertisements, two base priorities, the
\* wrapped score of the quadrant strategy, and a clock that reaches the overtaking
\* horizon of 2 * (1 - 0 + 1) seconds.
CONSTANTS
    Bundle = {b1}
    Packet = {p1, p2}
    NoBundle = NoBundle
    MinBase = 0
    MaxBase = 1
    ScoreUnit = 2
    WrapScore <- Quadrant10s
    WrapRest = 1
    SendPackets = 1
    MaxSlot = 1
    MaxClock = 4
SPECIFICATION Spec
SYMMETRY Symmetry
INVARIANTS
    TypeOK
    OneEntryPerPacket
    NoLateOvertaking
PROPERTIES
    ImplementsOutbox
