CONSTANTS
    n1 = n1
    n2 = n2
    Node = {n1, n2}
    NoName = NoName
    Asker = n1
    Named = {n1, n2}
    MaxPings = 1
    MaxOther = 0
    MaxRenames = 0
SPECIFICATION Spec
CHECK_DEADLOCK FALSE
INVARIANTS
    AnswersAreAwaited
