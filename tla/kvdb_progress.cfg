SPECIFICATION FairSpec
CONSTANTS
    Callers = {g1, g2, g3}
    Keys = {k}
    Values = {v, w}
    None = None
    Capacity = 4
    Threshold = 3
CHECK_DEADLOCK FALSE
INVARIANTS
    TypeOK
    CallsSaturate
    NeverCompacts
PROPERTY ReturnsUntilSaturated
