SPECIFICATION Spec
CONSTANTS
    s1 = s1
    s2 = s2
    Starts = {s1, s2}
    None = None
    MaxAsks = 3
    MaxFalls = 2
INVARIANTS
    TypeOK
    StatusAgrees
PROPERTIES
    OneClient
    StopIsFinal
    TransitionsLegal
    Recovers
CHECK_DEADLOCK FALSE
