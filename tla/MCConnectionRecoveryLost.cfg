SPECIFICATION Spec
CONSTANTS
    s1 = s1
    s2 = s2
    Starts = {s1, s2}
    None = None
    MaxAsks = 2
    MaxFalls = 1
INVARIANT FailuresAreRetried
CHECK_DEADLOCK FALSE
