SPECIFICATION Spec
CONSTANTS
    a = a
    b = b
    c = c
    Starts = {a, b, c}
    What <- MCWhat
    Task = {b}
    Cancellable = {a}
    Fragile = {a}
    Mortal = {a}
    Daemons = {a}
    Accessible = {a}
    Stops = {k1}
    Limit = 2
    MaxRestarts = 1
    None = None
INVARIANTS
    Sound
    NoStranger
    OneOfAKind
CHECK_DEADLOCK FALSE
