\* A repeated request of one task, with two faults and one response on its way.
SPECIFICATION Spec
CONSTANTS
    o1 = o1
    o2 = o2
    build = build
    None = None
    Pointer = Pointer
    Ops = {o1, o2}
    Requests = {build}
    Asks <- MCAsks
    Owning = {o1}
    Stoppable = {o1}
    Ending = {o1}
    Fragile = {o1}
    Refusals = {"busy", "broken", "unread"}
    MaxDefers = 1
    MaxFaults = 2
    MaxReplies = 1
INVARIANTS
    TypeOK
    DurabilityIsTruthful
PROPERTIES
    RunsOnce
    ResultsAreFinal
    ResultsReachTheRow
CHECK_DEADLOCK FALSE
