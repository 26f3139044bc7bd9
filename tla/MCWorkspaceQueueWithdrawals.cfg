SPECIFICATION FairSpec
CONSTANTS
    commit = commit
    edit = edit
    exec = exec
    check = check
    patchA = patchA
    patchB = patchB
    finish = finish
    Clients = {patchA, patchB, finish}
    Keys <- MCKeys
    Plan <- MCPlan
    Signalled <- MCSignalled
    Rechecking <- MCRechecking
    Watched = {patchB}
    Overrunning <- MCOverrunning
    Nesting <- MCNesting
    BoundaryKey <- MCBoundary
    Cancellable = {patchA}
    Timed = {}
    Recovering = FALSE
    MaxDepth = 7
    MaxStates = 2
    NoState = NoState
PROPERTIES
    RequestsEnd
    StatesAreLocks
