SPECIFICATION Spec
CONSTANTS
    commit = commit
    edit = edit
    exec = exec
    check = check
    patchA = patchA
    patchB = patchB
    finish = finish
    Clients = {commit, edit, check}
    Keys <- MCKeys
    Plan <- MCPlan
    Signalled <- MCSignalled
    Rechecking <- MCRechecking
    Watched = {}
    Overrunning <- MCOverrunning
    Nesting <- MCNesting
    BoundaryKey <- MCBoundary
    Cancellable = {edit}
    Timed = {}
    Recovering = FALSE
    MaxDepth = 4
    MaxStates = 3
    NoState = NoState
INVARIANTS
    KeyExclusion
