SPECIFICATION Spec
CONSTANTS
    commit = commit
    edit = edit
    exec = exec
    check = check
    patchA = patchA
    patchB = patchB
    finish = finish
    Clients = {commit, edit, check}
    Keys <- MCKeys
    Plan <- MCPlan
    Signalled <- MCSignalled
    Rechecking <- MCRechecking
    Watched <- MCWatched
    Overrunning <- MCOverrunning
    Nesting <- MCNesting
    BoundaryKey <- MCBoundary
    Cancellable = {check}
    Timed = {commit}
    Recovering = TRUE
    MaxDepth = 4
    MaxStates = 3
    NoState = NoState
INVARIANTS
    TypeOK
    HoldersCounted
    StateExclusive
    NothingIdle
    TokenOwnerRuns

    
    
    
