CONSTANTS
    heavy = heavy
    persistent = persistent
    repoA = repoA
    repoB = repoB
    build = build
    command = command
    server = server
    shell = shell
    process = process
    one = one
    two = two
    Nobody = Nobody
    LaneOrder <- MCLaneOrder
    Heavy = heavy
    Limit <- MCLimit
    Callers = {build, command, shell, server, process}
    Owners = {repoA, repoB}
    Owner <- MCOwners
    Resources <- MCResources
    Signals = {one, two}
    Signal <- MCSignal
    MaxQueued = 3
    MaxQueuedPerOwner = 2
    Disposable = TRUE
SPECIFICATION FairTurnsSpec
INVARIANTS
    TypeOK
    Accounted
    OnlyCapacityDelays
    NoDoubleOvertake
PROPERTIES
    FifoAdmission
    TicketsSettle
    ImplementsPool
