CONSTANTS
    binary = binary
    bundle = bundle
    skill = skill
    Absent = Absent
    None = None
    Torn = Torn
    Procs = {p1}
    Versions = {binary, bundle}
    Parts <- MCParts
    Faulty = {"judging", "backing", "recovering", "preparing", "committing",
              "unwinding"}
    MaxLeft = 1
    Fragile = {binary}
SPECIFICATION Spec
PROPERTIES
    ImplementsPackageStore
CHECK_DEADLOCK FALSE
