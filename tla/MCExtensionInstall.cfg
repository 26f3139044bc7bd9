CONSTANTS
    binary = binary
    bundle = bundle
    skill = skill
    Absent = Absent
    None = None
    Torn = Torn
    Procs = {p1, p2, p3}
    Versions = {binary, bundle, skill}
    Parts <- MCParts
    Faulty = {"judging", "backing", "recovering", "preparing", "committing",
              "unwinding", "cleaning", "done"}
    MaxLeft = 1
    Fragile = {bundle, skill}
SPECIFICATION Spec
SYMMETRY Alike
INVARIANTS
    Sound
    OneInstaller
PROPERTIES
    ImplementsPackageStore
CHECK_DEADLOCK FALSE
