\* A batch and a single edit in the workspace and a patch in a folder of it,
\* with one crash and one change from outside.
SPECIFICATION MCSpec
CONSTANTS
    batch = batch
    other = other
    patch = patch
    plain = plain
    outer = outer
    nested = nested
    p = p
    q = q
    t = t
    absent = absent
    old = old
    new = new
    more = more
    Editors = {batch, patch, plain}
    Roots = {outer, nested}
    Paths = {p, q}
    Contents = {absent, old, new, more}
    Absent = absent
    Kind <- MCKind
    Root <- MCRoot
    Edits <- MCEdits
    Shared = {}
    Overlaps <- MCOverlaps
    MaxCrashes = 1
    MaxMeddling = 1
INVARIANTS
    TypeOK
    Recoverable
    NoOverlappingActive
PROPERTIES
    ReportsTruthful
    
    ImplementsAtomicEdits
CHECK_DEADLOCK FALSE
