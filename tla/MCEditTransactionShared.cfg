\* Two batches of different files of one workspace, both in the path scope of
\* the queue, with no failure from outside.
SPECIFICATION MCSpec
CONSTANTS
    batch = batch
    other = other
    patch = patch
    plain = plain
    outer = outer
    nested = nested
    p = p
    q = q
    t = t
    absent = absent
    old = old
    new = new
    more = more
    Editors = {batch, other}
    Roots = {outer}
    Paths = {p, q, t}
    Contents = {absent, old, new, more}
    Absent = absent
    Kind <- MCKind
    Root <- MCRoot
    Edits <- MCEdits
    Shared = {batch, other}
    Overlaps <- MCOverlaps
    MaxCrashes = 0
    MaxMeddling = 0
PROPERTIES
    ReportsTruthful
CHECK_DEADLOCK FALSE
