CONSTANTS
    b1 = b1
    b2 = b2
    p1 = p1
    None = None
    Builds = {b1, b2}
    Projects = {p1}
    MaxFaults = 1
    MaxBegun = 2
SYMMETRY Renamings
SPECIFICATION Spec
CHECK_DEADLOCK FALSE
INVARIANTS
    NothingDangles
    PurgeIsComplete
