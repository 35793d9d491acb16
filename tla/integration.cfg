CONSTANTS
    p1 = p1
    p2 = p2
    t1 = t1
    t2 = t2
    None = None
    Procs = {p1, p2}
    Tasks = {t1, t2}
    Plans <- BothPlans
    Edits = {1}
    Candidates = 3
    MaxAttempts = 2
    MaxFaults = 1
SPECIFICATION Spec
SYMMETRY ProcSymmetry
CHECK_DEADLOCK FALSE
INVARIANTS
    IntegrationTypeOK
    BranchIsAccepted
    AttemptsAreIsolated
    WorkspaceStays
    RecordedInOrder
    RetiredIsClean
