CONSTANTS
    a = a  b = b  c = c  mgr = mgr  w = w  v = v  g = g  h = h  q = q  r = r
    Tasks = {a}
    Packet <- SoloPacket
    DevTasks = {a}
    Checked = {a}
    Reviewed = {a}
    Workers = {w, v, mgr}
    Judges = {w, v, mgr}
    Manager = mgr
    TaskApprovals = {}
    ReplanApprovals = {}
    CapabilityApprovals = {}
    DirectApprovals = {}
    Requests = {}
    Wanted = {}
    Shapes <- SoloShapes
    Classes = {"TIMEOUT", "BAD_OUTPUT", "CONSTRAINT_VIOLATION"}
    MaxAttempts = 2
    MaxRevisions = 1
    MaxReplans = 2
SPECIFICATION Spec
INVARIANTS TypeOK ReadyHasBudget WorkBound IndependentEvidence CandidateIsCurrent
SYMMETRY Symmetry
