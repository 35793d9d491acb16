CONSTANTS
    a = a  b = b  c = c  mgr = mgr  w = w  v = v  g = g  h = h  q = q  r = r
    Tasks = {a, b}
    Packet <- PairPacket
    DevTasks = {b}
    Checked = {b}
    Reviewed = {b}
    Workers = {w}
    Judges = {v}
    Manager = mgr
    TaskApprovals = {g, h}
    ReplanApprovals = {}
    CapabilityApprovals = {}
    DirectApprovals = {}
    Requests = {}
    Wanted = {}
    Shapes <- SoloShapes
    Classes = {"TIMEOUT", "TOOL_FAILURE"}
    MaxAttempts = 1
    MaxRevisions = 0
    MaxReplans = 1
SPECIFICATION Spec
INVARIANTS WorkStaysReady NoMissedWakeup
CONSTRAINT PositiveEvidence
