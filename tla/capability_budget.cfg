CONSTANTS
    a = a  b = b  c = c  mgr = mgr  w = w  v = v  g = g  h = h  q = q  r = r
    Tasks = {a}
    Packet <- SoloPacket
    DevTasks = {}
    Checked = {a}
    Reviewed = {}
    Workers = {w}
    Judges = {v}
    Manager = mgr
    TaskApprovals = {}
    ReplanApprovals = {}
    CapabilityApprovals = {g}
    DirectApprovals = {}
    Requests = {q}
    Wanted = {"developer_sandbox"}
    Shapes <- SoloShapes
    Classes = {"CAPABILITY_UNAVAILABLE"}
    MaxAttempts = 1
    MaxRevisions = 0
    MaxReplans = 1
SPECIFICATION Spec
INVARIANT ReadyHasBudget
CONSTRAINT PositiveEvidence
