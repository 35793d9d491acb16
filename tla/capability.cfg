CONSTANTS
    a = a  b = b  c = c  mgr = mgr  w = w  v = v  g = g  h = h  q = q  r = r
    Tasks = {a}
    Packet <- SoloPacket
    DevTasks = {}
    Checked = {a}
    Reviewed = {}
    Workers = {w}
    Judges = {v}
    Manager = mgr
    TaskApprovals = {}
    ReplanApprovals = {}
    CapabilityApprovals = {g}
    DirectApprovals = {h}
    Requests = {q}
    Wanted = {"repo_reader", "developer_sandbox"}
    Shapes <- SoloShapes
    Classes = {"CAPABILITY_UNAVAILABLE"}
    MaxAttempts = 2
    MaxRevisions = 0
    MaxReplans = 1
SPECIFICATION Spec
INVARIANTS GrantIsApproved DeveloperWorkIsReviewed
CONSTRAINT PositiveEvidence
