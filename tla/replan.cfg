CONSTANTS
    a = a  b = b  c = c  mgr = mgr  w = w  v = v  g = g  h = h  q = q  r = r
    Tasks = {a, b, c}
    Packet <- ChainPacket
    DevTasks = {}
    Checked = {a, b, c}
    Reviewed = {}
    Workers = {w}
    Judges = {v}
    Manager = mgr
    TaskApprovals = {}
    ReplanApprovals = {g}
    CapabilityApprovals = {}
    DirectApprovals = {}
    Requests = {}
    Wanted = {}
    Shapes <- ChainShapes
    Classes = {"TASK_AMBIGUITY"}
    MaxAttempts = 1
    MaxRevisions = 0
    MaxReplans = 1
SPECIFICATION Spec
INVARIANTS CanonicalLineage AcceptedIsLatest
PROPERTIES DiscardIsNewOrApproved ImplementsAcceptedWork
CONSTRAINTS PositiveEvidence OneStructure
