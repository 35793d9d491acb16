CONSTANTS
    r1 = r1  r2 = r2  p1 = p1  w1 = w1  w2 = w2  s1 = s1  s2 = s2  h1 = h1
    Projects = {p1}
    Holders = {h1}
    Workers = {w1, w2}
    Slots = {s1, s2}
    WorkerOf <- SlotEach
    Runs = {r1}
    ProjectOf <- OneRun
    Jobs = {1, 2, 3, 4}
    MaxRecoveries = 1
    Tasks = 1
    CodeTasks = {1}
    MaxAttempts = 2
    MaxCrashes = 1
    Stalls = FALSE
    Requests = {"continue", "abandon", "deliver"}
SPECIFICATION FairPoolSpec
INVARIANTS PoolTypeOK OwnedWorkIsUndisturbed NoOrphanAssignment ClosedRunIsQuiet
PROPERTIES JobsEnd AssignmentsEnd
