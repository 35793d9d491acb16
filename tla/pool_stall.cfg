CONSTANTS
    r1 = r1  r2 = r2  p1 = p1  w1 = w1  w2 = w2  s1 = s1  s2 = s2  h1 = h1
    Projects = {p1}
    Holders = {h1}
    Workers = {w1, w2}
    Slots = {s1, s2}
    WorkerOf <- SlotsTogether
    Runs = {r1}
    ProjectOf <- OneRun
    Jobs = {1, 2, 3}
    MaxRecoveries = 1
    Tasks = 1
    CodeTasks = {1}
    MaxAttempts = 1
    MaxCrashes = 0
    Stalls = TRUE
    Requests = {"stop", "continue", "abandon"}
SPECIFICATION PoolSpec
INVARIANT StopsAreRespected
PROPERTY ImplementsQueue
