CONSTANTS
    worker = worker
    api1 = api1
    api2 = api2
    tool = tool
    usage = usage
    human = human
    owner = owner
    c1 = c1
    c2 = c2
    Free = Free
    Actors = {tool, usage, human, owner}
    ProcessOf <- TwoThreads
    Kind <- TwoThreadKinds
    Attempts <- CallerAttempts
    Operations <- TwoAccounts
    Schemas = {0, 1, 2}
    LegacyTasks <- OldTasks
    Streams = {c1}
    Pages = {c2}
SPECIFICATION Spec
CHECK_DEADLOCK FALSE
INVARIANTS
    StoreTypeOK
    ReadersSeeOneState
    ConflictsComeFromOutside
    MigrationIsSafe
PROPERTY ImplementsRunLog
