CONSTANTS
    r1 = r1
    r2 = r2
    r3 = r3
    c1 = c1
    c2 = c2
    w1 = w1
    w2 = w2
    None = None
    Runs = {r1, r2, r3}
    Clients = {c1, c2}
    Workers = {w1, w2}
    Lanes = 2
    MaxBuilds = 1
    RunCalls = 2
    Budgets = {1, 2}
    AccountCalls = 1
    AccountCost = 1
    MaxPrice = 2
SYMMETRY Renamings
SPECIFICATION Spec
CONSTRAINTS RequestsOrCalls TwoWork
INVARIANTS
    SpendingIsBounded
    BuildsAreBounded
