CONSTANTS
    r1 = r1  r2 = r2  p1 = p1  w1 = w1  w2 = w2  h1 = h1  h2 = h2
    Runs = {r1, r2}
    Projects = {p1}
    ProjectOf <- SharedProject
    Jobs = {1, 2, 3, 4}
    Workers = {w1, w2}
    Holders = {h1, h2}
    MaxRecoveries = 1
SPECIFICATION QueueSpec
INVARIANTS OneActiveJobPerRun OneOwnerPerProject RecoveryIsCapped
PROPERTY OutcomeIsFinal
CONSTRAINT FirstStarts
SYMMETRY QueueSymmetry
