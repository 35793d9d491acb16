------------------------------ MODULE MCSpending ------------------------------
\* Instances of Spending for TLC.
EXTENDS Spending, TLC

CONSTANTS r1, r2, r3, c1, c2, w1, w2

Renamings ==
    Permutations({r1, r2, r3}) \cup Permutations({c1, c2}) \cup Permutations({w1, w2})

\* Requests and model calls share the jobs and what was used: a request in
\* progress meets jobs that start, end and lapse, and none that makes calls; and no
\* third run has a job while calls are made.
RequestsOrCalls ==
    (\E w \in Workers : stage[w] = "running") =>
        Cardinality(Active) <= 2 /\ \A c \in Clients : request[c] = "idle"

\* Two runs work, one of them is given another budget, and one loses a lease to a
\* worker that goes on.
TwoWork ==
    /\ Cardinality({r \in Runs : calls[r] > 0 \/ At(r) # {}}) <= 2
    /\ Cardinality({r \in Runs : budget[r] = 2}) <= 1
    /\ Cardinality(stalled) <= 1
==============================================================================
