---------------------------- MODULE MCIntegration ----------------------------
\* Instances of Integration for TLC.
EXTENDS Integration, TLC

CONSTANTS p1, p2, t1, t2

\* Two tasks side by side, and the second on top of the first.
Apart == t1 :> {} @@ t2 :> {}
Chained == t1 :> {} @@ t2 :> {t1}
BothPlans == {Apart, Chained}

ProcSymmetry == Permutations(Procs)

\* workflow.py:77 "later tasks build on accepted code": a task at work builds on
\* the recorded commits of all it depends on, if processes keep their leases.
StartsOnRecorded ==
    \A t \in Tasks : status[t] = "RUNNING" /\ stalls = 0 => \A u \in deps[t] : Recorded(u)
==============================================================================
