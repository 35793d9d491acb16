---------------------------- MODULE AcceptedWork ----------------------------
(***************************************************************************)
(* What a run promises about accepted work, without workers, reviews,      *)
(* approvals or recovery: a task is accepted on accepted inputs, discarding *)
(* a task discards everything that consumed it, and a run completes with   *)
(* every required task accepted and then never changes.                    *)
(***************************************************************************)
EXTENDS TaskGraph, Integers

VARIABLES
    required,   \* tasks that must be accepted before completion
    needs,      \* [Tasks -> SUBSET Tasks]: the inputs each task consumes
    canon,      \* canonical artifact of a task, 0 when it has none
    used,       \* the input artifacts the canonical artifact was built from
    phase

workVars == <<required, needs, canon, used, phase>>

Accepted == {t \in Tasks : canon[t] # 0}
CurrentInputs(t) == {<<u, canon[u]>> : u \in needs[t]}

WorkInit ==
    /\ required = {}
    /\ needs = [t \in Tasks |-> {}]
    /\ canon = [t \in Tasks |-> 0]
    /\ used = [t \in Tasks |-> {}]
    /\ phase = "active"

AcceptWork(t) ==
    /\ phase = "active"
    /\ t \in required \ Accepted
    /\ needs[t] \subseteq Accepted
    /\ canon'[t] \in Nat \ {0}
    /\ canon' = [canon EXCEPT ![t] = canon'[t]]
    /\ used' = [used EXCEPT ![t] = CurrentInputs(t)]
    /\ UNCHANGED <<required, needs, phase>>

\* Plan or replan: discard a consumer-closed set D, and require and rewire
\* whatever is not accepted.
Reshape(D) ==
    /\ phase = "active"
    /\ ConsumerClosed(D, needs)
    /\ canon' = [t \in Tasks |-> IF t \in D THEN 0 ELSE canon[t]]
    /\ used' = [t \in Tasks |-> IF t \in D THEN {} ELSE used[t]]
    /\ required' \in SUBSET Tasks
    /\ needs' \in [Tasks -> SUBSET Tasks]
    /\ \A t \in Accepted \ D : t \in required' /\ needs'[t] = needs[t]
    /\ UNCHANGED phase

EndRun ==
    /\ phase = "active"
    /\ \/ phase' = "completed" /\ required # {} /\ required \subseteq Accepted
       \/ phase' = "abandoned"
    /\ UNCHANGED <<required, needs, canon, used>>

WorkNext ==
    \/ \E t \in Tasks : AcceptWork(t)
    \/ \E D \in SUBSET Tasks : Reshape(D)
    \/ EndRun

WorkSpec == WorkInit /\ [][WorkNext]_workVars

\* The accepted artifacts form a consistent build: each was made from exactly
\* the artifacts that are canonical now.
ConsistentBuild ==
    /\ \A t \in Accepted : needs[t] \subseteq Accepted /\ used[t] = CurrentInputs(t)
    /\ phase = "completed" => required # {} /\ required \subseteq Accepted
==============================================================================
