------------------------------ MODULE TaskGraph ------------------------------
(***************************************************************************)
(* The dependency graph of one run's plan, as pure operators over a status *)
(* function st and a dependency function dp (a task's                      *)
(* packet.dependencies and packet.required_inputs that name tasks).        *)
(*                                                                         *)
(* A task that is not in run.tasks has status "ABSENT" and no dependency.  *)
(* Nothing here is RECURSIVE: the code's graph walks (depth-first search,  *)
(* fixpoint loop) are stated by the sets they compute.                     *)
(***************************************************************************)
EXTENDS FiniteSets

CONSTANT Tasks          \* every task id a plan may ever name

Retired == {"CANCELLED", "REPLACED"}

Present(st) == {t \in Tasks : st[t] # "ABSENT"}

\* The tasks _graph starts a visit from.
Live(st) == Present(st) \ {t \in Tasks : st[t] \in Retired}

\* Orchestrator._graph raises "Dependency cycle" exactly when some set of
\* live tasks has no member whose dependencies all lie outside the set.
Acyclic(S, dp) == \A C \in SUBSET S : C # {} => \E t \in C : dp[t] \cap C = {}

\* Orchestrator._graph returns without raising: no live task names an unknown
\* or a retired task, and the live tasks form no cycle.
GraphOk(st, dp) ==
    /\ \A t \in Live(st) : dp[t] \subseteq Live(st)
    /\ Acyclic(Live(st), dp)

\* A set that already holds every consumer of its members.
ConsumerClosed(S, dp) == \A u \in Tasks : dp[u] \cap S # {} => u \in S

\* Slip: only direct consumers are found.
Affected_OneHop(seed, dp) == seed \cup {u \in Tasks : dp[u] \cap seed # {}}

\* Orchestrator._replan_affected: the seed and its transitive consumers,
\* whatever their status, as the least consumer-closed set around the seed.
Affected(seed, dp) ==
    {t \in Tasks : \A S \in SUBSET Tasks :
                        (seed \subseteq S /\ ConsumerClosed(S, dp)) => t \in S}
==============================================================================
