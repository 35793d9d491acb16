----------------------------- MODULE MCJobQueue -----------------------------
(* Instances of JobQueue for TLC. *)
EXTENDS JobQueue, TLC

CONSTANTS r1, r2, p1, w1, w2, h1, h2

\* Two runs compete for one project; projects share nothing in these tables.
SharedProject == r1 :> p1 @@ r2 :> p1

\* The first job of a run, and no later one, starts it: what tells a start from
\* a continuation is not what the queue looks at.
FirstStarts ==
    \A j \in Created : kind[j] = "start" <=> \A i \in Created : runOf[i] = runOf[j] => j <= i

QueueSymmetry == Permutations({w1, w2}) \cup Permutations({h1, h2})
==============================================================================
