----------------------------- MODULE MCRunKernel -----------------------------
(* Instances of RunKernel for TLC. *)
EXTENDS RunKernel, FiniteSets, TLC

CONSTANTS a, b, c, mgr, w, v, g, h, q, r

SoloPacket == a :> {}
\* b consumes a; c consumes b.
PairPacket == a :> {} @@ b :> {a}
ChainPacket == a :> {} @@ b :> {a} @@ c :> {b}

NoRewire == [t \in {} |-> {}]
Reopen(S) == [add |-> {}, remove |-> {}, reopen |-> S, rewire |-> NoRewire]
Remove(S) == [Reopen({}) EXCEPT !.remove = S]

Symmetry == Permutations({w, v})

\* State constraint of the runs about replanning: a candidate that cannot be
\* accepted any more only waits to be failed, which a fresh one may be too.
PositiveEvidence ==
    \A t \in Tasks : FALSE \notin art[t].verdicts /\ art[t].review # "failed"

\* State constraint of the runs about replanning: one structure is considered
\* per behaviour, since with one replan a second one is never applied.
OneStructure ==
    Cardinality({x.shape : x \in assessed \cup replans}
                    \cup {scope[x].shape : x \in {y \in ReplanApprovals : approval[y] # None}}) <= 1

\* State constraint of the run about the order of grants: the controller fails
\* an assignment that filed a request, so each attempt files at most one; and
\* only attempts that file one are of interest.
EachAttemptFilesOne ==
    /\ PositiveEvidence
    /\ \A t \in Tasks :
          attempts[t] - Cardinality({x \in Requests : Filed(x)}) \in {0, 1}

Add(S) == [Reopen({}) EXCEPT !.add = S]
Rewire(need) == [Reopen({}) EXCEPT !.rewire = need]

ChainShapes == {Reopen({a}), Reopen({b}), Remove({c}), Rewire(c :> {a})}
SoloShapes == {Reopen({a})}
==============================================================================
