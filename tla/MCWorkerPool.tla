---------------------------- MODULE MCWorkerPool ----------------------------
\* Instances of WorkerPool for TLC.
EXTENDS WorkerPool, TLC

CONSTANTS r1, r2, p1, w1, w2, s1, s2, h1

OneRun == r1 :> p1
SharedProject == r1 :> p1 @@ r2 :> p1

\* A slot in each of two processes, one slot, and two slots of one process.
SlotEach == s1 :> w1 @@ s2 :> w2
OneSlot == s1 :> w1
SlotsTogether == s1 :> w1 @@ s2 :> w1
==============================================================================
