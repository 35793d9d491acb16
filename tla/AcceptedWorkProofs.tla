-------------------------- MODULE AcceptedWorkProofs --------------------------
(* What AcceptedWork promises holds in every behaviour of it. *)
EXTENDS AcceptedWork, TLAPS

WorkType ==
    /\ needs \in [Tasks -> SUBSET Tasks]
    /\ canon = [t \in Tasks |-> canon[t]]
    /\ used = [t \in Tasks |-> used[t]]

\* The inductive invariant: the promise, and what the variables hold.
WorkInv == WorkType /\ ConsistentBuild

LEMMA WorkInitInv == WorkInit => WorkInv
BY DEF WorkInit, WorkInv, WorkType, ConsistentBuild, Accepted

\* A task that becomes accepted was not an input of any accepted task before.
LEMMA AcceptWorkInv ==
    ASSUME WorkInv, NEW t \in Tasks, AcceptWork(t)
    PROVE  WorkInv'
<1>1. WorkType'
  BY DEF WorkInv, WorkType, AcceptWork
<1>2. /\ Accepted' = Accepted \cup {t}
      /\ \A u \in Accepted : canon'[u] = canon[u]
  BY DEF WorkInv, WorkType, AcceptWork, Accepted
<1>3. \A u \in Accepted' : needs'[u] \subseteq Accepted' /\ used'[u] = CurrentInputs(u)'
  <2>1. ASSUME NEW u \in Accepted'
        PROVE  needs'[u] \subseteq Accepted
    BY <1>2 DEF AcceptWork, WorkInv, ConsistentBuild
  <2>2. ASSUME NEW u \in Accepted'
        PROVE  CurrentInputs(u)' = CurrentInputs(u)
    BY <1>2, <2>1 DEF CurrentInputs, AcceptWork
  <2>3. ASSUME NEW u \in Accepted'
        PROVE  used'[u] = CurrentInputs(u)
    <3>1. CASE u = t
      BY <3>1 DEF AcceptWork, WorkInv, WorkType
    <3>2. CASE u # t
      BY <1>2, <3>2 DEF AcceptWork, WorkInv, WorkType, ConsistentBuild
    <3>3. QED BY <3>1, <3>2
  <2>4. QED BY <1>2, <2>1, <2>2, <2>3
<1>4. phase' # "completed"
  BY DEF AcceptWork
<1>5. QED BY <1>1, <1>3, <1>4 DEF WorkInv, ConsistentBuild

\* The discarded set is closed under consumption, so no survivor loses an input.
LEMMA ReshapeInv ==
    ASSUME WorkInv, NEW D \in SUBSET Tasks, Reshape(D)
    PROVE  WorkInv'
<1>1. WorkType'
  BY DEF WorkInv, WorkType, Reshape
<1>2. /\ Accepted' = Accepted \ D
      /\ \A u \in Accepted \ D : canon'[u] = canon[u] /\ used'[u] = used[u] /\ needs'[u] = needs[u]
  BY DEF WorkInv, WorkType, Reshape, Accepted
<1>3. \A u \in Accepted' : needs'[u] \subseteq Accepted' /\ used'[u] = CurrentInputs(u)'
  <2>1. ASSUME NEW u \in Accepted \ D
        PROVE  needs[u] \subseteq Accepted \ D
    BY DEF WorkInv, WorkType, ConsistentBuild, Reshape, ConsumerClosed, Accepted
  <2>2. ASSUME NEW u \in Accepted \ D
        PROVE  CurrentInputs(u)' = CurrentInputs(u)
    BY <1>2, <2>1 DEF CurrentInputs
  <2>3. QED BY <1>2, <2>1, <2>2 DEF WorkInv, ConsistentBuild
<1>4. phase' # "completed"
  BY DEF Reshape
<1>5. QED BY <1>1, <1>3, <1>4 DEF WorkInv, ConsistentBuild

LEMMA EndRunInv ==
    ASSUME WorkInv, EndRun
    PROVE  WorkInv'
<1>1. WorkType' /\ Accepted' = Accepted
  BY DEF WorkInv, WorkType, EndRun, Accepted
<1>2. \A u \in Tasks : CurrentInputs(u)' = CurrentInputs(u)
  BY DEF EndRun, CurrentInputs
<1>3. Accepted \subseteq Tasks
  BY DEF Accepted
<1>4. ConsistentBuild'
  BY <1>1, <1>2, <1>3 DEF WorkInv, ConsistentBuild, EndRun
<1>5. QED BY <1>1, <1>4 DEF WorkInv

\* A run's accepted artifacts are always a consistent build, and a completed
\* run has one for everything it requires.
THEOREM BuildIsConsistent == WorkSpec => []ConsistentBuild
<1>1. WorkInv /\ [WorkNext]_workVars => WorkInv'
  <2> SUFFICES ASSUME WorkInv, [WorkNext]_workVars PROVE WorkInv'
    OBVIOUS
  <2>1. CASE UNCHANGED workVars
    <3>1. WorkType' /\ Accepted' = Accepted
      BY <2>1 DEF workVars, WorkInv, WorkType, Accepted
    <3>2. \A u \in Tasks : CurrentInputs(u)' = CurrentInputs(u)
      BY <2>1 DEF workVars, CurrentInputs
    <3>3. Accepted \subseteq Tasks
      BY DEF Accepted
    <3>4. QED BY <2>1, <3>1, <3>2, <3>3 DEF workVars, WorkInv, ConsistentBuild
  <2>2. QED BY <2>1, AcceptWorkInv, ReshapeInv, EndRunInv DEF WorkNext
<1>2. WorkInv => ConsistentBuild
  BY DEF WorkInv
<1>3. QED BY WorkInitInv, <1>1, <1>2, PTL DEF WorkSpec
==============================================================================
