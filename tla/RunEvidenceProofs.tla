-------------------------- MODULE RunEvidenceProofs --------------------------
(* The candidate under review, the independence of its evidence, and the   *)
(* authority a task is granted.                                            *)
EXTENDS RunKernelProofs

(***************************************************************************)
(* CandidateIsCurrent needs the tasks that are not in the plan yet: adding  *)
(* one must not bring an old candidate along.  IndependentEvidence needs    *)
(* CandidateIsCurrent: a task is only delegated to a new author while it    *)
(* has no candidate that could still be accepted.                           *)
(***************************************************************************)
UnderReview == {"SUBMITTED", "REVIEWING"}
Dormant == {"ABSENT", "PLANNED", "READY", "BLOCKED", "REVISION_REQUIRED", "DELEGATED", "RUNNING"}

CandidateInv ==
    \A t \in Tasks :
        /\ status[t] \in UnderReview => art[t].status = "candidate" /\ art[t].attempt = assignment[t]
        /\ status[t] \in Dormant => art[t].status \notin {"candidate", "accepted"}

EvidenceInv == CandidateInv /\ IndependentEvidence

\* A step that moves no task into or out of review and touches no evidence.
Calm ==
    /\ UNCHANGED <<art, assignment, authors>>
    /\ \A t \in Tasks : \/ status'[t] = status[t]
                        \/ status'[t] \notin UnderReview \cup Dormant
                        \/ status[t] \in Dormant /\ status'[t] \in Dormant

LEMMA CalmInv ==
    ASSUME EvidenceInv, Calm
    PROVE  EvidenceInv'
<1>1. CandidateInv'
  BY DEF EvidenceInv, CandidateInv, Calm, UnderReview, Dormant
<1>2. IndependentEvidence'
  BY DEF EvidenceInv, IndependentEvidence, Calm
<1>3. QED BY <1>1, <1>2 DEF EvidenceInv

\* _refresh moves tasks among PLANNED, READY and BLOCKED only.
LEMMA RefreshMoves ==
    ASSUME NEW st \in [Tasks -> Status], NEW bl \in [Tasks -> Blocker], Refresh(st, bl)
    PROVE  \A t \in Tasks : \/ status'[t] = st[t]
                            \/ st[t] \in Dormant /\ status'[t] \in Dormant
BY DEF Refresh, Dormant

LEMMA RefreshCalm ==
    ASSUME NEW st \in [Tasks -> Status], NEW bl \in [Tasks -> Blocker], Refresh(st, bl),
           UNCHANGED <<art, assignment, authors>>,
           \A t \in Tasks : st[t] = status[t] \/ (st[t] \in Dormant /\ status[t] \in Dormant)
    PROVE  Calm
BY RefreshMoves DEF Calm

LEMMA PlanCalm ==
    ASSUME TypeOK, Plan
    PROVE  Calm
<1>1. PICK S \in SUBSET Tasks : AddTasks(S)
  BY DEF Plan
<1> DEFINE planned == [t \in Tasks |-> IF t \in S THEN "PLANNED" ELSE status[t]]
<1>2. planned \in [Tasks -> Status] /\ blocker \in [Tasks -> Blocker] /\ Refresh(planned, blocker)
  BY <1>1 DEF AddTasks, TypeOK, Status, TaskStatus
<1>3. \A t \in Tasks : planned[t] = status[t] \/ (planned[t] \in Dormant /\ status[t] \in Dormant)
  BY <1>1 DEF AddTasks, Present, Dormant
<1>4. UNCHANGED <<art, assignment, authors>>
  BY <1>1 DEF AddTasks, budgetVars
<1>5. QED BY <1>2, <1>3, <1>4, RefreshCalm

LEMMA GovernCalm ==
    ASSUME TypeOK, Govern
    PROVE  Calm
<1>1. CASE \E a \in TaskApprovals : RequestApproval(a, TaskScope)
  BY <1>1 DEF RequestApproval, Calm, coreVars, budgetVars
<1>2. CASE \E t \in Tasks, a \in TaskApprovals : GateTask(t, a)
  <2>1. PICK t \in Tasks, a \in TaskApprovals : GateTask(t, a)
    BY <1>2
  <2>2. PICK bl \in [Tasks -> Blocker] :
            \/ Refresh(status, bl)
            \/ status[t] = "READY" /\ Refresh([status EXCEPT ![t] = "BLOCKED"], bl)
    BY <2>1 DEF GateTask, TypeOK, Blocker
  <2>3. status \in [Tasks -> Status] /\ [status EXCEPT ![t] = "BLOCKED"] \in [Tasks -> Status]
    BY DEF TypeOK, Status, TaskStatus
  <2>4. UNCHANGED <<art, assignment, authors>>
    BY <2>1 DEF GateTask, budgetVars
  <2>5. CASE Refresh(status, bl)
    BY <2>3, <2>4, <2>5, RefreshCalm
  <2>6. CASE status[t] = "READY" /\ Refresh([status EXCEPT ![t] = "BLOCKED"], bl)
    <3>1. \A u \in Tasks : LET s == [status EXCEPT ![t] = "BLOCKED"][u]
                           IN  s = status[u] \/ (s \in Dormant /\ status[u] \in Dormant)
      BY <2>6 DEF TypeOK, Dormant
    <3>2. QED BY <2>3, <2>4, <2>6, <3>1, RefreshCalm
  <2>7. QED BY <2>2, <2>5, <2>6
<1>3. CASE \E a \in Approvals, approved \in BOOLEAN : DecideApproval(a, approved)
  <2>1. PICK a \in Approvals, approved \in BOOLEAN : DecideApproval(a, approved)
    BY <1>3
  <2>2. PICK bl \in [Tasks -> Blocker] : Refresh(status, bl)
    BY <2>1 DEF DecideApproval, TypeOK, Blocker
  <2>3. status \in [Tasks -> Status] /\ UNCHANGED <<art, assignment, authors>>
    BY <2>1 DEF DecideApproval, TypeOK, Status, budgetVars
  <2>4. QED BY <2>2, <2>3, RefreshCalm
<1>4. CASE \E old, new \in TaskApprovals : SupersedeApproval(old, new)
  BY <1>4 DEF SupersedeApproval, Calm, TypeOK, Dormant, budgetVars
<1>5. QED BY <1>1, <1>2, <1>3, <1>4 DEF Govern

LEMMA EscalateCalm ==
    ASSUME TypeOK, Escalate
    PROVE  Calm
<1>1. CASE \/ \E q \in Requests, t \in Tasks, p \in Wanted :
                 \E k \in 1..attempts[t] : RecordCapabilityRequest(q, t, k, p)
           \/ \E a \in DirectApprovals, t \in Tasks, p \in Wanted, ws \in BOOLEAN :
                 RequestApproval(a, CapabilityScope(t, p, ws))
           \/ \E q \in Requests, a \in CapabilityApprovals : RequestCapabilityApproval(q, a)
           \/ \E q \in Requests, a \in CapabilityApprovals \cup DirectApprovals : LinkCapability(q, a)
           \/ \E q \in Requests : DenyCapability(q) \/ ApproveCapability(q) \/ MarkEscalated(q)
  <2>1. UNCHANGED <<status, art, assignment, authors>>
    BY <1>1 DEF RecordCapabilityRequest, RequestCapabilityApproval, RequestApproval, LinkCapability,
                DenyCapability, ApproveCapability, MarkEscalated, UpdateRequest, coreVars, budgetVars
  <2>2. QED BY <2>1 DEF Calm
<1>2. CASE \E q \in Requests : ApplyEscalation(q)
  <2>1. PICK q \in Requests : ApplyEscalation(q)
    BY <1>2
  <2>2. PICK bl \in [Tasks -> Blocker] : Refresh(status, bl)
    <3>1. [blocker EXCEPT ![request[q].task] = "approval_satisfied"] \in [Tasks -> Blocker]
      BY DEF TypeOK, Blocker
    <3>2. QED BY <2>1, <3>1 DEF ApplyEscalation, TypeOK
  <2>3. status \in [Tasks -> Status] /\ UNCHANGED <<art, assignment, authors>>
    BY <2>1 DEF ApplyEscalation, Grant, TypeOK, Status, budgetVars
  <2>4. QED BY <2>2, <2>3, RefreshCalm
<1>3. CASE \E a \in DirectApprovals : ChangeCapability(a)
  <2>1. PICK a \in DirectApprovals : ChangeCapability(a)
    BY <1>3
  <2> DEFINE t == scope[a].task
  <2>2. \A bl \in [Tasks -> Blocker], x \in Blocker : [bl EXCEPT ![t] = x] \in [Tasks -> Blocker]
    OBVIOUS
  <2>3. "prerequisites_missing" \in Blocker /\ "approval_satisfied" \in Blocker
    BY DEF Blocker
  <2>4. PICK bl \in [Tasks -> Blocker] :
            \/ Refresh(status, bl)
            \/ /\ status[t] = "READY"
               /\ Refresh([status EXCEPT ![t] = "BLOCKED"], [bl EXCEPT ![t] = "prerequisites_missing"])
    <3>1. blocker \in [Tasks -> Blocker]
      BY DEF TypeOK
    <3>2. QED BY <2>1, <2>2, <2>3, <3>1 DEF ChangeCapability
  <2>5. status \in [Tasks -> Status] /\ [status EXCEPT ![t] = "BLOCKED"] \in [Tasks -> Status]
    BY DEF TypeOK, Status, TaskStatus
  <2>6. UNCHANGED <<art, assignment, authors>>
    BY <2>1 DEF ChangeCapability, Grant, budgetVars
  <2>7. CASE Refresh(status, bl)
    BY <2>5, <2>6, <2>7, RefreshCalm
  <2>8. CASE ~Refresh(status, bl)
    <3>1. \A u \in Tasks : LET s == [status EXCEPT ![t] = "BLOCKED"][u]
                           IN  s = status[u] \/ (s \in Dormant /\ status[u] \in Dormant)
      BY <2>4, <2>8 DEF TypeOK, Dormant
    <3>2. QED BY <2>2, <2>3, <2>4, <2>5, <2>6, <2>8, <3>1, RefreshCalm
  <2>9. QED BY <2>7, <2>8
<1>4. QED BY <1>1, <1>2, <1>3 DEF Escalate

LEMMA OtherCalm ==
    ASSUME TypeOK,
           \/ \E t \in Tasks : BindWorkspace(t) \/ Start(t)
           \/ \E t \in Tasks : \E k \in 1..attempts[t] : RecordProvisional(t, k)
           \/ \E T \in SUBSET Tasks, c \in FailureClass : MarkFailed(T, c)
           \/ \E a \in ReplanApprovals, sh \in Shapes : RequestReplanApproval(a, sh)
           \/ \E sh \in Shapes : Assess(sh)
           \/ \E sh \in Shapes, a \in ReplanApprovals \cup {None} : ProposeReplan(sh, a)
           \/ Abandon \/ Complete \/ Terminated \/ UNCHANGED vars
    PROVE  Calm
<1>1. CASE \E t \in Tasks : BindWorkspace(t)
  <2>1. PICK t \in Tasks : BindWorkspace(t)
    BY <1>1
  <2>2. /\ status \in [Tasks -> Status] /\ blocker \in [Tasks -> Blocker]
        /\ Refresh(status, blocker) /\ UNCHANGED <<art, assignment, authors>>
    BY <2>1 DEF BindWorkspace, TypeOK, Status, budgetVars
  <2>3. QED BY <2>2, RefreshCalm
<1>2. CASE \E t \in Tasks : Start(t) \/ \E k \in 1..attempts[t] : RecordProvisional(t, k)
  BY <1>2 DEF Start, RecordProvisional, Calm, TypeOK, Dormant, budgetVars
<1>3. CASE \E T \in SUBSET Tasks, c \in FailureClass : MarkFailed(T, c)
  BY <1>3 DEF MarkFailed, Calm, UnderReview, Dormant, budgetVars
<1>4. CASE \/ \E a \in ReplanApprovals, sh \in Shapes : RequestReplanApproval(a, sh)
           \/ \E sh \in Shapes : Assess(sh)
           \/ \E sh \in Shapes, a \in ReplanApprovals \cup {None} : ProposeReplan(sh, a)
           \/ Abandon \/ Complete \/ Terminated \/ UNCHANGED vars
  BY <1>4 DEF Assess, RequestReplanApproval, RequestApproval, ProposeReplan, Abandon, Complete, Terminated,
              Calm, vars, coreVars, budgetVars
<1>5. QED BY <1>1, <1>2, <1>3, <1>4

-----------------------------------------------------------------------------
(* The operations on assignments, candidates and evidence.                 *)

LEMMA DelegateEvidence ==
    ASSUME TypeOK, EvidenceInv, NEW t \in Tasks, NEW w \in Workers, Delegate(t, w)
    PROVE  EvidenceInv'
<1>1. /\ art' = art /\ status[t] \in Dormant \ UnderReview
      /\ status' = [status EXCEPT ![t] = "DELEGATED"]
      /\ \A u \in Tasks \ {t} : assignment'[u] = assignment[u] /\ authors'[u] = authors[u]
  BY DEF Delegate, Dormant, UnderReview, TypeOK
<1>2. CandidateInv'
  BY <1>1 DEF EvidenceInv, CandidateInv, Dormant, UnderReview, TypeOK
<1>3. IndependentEvidence'
  BY <1>1 DEF EvidenceInv, CandidateInv, IndependentEvidence
<1>4. QED BY <1>2, <1>3 DEF EvidenceInv

\* An operation that replaces the candidate of t by one with new evidence.
LEMMA ReplaceCandidate ==
    ASSUME TypeOK, EvidenceInv, NEW t \in Tasks, NEW a \in Artifact, NEW s \in UnderReview,
           art' = [art EXCEPT ![t] = a], status' = [status EXCEPT ![t] = s],
           UNCHANGED <<assignment, authors>>,
           a.status = "candidate", a.attempt = assignment[t],
           a.judges \cap (authors[t] \cup {Manager}) = {}
    PROVE  EvidenceInv'
<1>1. CandidateInv'
  BY DEF EvidenceInv, CandidateInv, Dormant, UnderReview, TypeOK
<1>2. IndependentEvidence'
  BY DEF EvidenceInv, IndependentEvidence, TypeOK
<1>3. QED BY <1>1, <1>2 DEF EvidenceInv

LEMMA SubmitEvidence ==
    ASSUME TypeOK, EvidenceInv, NEW t \in Tasks, NEW k \in Nat, Submit(t, k)
    PROVE  EvidenceInv'
<1> DEFINE a == [NoArtifact EXCEPT !.attempt = k, !.status = "candidate", !.inputs = Inputs(t)]
<1>1. a \in Artifact
  BY CandidateType
<1>2. a.status = "candidate" /\ a.attempt = k /\ a.judges = {}
  BY DEF NoArtifact
<1>3. /\ art' = [art EXCEPT ![t] = a] /\ status' = [status EXCEPT ![t] = "SUBMITTED"]
      /\ UNCHANGED <<assignment, authors>> /\ k = assignment[t]
  BY DEF Submit, CurrentAssignment, budgetVars
<1> HIDE DEF a
<1>4. QED BY <1>1, <1>2, <1>3, ReplaceCandidate DEF UnderReview

LEMMA JudgeEvidence ==
    ASSUME TypeOK, EvidenceInv, NEW t \in Tasks, NEW v \in Judges, NEW passed \in BOOLEAN,
           Validate(t, v, passed) \/ Review(t, v, passed)
    PROVE  EvidenceInv'
<1>1. art[t] \in Artifact
  BY DEF TypeOK
<1>2. PICK j \in Artifact : /\ Judge(t, v, j)
                            /\ j.status = art[t].status /\ j.attempt = art[t].attempt
                            /\ j.judges = art[t].judges
  <2>1. CASE Validate(t, v, passed)
    <3> DEFINE j == [art[t] EXCEPT !.verdicts = @ \cup {passed}]
    <3>1. j \in Artifact /\ j.status = art[t].status /\ j.attempt = art[t].attempt
          /\ j.judges = art[t].judges
      BY <1>1 DEF Artifact
    <3>2. Judge(t, v, j)
      BY <2>1 DEF Validate
    <3>3. QED BY <3>1, <3>2
  <2>2. CASE Review(t, v, passed)
    <3> DEFINE j == [art[t] EXCEPT !.review = IF passed THEN "passed" ELSE "failed"]
    <3>1. j \in Artifact /\ j.status = art[t].status /\ j.attempt = art[t].attempt
          /\ j.judges = art[t].judges
      BY <1>1 DEF Artifact
    <3>2. Judge(t, v, j)
      BY <2>2 DEF Review
    <3>3. QED BY <3>1, <3>2
  <2>3. QED BY <2>1, <2>2
<1>3. PICK a \in Artifact : /\ art' = [art EXCEPT ![t] = a]
                            /\ a.status = j.status /\ a.attempt = j.attempt
                            /\ a.judges = j.judges \cup {v}
  <2> DEFINE a == [j EXCEPT !.judges = @ \cup {v}]
  <2>1. a \in Artifact /\ a.status = j.status /\ a.attempt = j.attempt /\ a.judges = j.judges \cup {v}
    BY DEF Artifact, Principals
  <2>2. art' = [art EXCEPT ![t] = a]
    BY <1>2 DEF Judge
  <2>3. QED BY <2>1, <2>2
<1>4. /\ art[t].status = "candidate" /\ status[t] \in UnderReview
      /\ v # Manager /\ v \notin authors[t]
      /\ status' = [status EXCEPT ![t] = "REVIEWING"] /\ UNCHANGED <<assignment, authors>>
  BY <1>2 DEF Judge, CurrentCandidate, UnderReview, budgetVars
<1>5. art[t].attempt = assignment[t] /\ art[t].judges \cap (authors[t] \cup {Manager}) = {}
  BY <1>4 DEF EvidenceInv, CandidateInv, IndependentEvidence
<1>6. QED BY <1>2, <1>3, <1>4, <1>5, ReplaceCandidate DEF UnderReview

\* An operation that only gives some artifacts another status.
LEMMA Restatus ==
    ASSUME TypeOK, IndependentEvidence, UNCHANGED authors,
           \A t \in Tasks : /\ art'[t].judges = art[t].judges
                            /\ art'[t].status \in {"candidate", "accepted"} =>
                                  art[t].status \in {"candidate", "accepted"}
    PROVE  IndependentEvidence'
BY DEF IndependentEvidence

LEMMA AcceptEvidence ==
    ASSUME TypeOK, EvidenceInv, NEW t \in Tasks, Accept(t)
    PROVE  EvidenceInv'
<1> DEFINE st == [status EXCEPT ![t] = "ACCEPTED"]
           a == [art[t] EXCEPT !.status = "accepted"]
<1>1. st \in [Tasks -> Status] /\ blocker \in [Tasks -> Blocker] /\ Refresh(st, blocker)
  BY DEF Accept, TypeOK, Status, TaskStatus
<1>2. \A u \in Tasks : status'[u] = st[u] \/ (st[u] \in Dormant /\ status'[u] \in Dormant)
  BY <1>1, RefreshMoves
<1>3. /\ art' = [art EXCEPT ![t] = a] /\ UNCHANGED <<assignment, authors>>
      /\ a.judges = art[t].judges /\ art[t].status = "candidate"
  <2>1. art[t] \in Artifact
    BY DEF TypeOK
  <2>2. QED BY <2>1 DEF Accept, CurrentCandidate, Artifact, budgetVars
<1> HIDE DEF a
<1>4. \A u \in Tasks \ {t} : art'[u] = art[u] /\ st[u] = status[u]
  BY <1>3 DEF TypeOK
<1>5. status'[t] = "ACCEPTED"
  BY <1>2 DEF TypeOK, Dormant
<1>6. CandidateInv'
  BY <1>2, <1>3, <1>4, <1>5 DEF EvidenceInv, CandidateInv, UnderReview, Dormant
<1>7. IndependentEvidence'
  BY <1>3, Restatus DEF EvidenceInv, TypeOK
<1>8. QED BY <1>6, <1>7 DEF EvidenceInv

LEMMA RecoverEvidence ==
    ASSUME TypeOK, EvidenceInv, NEW f \in failures, Recover(f)
    PROVE  EvidenceInv'
<1> DEFINE t == f.task
           s == RecoveredStatus[Route(t, f.class)]
           a == [art[t] EXCEPT !.status = IF @ = None THEN None ELSE "rejected"]
<1>1. t \in Tasks /\ art[t] \in Artifact
  BY DEF TypeOK, Failure
<1>2. s \notin UnderReview
  <2>1. Route(t, f.class) \in {"RETRY", "REVISE", "REPLACE", "ESCALATE", "REPLAN"}
    BY DEF Route
  <2>2. QED BY <2>1 DEF RecoveredStatus, UnderReview
<1>3. a.judges = art[t].judges /\ a.status \notin {"candidate", "accepted"}
  BY <1>1 DEF Artifact, None
<1>4. /\ art' = [art EXCEPT ![t] = a] /\ status' = [status EXCEPT ![t] = s]
      /\ UNCHANGED <<assignment, authors>>
  BY DEF Recover, Rejected
<1> HIDE DEF a, s
<1>5. CandidateInv'
  BY <1>1, <1>2, <1>3, <1>4 DEF EvidenceInv, CandidateInv, TypeOK
<1>6. IndependentEvidence'
  BY <1>1, <1>3, <1>4, Restatus DEF EvidenceInv, TypeOK
<1>7. QED BY <1>5, <1>6 DEF EvidenceInv

LEMMA ApplyReplanEvidence ==
    ASSUME TypeOK, EvidenceInv, NEW p \in replans, ApplyReplan(p)
    PROVE  EvidenceInv'
<1> DEFINE sh == p.shape
           D == Invalidated(sh)
           planned == [t \in Tasks |-> CASE t \in sh.remove                 -> "CANCELLED"
                                         [] t \in sh.add \cup (D \ sh.remove) -> "PLANNED"
                                         [] OTHER                           -> status[t]]
           unblocked == [t \in Tasks |-> IF t \in D THEN None ELSE blocker[t]]
<1>1. planned \in [Tasks -> Status] /\ unblocked \in [Tasks -> Blocker] /\ Refresh(planned, unblocked)
  BY DEF ApplyReplan, TypeOK, Status, TaskStatus, Blocker
<1>2. \A t \in Tasks : status'[t] = planned[t] \/ (planned[t] \in Dormant /\ status'[t] \in Dormant)
  BY <1>1, RefreshMoves
<1>3. ASSUME NEW t \in Tasks
      PROVE  /\ art'[t].judges = art[t].judges
             /\ \/ art'[t].status = art[t].status
                \/ art'[t].status = "superseded"
             /\ t \in D => art'[t].status \notin {"candidate", "accepted"}
             /\ t \notin D => art'[t] = art[t] /\ assignment'[t] = assignment[t]
  <2>1. art[t] \in Artifact
    BY DEF TypeOK
  <2>2. art'[t] = IF t \in D /\ art[t].status # None THEN [art[t] EXCEPT !.status = "superseded"]
                                                     ELSE art[t]
    BY DEF ApplyReplan
  <2>3. assignment'[t] = IF t \in D THEN NoAttempt ELSE assignment[t]
    BY DEF ApplyReplan
  <2>4. QED BY <2>1, <2>2, <2>3 DEF Artifact, None
<1>4. sh.add \cap Present(status) = {} /\ sh.remove \subseteq Present(status)
  BY DEF ApplyReplan, Applicable
<1>5. sh.remove \subseteq D
  <2>1. sh.remove \subseteq Tasks
    BY <1>4 DEF Present
  <2>2. QED BY <2>1 DEF Invalidated, Affected
<1> HIDE DEF D
<1>6. CandidateInv'
  <2> SUFFICES ASSUME NEW t \in Tasks
               PROVE  /\ status'[t] \in UnderReview =>
                            art'[t].status = "candidate" /\ art'[t].attempt = assignment'[t]
                      /\ status'[t] \in Dormant => art'[t].status \notin {"candidate", "accepted"}
    BY DEF CandidateInv
  <2>1. CASE t \in D
    <3>1. planned[t] \in {"CANCELLED", "PLANNED"}
      BY <2>1
    <3>2. status'[t] \notin UnderReview
      BY <1>2, <3>1 DEF UnderReview, Dormant
    <3>3. QED BY <1>3, <2>1, <3>2
  <2>2. CASE t \notin D /\ t \in sh.add
    <3>1. planned[t] = "PLANNED" /\ status[t] = "ABSENT"
      BY <1>4, <1>5, <2>2 DEF Present
    <3>2. status'[t] \notin UnderReview
      BY <1>2, <3>1 DEF UnderReview, Dormant
    <3>3. art[t].status \notin {"candidate", "accepted"}
      BY <3>1 DEF EvidenceInv, CandidateInv, Dormant
    <3>4. QED BY <1>3, <2>2, <3>2, <3>3
  <2>3. CASE t \notin D /\ t \notin sh.add
    <3>1. planned[t] = status[t]
      BY <1>5, <2>3
    <3>2. QED BY <1>2, <1>3, <2>3, <3>1 DEF EvidenceInv, CandidateInv, UnderReview, Dormant
  <2>4. QED BY <2>1, <2>2, <2>3
<1>7. IndependentEvidence'
  <2>1. UNCHANGED authors
    BY DEF ApplyReplan
  <2>2. QED BY <1>3, <2>1, Restatus DEF EvidenceInv
<1>8. QED BY <1>6, <1>7 DEF EvidenceInv

LEMMA InitEvidence == Init => EvidenceInv
BY DEF Init, EvidenceInv, CandidateInv, IndependentEvidence, NoArtifact, UnderReview, None

LEMMA NextEvidence == TypeOK /\ EvidenceInv /\ [Next]_vars => EvidenceInv'
<1> SUFFICES ASSUME TypeOK, EvidenceInv, [Next]_vars PROVE EvidenceInv'
  OBVIOUS
<1>1. ASSUME NEW t \in Tasks, Work(t) PROVE EvidenceInv'
  <2>1. CASE \E k \in 1..attempts[t] : Submit(t, k) \/ RecordProvisional(t, k)
    BY <2>1, SubmitEvidence, OtherCalm, CalmInv
  <2>2. CASE \E v \in Judges, passed \in BOOLEAN : Validate(t, v, passed) \/ Review(t, v, passed)
    BY <2>2, JudgeEvidence
  <2>3. CASE BindWorkspace(t) \/ Start(t)
    BY <2>3, OtherCalm, CalmInv
  <2>4. QED BY <1>1, <2>1, <2>2, <2>3, DelegateEvidence, AcceptEvidence DEF Work
<1>2. CASE Trouble
  <2>1. CASE \E f \in failures : Recover(f)
    BY <2>1, RecoverEvidence
  <2>2. CASE ~\E f \in failures : Recover(f)
    <3>1. \E T \in SUBSET Tasks, c \in FailureClass : MarkFailed(T, c)
      BY <1>2, <2>2, ClassesAssumption DEF Trouble, Fail, FailAssignment, Resume, FailureClass, RetryClasses
    <3>2. QED BY <3>1, OtherCalm, CalmInv
  <2>3. QED BY <2>1, <2>2
<1>3. CASE Replan
  BY <1>3, ApplyReplanEvidence, OtherCalm, CalmInv DEF Replan
<1>4. CASE Abandon \/ Complete \/ Terminated \/ UNCHANGED vars
  BY <1>4, OtherCalm, CalmInv
<1>5. QED BY <1>1, <1>2, <1>3, <1>4, PlanCalm, GovernCalm, EscalateCalm, CalmInv DEF Next

\* Submission, recovery and replanning never leave an acceptable candidate of
\* an earlier assignment behind.
THEOREM CandidateStaysCurrent == Spec => []CandidateIsCurrent
<1>1. EvidenceInv => CandidateIsCurrent
  BY DEF EvidenceInv, CandidateInv, CandidateIsCurrent, UnderReview, Dormant
<1>2. Spec => []EvidenceInv
  BY TypeCorrect, InitEvidence, NextEvidence, PTL DEF Spec
<1>3. QED BY <1>1, <1>2, PTL

\* No candidate that can still be accepted, or was, carries the evidence of
\* the Manager or of any of its authors, later ones included.
THEOREM EvidenceStaysIndependent == Spec => []IndependentEvidence
<1>1. EvidenceInv => IndependentEvidence
  BY DEF EvidenceInv
<1>2. Spec => []EvidenceInv
  BY TypeCorrect, InitEvidence, NextEvidence, PTL DEF Spec
<1>3. QED BY <1>1, <1>2, PTL
-----------------------------------------------------------------------------
(* Authority is granted as a human approved it, and reviewed as it demands. *)

(***************************************************************************)
(* GrantIsApproved is inductive once the requests are known to cite only    *)
(* approvals about capabilities: the approval a grant rests on is decided,  *)
(* and neither a second decision nor a supersession can take it back.       *)
(***************************************************************************)
GrantApprovals == CapabilityApprovals \cup DirectApprovals

LinksAreGrants ==
    \A q \in Requests : Filed(q) => request[q].approval \in GrantApprovals \cup {None}

GrantInv == GrantIsApproved /\ LinksAreGrants

\* A step after which every approved grant approval is still approved as it was.
ApprovalsLast ==
    \A a \in GrantApprovals : approval[a] = "approved" =>
        approval'[a] = "approved" /\ scope'[a] = scope[a]

LEMMA QuietGrant ==
    ASSUME GrantInv, ApprovalsLast, UNCHANGED <<capability, request>>
    PROVE  GrantInv'
<1>1. GrantIsApproved'
  BY DEF GrantInv, GrantIsApproved, ApprovalsLast, GrantApprovals
<1>2. LinksAreGrants'
  BY DEF GrantInv, LinksAreGrants, Filed
<1>3. QED BY <1>1, <1>2 DEF GrantInv

LEMMA RequestApprovalLasts ==
    ASSUME TypeOK, NEW a \in Approvals, NEW s, RequestApproval(a, s)
    PROVE  ApprovalsLast /\ UNCHANGED <<capability, request>>
BY DEF RequestApproval, ApprovalsLast, GrantApprovals, Approvals, TypeOK, grantVars, None

LEMMA GovernLasts ==
    ASSUME TypeOK, Govern
    PROVE  ApprovalsLast /\ UNCHANGED <<capability, request>>
<1>1. CASE \E a \in TaskApprovals : RequestApproval(a, TaskScope)
  BY <1>1, RequestApprovalLasts DEF Approvals
<1>2. CASE \E t \in Tasks, a \in TaskApprovals : GateTask(t, a)
  BY <1>2 DEF GateTask, ApprovalsLast, grantVars
<1>3. CASE \E a \in Approvals, approved \in BOOLEAN : DecideApproval(a, approved)
  BY <1>3 DEF DecideApproval, ApprovalsLast, GrantApprovals, Approvals, TypeOK, grantVars
<1>4. CASE \E old, new \in TaskApprovals : SupersedeApproval(old, new)
  BY <1>4, KindsAssumption
     DEF SupersedeApproval, ApprovalsLast, GrantApprovals, Approvals, TypeOK, grantVars
<1>5. QED BY <1>1, <1>2, <1>3, <1>4 DEF Govern

\* The operations on tasks, plans and failures concern neither requests nor approvals.
LEMMA WorkLasts ==
    ASSUME \/ Plan
           \/ \E t \in Tasks : Work(t)
           \/ Trouble
           \/ \E sh \in Shapes : Assess(sh)
           \/ \E sh \in Shapes, a \in ReplanApprovals \cup {None} : ProposeReplan(sh, a)
           \/ \E p \in replans : ApplyReplan(p)
           \/ Abandon \/ Complete \/ Terminated \/ UNCHANGED vars
    PROVE  ApprovalsLast /\ UNCHANGED <<capability, request>>
<1>1. CASE \E t \in Tasks : Work(t)
  <2>1. PICK t \in Tasks : Work(t)
    BY <1>1
  <2>2. CASE BindWorkspace(t)
    BY <2>2 DEF BindWorkspace, ApprovalsLast, gateVars, grantVars
  <2>3. CASE Start(t) \/ \E w \in Workers : Delegate(t, w)
    BY <2>3 DEF Start, Delegate, ApprovalsLast, gateVars, grantVars
  <2>4. CASE \E k \in 1..attempts[t] : Submit(t, k) \/ RecordProvisional(t, k)
    BY <2>4 DEF Submit, RecordProvisional, ApprovalsLast, gateVars, grantVars
  <2>5. CASE \E v \in Judges, passed \in BOOLEAN : Validate(t, v, passed) \/ Review(t, v, passed)
    BY <2>5 DEF Validate, Review, Judge, ApprovalsLast, gateVars, grantVars
  <2>6. CASE Accept(t)
    BY <2>6 DEF Accept, ApprovalsLast, gateVars, grantVars
  <2>7. QED BY <2>1, <2>2, <2>3, <2>4, <2>5, <2>6 DEF Work
<1>2. CASE Trouble
  <2>1. CASE \E f \in failures : Recover(f)
    BY <2>1 DEF Recover, ApprovalsLast, gateVars, grantVars
  <2>2. CASE ~\E f \in failures : Recover(f)
    BY <1>2, <2>2 DEF Trouble, Fail, FailAssignment, Resume, MarkFailed, ApprovalsLast,
                      gateVars, grantVars
  <2>3. QED BY <2>1, <2>2
<1>3. CASE \E p \in replans : ApplyReplan(p)
  BY <1>3 DEF ApplyReplan, ApprovalsLast, gateVars, grantVars
<1>4. CASE Plan
  BY <1>4 DEF Plan, AddTasks, ApprovalsLast, gateVars, grantVars
<1>5. CASE \/ \E sh \in Shapes : Assess(sh)
           \/ \E sh \in Shapes, a \in ReplanApprovals \cup {None} : ProposeReplan(sh, a)
  BY <1>5 DEF Assess, ProposeReplan, ApprovalsLast, gateVars, grantVars
<1>6. CASE Abandon \/ Complete \/ Terminated \/ UNCHANGED vars
  BY <1>6 DEF Abandon, Complete, Terminated, ApprovalsLast, vars, gateVars, grantVars
<1>7. QED BY <1>1, <1>2, <1>3, <1>4, <1>5, <1>6

\* The grant of an approved profile to one task.
LEMMA GrantKeepsApproved ==
    ASSUME TypeOK, GrantIsApproved, NEW t \in Tasks, NEW p \in Profile, NEW ws \in BOOLEAN,
           NEW a \in GrantApprovals, NEW granted \in BOOLEAN, Grant(t, p, granted),
           approval[a] = "approved", scope[a] = CapabilityScope(t, p, ws)
    PROVE  GrantIsApproved'
<1>1. capability' = [capability EXCEPT ![t] = p] /\ UNCHANGED <<approval, scope>>
  BY DEF Grant, gateVars
<1>2. QED BY <1>1 DEF GrantIsApproved, TypeOK, GrantApprovals

LEMMA EscalateGrant ==
    ASSUME TypeOK, GrantInv, Escalate
    PROVE  GrantInv'
<1>1. CASE \/ \E a \in DirectApprovals, t \in Tasks, p \in Wanted, ws \in BOOLEAN :
                 RequestApproval(a, CapabilityScope(t, p, ws))
           \/ \E q \in Requests, a \in CapabilityApprovals : RequestCapabilityApproval(q, a)
  BY <1>1, RequestApprovalLasts, QuietGrant DEF RequestCapabilityApproval, Approvals
<1>2. CASE \/ \E q \in Requests, t \in Tasks, p \in Wanted :
                 \E k \in 1..attempts[t] : RecordCapabilityRequest(q, t, k, p)
           \/ \E q \in Requests, a \in CapabilityApprovals \cup DirectApprovals : LinkCapability(q, a)
           \/ \E q \in Requests : DenyCapability(q) \/ ApproveCapability(q) \/ MarkEscalated(q)
  <2>1. UNCHANGED <<capability, approval, scope>>
    BY <1>2 DEF RecordCapabilityRequest, LinkCapability, DenyCapability, ApproveCapability,
                MarkEscalated, UpdateRequest, gateVars
  <2>2. LinksAreGrants'
    <3>1. CASE \E q \in Requests, t \in Tasks, p \in Wanted :
                  \E k \in 1..attempts[t] : RecordCapabilityRequest(q, t, k, p)
      BY <3>1 DEF RecordCapabilityRequest, GrantInv, LinksAreGrants, Filed, TypeOK
    <3>2. CASE \E q \in Requests, a \in CapabilityApprovals \cup DirectApprovals : LinkCapability(q, a)
      <4>1. PICK q \in Requests, a \in GrantApprovals : LinkCapability(q, a)
        BY <3>2 DEF GrantApprovals
      <4>2. request[q] \in CapabilityRequest
        BY <4>1, FiledType DEF LinkCapability
      <4>3. [request[q] EXCEPT !.approval = a].approval = a
        BY <4>2 DEF CapabilityRequest
      <4>4. QED BY <4>1, <4>3 DEF LinkCapability, UpdateRequest, GrantInv, LinksAreGrants, Filed, TypeOK
    <3>3. CASE \E q \in Requests : DenyCapability(q) \/ ApproveCapability(q) \/ MarkEscalated(q)
      <4>1. PICK q \in Requests : DenyCapability(q) \/ ApproveCapability(q) \/ MarkEscalated(q)
        BY <3>3
      <4>2. request[q] \in CapabilityRequest /\ Filed(q)
        BY <4>1, FiledType DEF DenyCapability, ApproveCapability, MarkEscalated
      <4>3. PICK s \in {"denied", "approved", "escalated"} :
                UpdateRequest(q, [request[q] EXCEPT !.status = s])
        BY <4>1 DEF DenyCapability, ApproveCapability, MarkEscalated
      <4>4. [request[q] EXCEPT !.status = s].approval = request[q].approval
        BY <4>2 DEF CapabilityRequest
      <4>5. QED BY <4>2, <4>3, <4>4 DEF UpdateRequest, GrantInv, LinksAreGrants, Filed, TypeOK
    <3>4. QED BY <1>2, <3>1, <3>2, <3>3
  <2>3. GrantIsApproved'
    BY <2>1 DEF GrantInv, GrantIsApproved
  <2>4. QED BY <2>2, <2>3 DEF GrantInv
<1>3. CASE \E q \in Requests : ApplyEscalation(q)
  <2>1. PICK q \in Requests : ApplyEscalation(q)
    BY <1>3
  <2> DEFINE t == request[q].task
             a == request[q].approval
  <2>2. request[q] \in CapabilityRequest /\ Filed(q) /\ a # None /\ approval[a] = "approved"
    BY <2>1, FiledType DEF ApplyEscalation, Granted
  <2>3. t \in Tasks /\ request[q].profile \in Profile /\ a \in GrantApprovals
    BY <2>2 DEF CapabilityRequest, GrantInv, LinksAreGrants
  <2>4. PICK ws \in BOOLEAN : scope[a] = CapabilityScope(t, request[q].profile, ws)
    BY <2>1 DEF ApplyEscalation, ExactApproval
  <2>5. scope[a].workspace \in BOOLEAN
    BY <2>4 DEF CapabilityScope
  <2>6. Grant(t, request[q].profile, scope[a].workspace)
    BY <2>1 DEF ApplyEscalation
  <2>7. GrantIsApproved'
    <3> HIDE DEF t, a
    <3>1. QED BY <2>2, <2>3, <2>4, <2>5, <2>6, GrantKeepsApproved DEF GrantInv
  <2>8. LinksAreGrants'
    <3>1. [request[q] EXCEPT !.status = "escalated"].approval = a
      BY <2>2 DEF CapabilityRequest
    <3>2. QED BY <2>1, <2>2, <3>1 DEF ApplyEscalation, GrantInv, LinksAreGrants, Filed, TypeOK
  <2>9. QED BY <2>7, <2>8 DEF GrantInv
<1>4. CASE \E a \in DirectApprovals : ChangeCapability(a)
  <2>1. PICK a \in DirectApprovals : ChangeCapability(a)
    BY <1>4
  <2>2. a \in GrantApprovals /\ a \in Approvals /\ scope[a] \in Scope
    BY DEF GrantApprovals, Approvals, TypeOK
  <2>3. scope[a].kind = "capability" /\ approval[a] = "approved"
        /\ Grant(scope[a].task, scope[a].profile, scope[a].workspace) /\ UNCHANGED request
    BY <2>1 DEF ChangeCapability
  <2>4. PICK t \in Tasks, p \in Profile, ws \in BOOLEAN : scope[a] = CapabilityScope(t, p, ws)
    BY <2>2, <2>3 DEF Scope, TaskScope, ReplanScope
  <2>5. Grant(t, p, ws)
    BY <2>3, <2>4 DEF CapabilityScope
  <2>6. GrantIsApproved'
    BY <2>2, <2>3, <2>4, <2>5, GrantKeepsApproved DEF GrantInv
  <2>7. LinksAreGrants'
    BY <2>3 DEF GrantInv, LinksAreGrants, Filed
  <2>8. QED BY <2>6, <2>7 DEF GrantInv
<1>5. QED BY <1>1, <1>2, <1>3, <1>4 DEF Escalate

LEMMA InitGrant == Init => GrantInv
BY DEF Init, GrantInv, GrantIsApproved, LinksAreGrants, Filed

LEMMA NextGrant == TypeOK /\ GrantInv /\ [Next]_vars => GrantInv'
<1> SUFFICES ASSUME TypeOK, GrantInv, [Next]_vars PROVE GrantInv'
  OBVIOUS
<1>1. CASE Govern
  BY <1>1, GovernLasts, QuietGrant
<1>2. CASE Escalate
  BY <1>2, EscalateGrant
<1>3. CASE \E a \in ReplanApprovals, sh \in Shapes : RequestReplanApproval(a, sh)
  BY <1>3, RequestApprovalLasts, QuietGrant DEF RequestReplanApproval, Approvals
<1>4. QED BY <1>1, <1>2, <1>3, WorkLasts, QuietGrant DEF Next, Replan

\* A task's authority is what it was created with or what a human approved for
\* that very task, whatever requests are filed, linked, decided and applied.
THEOREM GrantsAreApproved == Spec => []GrantIsApproved
<1>1. GrantInv => GrantIsApproved
  BY DEF GrantInv
<1>2. Spec => []GrantInv
  BY TypeCorrect, InitGrant, NextGrant, PTL DEF Spec
<1>3. QED BY <1>1, <1>2, PTL

-----------------------------------------------------------------------------
(* DeveloperWorkIsReviewed is inductive by itself: acceptance demands the  *)
(* review, no grant reaches an accepted task, and what survives a replan   *)
(* keeps its artifact.                                                     *)

\* A step that accepts nothing and leaves accepted tasks their profile and review.
LEMMA KeepsReviewed ==
    ASSUME DeveloperWorkIsReviewed,
           \A t \in Done' : t \in Done /\ art'[t] = art[t] /\ capability'[t] = capability[t]
    PROVE  DeveloperWorkIsReviewed'
BY DEF DeveloperWorkIsReviewed, Developer

LEMMA FrameReviewed ==
    ASSUME DeveloperWorkIsReviewed, Frame, UNCHANGED capability
    PROVE  DeveloperWorkIsReviewed'
BY KeepsReviewed DEF Frame

LEMMA EscalateReviewed ==
    ASSUME TypeOK, DeveloperWorkIsReviewed, Escalate
    PROVE  DeveloperWorkIsReviewed'
<1>1. Frame
  BY EscalateFrame
<1>2. \A u \in Done : capability'[u] = capability[u]
  <2>1. CASE \/ \E q \in Requests, t \in Tasks, p \in Wanted :
                   \E k \in 1..attempts[t] : RecordCapabilityRequest(q, t, k, p)
             \/ \E a \in DirectApprovals, t \in Tasks, p \in Wanted, ws \in BOOLEAN :
                   RequestApproval(a, CapabilityScope(t, p, ws))
             \/ \E q \in Requests, a \in CapabilityApprovals : RequestCapabilityApproval(q, a)
             \/ \E q \in Requests, a \in CapabilityApprovals \cup DirectApprovals : LinkCapability(q, a)
             \/ \E q \in Requests : DenyCapability(q) \/ ApproveCapability(q) \/ MarkEscalated(q)
    BY <2>1 DEF RecordCapabilityRequest, RequestCapabilityApproval, RequestApproval, LinkCapability,
                DenyCapability, ApproveCapability, MarkEscalated, UpdateRequest, grantVars
  <2>2. CASE \E q \in Requests : ApplyEscalation(q)
    <3>1. PICK q \in Requests : ApplyEscalation(q)
      BY <2>2
    <3>2. \A u \in Done : u # request[q].task
      BY <3>1 DEF ApplyEscalation, Grantable, Done
    <3>3. QED BY <3>1, <3>2 DEF ApplyEscalation, Grant, Done, TypeOK
  <2>3. CASE \E a \in DirectApprovals : ChangeCapability(a)
    <3>1. PICK a \in DirectApprovals : ChangeCapability(a)
      BY <2>3
    <3>2. \A u \in Done : u # scope[a].task
      BY <3>1 DEF ChangeCapability, Grantable, Done
    <3>3. QED BY <3>1, <3>2 DEF ChangeCapability, Grant, Done, TypeOK
  <2>4. QED BY <2>1, <2>2, <2>3 DEF Escalate
<1>3. QED BY <1>1, <1>2, KeepsReviewed DEF Frame

LEMMA AcceptReviewed ==
    ASSUME TypeOK, AcceptedInv, DeveloperWorkIsReviewed, NEW t \in Tasks, Accept(t)
    PROVE  DeveloperWorkIsReviewed'
<1>1. Done' = Done \cup {t} /\ art' = [art EXCEPT ![t].status = "accepted"]
  BY AcceptInv
<1>2. art[t] \in Artifact
  BY DEF TypeOK
<1>3. \A u \in Tasks : art'[u].review = art[u].review
  BY <1>1, <1>2 DEF Artifact, TypeOK
<1>4. UNCHANGED capability /\ (Developer(t) => art[t].review = "passed")
  BY DEF Accept, EvidenceComplete, grantVars
<1>5. QED BY <1>1, <1>3, <1>4 DEF DeveloperWorkIsReviewed, Developer, Done

LEMMA NextReviewed ==
    TypeOK /\ AcceptedInv /\ DeveloperWorkIsReviewed /\ [Next]_vars => DeveloperWorkIsReviewed'
<1> SUFFICES ASSUME TypeOK, AcceptedInv, DeveloperWorkIsReviewed, [Next]_vars
             PROVE  DeveloperWorkIsReviewed'
  OBVIOUS
<1>1. ASSUME NEW t \in Tasks, Work(t) PROVE DeveloperWorkIsReviewed'
  <2>1. UNCHANGED capability
    BY <1>1, WorkLasts
  <2>2. QED BY <1>1, <2>1, WorkFrame, FrameReviewed, AcceptReviewed DEF Work
<1>2. CASE Plan
  <2>1. PICK S \in SUBSET Tasks : AddTasks(S)
    BY <1>2 DEF Plan
  <2>2. Done' = Done /\ UNCHANGED <<capability, art>>
    BY <2>1, AddTasksInv DEF AddTasks, grantVars
  <2>3. QED BY <2>2, KeepsReviewed
<1>3. CASE Trouble
  BY <1>3, TroubleFrame, WorkLasts, FrameReviewed
<1>4. CASE Govern
  BY <1>4, GovernFrame, GovernLasts, FrameReviewed
<1>5. CASE Escalate
  BY <1>5, EscalateReviewed
<1>6. CASE Replan
  <2>1. CASE \E p \in replans : ApplyReplan(p)
    <3>1. PICK p \in replans : ApplyReplan(p)
      BY <2>1
    <3>2. UNCHANGED capability
      BY <2>1, WorkLasts
    <3>3. \A t \in Done' : t \in Done /\ art'[t] = art[t]
      BY <3>1, ApplyReplanInv
    <3>4. QED BY <3>2, <3>3, KeepsReviewed
  <2>2. CASE ~\E p \in replans : ApplyReplan(p)
    <3>1. Frame
      BY <1>6, <2>2, ProposeFrame DEF Replan
    <3>2. UNCHANGED capability
      BY <1>6, <2>2 DEF Replan, Assess, RequestReplanApproval, RequestApproval, ProposeReplan, grantVars
    <3>3. QED BY <3>1, <3>2, FrameReviewed
  <2>3. QED BY <2>1, <2>2
<1>7. CASE Abandon \/ Complete \/ Terminated \/ UNCHANGED vars
  <2>1. UNCHANGED <<status, art, capability>>
    BY <1>7, EndFrame, WorkLasts
  <2>2. QED BY <2>1, KeepsReviewed DEF Done
<1>8. QED BY <1>1, <1>2, <1>3, <1>4, <1>5, <1>6, <1>7 DEF Next

\* Accepted work of a task that holds the developer profile passed its review,
\* whenever and however the task was given that profile.
THEOREM AcceptedDeveloperWorkIsReviewed == Spec => []DeveloperWorkIsReviewed
<1>1. Init => DeveloperWorkIsReviewed
  BY DEF Init, DeveloperWorkIsReviewed, Done
<1>2. LineageInv => AcceptedInv
  BY DEF LineageInv
<1>3. QED BY LineageInvariant, NextReviewed, <1>1, <1>2, PTL DEF Spec
==============================================================================
