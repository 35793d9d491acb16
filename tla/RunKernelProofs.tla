--------------------------- MODULE RunKernelProofs ---------------------------
(* Theorems about RunKernel, for every instance of its constants: its types, *)
(* the lineage of accepted work, and that the kernel implements AcceptedWork. *)
EXTENDS RunKernel, TLAPS

Status == TaskStatus \cup {"ABSENT"}

USE PacketAssumption, TaskKindAssumption, ApprovalsAssumption, ShapesAssumption,
    ClassesAssumption, WantedAssumption, BudgetAssumption

(***************************************************************************)
(* Type correctness.                                                       *)
(***************************************************************************)
LEMMA RefreshType ==
    ASSUME NEW st \in [Tasks -> Status], NEW bl \in [Tasks -> Blocker], Refresh(st, bl)
    PROVE  status' \in [Tasks -> Status] /\ blocker' \in [Tasks -> Blocker]
BY DEF Refresh, Status, TaskStatus, Blocker, None

LEMMA NoArtifactType == NoArtifact \in Artifact
BY DEF NoArtifact, Artifact, None, NoAttempt

LEMMA InputsType ==
    ASSUME TypeOK, NEW t \in Tasks
    PROVE  Inputs(t) \in SUBSET (Tasks \X Nat)
BY DEF Inputs, Artifact, TypeOK

\* The artifact record of an assignment's fresh submission.
LEMMA CandidateType ==
    ASSUME TypeOK, NEW t \in Tasks, NEW k \in Nat
    PROVE  [NoArtifact EXCEPT !.attempt = k, !.status = "candidate", !.inputs = Inputs(t)] \in Artifact
BY InputsType DEF NoArtifact, Artifact, None, NoAttempt

LEMMA InitType == Init => TypeOK
<1> SUFFICES ASSUME Init PROVE TypeOK
  OBVIOUS
<1>1. status \in [Tasks -> Status] /\ blocker \in [Tasks -> Blocker] /\ art \in [Tasks -> Artifact]
  BY NoArtifactType DEF Init, Status, TaskStatus, Blocker
<1>2. scope \in [Approvals -> Scope]
  BY DEF Init, Scope
<1>3. capability \in [Tasks -> Profile]
  BY DEF Init, Profile
<1>4. QED BY <1>1, <1>2, <1>3 DEF Init, TypeOK, Status, NoAttempt

LEMMA AddTasksType ==
    ASSUME TypeOK, NEW S \in SUBSET Tasks, AddTasks(S)
    PROVE  TypeOK'
<1> DEFINE planned == [t \in Tasks |-> IF t \in S THEN "PLANNED" ELSE status[t]]
<1>1. planned \in [Tasks -> Status]
  BY DEF TypeOK, Status, TaskStatus
<1>2. status' \in [Tasks -> Status] /\ blocker' \in [Tasks -> Blocker]
  <2>1. Refresh(planned, blocker)
    BY DEF AddTasks
  <2>2. blocker \in [Tasks -> Blocker]
    BY DEF TypeOK
  <2>3. QED BY <1>1, <2>1, <2>2, RefreshType
<1>3. deps' \in [Tasks -> SUBSET Tasks]
  BY DEF AddTasks, TypeOK
<1>4. QED BY <1>2, <1>3 DEF AddTasks, TypeOK, Status, budgetVars, gateVars, grantVars

LEMMA BindWorkspaceType ==
    ASSUME TypeOK, NEW t \in Tasks, BindWorkspace(t)
    PROVE  TypeOK'
<1>1. status' \in [Tasks -> Status] /\ blocker' \in [Tasks -> Blocker]
  BY RefreshType DEF BindWorkspace, TypeOK, Status
<1>2. QED BY <1>1 DEF BindWorkspace, TypeOK, Status, budgetVars, planVars, gateVars, grantVars

LEMMA DelegateType ==
    ASSUME TypeOK, NEW t \in Tasks, NEW w \in Workers, Delegate(t, w)
    PROVE  TypeOK'
<1>1. /\ status' \in [Tasks -> Status] /\ authors' \in [Tasks -> SUBSET Principals]
      /\ attempts' \in [Tasks -> Nat] /\ assignment' \in [Tasks -> Nat]
  BY DEF Delegate, TypeOK, Status, TaskStatus, Principals
<1>2. QED BY <1>1 DEF Delegate, TypeOK, Status, planVars, gateVars, grantVars

LEMMA StartType ==
    ASSUME TypeOK, NEW t \in Tasks, Start(t)
    PROVE  TypeOK'
<1>1. status' \in [Tasks -> Status]
  BY DEF Start, TypeOK, Status, TaskStatus
<1>2. QED BY <1>1 DEF Start, TypeOK, Status, budgetVars, planVars, gateVars, grantVars

LEMMA SubmitType ==
    ASSUME TypeOK, NEW t \in Tasks, NEW k \in Nat, Submit(t, k)
    PROVE  TypeOK'
<1>1. status' \in [Tasks -> Status]
  BY DEF Submit, TypeOK, Status, TaskStatus
<1>2. art' \in [Tasks -> Artifact]
  BY CandidateType DEF Submit, TypeOK
<1>3. QED BY <1>1, <1>2 DEF Submit, TypeOK, Status, budgetVars, planVars, gateVars, grantVars

LEMMA RecordProvisionalType ==
    ASSUME TypeOK, NEW t \in Tasks, NEW k \in Nat, RecordProvisional(t, k)
    PROVE  TypeOK'
<1>1. blocker' \in [Tasks -> Blocker]
  BY DEF RecordProvisional, TypeOK, Blocker
<1>2. QED BY <1>1 DEF RecordProvisional, TypeOK, budgetVars, planVars, gateVars, grantVars

LEMMA MarkFailedType ==
    ASSUME TypeOK, NEW T \in SUBSET Tasks, NEW c \in FailureClass, MarkFailed(T, c)
    PROVE  TypeOK'
<1>1. status' \in [Tasks -> Status] /\ blocker' \in [Tasks -> Blocker]
  BY DEF MarkFailed, TypeOK, Status, TaskStatus, Blocker
<1>2. failures' \subseteq Failure
  BY DEF MarkFailed, TypeOK, Failure
<1>3. QED BY <1>1, <1>2 DEF MarkFailed, TypeOK, Status, budgetVars, planVars, gateVars, grantVars

LEMMA JudgeType ==
    ASSUME TypeOK, NEW t \in Tasks, NEW v \in Judges, NEW passed \in BOOLEAN,
           Validate(t, v, passed) \/ Review(t, v, passed)
    PROVE  TypeOK'
<1> DEFINE judged(a) == [a EXCEPT !.judges = @ \cup {v}]
<1>1. PICK a \in Artifact : Judge(t, v, a)
  <2>1. art[t] \in Artifact
    BY DEF TypeOK
  <2>2. CASE Validate(t, v, passed)
    <3>1. [art[t] EXCEPT !.verdicts = @ \cup {passed}] \in Artifact
      BY <2>1 DEF Artifact
    <3>2. QED BY <2>2, <3>1 DEF Validate
  <2>3. CASE Review(t, v, passed)
    <3>1. [art[t] EXCEPT !.review = IF passed THEN "passed" ELSE "failed"] \in Artifact
      BY <2>1 DEF Artifact
    <3>2. QED BY <2>3, <3>1 DEF Review
  <2>4. QED BY <2>2, <2>3
<1>2. judged(a) \in Artifact
  BY DEF Artifact, Principals
<1>3. status' \in [Tasks -> Status] /\ art' \in [Tasks -> Artifact]
  BY <1>1, <1>2 DEF Judge, TypeOK, Status, TaskStatus
<1>4. QED BY <1>1, <1>3 DEF Judge, TypeOK, Status, budgetVars, planVars, gateVars, grantVars

LEMMA AcceptType ==
    ASSUME TypeOK, NEW t \in Tasks, Accept(t)
    PROVE  TypeOK'
<1>1. [status EXCEPT ![t] = "ACCEPTED"] \in [Tasks -> Status] /\ blocker \in [Tasks -> Blocker]
  BY DEF TypeOK, Status, TaskStatus
<1>2. status' \in [Tasks -> Status] /\ blocker' \in [Tasks -> Blocker]
  BY <1>1, RefreshType DEF Accept
<1>3. art' \in [Tasks -> Artifact] /\ accepted' \subseteq Tasks \X Nat
  <2>1. art[t] \in Artifact
    BY DEF TypeOK
  <2>2. [art[t] EXCEPT !.status = "accepted"] \in Artifact /\ art[t].attempt \in Nat
    BY <2>1 DEF Artifact
  <2>3. QED BY <2>2 DEF Accept, TypeOK, grantVars
<1>4. QED BY <1>2, <1>3 DEF Accept, TypeOK, Status, budgetVars, planVars, gateVars, grantVars

LEMMA RecoverType ==
    ASSUME TypeOK, NEW f \in failures, Recover(f)
    PROVE  TypeOK'
<1> DEFINE route == Route(f.task, f.class)
<1>1. f.task \in Tasks
  BY DEF TypeOK, Failure
<1>2. route \in {"RETRY", "REVISE", "REPLACE", "ESCALATE", "REPLAN"}
  BY DEF Route
<1>3. RecoveredStatus[route] \in Status
  BY <1>2 DEF RecoveredStatus, Status, TaskStatus
<1>4. RecoveredBlocker(route, f.class) \in Blocker
  BY DEF RecoveredBlocker, Blocker
<1> HIDE DEF route
<1>5. status' \in [Tasks -> Status] /\ blocker' \in [Tasks -> Blocker]
  BY <1>3, <1>4 DEF Recover, TypeOK, Status, route
<1>6. revisions' \in [Tasks -> Nat]
  <2>1. revisions \in [Tasks -> Nat]
    BY DEF TypeOK
  <2>2. \E n \in {revisions[f.task], revisions[f.task] + 1} :
            revisions' = [revisions EXCEPT ![f.task] = n]
    BY DEF Recover
  <2>3. QED BY <1>1, <2>1, <2>2
<1>7. art' \in [Tasks -> Artifact]
  <2>1. art[f.task] \in Artifact
    BY <1>1 DEF TypeOK
  <2>2. [art[f.task] EXCEPT !.status = IF @ = None THEN None ELSE "rejected"] \in Artifact
    BY <2>1 DEF Artifact
  <2>3. QED BY <2>2 DEF Recover, Rejected, TypeOK, grantVars
<1>8. failures' \subseteq Failure
  BY DEF Recover, TypeOK
<1>9. QED BY <1>5, <1>6, <1>7, <1>8 DEF Recover, TypeOK, Status, planVars, gateVars, grantVars

LEMMA RequestApprovalType ==
    ASSUME TypeOK, NEW a \in Approvals, NEW s \in Scope, RequestApproval(a, s)
    PROVE  TypeOK'
<1>1. approval' \in [Approvals -> {None, "pending", "approved", "rejected", "superseded"}]
  BY DEF RequestApproval, TypeOK
<1>2. scope' \in [Approvals -> Scope]
  BY DEF RequestApproval, TypeOK
<1>3. QED BY <1>1, <1>2 DEF RequestApproval, TypeOK, coreVars, budgetVars, planVars, grantVars

LEMMA GateTaskType ==
    ASSUME TypeOK, NEW t \in Tasks, NEW a \in TaskApprovals, GateTask(t, a)
    PROVE  TypeOK'
<1>1. gates' \in [Tasks -> SUBSET Approvals]
  BY DEF GateTask, TypeOK, Approvals
<1>2. PICK st \in [Tasks -> Status], bl \in [Tasks -> Blocker] : Refresh(st, bl)
  BY DEF GateTask, TypeOK, Status, TaskStatus, Blocker
<1>3. status' \in [Tasks -> Status] /\ blocker' \in [Tasks -> Blocker]
  BY <1>2, RefreshType
<1>4. QED BY <1>1, <1>3 DEF GateTask, TypeOK, Status, budgetVars, planVars, grantVars

LEMMA DecideApprovalType ==
    ASSUME TypeOK, NEW a \in Approvals, NEW approved \in BOOLEAN, DecideApproval(a, approved)
    PROVE  TypeOK'
<1>1. approval' \in [Approvals -> {None, "pending", "approved", "rejected", "superseded"}]
  BY DEF DecideApproval, TypeOK
<1>2. PICK bl \in [Tasks -> Blocker] : Refresh(status, bl)
  BY DEF DecideApproval, TypeOK, Blocker
<1>3. status' \in [Tasks -> Status] /\ blocker' \in [Tasks -> Blocker]
  BY <1>2, RefreshType DEF TypeOK, Status
<1>4. QED BY <1>1, <1>3 DEF DecideApproval, TypeOK, Status, budgetVars, planVars, grantVars

LEMMA SupersedeApprovalType ==
    ASSUME TypeOK, NEW old \in TaskApprovals, NEW new \in TaskApprovals, SupersedeApproval(old, new)
    PROVE  TypeOK'
<1>1. approval' \in [Approvals -> {None, "pending", "approved", "rejected", "superseded"}]
  BY DEF SupersedeApproval, TypeOK
<1>2. scope' \in [Approvals -> Scope]
  <2>1. TaskScope \in Scope
    BY DEF Scope
  <2>2. QED BY <2>1 DEF SupersedeApproval, TypeOK, grantVars
<1>3. gates' \in [Tasks -> SUBSET Approvals]
  BY DEF SupersedeApproval, TypeOK, Approvals
<1>4. status' \in [Tasks -> Status] /\ blocker' \in [Tasks -> Blocker]
  BY DEF SupersedeApproval, TypeOK, Status, TaskStatus, Blocker
<1>5. QED BY <1>1, <1>2, <1>3, <1>4 DEF SupersedeApproval, TypeOK, Status, budgetVars, planVars, grantVars

LEMMA CapabilityScopeType ==
    ASSUME NEW t \in Tasks, NEW p \in Profile, NEW ws \in BOOLEAN
    PROVE  CapabilityScope(t, p, ws) \in Scope
BY DEF Scope

\* A scope of the capability kind is about a task, a profile and a workspace.
LEMMA CapabilityKind ==
    ASSUME NEW s \in Scope, s.kind = "capability"
    PROVE  s.task \in Tasks /\ s.profile \in Profile /\ s.workspace \in BOOLEAN
BY DEF Scope, TaskScope, ReplanScope, CapabilityScope

LEMMA FiledType ==
    ASSUME TypeOK, NEW q \in Requests, Filed(q)
    PROVE  request[q] \in CapabilityRequest
BY DEF TypeOK, Filed

LEMMA RecordCapabilityRequestType ==
    ASSUME TypeOK, NEW q \in Requests, NEW t \in Tasks, NEW k \in Nat, NEW p \in Wanted,
           RecordCapabilityRequest(q, t, k, p)
    PROVE  TypeOK'
<1>1. [task |-> t, profile |-> p, approval |-> None, status |-> "pending"] \in CapabilityRequest
  BY DEF CapabilityRequest
<1>2. request' \in [Requests -> CapabilityRequest \cup {NoRequest}]
  BY <1>1 DEF RecordCapabilityRequest, TypeOK
<1>3. blocker' \in [Tasks -> Blocker]
  BY DEF RecordCapabilityRequest, TypeOK, Blocker
<1>4. QED BY <1>2, <1>3 DEF RecordCapabilityRequest, TypeOK, budgetVars, planVars, gateVars

LEMMA UpdateRequestType ==
    ASSUME TypeOK, NEW q \in Requests, NEW r \in CapabilityRequest, UpdateRequest(q, r)
    PROVE  TypeOK'
<1>1. request' \in [Requests -> CapabilityRequest \cup {NoRequest}]
  BY DEF UpdateRequest, TypeOK
<1>2. QED BY <1>1 DEF UpdateRequest, TypeOK, coreVars, budgetVars, planVars, gateVars

\* link, deny, approve and mark_escalated change one field of one request.
LEMMA AnswerType ==
    ASSUME TypeOK, NEW q \in Requests,
           \/ DenyCapability(q) \/ ApproveCapability(q) \/ MarkEscalated(q)
           \/ \E a \in Approvals : LinkCapability(q, a)
    PROVE  TypeOK'
<1>1. request[q] \in CapabilityRequest
  BY FiledType DEF DenyCapability, ApproveCapability, MarkEscalated, LinkCapability
<1>2. /\ [request[q] EXCEPT !.status = "denied"] \in CapabilityRequest
      /\ [request[q] EXCEPT !.status = "approved"] \in CapabilityRequest
      /\ [request[q] EXCEPT !.status = "escalated"] \in CapabilityRequest
      /\ \A a \in Approvals : [request[q] EXCEPT !.approval = a] \in CapabilityRequest
  BY <1>1 DEF CapabilityRequest
<1>3. QED BY <1>2, UpdateRequestType
          DEF DenyCapability, ApproveCapability, MarkEscalated, LinkCapability

LEMMA GrantType ==
    ASSUME TypeOK, NEW t \in Tasks, NEW p \in Profile, NEW ws \in BOOLEAN, Grant(t, p, ws),
           request' \in [Requests -> CapabilityRequest \cup {NoRequest}],
           NEW st \in [Tasks -> Status], NEW bl \in [Tasks -> Blocker], Refresh(st, bl)
    PROVE  TypeOK'
<1>1. status' \in [Tasks -> Status] /\ blocker' \in [Tasks -> Blocker]
  BY RefreshType
<1>2. capability' \in [Tasks -> Profile] /\ bound' \in [Tasks -> BOOLEAN]
  BY DEF Grant, TypeOK
<1>3. QED BY <1>1, <1>2 DEF Grant, TypeOK, Status, budgetVars, planVars, gateVars

LEMMA ApplyEscalationType ==
    ASSUME TypeOK, NEW q \in Requests, ApplyEscalation(q)
    PROVE  TypeOK'
<1> DEFINE t == request[q].task
           a == request[q].approval
<1>1. request[q] \in CapabilityRequest
  BY FiledType DEF ApplyEscalation
<1>2. t \in Tasks /\ request[q].profile \in Profile /\ a \in Approvals
  BY <1>1 DEF CapabilityRequest, ApplyEscalation, Granted
<1>3. scope[a].workspace \in BOOLEAN
  BY DEF ApplyEscalation, ExactApproval, CapabilityScope
<1>4. request' \in [Requests -> CapabilityRequest \cup {NoRequest}]
  <2>1. [request[q] EXCEPT !.status = "escalated"] \in CapabilityRequest
    BY <1>1 DEF CapabilityRequest
  <2>2. QED BY <2>1 DEF ApplyEscalation, TypeOK
<1>5. PICK bl \in [Tasks -> Blocker] : Refresh(status, bl)
  <2>1. [blocker EXCEPT ![t] = "approval_satisfied"] \in [Tasks -> Blocker]
    BY <1>2 DEF TypeOK, Blocker
  <2>2. QED BY <2>1 DEF ApplyEscalation, TypeOK
<1>6. status \in [Tasks -> Status] /\ Grant(t, request[q].profile, scope[a].workspace)
  BY DEF TypeOK, Status, ApplyEscalation
<1>7. QED BY <1>2, <1>3, <1>4, <1>5, <1>6, GrantType

LEMMA ChangeCapabilityType ==
    ASSUME TypeOK, NEW a \in Approvals, ChangeCapability(a)
    PROVE  TypeOK'
<1> DEFINE t == scope[a].task
<1>1. t \in Tasks /\ scope[a].profile \in Profile /\ scope[a].workspace \in BOOLEAN
  BY CapabilityKind DEF TypeOK, ChangeCapability
<1>2. PICK st \in [Tasks -> Status], bl \in [Tasks -> Blocker] : Refresh(st, bl)
  <2>1. status \in [Tasks -> Status] /\ [status EXCEPT ![t] = "BLOCKED"] \in [Tasks -> Status]
    BY <1>1 DEF TypeOK, Status, TaskStatus
  <2>2. PICK bl \in [Tasks -> Blocker] :
            \/ Refresh(status, bl)
            \/ Refresh([status EXCEPT ![t] = "BLOCKED"], [bl EXCEPT ![t] = "prerequisites_missing"])
    <3>1. \A x \in Blocker : [blocker EXCEPT ![t] = x] \in [Tasks -> Blocker]
      BY <1>1 DEF TypeOK
    <3>2. "prerequisites_missing" \in Blocker /\ "approval_satisfied" \in Blocker
      BY DEF Blocker
    <3>3. blocker \in [Tasks -> Blocker]
      BY DEF TypeOK
    <3>4. QED BY <3>1, <3>2, <3>3 DEF ChangeCapability
  <2>3. [bl EXCEPT ![t] = "prerequisites_missing"] \in [Tasks -> Blocker]
    BY <1>1 DEF Blocker
  <2>4. QED BY <2>1, <2>2, <2>3
<1>3. request' \in [Requests -> CapabilityRequest \cup {NoRequest}]
  BY DEF ChangeCapability, TypeOK
<1>4. Grant(t, scope[a].profile, scope[a].workspace)
  BY DEF ChangeCapability
<1>5. QED BY <1>1, <1>2, <1>3, <1>4, GrantType

LEMMA ProposeReplanType ==
    ASSUME TypeOK, NEW sh \in Shapes, NEW a \in ReplanApprovals \cup {None}, ProposeReplan(sh, a)
    PROVE  TypeOK'
<1>1. replans' \subseteq Proposal
  BY DEF ProposeReplan, TypeOK, Proposal, Approvals
<1>2. QED BY <1>1 DEF ProposeReplan, TypeOK, coreVars, budgetVars, gateVars, grantVars

LEMMA AssessType ==
    ASSUME TypeOK, NEW sh \in Shapes, Assess(sh)
    PROVE  TypeOK'
<1>1. assessed' \subseteq Assessment
  BY DEF Assess, TypeOK, Assessment, Done
<1>2. QED BY <1>1 DEF Assess, TypeOK, coreVars, budgetVars, gateVars, grantVars

\* What a proposal may name, and the dependencies it leaves.
LEMMA PlannedDepsType ==
    ASSUME TypeOK, NEW sh \in Shapes
    PROVE  PlannedDeps(sh) \in [Tasks -> SUBSET Tasks]
<1>1. sh.rewire \in UNION {[D -> SUBSET Tasks] : D \in SUBSET Tasks}
  BY DEF Shape
<1>2. PICK D \in SUBSET Tasks : sh.rewire \in [D -> SUBSET Tasks]
  BY <1>1
<1>3. \A t \in DOMAIN sh.rewire : sh.rewire[t] \in SUBSET Tasks
  BY <1>2
<1>4. QED BY <1>3 DEF PlannedDeps, TypeOK

LEMMA ApplyReplanType ==
    ASSUME TypeOK, NEW p \in replans, ApplyReplan(p)
    PROVE  TypeOK'
<1> DEFINE sh == p.shape
           affected == Invalidated(sh)
           kept == affected \ sh.remove
           planned == [t \in Tasks |-> CASE t \in sh.remove         -> "CANCELLED"
                                         [] t \in sh.add \cup kept  -> "PLANNED"
                                         [] OTHER                   -> status[t]]
           unblocked == [t \in Tasks |-> IF t \in affected THEN None ELSE blocker[t]]
<1>1. p \in Proposal /\ sh \in Shapes
  BY DEF TypeOK, Proposal
<1>2. planned \in [Tasks -> Status] /\ unblocked \in [Tasks -> Blocker]
  BY DEF TypeOK, Status, TaskStatus, Blocker
<1>3. status' \in [Tasks -> Status] /\ blocker' \in [Tasks -> Blocker]
  <2>1. Refresh(planned, unblocked)
    BY DEF ApplyReplan
  <2>2. QED BY <1>2, <2>1, RefreshType
<1>4. deps' \in [Tasks -> SUBSET Tasks]
  BY <1>1, PlannedDepsType DEF ApplyReplan
<1>5. art' \in [Tasks -> Artifact]
  <2>1. ASSUME NEW t \in Tasks
        PROVE  [art[t] EXCEPT !.status = "superseded"] \in Artifact /\ art[t] \in Artifact
    <3>1. art[t] \in Artifact
      BY DEF TypeOK
    <3>2. QED BY <3>1 DEF Artifact
  <2>2. QED BY <2>1 DEF ApplyReplan
<1>6. accepted' \subseteq Tasks \X Nat
  BY DEF ApplyReplan, AcceptedWithout, TypeOK
<1>7. /\ assignment' \in [Tasks -> Nat]
      /\ baseline' \in [Tasks -> Nat] /\ revBaseline' \in [Tasks -> Nat]
  BY DEF ApplyReplan, Rebased, TypeOK, NoAttempt
<1>8. planRevision' \in 0..MaxReplans
  BY DEF ApplyReplan, Applicable, ReplanBudgetLeft, TypeOK
<1>9. QED BY <1>3, <1>4, <1>5, <1>6, <1>7, <1>8 DEF ApplyReplan, TypeOK, Status, gateVars, grantVars

\* Every operation keeps the type invariant.
LEMMA NextType == TypeOK /\ [Next]_vars => TypeOK'
<1> SUFFICES ASSUME TypeOK, [Next]_vars PROVE TypeOK'
  OBVIOUS
<1>1. CASE UNCHANGED vars
  BY <1>1 DEF TypeOK, vars, coreVars, budgetVars, planVars, gateVars, grantVars
<1>2. CASE Plan
  BY <1>2, AddTasksType DEF Plan
<1>3. ASSUME NEW t \in Tasks, Work(t) PROVE TypeOK'
  <2>1. CASE \E k \in 1..attempts[t] : Submit(t, k) \/ RecordProvisional(t, k)
    BY <2>1, SubmitType, RecordProvisionalType
  <2>2. CASE \E v \in Judges, passed \in BOOLEAN : Validate(t, v, passed) \/ Review(t, v, passed)
    BY <2>2, JudgeType
  <2>3. QED BY <1>3, <2>1, <2>2, BindWorkspaceType, DelegateType, StartType, AcceptType DEF Work
<1>4. CASE Trouble
  <2>1. CASE \E t \in Tasks, c \in Classes : Fail(t, c)
    BY <2>1, MarkFailedType DEF Fail
  <2>2. CASE \E t \in Tasks, c \in Classes : \E k \in 1..attempts[t] : FailAssignment(t, k, c)
    BY <2>2, MarkFailedType DEF FailAssignment
  <2>3. CASE Resume
    BY <2>3, MarkFailedType DEF Resume, FailureClass, RetryClasses
  <2>4. QED BY <1>4, <2>1, <2>2, <2>3, RecoverType DEF Trouble
<1>5. CASE Govern
  <2>1. TaskScope \in Scope /\ TaskApprovals \subseteq Approvals
    BY DEF Scope, Approvals
  <2>2. QED BY <1>5, <2>1, RequestApprovalType, GateTaskType, DecideApprovalType,
               SupersedeApprovalType DEF Govern
<1>6. CASE Escalate
  <2>1. DirectApprovals \cup CapabilityApprovals \subseteq Approvals
    BY DEF Approvals
  <2>2. CASE \E a \in DirectApprovals, t \in Tasks, p \in Wanted, ws \in BOOLEAN :
                RequestApproval(a, CapabilityScope(t, p, ws))
    BY <2>1, <2>2, CapabilityScopeType, RequestApprovalType
  <2>3. CASE \E q \in Requests, a \in CapabilityApprovals : RequestCapabilityApproval(q, a)
    <3>1. PICK q \in Requests, a \in CapabilityApprovals : RequestCapabilityApproval(q, a)
      BY <2>3
    <3>2. request[q].task \in Tasks /\ request[q].profile \in Profile
      BY <3>1, FiledType DEF RequestCapabilityApproval, CapabilityRequest
    <3>3. NeedsWorkspace(request[q].profile) \in BOOLEAN
      BY DEF NeedsWorkspace
    <3>4. QED BY <2>1, <3>1, <3>2, <3>3, CapabilityScopeType, RequestApprovalType
              DEF RequestCapabilityApproval
  <2>4. CASE \E q \in Requests, t \in Tasks, p \in Wanted :
                \E k \in 1..attempts[t] : RecordCapabilityRequest(q, t, k, p)
    BY <2>4, RecordCapabilityRequestType
  <2>5. QED BY <1>6, <2>1, <2>2, <2>3, <2>4, AnswerType, ApplyEscalationType, ChangeCapabilityType
            DEF Escalate
<1>7. CASE Replan
  <2>1. ReplanApprovals \subseteq Approvals /\ \A sh \in Shapes : ReplanScope(sh, planRevision) \in Scope
    BY DEF Scope, Approvals, TypeOK
  <2>2. QED BY <1>7, <2>1, RequestApprovalType, AssessType, ProposeReplanType, ApplyReplanType
            DEF Replan, RequestReplanApproval
<1>8. CASE Abandon \/ Complete
  BY <1>8 DEF Abandon, Complete, TypeOK, coreVars, budgetVars, planVars, gateVars, grantVars
<1>9. QED BY <1>1, <1>2, <1>3, <1>4, <1>5, <1>6, <1>7, <1>8 DEF Next, Terminated

\* What every variable holds, whatever the callers do; in particular no run is
\* ever replanned more often than its replan budget allows.
THEOREM TypeCorrect == Spec => []TypeOK
BY InitType, NextType, PTL DEF Spec

(***************************************************************************)
(* Work is bounded by the replan budget.                                   *)
(*                                                                         *)
(* WorkBound is not inductive: delegation compares attempts with the       *)
(* baseline, so the invariant bounds the baseline by the revisions already *)
(* applied, and the attempts by the baseline.                              *)
(***************************************************************************)
Within(counter, base, limit) ==
    \A t \in Tasks : /\ base[t] <= limit * planRevision
                     /\ counter[t] <= base[t] + limit

BudgetInv == Within(attempts, baseline, MaxAttempts) /\ Within(revisions, revBaseline, MaxRevisions)

LEMMA Distribute == \A m, n \in Nat : m * (n + 1) = m * n + m
OBVIOUS

\* Rebasing the reopened tasks' budgets spends one plan revision.
LEMMA RebaseKeepsWithin ==
    ASSUME NEW counter \in [Tasks -> Nat], NEW base \in [Tasks -> Nat], NEW limit \in Nat,
           NEW reopened \in SUBSET Tasks, NEW n \in Nat,
           \A t \in Tasks : base[t] <= limit * n /\ counter[t] <= base[t] + limit
    PROVE  \A t \in Tasks : LET new == Rebased(base, counter, reopened)[t]
                            IN  new <= limit * (n + 1) /\ counter[t] <= new + limit
<1>1. limit * (n + 1) = limit * n + limit /\ limit * n \in Nat
  BY Distribute
<1> DEFINE m == limit * n
<1>2. m \in Nat /\ \A t \in Tasks : base[t] <= m /\ counter[t] <= base[t] + limit
  BY <1>1
<1> HIDE DEF m
<1>3. \A t \in Tasks : LET new == Rebased(base, counter, reopened)[t]
                       IN  new <= m + limit /\ counter[t] <= new + limit
  BY <1>2 DEF Rebased
<1>4. limit * (n + 1) = m + limit
  BY <1>1 DEF m
<1>5. QED BY <1>3, <1>4

LEMMA InitBudget == Init => BudgetInv
BY DEF Init, BudgetInv, Within

LEMMA DelegateBudget ==
    ASSUME TypeOK, BudgetInv, NEW t \in Tasks, NEW w \in Workers, Delegate(t, w)
    PROVE  BudgetInv'
BY DEF Delegate, BudgetInv, Within, HasBudget, SpentAttempts, TypeOK, planVars

LEMMA RecoverBudget ==
    ASSUME TypeOK, BudgetInv, NEW f \in failures, Recover(f)
    PROVE  BudgetInv'
<1>1. \/ revisions' = revisions
      \/ /\ SpentRevisions(f.task) < MaxRevisions
         /\ revisions' = [revisions EXCEPT ![f.task] = @ + 1]
  <2>1. f.task \in Tasks /\ revisions \in [Tasks -> Nat] /\ revBaseline \in [Tasks -> Nat]
    BY DEF TypeOK, Failure
  <2>2. Route(f.task, f.class) = "REVISE" => ~(SpentRevisions(f.task) >= MaxRevisions)
    BY DEF Route
  <2>3. SpentRevisions(f.task) \in Int
    BY <2>1 DEF SpentRevisions
  <2>4. CASE Route(f.task, f.class) = "REVISE"
    BY <2>2, <2>3, <2>4 DEF Recover
  <2>5. CASE Route(f.task, f.class) # "REVISE"
    BY <2>1, <2>5 DEF Recover
  <2>6. QED BY <2>4, <2>5
<1>2. UNCHANGED <<attempts, baseline, revBaseline, planRevision>>
  BY DEF Recover, planVars
<1>3. QED BY <1>1, <1>2 DEF BudgetInv, Within, SpentRevisions, TypeOK

LEMMA ApplyReplanBudget ==
    ASSUME TypeOK, BudgetInv, NEW p \in replans, ApplyReplan(p)
    PROVE  BudgetInv'
<1>1. PICK kept \in SUBSET Tasks : /\ baseline' = Rebased(baseline, attempts, kept)
                                   /\ revBaseline' = Rebased(revBaseline, revisions, kept)
  <2>1. Invalidated(p.shape) \subseteq Tasks
    BY DEF Invalidated, Affected
  <2>2. QED BY <2>1 DEF ApplyReplan
<1>2. planRevision' = planRevision + 1 /\ UNCHANGED <<attempts, revisions>>
  BY DEF ApplyReplan
<1>3. planRevision \in Nat /\ MaxAttempts \in Nat /\ MaxRevisions \in Nat
  BY DEF TypeOK
<1>4. Within(attempts, baseline, MaxAttempts)'
  BY <1>1, <1>2, <1>3, RebaseKeepsWithin DEF BudgetInv, Within, TypeOK
<1>5. Within(revisions, revBaseline, MaxRevisions)'
  BY <1>1, <1>2, <1>3, RebaseKeepsWithin DEF BudgetInv, Within, TypeOK
<1>6. QED BY <1>4, <1>5 DEF BudgetInv

\* The other operations leave the counters, the baselines and the plan alone.
LEMMA NextBudget == TypeOK /\ BudgetInv /\ [Next]_vars => BudgetInv'
<1> SUFFICES ASSUME TypeOK, BudgetInv, [Next]_vars PROVE BudgetInv'
  OBVIOUS
<1> DEFINE quiet == UNCHANGED <<attempts, baseline, revisions, revBaseline, planRevision>>
<1>1. quiet => BudgetInv'
  <2> SUFFICES ASSUME quiet PROVE BudgetInv'
    OBVIOUS
  <2>1. Within(attempts, baseline, MaxAttempts)'
    BY Zenon DEF BudgetInv, Within
  <2>2. Within(revisions, revBaseline, MaxRevisions)'
    BY Zenon DEF BudgetInv, Within
  <2>3. QED BY <2>1, <2>2 DEF BudgetInv
<1>2. ASSUME NEW t \in Tasks, Work(t) PROVE BudgetInv'
  BY <1>1, <1>2, DelegateBudget
  DEF Work, BindWorkspace, Start, Submit, RecordProvisional, Validate, Review, Judge, Accept,
      budgetVars, planVars
<1>3. CASE Trouble
  BY <1>1, <1>3, RecoverBudget
  DEF Trouble, Fail, FailAssignment, Resume, MarkFailed, budgetVars, planVars
<1>4. CASE Replan
  BY <1>1, <1>4, ApplyReplanBudget
  DEF Replan, Assess, RequestReplanApproval, RequestApproval, ProposeReplan, budgetVars, planVars
<1>5. CASE Govern
  BY <1>1, <1>5 DEF Govern, RequestApproval, GateTask, DecideApproval, SupersedeApproval,
                    budgetVars, planVars
<1>6. CASE Plan \/ Abandon \/ Complete \/ Terminated \/ UNCHANGED vars
  BY <1>1, <1>6 DEF Plan, AddTasks, Abandon, Complete, Terminated, vars, budgetVars, planVars
<1>7. CASE Escalate
  BY <1>1, <1>7
  DEF Escalate, RecordCapabilityRequest, RequestCapabilityApproval, RequestApproval, LinkCapability,
      DenyCapability, ApproveCapability, MarkEscalated, UpdateRequest, ApplyEscalation,
      ChangeCapability, Grant, budgetVars, planVars
<1>8. QED BY <1>2, <1>3, <1>4, <1>5, <1>6, <1>7 DEF Next

\* apply_replan's comment: total work stays bounded by the replan budget.
THEOREM WorkIsBounded == Spec => []WorkBound
<1>1. TypeOK /\ BudgetInv => WorkBound
  <2> SUFFICES ASSUME TypeOK, BudgetInv, NEW t \in Tasks
               PROVE  /\ attempts[t] <= MaxAttempts * (planRevision + 1)
                      /\ revisions[t] <= MaxRevisions * (planRevision + 1)
    BY DEF WorkBound
  <2>1. planRevision \in Nat /\ MaxAttempts \in Nat /\ MaxRevisions \in Nat
    BY DEF TypeOK
  <2>2. /\ MaxAttempts * (planRevision + 1) = MaxAttempts * planRevision + MaxAttempts
        /\ MaxRevisions * (planRevision + 1) = MaxRevisions * planRevision + MaxRevisions
    BY <2>1, Distribute
  <2>3. QED BY <2>1, <2>2 DEF BudgetInv, Within, TypeOK
<1>2. Spec => [](TypeOK /\ BudgetInv)
  BY InitType, InitBudget, NextType, NextBudget, PTL DEF Spec
<1>3. QED BY <1>1, <1>2, PTL
-----------------------------------------------------------------------------
(* Accepted work keeps canonical lineage, and the kernel implements AcceptedWork. *)

(***************************************************************************)
(* The inductive invariant.  CanonicalLineage speaks of everything upstream *)
(* of a task; one level of it for every accepted task is inductive, because *)
(* the accepted tasks themselves are then the witness.                      *)
(***************************************************************************)
AcceptedInv ==
    /\ \A t \in Done : LocallyCanonical(t, Done) /\ deps[t] \subseteq Done
    /\ AcceptedIsLatest

\* Only a real assignment submits.
Rooted == \A t \in Tasks : art[t].status # None => art[t].attempt # NoAttempt

LineageInv == AcceptedInv /\ Rooted

\* An operation that concerns neither the plan nor accepted work.
Frame ==
    /\ Done' = Done /\ InPlan' = InPlan
    /\ deps' = deps /\ accepted' = accepted /\ runStatus' = runStatus
    /\ \A t \in Done : art'[t] = art[t]

\* What _refresh never changes: the tasks that are accepted, cancelled or absent.
Settled == {"ACCEPTED", "CANCELLED", "ABSENT"}

LEMMA RefreshKeepsSettled ==
    ASSUME NEW st \in [Tasks -> Status], NEW bl \in [Tasks -> Blocker], Refresh(st, bl)
    PROVE  \A t \in Tasks, s \in Settled : status'[t] = s <=> st[t] = s
BY DEF Refresh, Settled

\* Statuses that agree on the settled tasks have the same Done and InPlan.
LEMMA SameSettled ==
    ASSUME \A t \in Tasks, s \in Settled : status'[t] = s <=> status[t] = s
    PROVE  Done' = Done /\ InPlan' = InPlan
BY DEF Done, InPlan, Present, Settled

\* The same for an operation that assigned st before it refreshed.
LEMMA RefreshedSettled ==
    ASSUME NEW st \in [Tasks -> Status], NEW bl \in [Tasks -> Blocker], Refresh(st, bl),
           \A t \in Tasks, s \in Settled : st[t] = s <=> status[t] = s
    PROVE  Done' = Done /\ InPlan' = InPlan
BY RefreshKeepsSettled, SameSettled

-----------------------------------------------------------------------------
(* The graph lemmas apply_replan rests on.                                 *)

LEMMA AffectedHoldsSeed ==
    ASSUME NEW seed \in SUBSET Tasks, NEW dp
    PROVE  seed \subseteq Affected(seed, dp)
BY DEF Affected

LEMMA AffectedIsClosed ==
    ASSUME NEW seed \in SUBSET Tasks, NEW dp
    PROVE  ConsumerClosed(Affected(seed, dp), dp)
<1> SUFFICES ASSUME NEW u \in Tasks, dp[u] \cap Affected(seed, dp) # {},
                    NEW S \in SUBSET Tasks, seed \subseteq S, ConsumerClosed(S, dp)
             PROVE  u \in S
  BY DEF ConsumerClosed, Affected
<1>1. Affected(seed, dp) \subseteq S
  BY DEF Affected
<1>2. QED BY <1>1 DEF ConsumerClosed

-----------------------------------------------------------------------------
(* Operations that leave accepted work alone.                              *)

LEMMA WorkFrame ==
    ASSUME TypeOK, NEW t \in Tasks,
           \/ BindWorkspace(t) \/ Start(t)
           \/ \E w \in Workers : Delegate(t, w)
           \/ \E k \in 1..attempts[t] : Submit(t, k) \/ RecordProvisional(t, k)
           \/ \E v \in Judges, passed \in BOOLEAN : Validate(t, v, passed) \/ Review(t, v, passed)
    PROVE  Frame
<1>1. CASE BindWorkspace(t)
  <2>1. Done' = Done /\ InPlan' = InPlan
    BY <1>1, RefreshedSettled DEF BindWorkspace, TypeOK, Status
  <2>2. QED BY <1>1, <2>1 DEF BindWorkspace, Frame, planVars
<1>2. CASE Start(t) \/ \E w \in Workers : Delegate(t, w)
  <2>1. Done' = Done /\ InPlan' = InPlan
    <3>1. \A u \in Tasks, s \in Settled : status'[u] = s <=> status[u] = s
      BY <1>2 DEF Start, Delegate, TypeOK, Settled
    <3>2. QED BY <3>1, SameSettled
  <2>2. QED BY <1>2, <2>1 DEF Start, Delegate, Frame, planVars
<1>3. CASE \E k \in 1..attempts[t] : Submit(t, k) \/ RecordProvisional(t, k)
  <2>1. Done' = Done /\ InPlan' = InPlan
    <3>1. \A u \in Tasks, s \in Settled : status'[u] = s <=> status[u] = s
      BY <1>3 DEF Submit, RecordProvisional, TypeOK, Settled
    <3>2. QED BY <3>1, SameSettled
  <2>2. \A u \in Done : art'[u] = art[u]
    BY <1>3 DEF Submit, RecordProvisional, Done, TypeOK
  <2>3. QED BY <1>3, <2>1, <2>2 DEF Submit, RecordProvisional, Frame, planVars
<1>4. CASE \E v \in Judges, passed \in BOOLEAN : Validate(t, v, passed) \/ Review(t, v, passed)
  <2>1. PICK v, a : Judge(t, v, a)
    BY <1>4 DEF Validate, Review
  <2>2. Done' = Done /\ InPlan' = InPlan
    <3>1. \A u \in Tasks, s \in Settled : status'[u] = s <=> status[u] = s
      BY <2>1 DEF Judge, CurrentCandidate, TypeOK, Settled
    <3>2. QED BY <3>1, SameSettled
  <2>3. \A u \in Done : art'[u] = art[u]
    BY <2>1 DEF Judge, CurrentCandidate, Done, TypeOK
  <2>4. QED BY <2>1, <2>2, <2>3 DEF Judge, Frame, planVars
<1>5. QED BY <1>1, <1>2, <1>3, <1>4

LEMMA MarkFailedFrame ==
    ASSUME TypeOK, NEW T \in SUBSET Tasks, NEW c, MarkFailed(T, c), \A t \in T : HoldsWork(t)
    PROVE  Frame
<1>1. \A u \in Tasks, s \in Settled : status'[u] = s <=> status[u] = s
  BY DEF MarkFailed, HoldsWork, InFlight, TypeOK, Settled
<1>2. QED BY <1>1, SameSettled DEF MarkFailed, Frame, planVars

LEMMA TroubleFrame ==
    ASSUME TypeOK, Trouble
    PROVE  Frame
<1>1. CASE \E t \in Tasks, c \in Classes : Fail(t, c)
  BY <1>1, MarkFailedFrame DEF Fail
<1>2. CASE \E t \in Tasks, c \in Classes : \E k \in 1..attempts[t] : FailAssignment(t, k, c)
  BY <1>2, MarkFailedFrame DEF FailAssignment
<1>3. CASE Resume
  <2> DEFINE interrupted == {t \in Tasks : status[t] \in {"DELEGATED", "RUNNING"}}
  <2>1. MarkFailed(interrupted, "TIMEOUT") /\ \A t \in interrupted : HoldsWork(t)
    BY <1>3 DEF Resume, HoldsWork, InFlight
  <2>2. QED BY <2>1, MarkFailedFrame
<1>4. CASE \E f \in failures : Recover(f)
  <2>1. PICK f \in failures : Recover(f)
    BY <1>4
  <2>2. f.task \in Tasks /\ status[f.task] = "FAILED"
    BY <2>1 DEF Recover, TypeOK, Failure
  <2>3. status' = [status EXCEPT ![f.task] = RecoveredStatus[Route(f.task, f.class)]]
    BY <2>1 DEF Recover
  <2>4. RecoveredStatus[Route(f.task, f.class)] \notin Settled
    <3>1. Route(f.task, f.class) \in {"RETRY", "REVISE", "REPLACE", "ESCALATE", "REPLAN"}
      BY DEF Route
    <3>2. QED BY <3>1 DEF RecoveredStatus, Settled
  <2>5. Done' = Done /\ InPlan' = InPlan
    <3>1. \A u \in Tasks, s \in Settled : status'[u] = s <=> status[u] = s
      BY <2>2, <2>3, <2>4 DEF TypeOK, Settled
    <3>2. QED BY <3>1, SameSettled
  <2>6. \A u \in Done : art'[u] = art[u]
    BY <2>1, <2>2 DEF Recover, Rejected, Done, TypeOK
  <2>7. QED BY <2>1, <2>5, <2>6 DEF Recover, Frame, planVars
<1>5. QED BY <1>1, <1>2, <1>3, <1>4 DEF Trouble

LEMMA GovernFrame ==
    ASSUME TypeOK, Govern
    PROVE  Frame
<1>1. CASE \E a \in TaskApprovals : RequestApproval(a, TaskScope)
  BY <1>1 DEF RequestApproval, Frame, Done, InPlan, Present, coreVars, planVars
<1>2. CASE \E t \in Tasks, a \in TaskApprovals : GateTask(t, a)
  <2>1. PICK t \in Tasks, a \in TaskApprovals : GateTask(t, a)
    BY <1>2
  <2>2. PICK bl \in [Tasks -> Blocker] :
            \/ Refresh(status, bl)
            \/ status[t] = "READY" /\ Refresh([status EXCEPT ![t] = "BLOCKED"], bl)
    BY <2>1 DEF GateTask, TypeOK, Blocker
  <2>3. PICK st \in [Tasks -> Status] :
            /\ Refresh(st, bl)
            /\ \A u \in Tasks, s \in Settled : st[u] = s <=> status[u] = s
    <3>1. status \in [Tasks -> Status] /\ [status EXCEPT ![t] = "BLOCKED"] \in [Tasks -> Status]
      BY DEF TypeOK, Status, TaskStatus
    <3>2. status[t] = "READY" =>
              \A u \in Tasks, s \in Settled : [status EXCEPT ![t] = "BLOCKED"][u] = s <=> status[u] = s
      BY DEF TypeOK, Settled
    <3>3. QED BY <2>2, <3>1, <3>2
  <2>4. QED BY <2>1, <2>3, RefreshedSettled DEF GateTask, Frame, planVars
<1>3. CASE \E a \in Approvals, approved \in BOOLEAN : DecideApproval(a, approved)
  <2>1. PICK a \in Approvals, approved \in BOOLEAN : DecideApproval(a, approved)
    BY <1>3
  <2>2. PICK bl \in [Tasks -> Blocker] : Refresh(status, bl)
    BY <2>1 DEF DecideApproval, TypeOK, Blocker
  <2>3. QED BY <2>1, <2>2, RefreshedSettled DEF DecideApproval, Frame, planVars, TypeOK, Status
<1>4. CASE \E old, new \in TaskApprovals : SupersedeApproval(old, new)
  <2>1. PICK old, new \in TaskApprovals : SupersedeApproval(old, new)
    BY <1>4
  <2>2. \A u \in Tasks, s \in Settled : status'[u] = s <=> status[u] = s
    BY <2>1 DEF SupersedeApproval, TypeOK, Settled
  <2>3. QED BY <2>1, <2>2, SameSettled DEF SupersedeApproval, Frame, planVars
<1>5. QED BY <1>1, <1>2, <1>3, <1>4 DEF Govern

LEMMA EscalateFrame ==
    ASSUME TypeOK, Escalate
    PROVE  Frame
<1>1. CASE \/ \E q \in Requests, t \in Tasks, p \in Wanted :
                 \E k \in 1..attempts[t] : RecordCapabilityRequest(q, t, k, p)
           \/ \E a \in DirectApprovals, t \in Tasks, p \in Wanted, ws \in BOOLEAN :
                 RequestApproval(a, CapabilityScope(t, p, ws))
           \/ \E q \in Requests, a \in CapabilityApprovals : RequestCapabilityApproval(q, a)
           \/ \E q \in Requests, a \in CapabilityApprovals \cup DirectApprovals : LinkCapability(q, a)
           \/ \E q \in Requests : DenyCapability(q) \/ ApproveCapability(q) \/ MarkEscalated(q)
  <2>1. UNCHANGED <<status, deps, accepted, art, runStatus>>
    BY <1>1 DEF RecordCapabilityRequest, RequestCapabilityApproval, RequestApproval, LinkCapability,
                DenyCapability, ApproveCapability, MarkEscalated, UpdateRequest, coreVars, planVars
  <2>2. QED BY <2>1 DEF Frame, Done, InPlan, Present
<1>2. CASE \E q \in Requests : ApplyEscalation(q)
  <2>1. PICK q \in Requests : ApplyEscalation(q)
    BY <1>2
  <2>2. PICK bl \in [Tasks -> Blocker] : Refresh(status, bl)
    <3>1. [blocker EXCEPT ![request[q].task] = "approval_satisfied"] \in [Tasks -> Blocker]
      BY DEF TypeOK, Blocker
    <3>2. QED BY <2>1, <3>1 DEF ApplyEscalation, TypeOK
  <2>3. QED BY <2>1, <2>2, RefreshedSettled DEF ApplyEscalation, Grant, Frame, planVars, TypeOK, Status
<1>3. CASE \E a \in DirectApprovals : ChangeCapability(a)
  <2>1. PICK a \in DirectApprovals : ChangeCapability(a)
    BY <1>3
  <2> DEFINE t == scope[a].task
  <2>2. \A bl \in [Tasks -> Blocker], x \in Blocker : [bl EXCEPT ![t] = x] \in [Tasks -> Blocker]
    OBVIOUS
  <2>3. "prerequisites_missing" \in Blocker /\ "approval_satisfied" \in Blocker
    BY DEF Blocker
  <2>4. PICK bl \in [Tasks -> Blocker] :
            \/ Refresh(status, bl)
            \/ /\ status[t] = "READY"
               /\ Refresh([status EXCEPT ![t] = "BLOCKED"], [bl EXCEPT ![t] = "prerequisites_missing"])
    <3>1. blocker \in [Tasks -> Blocker]
      BY DEF TypeOK
    <3>2. QED BY <2>1, <2>2, <2>3, <3>1 DEF ChangeCapability
  <2>5. PICK st \in [Tasks -> Status], cl \in [Tasks -> Blocker] :
            /\ Refresh(st, cl)
            /\ \A u \in Tasks, s \in Settled : st[u] = s <=> status[u] = s
    <3>1. status \in [Tasks -> Status] /\ [status EXCEPT ![t] = "BLOCKED"] \in [Tasks -> Status]
      BY DEF TypeOK, Status, TaskStatus
    <3>2. status[t] = "READY" =>
              \A u \in Tasks, s \in Settled : [status EXCEPT ![t] = "BLOCKED"][u] = s <=> status[u] = s
      BY DEF TypeOK, Settled
    <3>3. CASE Refresh(status, bl)
      BY <3>1, <3>3
    <3>4. CASE /\ status[t] = "READY"
               /\ Refresh([status EXCEPT ![t] = "BLOCKED"], [bl EXCEPT ![t] = "prerequisites_missing"])
      <4> DEFINE blocked == [status EXCEPT ![t] = "BLOCKED"]
                 missing == [bl EXCEPT ![t] = "prerequisites_missing"]
      <4>1. /\ blocked \in [Tasks -> Status] /\ missing \in [Tasks -> Blocker]
            /\ Refresh(blocked, missing)
            /\ \A u \in Tasks, s \in Settled : blocked[u] = s <=> status[u] = s
        BY <2>2, <2>3, <3>1, <3>2, <3>4
      <4> HIDE DEF blocked, missing
      <4>2. QED BY <4>1
    <3>5. QED BY <2>4, <3>3, <3>4
  <2>6. QED BY <2>1, <2>5, RefreshedSettled DEF ChangeCapability, Grant, Frame, planVars
<1>4. QED BY <1>1, <1>2, <1>3 DEF Escalate

LEMMA ProposeFrame ==
    ASSUME TypeOK, \/ \E sh \in Shapes : Assess(sh)
                   \/ \E a \in ReplanApprovals, sh \in Shapes : RequestReplanApproval(a, sh)
                   \/ \E sh \in Shapes, a \in ReplanApprovals \cup {None} : ProposeReplan(sh, a)
    PROVE  Frame
BY DEF Assess, RequestReplanApproval, RequestApproval, ProposeReplan, Frame, Done, InPlan, Present,
       coreVars, planVars

-----------------------------------------------------------------------------
(* The invariant, operation by operation.                                  *)

LEMMA FrameInv ==
    ASSUME AcceptedInv, Frame
    PROVE  AcceptedInv'
<1>1. \A t \in Done : LocallyCanonical(t, Done)' /\ deps'[t] \subseteq Done'
  BY DEF AcceptedInv, Frame, LocallyCanonical, Inputs
<1>2. AcceptedIsLatest'
  BY DEF AcceptedInv, AcceptedIsLatest, Frame
<1>3. QED BY <1>1, <1>2 DEF AcceptedInv, Frame

\* Before anything is accepted or after a plan of fresh tasks.
LEMMA AddTasksInv ==
    ASSUME TypeOK, AcceptedInv, NEW S \in SUBSET Tasks, AddTasks(S)
    PROVE  /\ AcceptedInv'
           /\ Done' = Done /\ InPlan \subseteq InPlan'
           /\ \A t \in Done : deps'[t] = deps[t]
<1> DEFINE planned == [t \in Tasks |-> IF t \in S THEN "PLANNED" ELSE status[t]]
<1>1. planned \in [Tasks -> Status] /\ blocker \in [Tasks -> Blocker] /\ Refresh(planned, blocker)
  BY DEF TypeOK, Status, TaskStatus, AddTasks
<1>2. \A t \in Tasks, s \in Settled : status'[t] = s <=> planned[t] = s
  BY <1>1, RefreshKeepsSettled
<1>3. \A t \in S : status[t] = "ABSENT"
  BY DEF AddTasks, Present
<1>4. Done' = Done
  BY <1>2, <1>3 DEF Done, Settled
<1>5. InPlan \subseteq InPlan'
  BY <1>2, <1>3 DEF InPlan, Present, Settled
<1>6. \A t \in Done : deps'[t] = deps[t]
  BY <1>3 DEF AddTasks, Done
<1>7. UNCHANGED <<art, accepted>>
  BY DEF AddTasks
<1>8. \A t \in Done : LocallyCanonical(t, Done)' /\ deps'[t] \subseteq Done
  BY <1>4, <1>6, <1>7 DEF AcceptedInv, LocallyCanonical, Inputs
<1>9. AcceptedIsLatest'
  BY <1>4, <1>7 DEF AcceptedInv, AcceptedIsLatest
<1>10. QED BY <1>4, <1>5, <1>6, <1>8, <1>9 DEF AcceptedInv

\* The graph of accepted work before and after an acceptance: t was no input
\* of anything accepted, and everything it was built from is accepted.
LEMMA AcceptInv ==
    ASSUME TypeOK, AcceptedInv, NEW t \in Tasks, Accept(t)
    PROVE  /\ AcceptedInv'
           /\ Done' = Done \cup {t} /\ t \notin Done /\ InPlan' = InPlan /\ t \in InPlan
           /\ deps' = deps /\ deps[t] \subseteq Done
           /\ art' = [art EXCEPT ![t].status = "accepted"] /\ art[t].inputs = Inputs(t)
           /\ art[t].status # None
<1> DEFINE settled == [status EXCEPT ![t] = "ACCEPTED"]
<1>1. settled \in [Tasks -> Status] /\ blocker \in [Tasks -> Blocker] /\ Refresh(settled, blocker)
  BY DEF TypeOK, Status, TaskStatus, Accept
<1>2. \A u \in Tasks, s \in Settled : status'[u] = s <=> settled[u] = s
  BY <1>1, RefreshKeepsSettled
<1>3. status[t] \in {"SUBMITTED", "REVIEWING"} /\ art[t].status = "candidate"
  BY DEF Accept, CurrentCandidate
<1>4. Done' = Done \cup {t} /\ t \notin Done
  BY <1>2, <1>3 DEF Done, Settled, TypeOK
<1>5. InPlan' = InPlan /\ t \in InPlan
  BY <1>2, <1>3 DEF InPlan, Present, Settled, TypeOK
<1>6. /\ deps' = deps /\ art[t].inputs = Inputs(t)
      /\ accepted' = accepted \cup {<<t, art[t].attempt>>}
      /\ art' = [art EXCEPT ![t].status = "accepted"]
  BY DEF Accept, planVars
<1>7. deps[t] \subseteq Done
  BY DEF Accept, Ready, Canonical, LocallyCanonical
<1>8. /\ \A u \in Tasks \ {t} : art'[u] = art[u]
      /\ art'[t].attempt = art[t].attempt /\ art'[t].inputs = art[t].inputs
      /\ art'[t].status = "accepted"
  <2>1. art[t] \in Artifact
    BY DEF TypeOK
  <2>2. QED BY <1>6, <2>1 DEF Artifact, TypeOK
<1>9. ASSUME NEW u \in Done'
      PROVE  LocallyCanonical(u, Done)' /\ deps'[u] \subseteq Done'
  <2>1. deps[u] \subseteq Done
    BY <1>4, <1>7 DEF AcceptedInv
  <2>2. Inputs(u)' = Inputs(u)
    BY <1>4, <1>6, <1>8, <2>1 DEF Inputs, Done
  <2>3. CASE u = t
    BY <1>4, <1>6, <1>8, <2>1, <2>2, <2>3 DEF LocallyCanonical
  <2>4. CASE u # t
    BY <1>4, <1>6, <1>8, <2>1, <2>2, <2>4 DEF LocallyCanonical, AcceptedInv, Done
  <2>5. QED BY <2>3, <2>4
<1>10. AcceptedIsLatest'
  <2>1. accepted' = {<<u, art[u].attempt>> : u \in Done} \cup {<<t, art[t].attempt>>}
    BY <1>6 DEF AcceptedInv, AcceptedIsLatest
  <2>2. \A u \in Done' : art'[u].attempt = art[u].attempt
    BY <1>4, <1>8 DEF Done
  <2>3. QED BY <1>4, <2>1, <2>2 DEF AcceptedIsLatest
<1>11. QED BY <1>3, <1>4, <1>5, <1>6, <1>7, <1>9, <1>10 DEF AcceptedInv, None

\* A replan discards everything that consumed what it touches, so an accepted
\* task it does not discard keeps its inputs, its needs and its artifact.
LEMMA ApplyReplanInv ==
    ASSUME TypeOK, AcceptedInv, NEW p \in replans, ApplyReplan(p)
    PROVE  LET D == Invalidated(p.shape)
           IN  /\ AcceptedInv'
               /\ D \in SUBSET Tasks /\ ConsumerClosed(D, deps)
               /\ Done' = Done \ D /\ Done \ D \subseteq InPlan'
               /\ \A u \in Done \ D : deps'[u] = deps[u] /\ art'[u] = art[u]
<1> DEFINE sh == p.shape
           D == Invalidated(sh)
           planned == [t \in Tasks |-> CASE t \in sh.remove                 -> "CANCELLED"
                                         [] t \in sh.add \cup (D \ sh.remove) -> "PLANNED"
                                         [] OTHER                           -> status[t]]
           unblocked == [t \in Tasks |-> IF t \in D THEN None ELSE blocker[t]]
<1>1. p \in Proposal /\ sh \in Shapes
  BY DEF TypeOK, Proposal
<1>2. sh.remove \subseteq Tasks /\ sh.reopen \subseteq Tasks /\ DOMAIN sh.rewire \subseteq Tasks
  <2>1. sh \in Shape
    BY <1>1, ShapesAssumption
  <2>2. PICK X \in SUBSET Tasks : sh.rewire \in [X -> SUBSET Tasks]
    BY <2>1 DEF Shape
  <2>3. QED BY <2>1, <2>2 DEF Shape
<1>3. /\ D \in SUBSET Tasks /\ ConsumerClosed(D, deps)
      /\ sh.remove \subseteq D /\ DOMAIN sh.rewire \subseteq D
  <2> DEFINE seed == sh.reopen \cup sh.remove \cup DOMAIN sh.rewire
  <2>1. seed \in SUBSET Tasks /\ D = Affected(seed, deps)
    BY <1>2 DEF Invalidated
  <2>2. D \in SUBSET Tasks
    BY <2>1 DEF Affected
  <2>3. sh.remove \subseteq seed /\ DOMAIN sh.rewire \subseteq seed
    OBVIOUS
  <2> HIDE DEF seed
  <2>4. ConsumerClosed(D, deps) /\ seed \subseteq D
    BY <2>1, AffectedHoldsSeed, AffectedIsClosed
  <2>5. QED BY <2>2, <2>3, <2>4
<1>4. sh.add \cap Done = {}
  BY DEF ApplyReplan, Applicable, Present, Done
<1> HIDE DEF D
<1>5. planned \in [Tasks -> Status] /\ unblocked \in [Tasks -> Blocker]
  BY DEF TypeOK, Status, TaskStatus, Blocker
<1>6. Refresh(planned, unblocked)
  BY DEF ApplyReplan, D
<1>7. \A t \in Tasks, s \in Settled : status'[t] = s <=> planned[t] = s
  BY <1>5, <1>6, RefreshKeepsSettled
<1>8. Done' = Done \ D
  <2>1. \A t \in Tasks : planned[t] = "ACCEPTED" <=> t \in Done \ D
    BY <1>3, <1>4 DEF Done
  <2>2. QED BY <1>7, <2>1 DEF Done, Settled
<1>9. Done \ D \subseteq InPlan'
  <2>1. \A t \in Done \ D : planned[t] = "ACCEPTED"
    BY <1>3, <1>4 DEF Done
  <2>2. QED BY <1>7, <2>1 DEF Done, InPlan, Present, Settled
<1>10. \A u \in Done \ D : deps'[u] = deps[u] /\ art'[u] = art[u]
  <2>1. deps' = PlannedDeps(sh)
    BY DEF ApplyReplan
  <2>2. \A u \in Tasks \ D : art'[u] = art[u]
    BY DEF ApplyReplan, D
  <2>3. QED BY <1>3, <1>4, <2>1, <2>2 DEF PlannedDeps, Done
<1>11. accepted' = {id \in accepted : id[1] \notin D}
  BY DEF ApplyReplan, AcceptedWithout, D
<1>12. ASSUME NEW u \in Done \ D
       PROVE  LocallyCanonical(u, Done)' /\ deps'[u] \subseteq Done'
  <2>1. deps[u] \subseteq Done \ D
    BY <1>3 DEF AcceptedInv, ConsumerClosed, Done
  <2>2. Inputs(u)' = Inputs(u)
    BY <1>10, <2>1 DEF Inputs
  <2>3. QED BY <1>8, <1>10, <1>11, <2>1, <2>2 DEF LocallyCanonical, AcceptedInv
<1>13. AcceptedIsLatest'
  BY <1>8, <1>10, <1>11 DEF AcceptedInv, AcceptedIsLatest
<1>14. QED BY <1>3, <1>8, <1>9, <1>10, <1>12, <1>13 DEF AcceptedInv, D

-----------------------------------------------------------------------------
(* The invariant holds.                                                    *)

LEMMA InitLineage == Init => LineageInv
BY DEF Init, LineageInv, AcceptedInv, AcceptedIsLatest, Rooted, Done, NoArtifact, None

LEMMA WorkRooted ==
    ASSUME TypeOK, Rooted, NEW t \in Tasks, Work(t)
    PROVE  Rooted'
<1>1. CASE BindWorkspace(t) \/ Start(t) \/ \E w \in Workers : Delegate(t, w)
  BY <1>1 DEF BindWorkspace, Start, Delegate, Rooted
<1>2. CASE \E k \in 1..attempts[t] : Submit(t, k) \/ RecordProvisional(t, k)
  <2>1. PICK k \in 1..attempts[t] : Submit(t, k) \/ RecordProvisional(t, k)
    BY <1>2
  <2>2. k # NoAttempt
    BY DEF NoAttempt
  <2>3. CASE Submit(t, k)
    <3>1. [NoArtifact EXCEPT !.attempt = k, !.status = "candidate", !.inputs = Inputs(t)].attempt = k
      BY DEF NoArtifact
    <3>2. QED BY <2>2, <2>3, <3>1 DEF Submit, Rooted, TypeOK
  <2>4. CASE RecordProvisional(t, k)
    BY <2>4 DEF RecordProvisional, Rooted
  <2>5. QED BY <2>1, <2>3, <2>4
<1>3. CASE \E v \in Judges, passed \in BOOLEAN : Validate(t, v, passed) \/ Review(t, v, passed)
  <2>1. PICK v \in Judges, passed \in BOOLEAN : Validate(t, v, passed) \/ Review(t, v, passed)
    BY <1>3
  <2>2. art[t] \in Artifact /\ art[t].status # None
    BY <2>1 DEF Validate, Review, Judge, CurrentCandidate, TypeOK, None
  <2>3. \E a : art' = [art EXCEPT ![t] = a] /\ a.attempt = art[t].attempt
    <3>1. CASE Validate(t, v, passed)
      <4> DEFINE a == [[art[t] EXCEPT !.verdicts = @ \cup {passed}] EXCEPT !.judges = @ \cup {v}]
      <4>1. art' = [art EXCEPT ![t] = a] /\ a.attempt = art[t].attempt
        BY <2>2, <3>1 DEF Validate, Judge, Artifact
      <4>2. QED BY <4>1
    <3>2. CASE Review(t, v, passed)
      <4> DEFINE a == [[art[t] EXCEPT !.review = IF passed THEN "passed" ELSE "failed"]
                          EXCEPT !.judges = @ \cup {v}]
      <4>1. art' = [art EXCEPT ![t] = a] /\ a.attempt = art[t].attempt
        BY <2>2, <3>2 DEF Review, Judge, Artifact
      <4>2. QED BY <4>1
    <3>3. QED BY <2>1, <3>1, <3>2
  <2>4. QED BY <2>2, <2>3 DEF Rooted, TypeOK
<1>4. CASE Accept(t)
  <2>1. art[t] \in Artifact /\ art[t].status = "candidate" /\ art' = [art EXCEPT ![t].status = "accepted"]
    BY <1>4 DEF Accept, CurrentCandidate, TypeOK
  <2>2. [art[t] EXCEPT !.status = "accepted"].attempt = art[t].attempt
    BY <2>1 DEF Artifact
  <2>3. QED BY <2>1, <2>2 DEF Rooted, TypeOK, None
<1>5. QED BY <1>1, <1>2, <1>3, <1>4 DEF Work

LEMMA RecoverRooted ==
    ASSUME TypeOK, Rooted, NEW f \in failures, Recover(f)
    PROVE  Rooted'
<1> DEFINE t == f.task
           rejected == [art[t] EXCEPT !.status = IF @ = None THEN None ELSE "rejected"]
<1>1. t \in Tasks /\ art[t] \in Artifact
  BY DEF TypeOK, Failure
<1>2. rejected.attempt = art[t].attempt /\ (art[t].status = None => rejected.status = None)
  BY <1>1 DEF Artifact
<1>3. art' = [art EXCEPT ![t] = rejected]
  BY <1>1 DEF Recover, Rejected
<1> HIDE DEF rejected
<1>4. QED BY <1>1, <1>2, <1>3 DEF Rooted, TypeOK

LEMMA ApplyReplanRooted ==
    ASSUME TypeOK, Rooted, NEW p \in replans, ApplyReplan(p)
    PROVE  Rooted'
<1>1. ASSUME NEW t \in Tasks
      PROVE  art'[t].attempt = art[t].attempt /\ (art[t].status = None => art'[t].status = None)
  <2>1. art[t] \in Artifact
    BY DEF TypeOK
  <2>2. \/ art'[t] = art[t]
        \/ art[t].status # None /\ art'[t] = [art[t] EXCEPT !.status = "superseded"]
    BY DEF ApplyReplan
  <2>3. QED BY <2>1, <2>2 DEF Artifact
<1>2. QED BY <1>1 DEF Rooted

LEMMA NextRooted == TypeOK /\ Rooted /\ [Next]_vars => Rooted'
<1> SUFFICES ASSUME TypeOK, Rooted, [Next]_vars PROVE Rooted'
  OBVIOUS
<1>1. art' = art => Rooted'
  BY DEF Rooted
<1>2. CASE Trouble
  BY <1>1, <1>2, RecoverRooted DEF Trouble, Fail, FailAssignment, Resume, MarkFailed
<1>3. CASE Govern
  BY <1>1, <1>3 DEF Govern, RequestApproval, GateTask, DecideApproval, SupersedeApproval, coreVars
<1>4. CASE Escalate
  BY <1>1, <1>4
  DEF Escalate, RecordCapabilityRequest, RequestCapabilityApproval, RequestApproval, LinkCapability,
      DenyCapability, ApproveCapability, MarkEscalated, UpdateRequest, ApplyEscalation,
      ChangeCapability, Grant, coreVars
<1>5. CASE Replan
  BY <1>1, <1>5, ApplyReplanRooted
  DEF Replan, Assess, RequestReplanApproval, RequestApproval, ProposeReplan, coreVars
<1>6. CASE Plan \/ Abandon \/ Complete \/ Terminated \/ UNCHANGED vars
  BY <1>1, <1>6 DEF Plan, AddTasks, Abandon, Complete, Terminated, vars, coreVars
<1>7. QED BY WorkRooted, <1>2, <1>3, <1>4, <1>5, <1>6 DEF Next

\* Ending the run, or nothing at all, leaves everything else as it is.
LEMMA EndFrame ==
    ASSUME Abandon \/ Complete \/ Terminated \/ UNCHANGED vars
    PROVE  UNCHANGED <<status, deps, accepted, art>>
BY DEF Abandon, Complete, Terminated, vars, coreVars, planVars

LEMMA NextAccepted == TypeOK /\ AcceptedInv /\ [Next]_vars => AcceptedInv'
<1> SUFFICES ASSUME TypeOK, AcceptedInv, [Next]_vars PROVE AcceptedInv'
  OBVIOUS
<1>1. ASSUME NEW t \in Tasks, Work(t) PROVE AcceptedInv'
  BY <1>1, WorkFrame, FrameInv, AcceptInv DEF Work
<1>2. CASE Replan
  BY <1>2, ProposeFrame, FrameInv, ApplyReplanInv DEF Replan
<1>3. CASE Abandon \/ Complete \/ Terminated \/ UNCHANGED vars
  <2>1. UNCHANGED <<status, deps, accepted, art>>
    BY <1>3, EndFrame
  <2>2. QED BY <2>1 DEF AcceptedInv, LocallyCanonical, Inputs, AcceptedIsLatest, Done
<1>4. QED BY <1>1, <1>2, <1>3, TroubleFrame, GovernFrame, EscalateFrame, FrameInv, AddTasksInv
          DEF Next, Plan

THEOREM LineageInvariant == Spec => [](TypeOK /\ LineageInv)
<1>1. TypeOK /\ LineageInv /\ [Next]_vars => TypeOK' /\ LineageInv'
  BY NextType, NextAccepted, NextRooted DEF LineageInv
<1>2. QED BY InitType, InitLineage, <1>1, PTL DEF Spec

\* Whatever replans, failures and approvals do, an ACCEPTED task rests on
\* accepted inputs all the way upstream (_validate_accepted_artifact).
THEOREM LineageStaysCanonical == Spec => []CanonicalLineage
<1>1. LineageInv => CanonicalLineage
  BY DEF LineageInv, AcceptedInv, CanonicalLineage, Canonical, Done
<1>2. QED BY LineageInvariant, <1>1, PTL

\* accept and apply_replan keep run.accepted_artifacts and the tasks in step.
THEOREM AcceptedStaysLatest == Spec => []AcceptedIsLatest
<1>1. LineageInv => AcceptedIsLatest
  BY DEF LineageInv, AcceptedInv
<1>2. QED BY LineageInvariant, <1>1, PTL

-----------------------------------------------------------------------------
(* The kernel implements AcceptedWork.                                     *)

canonBar == [t \in Tasks |-> IF t \in Done THEN art[t].attempt ELSE 0]
usedBar == [t \in Tasks |-> IF t \in Done THEN art[t].inputs ELSE {}]

\* Exactly the tasks with status ACCEPTED have a canonical artifact.
LEMMA BarAccepted ==
    ASSUME LineageInv
    PROVE  AW!Accepted = Done
<1>1. \A t \in Done : art[t].attempt # 0
  BY DEF LineageInv, AcceptedInv, LocallyCanonical, Rooted, Done, None, NoAttempt
<1>2. Done \subseteq Tasks
  BY DEF Done
<1>3. QED BY <1>1, <1>2 DEF AW!Accepted

\* What the abstract specification calls the current inputs are Inputs.
LEMMA BarInputs ==
    ASSUME LineageInv, NEW t \in Tasks, deps[t] \subseteq Done
    PROVE  AW!CurrentInputs(t) = Inputs(t)
<1>1. Done \subseteq Tasks
  BY DEF Done
<1>2. QED BY <1>1 DEF AW!CurrentInputs, Inputs

LEMMA ImplementsInit == Init => AW!WorkInit
BY DEF Init, AW!WorkInit, Done, InPlan, Present

LEMMA FrameStutters ==
    ASSUME Frame
    PROVE  UNCHANGED AW!workVars
<1>1. canonBar' = canonBar /\ usedBar' = usedBar
  BY DEF Frame, canonBar, usedBar
<1>2. QED BY <1>1 DEF Frame, AW!workVars, canonBar, usedBar

LEMMA AcceptImplements ==
    ASSUME TypeOK, LineageInv, LineageInv', NEW t \in Tasks, Accept(t)
    PROVE  AW!AcceptWork(t)
<1>1. /\ Done' = Done \cup {t} /\ t \notin Done /\ InPlan' = InPlan /\ t \in InPlan
      /\ deps' = deps /\ deps[t] \subseteq Done
      /\ art' = [art EXCEPT ![t].status = "accepted"] /\ art[t].inputs = Inputs(t)
      /\ art[t].status # None
  BY AcceptInv DEF LineageInv
<1>2. /\ \A u \in Tasks \ {t} : art'[u] = art[u]
      /\ art'[t].attempt = art[t].attempt /\ art'[t].inputs = art[t].inputs
  <2>1. art[t] \in Artifact
    BY DEF TypeOK
  <2>2. QED BY <1>1, <2>1 DEF Artifact, TypeOK
<1>3. canonBar' = [canonBar EXCEPT ![t] = art[t].attempt] /\ canonBar'[t] = art[t].attempt
  <2>1. canonBar' = [u \in Tasks |-> IF u \in Done \cup {t} THEN art[u].attempt ELSE 0]
    <3>1. \A u \in Tasks : art'[u].attempt = art[u].attempt
      BY <1>2
    <3>2. Done' = Done \cup {t}
      BY <1>1
    <3>3. QED BY <3>1, <3>2 DEF canonBar
  <2>2. QED BY <2>1 DEF canonBar
<1>4. usedBar' = [usedBar EXCEPT ![t] = Inputs(t)]
  <2>1. usedBar' = [u \in Tasks |-> IF u \in Done \cup {t} THEN art[u].inputs ELSE {}]
    <3>1. \A u \in Tasks : art'[u].inputs = art[u].inputs
      BY <1>2
    <3>2. Done' = Done \cup {t}
      BY <1>1
    <3>3. QED BY <3>1, <3>2 DEF usedBar
  <2>2. art[t].inputs = Inputs(t)
    BY <1>1
  <2>3. QED BY <2>1, <2>2 DEF usedBar
<1>5. art[t].attempt \in Nat \ {0}
  BY <1>1 DEF LineageInv, Rooted, NoAttempt, TypeOK, Artifact
<1>6. runStatus = "active" /\ runStatus' = runStatus
  BY DEF Accept, Active
<1>7. AW!Accepted = Done /\ AW!CurrentInputs(t) = Inputs(t)
  BY <1>1, BarAccepted, BarInputs
<1>8. QED BY <1>1, <1>3, <1>4, <1>5, <1>6, <1>7 DEF AW!AcceptWork, canonBar, usedBar

\* A plan or a replan is a Reshape: it keeps the accepted work outside D.
LEMMA ReshapeImplements ==
    ASSUME TypeOK, TypeOK', LineageInv, NEW D \in SUBSET Tasks, ConsumerClosed(D, deps),
           Active, runStatus' = runStatus,
           Done' = Done \ D, Done \ D \subseteq InPlan',
           \A u \in Done \ D : deps'[u] = deps[u] /\ art'[u] = art[u]
    PROVE  AW!Reshape(D)
<1>1. AW!Accepted = Done
  BY BarAccepted
<1>2. canonBar' = [t \in Tasks |-> IF t \in D THEN 0 ELSE canonBar[t]]
  BY DEF canonBar
<1>3. usedBar' = [t \in Tasks |-> IF t \in D THEN {} ELSE usedBar[t]]
  BY DEF usedBar
<1>4. InPlan' \in SUBSET Tasks
  BY DEF InPlan, Present
<1>5. deps' \in [Tasks -> SUBSET Tasks]
  BY DEF TypeOK
<1>6. QED BY <1>1, <1>2, <1>3, <1>4, <1>5 DEF AW!Reshape, AW!ConsumerClosed, ConsumerClosed, canonBar, usedBar, Active

LEMMA EndImplements ==
    ASSUME LineageInv, Abandon \/ Complete
    PROVE  AW!EndRun
<1>1. UNCHANGED <<status, deps, accepted, art>>
  BY EndFrame
<1>2. canonBar' = canonBar /\ usedBar' = usedBar /\ InPlan' = InPlan /\ deps' = deps
  BY <1>1 DEF canonBar, usedBar, InPlan, Done, Present
<1>3. AW!Accepted = Done
  BY BarAccepted
<1>4. QED BY <1>2, <1>3 DEF AW!EndRun, Abandon, Complete, Active, canonBar, usedBar

LEMMA StepImplements ==
    ASSUME TypeOK, TypeOK', LineageInv, LineageInv', [Next]_vars
    PROVE  [AW!WorkNext]_(AW!workVars)
<1>1. AcceptedInv /\ AcceptedInv'
  BY DEF LineageInv
<1>2. ASSUME NEW t \in Tasks, Work(t) PROVE AW!WorkNext \/ UNCHANGED AW!workVars
  <2>1. CASE Accept(t)
    BY <2>1, AcceptImplements DEF AW!WorkNext
  <2>2. CASE ~Accept(t)
    BY <1>2, <2>2, WorkFrame, FrameStutters DEF Work
  <2>3. QED BY <2>1, <2>2
<1>3. CASE Plan
  <2>1. PICK S \in SUBSET Tasks : AddTasks(S)
    BY <1>3 DEF Plan
  <2>2. /\ Done' = Done /\ InPlan \subseteq InPlan'
        /\ \A u \in Done : deps'[u] = deps[u]
    BY <1>1, <2>1, AddTasksInv
  <2>3. Active /\ runStatus' = runStatus /\ art' = art
    BY <2>1 DEF AddTasks
  <2>4. Done \subseteq InPlan
    BY DEF Done, InPlan, Present
  <2>5. ConsumerClosed({}, deps)
    BY DEF ConsumerClosed
  <2>6. AW!Reshape({})
    BY <2>2, <2>3, <2>4, <2>5, ReshapeImplements
  <2>7. QED BY <2>6 DEF AW!WorkNext
<1>4. CASE Replan
  <2>1. CASE \E p \in replans : ApplyReplan(p)
    <3>1. PICK p \in replans : ApplyReplan(p)
      BY <2>1
    <3>2. PICK D \in SUBSET Tasks :
              /\ ConsumerClosed(D, deps)
              /\ Done' = Done \ D /\ Done \ D \subseteq InPlan'
              /\ \A u \in Done \ D : deps'[u] = deps[u] /\ art'[u] = art[u]
      BY <1>1, <3>1, ApplyReplanInv
    <3>3. Active /\ runStatus' = runStatus
      BY <3>1 DEF ApplyReplan
    <3>4. AW!Reshape(D)
      BY <3>2, <3>3, ReshapeImplements
    <3>5. QED BY <3>2, <3>4 DEF AW!WorkNext
  <2>2. CASE ~\E p \in replans : ApplyReplan(p)
    BY <1>4, <2>2, ProposeFrame, FrameStutters DEF Replan
  <2>3. QED BY <2>1, <2>2
<1>5. CASE Abandon \/ Complete
  BY <1>5, EndImplements DEF AW!WorkNext
<1>6. CASE Terminated \/ UNCHANGED vars
  <2>1. UNCHANGED <<runStatus, status, deps, accepted, art>>
    BY <1>6 DEF Terminated, vars, coreVars, planVars
  <2>2. Frame
    BY <2>1 DEF Frame, Done, InPlan, Present
  <2>3. QED BY <2>2, FrameStutters
<1>7. CASE Trouble \/ Govern \/ Escalate
  BY <1>7, TroubleFrame, GovernFrame, EscalateFrame, FrameStutters
<1>8. QED BY <1>2, <1>3, <1>4, <1>5, <1>6, <1>7 DEF Next

\* Every behaviour of the kernel is, as far as accepted artifacts go, a
\* behaviour of AcceptedWork.
THEOREM KernelImplementsAcceptedWork == Spec => ImplementsAcceptedWork
<1>1. TypeOK /\ TypeOK' /\ LineageInv /\ LineageInv' /\ [Next]_vars => [AW!WorkNext]_(AW!workVars)
  BY StepImplements
<1>2. QED BY ImplementsInit, <1>1, LineageInvariant, PTL
          DEF Spec, ImplementsAcceptedWork, AW!WorkSpec

-----------------------------------------------------------------------------
(***************************************************************************)
(* Assessments.  Between two replans accepted work only grows, so what an  *)
(* assessment of this revision saw accepted still is, and the proposal it  *)
(* was made of still touches none of it.                                   *)
(***************************************************************************)
AssessedInv ==
    \A r \in assessed : r.done \subseteq Done /\ Invalidated(r.shape) \cap r.done = {}

\* Only the operations on replans touch the assessments.
LEMMA OnlyReplansAssess ==
    ASSUME [Next]_vars, ~Replan
    PROVE  assessed' = assessed
<1>1. ASSUME NEW t \in Tasks, Work(t) PROVE assessed' = assessed
  BY <1>1 DEF Work, BindWorkspace, Delegate, Start, Submit, RecordProvisional, Validate, Review, Judge,
              Accept, planVars
<1>2. CASE Trouble
  BY <1>2 DEF Trouble, Fail, FailAssignment, Resume, MarkFailed, Recover, planVars
<1>3. CASE Govern
  BY <1>3 DEF Govern, RequestApproval, GateTask, DecideApproval, SupersedeApproval, planVars
<1>4. CASE Escalate
  BY <1>4
  DEF Escalate, RecordCapabilityRequest, RequestCapabilityApproval, RequestApproval, LinkCapability,
      DenyCapability, ApproveCapability, MarkEscalated, UpdateRequest, ApplyEscalation,
      ChangeCapability, Grant, planVars
<1>5. CASE Plan \/ Abandon \/ Complete \/ Terminated \/ UNCHANGED vars
  BY <1>5 DEF Plan, AddTasks, Abandon, Complete, Terminated, vars, planVars
<1>6. QED BY <1>1, <1>2, <1>3, <1>4, <1>5 DEF Next

\* Accepted work that is kept, with its needs, keeps what was assessed true.
LEMMA GrowthKeepsAssessed ==
    ASSUME AcceptedInv, AssessedInv, assessed' = assessed, TypeOK,
           Done \subseteq Done', \A u \in Done : deps'[u] = deps[u]
    PROVE  AssessedInv'
<1> SUFFICES ASSUME NEW r \in assessed
             PROVE  r.done \subseteq Done' /\ Invalidated(r.shape)' \cap r.done = {}
  BY DEF AssessedInv
<1> DEFINE seed == r.shape.reopen \cup r.shape.remove \cup DOMAIN r.shape.rewire
           S == Affected(seed, deps) \cup (Tasks \ Done)
<1>1. r.done \subseteq Done /\ Affected(seed, deps) \cap r.done = {}
  BY DEF AssessedInv, Invalidated
<1>2. seed \in SUBSET Tasks
  <2>1. r.shape \in Shape
    BY ShapesAssumption DEF TypeOK, Assessment
  <2>2. PICK X \in SUBSET Tasks : r.shape.rewire \in [X -> SUBSET Tasks]
    BY <2>1 DEF Shape
  <2>3. QED BY <2>1, <2>2 DEF Shape
<1> HIDE DEF seed
<1>3. seed \subseteq S /\ S \in SUBSET Tasks
  BY <1>2 DEF Affected
<1>4. ConsumerClosed(S, deps')
  <2> SUFFICES ASSUME NEW u \in Tasks, deps'[u] \cap S # {}, u \in Done PROVE u \in S
    BY DEF ConsumerClosed
  <2>1. deps'[u] = deps[u] /\ deps[u] \subseteq Done
    BY DEF AcceptedInv
  <2>2. deps[u] \cap Affected(seed, deps) # {}
    BY <2>1
  <2>3. QED BY <2>2, <1>2, AffectedIsClosed DEF ConsumerClosed
<1>5. Affected(seed, deps') \subseteq S
  BY <1>3, <1>4 DEF Affected, ConsumerClosed
<1>6. Invalidated(r.shape)' = Affected(seed, deps')
  BY DEF Invalidated, seed
<1>7. QED BY <1>1, <1>5, <1>6

LEMMA NextAssessed == TypeOK /\ AcceptedInv /\ AssessedInv /\ [Next]_vars => AssessedInv'
<1> SUFFICES ASSUME TypeOK, AcceptedInv, AssessedInv, [Next]_vars PROVE AssessedInv'
  OBVIOUS
<1>1. CASE Replan
  <2>1. ASSUME NEW sh \in Shapes, Assess(sh) PROVE AssessedInv'
    <3>1. /\ Done' = Done /\ deps' = deps
          /\ assessed' = assessed \cup {[shape |-> sh, done |-> Done]}
      BY <2>1 DEF Assess, Done, coreVars
    <3>2. Invalidated(sh) \cap Done = {}
      BY <2>1 DEF Assess, Material
    <3>3. ASSUME NEW r \in assessed' PROVE Invalidated(r.shape)' = Invalidated(r.shape)
      BY <3>1 DEF Invalidated
    <3>4. ASSUME NEW r \in assessed'
          PROVE  r \in assessed \/ r = [shape |-> sh, done |-> Done]
      BY <3>1
    <3>5. QED BY <3>1, <3>2, <3>3, <3>4 DEF AssessedInv
  <2>2. ASSUME NEW p \in replans, ApplyReplan(p) PROVE AssessedInv'
    BY <2>2 DEF ApplyReplan, AssessedInv
  <2>3. CASE \/ \E a \in ReplanApprovals, sh \in Shapes : RequestReplanApproval(a, sh)
             \/ \E sh \in Shapes, a \in ReplanApprovals \cup {None} : ProposeReplan(sh, a)
    <3>1. Done' = Done /\ deps' = deps /\ assessed' = assessed
      BY <2>3 DEF RequestReplanApproval, RequestApproval, ProposeReplan, Done, coreVars, planVars
    <3>2. QED BY <3>1, GrowthKeepsAssessed
  <2>4. QED BY <1>1, <2>1, <2>2, <2>3 DEF Replan
<1>2. CASE ~Replan
  <2>1. Done \subseteq Done' /\ \A u \in Done : deps'[u] = deps[u]
    <3>1. ASSUME NEW t \in Tasks, Accept(t) PROVE Done \subseteq Done' /\ deps' = deps
      BY <3>1, AcceptInv
    <3>2. ASSUME NEW S \in SUBSET Tasks, AddTasks(S)
          PROVE  Done \subseteq Done' /\ \A u \in Done : deps'[u] = deps[u]
      BY <3>2, AddTasksInv
    <3>3. CASE Abandon \/ Complete \/ Terminated \/ UNCHANGED vars
      BY <3>3, EndFrame DEF Done
    <3>4. CASE Frame
      BY <3>4 DEF Frame
    <3>5. QED BY <1>2, <3>1, <3>2, <3>3, <3>4, WorkFrame, TroubleFrame, GovernFrame, EscalateFrame
              DEF Next, Work, Plan
  <2>2. QED BY <1>2, <2>1, OnlyReplansAssess, GrowthKeepsAssessed
<1>3. QED BY <1>1, <1>2

\* Only a replan discards accepted work, and what it discards without a human's
\* approval was accepted after the proposal was assessed (_replan_materiality,
\* read in a transaction before the one that applies it).
THEOREM DiscardsAreNewOrApproved == Spec => DiscardIsNewOrApproved
<1> DEFINE excused(t) ==
              \E p \in replans :
                  /\ p.base = planRevision
                  /\ t \in Invalidated(p.shape)
                  /\ IF p.approval = None
                     THEN \E r \in assessed : r.shape = p.shape /\ t \notin r.done
                     ELSE approval[p.approval] = "approved"
           guarded == \A t \in Done : status'[t] # "ACCEPTED" => excused(t)
<1>1. TypeOK /\ AcceptedInv /\ AssessedInv /\ [Next]_vars => guarded
  <2> SUFFICES ASSUME TypeOK, AcceptedInv, AssessedInv, [Next]_vars,
                      NEW t \in Done, status'[t] # "ACCEPTED"
               PROVE  excused(t)
    OBVIOUS
  <2>1. t \in Tasks /\ t \notin Done'
    BY DEF Done
  <2>2. ~Frame
    BY <2>1 DEF Frame
  <2>3. PICK p \in replans : ApplyReplan(p)
    <3>1. ~\E u \in Tasks : Work(u)
      BY <2>1, <2>2, WorkFrame, AcceptInv DEF Work
    <3>2. ~Plan
      BY <2>1, AddTasksInv DEF Plan
    <3>3. ~(Abandon \/ Complete \/ Terminated \/ UNCHANGED vars)
      BY <2>1, EndFrame DEF Done
    <3>4. Replan
      BY <2>2, <3>1, <3>2, <3>3, TroubleFrame, GovernFrame, EscalateFrame DEF Next
    <3>5. QED BY <2>2, <3>4, ProposeFrame DEF Replan
  <2>4. t \in Invalidated(p.shape)
    BY <2>1, <2>3, ApplyReplanInv
  <2>5. p.base = planRevision /\ Authorized(p)
    BY <2>3 DEF ApplyReplan
  <2>6. p.approval = None => \E r \in assessed : r.shape = p.shape /\ t \notin r.done
    BY <2>4, <2>5 DEF Authorized, AssessedInv
  <2>7. QED BY <2>4, <2>5, <2>6 DEF Authorized
<1>2. Init => AssessedInv
  BY DEF Init, AssessedInv
<1>3. LineageInv => AcceptedInv
  BY DEF LineageInv
<1>4. QED BY <1>1, <1>2, <1>3, LineageInvariant, NextAssessed, PTL DEF Spec, DiscardIsNewOrApproved

-----------------------------------------------------------------------------
(***************************************************************************)
(* Readiness.  What is accepted is canonical (AcceptedInv), so a task's     *)
(* readiness gate comes to Prepared: no recursion into what it builds on.   *)
(* Every handler that closes a gate or opens one either refreshes (then     *)
(* RefreshDecides) or leaves each task's gate as it was (Steady).           *)
(***************************************************************************)
\* What _readiness_blocker comes to while every accepted task is canonical.
Prepared(t) ==
    /\ deps[t] \subseteq Done
    /\ Developer(t) => bound[t]
    /\ \A a \in gates[t] : approval[a] = "approved"

Offered(t) == status[t] \in InFlight \cup {"READY"}
Waits(t) == status[t] = "PLANNED" \/ (status[t] = "BLOCKED" /\ blocker[t] \in RefreshableBlockers)

ReadyInv ==
    Active => \A t \in Tasks : /\ Offered(t) => Prepared(t)
                               /\ Waits(t) => ~Prepared(t)

LEMMA ReadyIsPrepared ==
    TypeOK /\ AcceptedInv => \A t \in Tasks : Ready(t, Done) <=> Prepared(t)
<1> SUFFICES ASSUME TypeOK, AcceptedInv PROVE \A t \in Tasks : Ready(t, Done) <=> Prepared(t)
  OBVIOUS
<1>1. \A u \in Tasks : Canonical(u, Done) <=> u \in Done
  <2>1. Done \in SUBSET Tasks /\ \A v \in Done : LocallyCanonical(v, Done) /\ deps[v] \subseteq Done
    BY DEF Done, AcceptedInv
  <2>2. QED BY <2>1 DEF Canonical, LocallyCanonical
<1>2. \A t \in Tasks : deps[t] \subseteq Tasks
  BY DEF TypeOK
<1>3. QED BY <1>1, <1>2 DEF Ready, Prepared

\* What a refresh leaves: nobody waits who could go on, nobody is ready who cannot.
LEMMA RefreshDecides ==
    ASSUME NEW st \in [Tasks -> Status], NEW bl \in [Tasks -> Blocker], Refresh(st, bl),
           TypeOK', AcceptedInv'
    PROVE  \A t \in Tasks : /\ status'[t] = "READY" => Prepared(t)'
                            /\ Waits(t)' => ~Prepared(t)'
                            /\ status'[t] \in InFlight => st[t] = status'[t]
<1>1. Done' = {t \in Tasks : st[t] = "ACCEPTED"}
  BY RefreshKeepsSettled DEF Done, Settled
<1>2. \A t \in Tasks : Ready(t, Done)' <=> Prepared(t)'
  <2>1. (TypeOK /\ AcceptedInv)' => (\A t \in Tasks : Ready(t, Done) <=> Prepared(t))'
    BY ReadyIsPrepared, PTL
  <2>2. QED BY <2>1
<1> DEFINE done == {t \in Tasks : st[t] = "ACCEPTED"}
<1>3. \A t \in Tasks : Ready(t, done)' <=> Prepared(t)'
  BY <1>1, <1>2 DEF Ready, Canonical, LocallyCanonical
<1>4. \A t \in Tasks :
         /\ status'[t] =
              CASE /\ st[t] = "PLANNED" \/ (st[t] = "BLOCKED" /\ bl[t] \in RefreshableBlockers)
                   /\ Prepared(t)'                     -> "READY"
                [] st[t] = "READY" /\ ~Prepared(t)'    -> "BLOCKED"
                [] OTHER                               -> st[t]
         /\ blocker'[t] \in RefreshableBlockers =>
              (st[t] = "READY" /\ ~Prepared(t)') \/ blocker'[t] = bl[t]
  BY <1>3 DEF Refresh, RefreshableBlockers, None
<1>5. QED BY <1>4 DEF Waits, InFlight

\* A step that neither wakes nor strands a task, and offers only what is prepared.
Steady ==
    \A t \in Tasks : /\ Prepared(t)' <=> Prepared(t)
                     /\ Offered(t)' => Offered(t) \/ Prepared(t)
                     /\ Waits(t)' => Waits(t)

LEMMA SteadyReady == ASSUME ReadyInv, Steady, runStatus' = runStatus PROVE ReadyInv'
  BY DEF ReadyInv, Steady, Active

\* A step that refreshes: what is in flight was, and stays prepared.
LEMMA RefreshReady ==
    ASSUME TypeOK', AcceptedInv', ReadyInv, Active,
           NEW st \in [Tasks -> Status], NEW bl \in [Tasks -> Blocker], Refresh(st, bl),
           \A t \in Tasks : st[t] \in InFlight =>
                status[t] = st[t] /\ (Prepared(t) => Prepared(t)')
    PROVE  ReadyInv'
  BY RefreshDecides DEF ReadyInv, Offered

\* Whether a task is prepared, when the plan and what is accepted are the same.
LEMMA SamePrepared ==
    ASSUME TypeOK, deps' = deps, Done' = Done, UNCHANGED <<capability, bound, gates>>,
           \A a \in Approvals : approval'[a] = "approved" <=> approval[a] = "approved"
    PROVE  \A t \in Tasks : Prepared(t)' <=> Prepared(t)
<1>1. \A t \in Tasks : gates[t] \subseteq Approvals
  BY DEF TypeOK
<1>2. QED BY <1>1 DEF Prepared, Developer

LEMMA SubmitMoves ==
    ASSUME NEW t, NEW k, Submit(t, k)
    PROVE  /\ status[t] = "RUNNING" /\ status' = [status EXCEPT ![t] = "SUBMITTED"]
           /\ UNCHANGED <<blocker, capability, bound, gates, approval>>
  BY DEF Submit, grantVars, gateVars

LEMMA WorkSteady ==
    ASSUME TypeOK, AcceptedInv, NEW t \in Tasks,
           \/ Start(t)
           \/ \E w \in Workers : Delegate(t, w)
           \/ \E k \in 1..attempts[t] : Submit(t, k) \/ RecordProvisional(t, k)
           \/ \E v \in Judges, passed \in BOOLEAN : Validate(t, v, passed) \/ Review(t, v, passed)
    PROVE  Steady
<1>1. Frame
  BY WorkFrame
<1>2. UNCHANGED <<capability, bound, gates, approval>>
  <2>1. CASE \E v \in Judges, passed \in BOOLEAN : Validate(t, v, passed) \/ Review(t, v, passed)
    <3>1. PICK v, a : Judge(t, v, a)
      BY <2>1 DEF Validate, Review
    <3>2. QED BY <3>1 DEF Judge, grantVars, gateVars
  <2>2. CASE \E k \in 1..attempts[t] : Submit(t, k) \/ RecordProvisional(t, k)
    BY <2>2, SubmitMoves DEF RecordProvisional, grantVars, gateVars
  <2>3. CASE Start(t) \/ \E w \in Workers : Delegate(t, w)
    BY <2>3 DEF Start, Delegate, grantVars, gateVars
  <2>4. QED BY <2>1, <2>2, <2>3
<1>3. \A u \in Tasks : Prepared(u)' <=> Prepared(u)
  BY <1>1, <1>2, SamePrepared DEF Frame
<1>4. \A u \in Tasks : (Offered(u)' => Offered(u) \/ Prepared(u)) /\ (Waits(u)' => Waits(u))
  <2> USE DEF TypeOK, Offered, Waits, InFlight, RefreshableBlockers
  <2>1. CASE Start(t)
    BY <2>1 DEF Start
  <2>2. CASE \E w \in Workers : Delegate(t, w)
    <3>1. PICK w \in Workers : Delegate(t, w)
      BY <2>2
    <3>2. Prepared(t)
      BY <3>1, ReadyIsPrepared DEF Delegate
    <3>3. QED BY <3>1, <3>2 DEF Delegate
  <2>3. CASE \E k \in 1..attempts[t] : Submit(t, k) \/ RecordProvisional(t, k)
    <3>1. PICK k \in 1..attempts[t] : Submit(t, k) \/ RecordProvisional(t, k)
      BY <2>3
    <3>2. CASE Submit(t, k)
      BY <3>2, SubmitMoves
    <3>3. CASE RecordProvisional(t, k)
      BY <3>3 DEF RecordProvisional
    <3>4. QED BY <3>1, <3>2, <3>3
  <2>4. CASE \E v \in Judges, passed \in BOOLEAN : Validate(t, v, passed) \/ Review(t, v, passed)
    <3>1. PICK v, a : Judge(t, v, a)
      BY <2>4 DEF Validate, Review
    <3>2. QED BY <3>1 DEF Judge, CurrentCandidate
  <2>5. QED BY <2>1, <2>2, <2>3, <2>4
<1>5. QED BY <1>3, <1>4 DEF Steady

LEMMA MarkFailedSteady ==
    ASSUME TypeOK, NEW T \in SUBSET Tasks, NEW c, MarkFailed(T, c), \A t \in T : HoldsWork(t)
    PROVE  Steady
<1>1. Frame
  BY MarkFailedFrame
<1>2. \A u \in Tasks : Prepared(u)' <=> Prepared(u)
  BY <1>1, SamePrepared DEF Frame, MarkFailed, grantVars, gateVars
<1>3. \A u \in Tasks : (Offered(u)' => Offered(u)) /\ (Waits(u)' => Waits(u))
  BY DEF MarkFailed, TypeOK, Offered, Waits, InFlight, RefreshableBlockers
<1>4. QED BY <1>2, <1>3 DEF Steady

LEMMA TroubleSteady ==
    ASSUME TypeOK, AcceptedInv, Trouble
    PROVE  Steady
<1>1. CASE \E t \in Tasks, c \in Classes : Fail(t, c)
  BY <1>1, MarkFailedSteady DEF Fail
<1>2. CASE \E t \in Tasks, c \in Classes : \E k \in 1..attempts[t] : FailAssignment(t, k, c)
  BY <1>2, MarkFailedSteady DEF FailAssignment
<1>3. CASE Resume
  <2> DEFINE interrupted == {t \in Tasks : status[t] \in {"DELEGATED", "RUNNING"}}
  <2>1. MarkFailed(interrupted, "TIMEOUT") /\ \A t \in interrupted : HoldsWork(t)
    BY <1>3 DEF Resume, HoldsWork, InFlight
  <2>2. QED BY <2>1, MarkFailedSteady
<1>4. CASE \E f \in failures : Recover(f)
  <2>1. PICK f \in failures : Recover(f)
    BY <1>4
  <2>2. f.task \in Tasks
    BY DEF TypeOK, Failure
  <2>3. PICK route \in {"RETRY", "REVISE", "REPLACE", "ESCALATE", "REPLAN"} :
            route = Route(f.task, f.class)
    BY DEF Route
  <2>4. /\ status' = [status EXCEPT ![f.task] = RecoveredStatus[route]]
        /\ blocker' = [blocker EXCEPT ![f.task] = RecoveredBlocker(route, f.class)]
        /\ route = "RETRY" => Prepared(f.task)
    BY <2>1, <2>2, <2>3, ReadyIsPrepared DEF Recover
  <2>5. RecoveredBlocker(route, f.class) \notin RefreshableBlockers
    BY DEF RecoveredBlocker, RefreshableBlockers, None
  <2>6. \A u \in Tasks : (Offered(u)' => Offered(u) \/ Prepared(u)) /\ (Waits(u)' => Waits(u))
    BY <2>2, <2>3, <2>4, <2>5 DEF TypeOK, Offered, Waits, InFlight, RecoveredStatus
  <2>7. \A u \in Tasks : Prepared(u)' <=> Prepared(u)
    BY <2>1, TroubleFrame, SamePrepared DEF Frame, Recover, grantVars, gateVars
  <2>8. QED BY <2>6, <2>7 DEF Steady
<1>5. QED BY <1>1, <1>2, <1>3, <1>4 DEF Trouble

LEMMA BindWorkspaceReady ==
    ASSUME TypeOK, TypeOK', AcceptedInv', ReadyInv, NEW t \in Tasks, BindWorkspace(t)
    PROVE  ReadyInv'
<1>1. status \in [Tasks -> Status] /\ blocker \in [Tasks -> Blocker] /\ Refresh(status, blocker) /\ Active
  BY DEF BindWorkspace, TypeOK, Status
<1>2. Frame
  BY WorkFrame
<1>3. UNCHANGED <<capability, gates, approval>> /\ \A u \in Tasks : bound[u] => bound'[u]
  BY DEF BindWorkspace, gateVars, TypeOK
<1>4. \A u \in Tasks : Prepared(u) => Prepared(u)'
  BY <1>2, <1>3 DEF Frame, Prepared, Developer
<1>5. QED BY <1>1, <1>4, RefreshReady

LEMMA AddTasksReady ==
    ASSUME TypeOK, TypeOK', AcceptedInv, AcceptedInv', ReadyInv, NEW S \in SUBSET Tasks, AddTasks(S)
    PROVE  ReadyInv'
<1> DEFINE planned == [t \in Tasks |-> IF t \in S THEN "PLANNED" ELSE status[t]]
<1>1. planned \in [Tasks -> Status] /\ blocker \in [Tasks -> Blocker] /\ Refresh(planned, blocker) /\ Active
  BY DEF TypeOK, Status, TaskStatus, AddTasks
<1>2. Done' = Done
  BY AddTasksInv
<1>3. ASSUME NEW t \in Tasks, planned[t] \in InFlight, Prepared(t) PROVE Prepared(t)'
  <2>1. t \notin S /\ deps'[t] = deps[t]
    BY <1>3 DEF AddTasks, InFlight
  <2>2. UNCHANGED <<capability, bound, gates, approval>>
    BY DEF AddTasks, gateVars, grantVars
  <2>3. QED BY <1>2, <1>3, <2>1, <2>2 DEF Prepared, Developer
<1>4. \A t \in Tasks : planned[t] \in InFlight => status[t] = planned[t]
  BY DEF InFlight
<1> HIDE DEF planned
<1>5. QED BY <1>1, <1>3, <1>4, RefreshReady

LEMMA AcceptReady ==
    ASSUME TypeOK, TypeOK', AcceptedInv, AcceptedInv', ReadyInv, NEW t \in Tasks, Accept(t)
    PROVE  ReadyInv'
<1> DEFINE settled == [status EXCEPT ![t] = "ACCEPTED"]
<1>1. settled \in [Tasks -> Status] /\ blocker \in [Tasks -> Blocker] /\ Refresh(settled, blocker) /\ Active
  BY DEF TypeOK, Status, TaskStatus, Accept
<1>2. Done \subseteq Done' /\ deps' = deps
  BY AcceptInv
<1>3. UNCHANGED <<capability, bound, gates, approval>>
  BY DEF Accept, gateVars, grantVars
<1>4. \A u \in Tasks : Prepared(u) => Prepared(u)'
  BY <1>2, <1>3 DEF Prepared, Developer
<1>5. \A u \in Tasks : settled[u] \in InFlight => status[u] = settled[u]
  BY DEF InFlight, TypeOK
<1> HIDE DEF settled
<1>6. QED BY <1>1, <1>4, <1>5, RefreshReady

LEMMA ApplyReplanReady ==
    ASSUME TypeOK, TypeOK', AcceptedInv, AcceptedInv', ReadyInv, NEW p \in replans, ApplyReplan(p)
    PROVE  ReadyInv'
<1> DEFINE sh == p.shape
           D == Invalidated(sh)
           planned == [t \in Tasks |-> CASE t \in sh.remove                 -> "CANCELLED"
                                         [] t \in sh.add \cup (D \ sh.remove) -> "PLANNED"
                                         [] OTHER                           -> status[t]]
           unblocked == [t \in Tasks |-> IF t \in D THEN None ELSE blocker[t]]
<1>1. planned \in [Tasks -> Status] /\ unblocked \in [Tasks -> Blocker]
  BY DEF TypeOK, Status, TaskStatus, Blocker
<1>2. Refresh(planned, unblocked) /\ Active
  BY DEF ApplyReplan
<1>3. D \in SUBSET Tasks /\ ConsumerClosed(D, deps) /\ Done' = Done \ D
  BY ApplyReplanInv
<1> HIDE DEF D
<1>4. \A t \in Tasks : planned[t] \in InFlight =>
            status[t] = planned[t] /\ t \notin D /\ t \notin sh.add
  BY DEF InFlight
<1>5. ASSUME NEW t \in Tasks, planned[t] \in InFlight, Prepared(t) PROVE Prepared(t)'
  <2>1. deps'[t] = deps[t]
    <3>1. DOMAIN sh.rewire \subseteq D
      <4>1. sh \in Shape
        BY ShapesAssumption DEF TypeOK, Proposal
      <4>2. PICK X \in SUBSET Tasks : sh.rewire \in [X -> SUBSET Tasks]
        BY <4>1 DEF Shape
      <4>3. sh.reopen \cup sh.remove \cup DOMAIN sh.rewire \in SUBSET Tasks
        BY <4>1, <4>2 DEF Shape
      <4>4. QED BY <4>3, AffectedHoldsSeed DEF D, Invalidated
    <3>2. deps' = PlannedDeps(sh)
      BY DEF ApplyReplan
    <3>3. QED BY <1>4, <1>5, <3>1, <3>2 DEF PlannedDeps
  <2>2. deps[t] \cap D = {}
    BY <1>3, <1>4, <1>5 DEF ConsumerClosed
  <2>3. UNCHANGED <<capability, bound, gates, approval>>
    BY DEF ApplyReplan, gateVars, grantVars
  <2>4. QED BY <1>3, <1>5, <2>1, <2>2, <2>3 DEF Prepared, Developer
<1> HIDE DEF planned, unblocked
<1>6. QED BY <1>1, <1>2, <1>4, <1>5, RefreshReady

LEMMA RequestReady ==
    ASSUME TypeOK, ReadyInv, NEW a \in Approvals, NEW sc, RequestApproval(a, sc)
    PROVE  ReadyInv'
<1>1. \A x \in Approvals : approval'[x] = "approved" <=> approval[x] = "approved"
  BY DEF RequestApproval, TypeOK, None
<1>2. UNCHANGED <<runStatus, status, blocker, deps, art, capability, bound, gates>>
  BY DEF RequestApproval, coreVars, planVars, grantVars
<1>3. \A t \in Tasks : Prepared(t)' <=> Prepared(t)
  BY <1>1, <1>2, SamePrepared DEF Done
<1>4. QED BY <1>2, <1>3 DEF ReadyInv, Active, Offered, Waits

LEMMA SupersedeReady ==
    ASSUME TypeOK, ReadyInv, Frame,
           NEW old \in TaskApprovals, NEW new \in TaskApprovals, SupersedeApproval(old, new)
    PROVE  ReadyInv'
<1> DEFINE Gated(t) == old \in gates[t]
<1>1. approval[new] = None /\ old # new /\ Active
  BY DEF SupersedeApproval
<1>2. approval' = [approval EXCEPT ![old] = "superseded", ![new] = "pending"]
  BY DEF SupersedeApproval
<1>3. \A x \in Approvals : x # old => (approval'[x] = "approved" <=> approval[x] = "approved")
  BY <1>1, <1>2 DEF TypeOK, Approvals, None
<1>4. ASSUME NEW t \in Tasks, ~Gated(t)
      PROVE  /\ Prepared(t)' <=> Prepared(t)
             /\ status'[t] = status[t] /\ blocker'[t] = blocker[t]
  <2>1. UNCHANGED <<capability, bound>> /\ gates'[t] = gates[t]
    BY <1>4 DEF SupersedeApproval, grantVars, TypeOK
  <2>2. status'[t] = status[t] /\ blocker'[t] = blocker[t]
    BY <1>4 DEF SupersedeApproval
  <2>3. gates[t] \subseteq Approvals
    BY DEF TypeOK
  <2>4. QED BY <1>3, <1>4, <2>1, <2>2, <2>3 DEF Frame, Prepared, Developer
<1>5. ASSUME NEW t \in Tasks, Gated(t)
      PROVE  /\ ~Prepared(t)' /\ status'[t] \notin InFlight \cup {"READY"}
  <2>1. new \in gates'[t] /\ approval'[new] = "pending"
    BY <1>2, <1>5 DEF SupersedeApproval, TypeOK, Approvals
  <2>2. status[t] \notin InFlight
    BY <1>5 DEF SupersedeApproval, HoldsWork
  <2>3. status'[t] = IF status[t] = "READY" THEN "BLOCKED" ELSE status[t]
    BY <1>5 DEF SupersedeApproval
  <2>4. QED BY <2>1, <2>2, <2>3 DEF Prepared, InFlight
<1>6. QED BY <1>1, <1>4, <1>5 DEF ReadyInv, Offered, Waits, Active, SupersedeApproval

LEMMA GovernReady ==
    ASSUME TypeOK, TypeOK', AcceptedInv, AcceptedInv', ReadyInv, Govern
    PROVE  ReadyInv'
<1>0. Frame
  BY GovernFrame
<1>1. ASSUME NEW a \in TaskApprovals, RequestApproval(a, TaskScope) PROVE ReadyInv'
  BY <1>1, RequestReady DEF Approvals
<1>2. ASSUME NEW t \in Tasks, NEW a \in TaskApprovals, GateTask(t, a) PROVE ReadyInv'
  <2>1. PICK st \in [Tasks -> Status], bl \in [Tasks -> Blocker] :
            /\ Refresh(st, bl)
            /\ st = status \/ (status[t] = "READY" /\ st = [status EXCEPT ![t] = "BLOCKED"])
    BY <1>2 DEF GateTask, TypeOK, Blocker, Status, TaskStatus
  <2>2. Active /\ status[t] \notin InFlight
    BY <1>2 DEF GateTask, InFlight
  <2>3. \A u \in Tasks : st[u] \in InFlight => status[u] = st[u] /\ u # t
    BY <2>1, <2>2 DEF InFlight, TypeOK
  <2>4. \A u \in Tasks \ {t} : Prepared(u)' <=> Prepared(u)
    <3>1. UNCHANGED <<capability, bound, approval>> /\ \A u \in Tasks \ {t} : gates'[u] = gates[u]
      BY <1>2 DEF GateTask, grantVars, TypeOK
    <3>2. QED BY <1>0, <3>1 DEF Frame, Prepared, Developer
  <2>5. QED BY <2>1, <2>2, <2>3, <2>4, RefreshReady
<1>3. ASSUME NEW a \in Approvals, NEW approved \in BOOLEAN, DecideApproval(a, approved)
      PROVE  ReadyInv'
  <2>1. PICK bl \in [Tasks -> Blocker] : Refresh(status, bl)
    BY <1>3 DEF DecideApproval, TypeOK, Blocker
  <2>2. \A x \in Approvals : approval[x] = "approved" => approval'[x] = "approved"
    BY <1>3 DEF DecideApproval, TypeOK
  <2>3. UNCHANGED <<capability, bound, gates>> /\ Active
    BY <1>3 DEF DecideApproval, grantVars
  <2>4. \A u \in Tasks : Prepared(u) => Prepared(u)'
    BY <1>0, <2>2, <2>3 DEF Frame, Prepared, Developer, TypeOK
  <2>5. QED BY <2>1, <2>3, <2>4, RefreshReady DEF TypeOK, Status
<1>4. ASSUME NEW old \in TaskApprovals, NEW new \in TaskApprovals, SupersedeApproval(old, new)
      PROVE  ReadyInv'
  BY <1>0, <1>4, SupersedeReady
<1>5. QED BY <1>1, <1>2, <1>3, <1>4 DEF Govern

LEMMA EscalateReady ==
    ASSUME TypeOK, TypeOK', AcceptedInv, AcceptedInv', ReadyInv, Escalate
    PROVE  ReadyInv'
<1>0. Frame
  BY EscalateFrame
<1>1. ASSUME NEW q \in Requests, NEW t \in Tasks, NEW p \in Wanted, NEW k \in 1..attempts[t],
             RecordCapabilityRequest(q, t, k, p)
      PROVE  ReadyInv'
  <2>1. UNCHANGED <<runStatus, status, deps, capability, bound, gates, approval>>
    BY <1>1 DEF RecordCapabilityRequest, planVars, gateVars
  <2>2. \A u \in Tasks : Prepared(u)' <=> Prepared(u)
    BY <1>0, <2>1, SamePrepared DEF Frame
  <2>3. \A u \in Tasks : Waits(u)' => Waits(u)
    BY <1>1, <2>1 DEF RecordCapabilityRequest, Waits, RefreshableBlockers, TypeOK
  <2>4. QED BY <2>1, <2>2, <2>3 DEF ReadyInv, Active, Offered
<1>2. ASSUME NEW a \in Approvals, NEW sc, RequestApproval(a, sc) PROVE ReadyInv'
  BY <1>2, RequestReady
<1>3. ASSUME NEW q, NEW rq, UpdateRequest(q, rq) PROVE ReadyInv'
  <2>1. UNCHANGED <<runStatus, status, blocker, deps, capability, bound, gates, approval>>
    BY <1>3 DEF UpdateRequest, coreVars, planVars, gateVars
  <2>2. \A u \in Tasks : Prepared(u)' <=> Prepared(u)
    BY <1>0, <2>1, SamePrepared DEF Frame
  <2>3. QED BY <2>1, <2>2 DEF ReadyInv, Active, Offered, Waits
<1>4. ASSUME NEW t \in Tasks, Grantable(t) \/ status[t] = "PLANNED", Active,
             NEW p, NEW ws, Grant(t, p, ws),
             NEW st \in [Tasks -> Status], NEW bl \in [Tasks -> Blocker], Refresh(st, bl),
             st = status \/ (status[t] = "READY" /\ st = [status EXCEPT ![t] = "BLOCKED"])
      PROVE  ReadyInv'
  <2>1. status[t] \notin InFlight
    BY <1>4 DEF Grantable, InFlight
  <2>2. \A u \in Tasks : st[u] \in InFlight => status[u] = st[u] /\ u # t
    BY <1>4, <2>1 DEF InFlight, TypeOK
  <2>3. \A u \in Tasks \ {t} : Prepared(u)' <=> Prepared(u)
    <3>1. /\ UNCHANGED <<gates, approval>>
          /\ \A u \in Tasks \ {t} : capability'[u] = capability[u] /\ bound'[u] = bound[u]
      BY <1>4 DEF Grant, gateVars, TypeOK
    <3>2. QED BY <1>0, <3>1 DEF Frame, Prepared, Developer
  <2>4. QED BY <1>4, <2>2, <2>3, RefreshReady
<1>5. ASSUME NEW q \in Requests, ApplyEscalation(q) PROVE ReadyInv'
  <2> DEFINE t == request[q].task
  <2>1. t \in Tasks
    <3>1. request[q] \in CapabilityRequest
      BY <1>5, FiledType DEF ApplyEscalation
    <3>2. QED BY <3>1 DEF CapabilityRequest
  <2>2. PICK bl \in [Tasks -> Blocker] : Refresh(status, bl)
    <3>1. [blocker EXCEPT ![t] = "approval_satisfied"] \in [Tasks -> Blocker]
      BY DEF TypeOK, Blocker
    <3>2. QED BY <1>5, <3>1 DEF ApplyEscalation, TypeOK
  <2>3. PICK p, ws : Grant(t, p, ws)
    BY <1>5 DEF ApplyEscalation
  <2>4. Active /\ Grantable(t)
    BY <1>5 DEF ApplyEscalation
  <2> HIDE DEF t
  <2>5. status \in [Tasks -> Status]
    BY DEF TypeOK, Status
  <2>6. QED BY <1>4, <2>1, <2>2, <2>3, <2>4, <2>5
<1>6. ASSUME NEW a \in DirectApprovals, ChangeCapability(a) PROVE ReadyInv'
  <2> DEFINE t == scope[a].task
  <2>1. t \in Tasks
    BY <1>6, CapabilityKind DEF TypeOK, ChangeCapability, Approvals
  <2>2. PICK p, ws : Grant(t, p, ws)
    BY <1>6 DEF ChangeCapability
  <2>3. Active /\ (Grantable(t) \/ status[t] = "PLANNED")
    BY <1>6 DEF ChangeCapability
  <2>4. \A bl \in [Tasks -> Blocker], x \in Blocker : [bl EXCEPT ![t] = x] \in [Tasks -> Blocker]
    OBVIOUS
  <2>5. "prerequisites_missing" \in Blocker /\ "approval_satisfied" \in Blocker
    BY DEF Blocker
  <2>6. PICK bl \in [Tasks -> Blocker] :
            \/ Refresh(status, bl)
            \/ /\ status[t] = "READY"
               /\ Refresh([status EXCEPT ![t] = "BLOCKED"], [bl EXCEPT ![t] = "prerequisites_missing"])
    <3>1. blocker \in [Tasks -> Blocker]
      BY DEF TypeOK
    <3>2. QED BY <1>6, <2>4, <2>5, <3>1 DEF ChangeCapability
  <2>7. status \in [Tasks -> Status] /\ [status EXCEPT ![t] = "BLOCKED"] \in [Tasks -> Status]
    BY DEF TypeOK, Status, TaskStatus
  <2>8. PICK st \in [Tasks -> Status], cl \in [Tasks -> Blocker] :
            /\ Refresh(st, cl)
            /\ st = status \/ (status[t] = "READY" /\ st = [status EXCEPT ![t] = "BLOCKED"])
    <3>1. CASE Refresh(status, bl)
      BY <2>7, <3>1
    <3>2. CASE /\ status[t] = "READY"
               /\ Refresh([status EXCEPT ![t] = "BLOCKED"], [bl EXCEPT ![t] = "prerequisites_missing"])
      <4> DEFINE blocked == [status EXCEPT ![t] = "BLOCKED"]
                 missing == [bl EXCEPT ![t] = "prerequisites_missing"]
      <4>1. /\ blocked \in [Tasks -> Status] /\ missing \in [Tasks -> Blocker]
            /\ Refresh(blocked, missing) /\ status[t] = "READY"
        BY <2>4, <2>5, <2>7, <3>2
      <4>2. blocked = [status EXCEPT ![t] = "BLOCKED"]
        OBVIOUS
      <4> HIDE DEF blocked, missing
      <4>3. QED BY <4>1, <4>2
    <3>3. QED BY <2>6, <3>1, <3>2
  <2> HIDE DEF t
  <2>9. QED BY <1>4, <2>1, <2>2, <2>3, <2>8
<1>7. QED
  BY <1>1, <1>2, <1>3, <1>5, <1>6 DEF Escalate, RequestCapabilityApproval, LinkCapability, DenyCapability,
     ApproveCapability, MarkEscalated, Approvals

LEMMA InitReady == Init => ReadyInv
  BY DEF Init, ReadyInv, Offered, Waits, InFlight

LEMMA NextReady ==
    TypeOK /\ AcceptedInv /\ ReadyInv /\ TypeOK' /\ AcceptedInv' /\ [Next]_vars => ReadyInv'
<1> SUFFICES ASSUME TypeOK, AcceptedInv, ReadyInv, TypeOK', AcceptedInv', [Next]_vars
             PROVE  ReadyInv'
  OBVIOUS
<1>1. ASSUME NEW t \in Tasks, Work(t) PROVE ReadyInv'
  <2>1. CASE BindWorkspace(t)
    BY <2>1, BindWorkspaceReady
  <2>2. CASE Accept(t)
    BY <2>2, AcceptReady
  <2>3. CASE ~BindWorkspace(t) /\ ~Accept(t)
    <3>1. Steady
      BY <1>1, <2>3, WorkSteady DEF Work
    <3>2. Frame
      BY <1>1, <2>3, WorkFrame DEF Work
    <3>3. QED BY <3>1, <3>2, SteadyReady DEF Frame
  <2>4. QED BY <2>1, <2>2, <2>3
<1>2. CASE Trouble
  BY <1>2, TroubleSteady, TroubleFrame, SteadyReady DEF Frame
<1>3. CASE Replan
  <2>1. ASSUME NEW p \in replans, ApplyReplan(p) PROVE ReadyInv'
    BY <2>1, ApplyReplanReady
  <2>2. ASSUME NEW a \in ReplanApprovals, NEW sh \in Shapes, RequestReplanApproval(a, sh) PROVE ReadyInv'
    BY <2>2, RequestReady DEF RequestReplanApproval, Approvals
  <2>3. ASSUME NEW sh \in Shapes, NEW a \in ReplanApprovals \cup {None}, ProposeReplan(sh, a) PROVE ReadyInv'
    <3>1. UNCHANGED <<runStatus, status, blocker, deps, art, capability, bound, gates, approval>>
      BY <2>3 DEF ProposeReplan, coreVars, gateVars, grantVars
    <3>2. \A t \in Tasks : Prepared(t)' <=> Prepared(t)
      BY <3>1, SamePrepared DEF Done
    <3>3. QED BY <3>1, <3>2 DEF ReadyInv, Active, Offered, Waits
  <2>4. ASSUME NEW sh \in Shapes, Assess(sh) PROVE ReadyInv'
    <3>1. UNCHANGED <<runStatus, status, blocker, deps, art, capability, bound, gates, approval>>
      BY <2>4 DEF Assess, coreVars, gateVars, grantVars
    <3>2. \A t \in Tasks : Prepared(t)' <=> Prepared(t)
      BY <3>1, SamePrepared DEF Done
    <3>3. QED BY <3>1, <3>2 DEF ReadyInv, Active, Offered, Waits
  <2>5. QED BY <1>3, <2>1, <2>2, <2>3, <2>4 DEF Replan
<1>4. CASE Abandon \/ Complete
  BY <1>4 DEF Abandon, Complete, ReadyInv, Active
<1>5. CASE Terminated \/ UNCHANGED vars
  <2>1. UNCHANGED vars
    BY <1>5 DEF Terminated
  <2>2. UNCHANGED <<runStatus, status, blocker, deps, art, capability, bound, gates, approval>>
    BY <2>1 DEF vars, coreVars, planVars, gateVars, grantVars
  <2>3. QED BY <2>2 DEF ReadyInv, Active, Offered, Waits, Prepared, Done, Developer
<1>6. QED BY <1>1, <1>2, <1>3, <1>4, <1>5, AddTasksReady, GovernReady, EscalateReady DEF Next, Plan

THEOREM ReadinessInvariant == Spec => [](TypeOK /\ AcceptedInv /\ ReadyInv)
<1>1. Init => TypeOK /\ AcceptedInv /\ ReadyInv
  BY InitType, InitLineage, InitReady DEF LineageInv
<1>2. TypeOK /\ AcceptedInv /\ ReadyInv /\ [Next]_vars => (TypeOK /\ AcceptedInv /\ ReadyInv)'
  BY NextType, NextAccepted, NextReady
<1>3. QED BY <1>1, <1>2, PTL DEF Spec

\* Work that is offered or in flight passes every readiness gate still.
THEOREM WorkRemainsReady == Spec => []WorkStaysReady
<1>1. TypeOK /\ AcceptedInv /\ ReadyInv => WorkStaysReady
  BY ReadyIsPrepared DEF ReadyInv, WorkStaysReady, Offered
<1>2. QED BY <1>1, ReadinessInvariant, PTL

\* No task waits for gates that are open.
THEOREM NoWakeupIsMissed == Spec => []NoMissedWakeup
<1>1. TypeOK /\ AcceptedInv /\ ReadyInv => NoMissedWakeup
  BY ReadyIsPrepared DEF ReadyInv, NoMissedWakeup, Waits
<1>2. QED BY <1>1, ReadinessInvariant, PTL

-----------------------------------------------------------------------------
(***************************************************************************)
(* The attempts of what is offered.  The routing of a failure looks at the  *)
(* budget, and a plan starts one anew; the wake-ups of the human gates do   *)
(* not look.                                                                *)
(***************************************************************************)
\* A task that will be offered without anyone deciding about its budget again.
OpensAs(st, bl, t) ==
    \/ st[t] \in {"ABSENT", "PLANNED", "READY", "REVISION_REQUIRED"}
    \/ st[t] = "BLOCKED" /\ bl[t] \in RefreshableBlockers \cup {"approval_pending"}

BudgetIsLeft == \A t \in Tasks : OpensAs(status, blocker, t) => HasBudget(t)

\* No approval of a task is ever superseded, and no capability is asked for.
NothingReopens ==
    Requests = {} /\ DirectApprovals = {} /\ \A a, b \in TaskApprovals : a = b

LEMMA RefreshOpens ==
    ASSUME NEW st \in [Tasks -> Status], NEW bl \in [Tasks -> Blocker], Refresh(st, bl)
    PROVE  \A t \in Tasks : OpensAs(status, blocker, t)' => OpensAs(st, bl, t)
  BY DEF Refresh, OpensAs

\* What a step opens was open, or has attempts left.
LEMMA SameBudget ==
    ASSUME BudgetIsLeft, UNCHANGED <<attempts, baseline>>,
           \A t \in Tasks : OpensAs(status, blocker, t)' => OpensAs(status, blocker, t) \/ HasBudget(t)
    PROVE  BudgetIsLeft'
  BY DEF BudgetIsLeft, HasBudget, SpentAttempts

LEMMA WorkLeavesBudget ==
    ASSUME TypeOK, BudgetIsLeft, NEW t \in Tasks, Work(t)
    PROVE  BudgetIsLeft'
<1>1. CASE BindWorkspace(t)
  <2>1. status \in [Tasks -> Status] /\ blocker \in [Tasks -> Blocker] /\ Refresh(status, blocker)
    BY <1>1 DEF BindWorkspace, TypeOK, Status
  <2>2. QED BY <1>1, <2>1, RefreshOpens, SameBudget DEF BindWorkspace, budgetVars
<1>2. CASE \E w \in Workers : Delegate(t, w)
  <2>1. /\ status' = [status EXCEPT ![t] = "DELEGATED"] /\ UNCHANGED <<blocker, baseline>>
        /\ attempts' = [attempts EXCEPT ![t] = @ + 1]
    BY <1>2 DEF Delegate
  <2>2. QED BY <2>1 DEF TypeOK, BudgetIsLeft, OpensAs, HasBudget, SpentAttempts
<1>3. CASE Start(t)
  BY <1>3, SameBudget DEF Start, TypeOK, OpensAs, budgetVars
<1>4. ASSUME NEW k \in 1..attempts[t], Submit(t, k) PROVE BudgetIsLeft'
  <2>1. UNCHANGED <<attempts, baseline>>
    BY <1>4 DEF Submit, budgetVars
  <2>2. QED BY <1>4, <2>1, SubmitMoves, SameBudget DEF TypeOK, OpensAs
<1>5. ASSUME NEW k \in 1..attempts[t], RecordProvisional(t, k) PROVE BudgetIsLeft'
  BY <1>5, SameBudget DEF RecordProvisional, TypeOK, OpensAs, budgetVars
<1>6. ASSUME NEW v, NEW a, Judge(t, v, a) PROVE BudgetIsLeft'
  BY <1>6, SameBudget DEF Judge, TypeOK, OpensAs, budgetVars
<1>7. CASE Accept(t)
  <2> DEFINE settled == [status EXCEPT ![t] = "ACCEPTED"]
  <2>1. /\ settled \in [Tasks -> Status] /\ blocker \in [Tasks -> Blocker] /\ Refresh(settled, blocker)
        /\ UNCHANGED <<attempts, baseline>>
    BY <1>7 DEF TypeOK, Status, TaskStatus, Accept, budgetVars
  <2>2. \A u \in Tasks : OpensAs(settled, blocker, u) => OpensAs(status, blocker, u)
    BY DEF OpensAs, TypeOK
  <2> HIDE DEF settled
  <2>3. QED BY <2>1, <2>2, RefreshOpens, SameBudget
<1>8. QED BY <1>1, <1>2, <1>3, <1>4, <1>5, <1>6, <1>7 DEF Work, Validate, Review

LEMMA MarkFailedLeavesBudget ==
    ASSUME TypeOK, BudgetIsLeft, NEW T \in SUBSET Tasks, NEW c, MarkFailed(T, c)
    PROVE  BudgetIsLeft'
  BY SameBudget DEF MarkFailed, OpensAs, TypeOK, budgetVars

LEMMA TroubleLeavesBudget ==
    ASSUME TypeOK, BudgetIsLeft, Trouble
    PROVE  BudgetIsLeft'
<1>1. CASE \E t \in Tasks, c \in Classes : Fail(t, c)
  BY <1>1, MarkFailedLeavesBudget DEF Fail
<1>2. CASE \E t \in Tasks, c \in Classes : \E k \in 1..attempts[t] : FailAssignment(t, k, c)
  BY <1>2, MarkFailedLeavesBudget DEF FailAssignment
<1>3. CASE Resume
  BY <1>3, MarkFailedLeavesBudget DEF Resume
<1>4. ASSUME NEW f \in failures, Recover(f) PROVE BudgetIsLeft'
  <2>1. f.task \in Tasks
    BY DEF TypeOK, Failure
  <2>2. PICK route \in {"RETRY", "REVISE", "REPLACE", "ESCALATE", "REPLAN"} :
            /\ route = Route(f.task, f.class)
            /\ route \in {"RETRY", "REVISE"} => HasBudget(f.task)
    BY DEF Route
  <2>3. /\ status' = [status EXCEPT ![f.task] = RecoveredStatus[route]]
        /\ blocker' = [blocker EXCEPT ![f.task] = RecoveredBlocker(route, f.class)]
        /\ UNCHANGED <<attempts, baseline>>
    BY <1>4, <2>2 DEF Recover
  <2>4. RecoveredBlocker(route, f.class) \notin RefreshableBlockers \cup {"approval_pending"}
    BY DEF RecoveredBlocker, RefreshableBlockers, None
  <2>5. \A u \in Tasks : OpensAs(status, blocker, u)' => OpensAs(status, blocker, u) \/ HasBudget(u)
    BY <2>1, <2>2, <2>3, <2>4 DEF TypeOK, OpensAs, RecoveredStatus
  <2>6. QED BY <2>3, <2>5, SameBudget
<1>5. QED BY <1>1, <1>2, <1>3, <1>4 DEF Trouble

LEMMA GovernLeavesBudget ==
    ASSUME NothingReopens, TypeOK, BudgetIsLeft, Govern
    PROVE  BudgetIsLeft'
<1>1. ASSUME NEW a \in TaskApprovals, RequestApproval(a, TaskScope) PROVE BudgetIsLeft'
  BY <1>1, SameBudget DEF RequestApproval, OpensAs, coreVars, budgetVars
<1>2. ASSUME NEW t \in Tasks, NEW a \in TaskApprovals, GateTask(t, a) PROVE BudgetIsLeft'
  <2>0. UNCHANGED <<attempts, baseline>>
    BY <1>2 DEF GateTask, budgetVars
  <2>1. status \in [Tasks -> Status] /\ blocker \in [Tasks -> Blocker]
    BY DEF TypeOK, Status
  <2>2. CASE ~(status[t] = "READY" /\ approval[a] # "approved")
    <3>1. Refresh(status, blocker)
      BY <1>2, <2>2 DEF GateTask
    <3>2. QED BY <2>0, <2>1, <3>1, RefreshOpens, SameBudget
  <2>3. CASE status[t] = "READY" /\ approval[a] # "approved"
    <3> DEFINE st == [status EXCEPT ![t] = "BLOCKED"]
               bl == [blocker EXCEPT ![t] = IF approval[a] = "rejected" THEN "approval_rejected"
                                                                      ELSE "approval_pending"]
    <3>1. Refresh(st, bl)
      BY <1>2, <2>3 DEF GateTask
    <3>2. st \in [Tasks -> Status] /\ bl \in [Tasks -> Blocker]
      BY <2>1 DEF Status, TaskStatus, Blocker
    <3>3. \A u \in Tasks : OpensAs(st, bl, u) => OpensAs(status, blocker, u)
      BY <2>1, <2>3 DEF OpensAs
    <3> HIDE DEF st, bl
    <3>4. QED BY <2>0, <3>1, <3>2, <3>3, RefreshOpens, SameBudget
  <2>4. QED BY <2>2, <2>3
<1>3. ASSUME NEW a \in Approvals, NEW approved \in BOOLEAN, DecideApproval(a, approved)
      PROVE  BudgetIsLeft'
  <2> DEFINE gated == {t \in Tasks : a \in gates[t]}
             waiting == {t \in gated : status[t] = "BLOCKED" /\ blocker[t] = "approval_pending"}
             bl == [t \in Tasks |->
                      CASE ~approved /\ t \in gated -> "approval_rejected"
                        [] approved /\ t \in waiting ->
                              IF Developer(t) /\ ~bound[t] THEN "prerequisites_missing"
                                                             ELSE "approval_satisfied"
                        [] OTHER -> blocker[t]]
  <2>0. Refresh(status, bl)
    BY <1>3 DEF DecideApproval
  <2>1. /\ bl \in [Tasks -> Blocker]
        /\ \A u \in Tasks : \/ bl[u] = blocker[u]
                            \/ bl[u] = "approval_rejected"
                            \/ blocker[u] = "approval_pending" /\ status[u] = "BLOCKED"
    BY DEF TypeOK, Blocker
  <2> HIDE DEF bl
  <2>2. UNCHANGED <<attempts, baseline>> /\ status \in [Tasks -> Status]
    BY <1>3 DEF DecideApproval, budgetVars, TypeOK, Status
  <2>3. \A u \in Tasks : OpensAs(status, bl, u) => OpensAs(status, blocker, u)
    BY <2>1 DEF OpensAs, RefreshableBlockers
  <2>4. QED BY <2>0, <2>1, <2>2, <2>3, RefreshOpens, SameBudget
<1>4. ASSUME NEW old \in TaskApprovals, NEW new \in TaskApprovals, SupersedeApproval(old, new)
      PROVE  BudgetIsLeft'
  BY <1>4 DEF SupersedeApproval, NothingReopens
<1>5. QED BY <1>1, <1>2, <1>3, <1>4 DEF Govern

LEMMA EscalateLeavesBudget ==
    ASSUME NothingReopens, TypeOK, BudgetIsLeft, Escalate
    PROVE  BudgetIsLeft'
  BY DEF Escalate, NothingReopens

LEMMA ReplanLeavesBudget ==
    ASSUME TypeOK, BudgetIsLeft, Replan
    PROVE  BudgetIsLeft'
<1>1. ASSUME NEW a \in ReplanApprovals, NEW sh \in Shapes, RequestReplanApproval(a, sh) PROVE BudgetIsLeft'
  BY <1>1, SameBudget DEF RequestReplanApproval, RequestApproval, OpensAs, coreVars, budgetVars
<1>2. ASSUME NEW sh \in Shapes, NEW a \in ReplanApprovals \cup {None}, ProposeReplan(sh, a) PROVE BudgetIsLeft'
  BY <1>2, SameBudget DEF ProposeReplan, OpensAs, coreVars, budgetVars
<1>0. ASSUME NEW sh \in Shapes, Assess(sh) PROVE BudgetIsLeft'
  BY <1>0, SameBudget DEF Assess, OpensAs, coreVars, budgetVars
<1>3. ASSUME NEW p \in replans, ApplyReplan(p) PROVE BudgetIsLeft'
  <2> DEFINE sh == p.shape
             D == Invalidated(sh)
             planned == [t \in Tasks |-> CASE t \in sh.remove                 -> "CANCELLED"
                                           [] t \in sh.add \cup (D \ sh.remove) -> "PLANNED"
                                           [] OTHER                           -> status[t]]
             unblocked == [t \in Tasks |-> IF t \in D THEN None ELSE blocker[t]]
  <2>1. planned \in [Tasks -> Status] /\ unblocked \in [Tasks -> Blocker]
    BY DEF TypeOK, Status, TaskStatus, Blocker
  <2>2. Refresh(planned, unblocked)
    BY <1>3 DEF ApplyReplan
  <2>3. /\ attempts' = attempts
        /\ \A t \in Tasks : baseline'[t] = IF t \in D \ sh.remove THEN attempts[t] ELSE baseline[t]
    BY <1>3 DEF ApplyReplan, Rebased
  <2>4. \A t \in sh.add : t \in Tasks => status[t] = "ABSENT"
    BY <1>3 DEF ApplyReplan, Applicable, Present
  <2> HIDE DEF D
  <2>5. ASSUME NEW t \in Tasks, OpensAs(planned, unblocked, t) PROVE HasBudget(t)'
    <3>1. CASE t \in D \ sh.remove
      <4>1. attempts'[t] - baseline'[t] = 0
        BY <2>3, <3>1 DEF TypeOK
      <4>2. QED BY <4>1, BudgetAssumption DEF HasBudget, SpentAttempts
    <3>2. CASE t \notin D \ sh.remove
      <4>1. OpensAs(status, blocker, t)
        BY <2>4, <2>5, <3>2 DEF OpensAs, RefreshableBlockers, None
      <4>2. QED BY <2>3, <3>2, <4>1 DEF BudgetIsLeft, HasBudget, SpentAttempts
    <3>3. QED BY <3>1, <3>2
  <2> HIDE DEF planned, unblocked
  <2>6. QED BY <2>1, <2>2, <2>5, RefreshOpens DEF BudgetIsLeft
<1>4. QED BY <1>0, <1>1, <1>2, <1>3 DEF Replan

LEMMA PlanLeavesBudget ==
    ASSUME TypeOK, BudgetIsLeft, NEW S \in SUBSET Tasks, AddTasks(S)
    PROVE  BudgetIsLeft'
<1> DEFINE planned == [t \in Tasks |-> IF t \in S THEN "PLANNED" ELSE status[t]]
<1>1. /\ planned \in [Tasks -> Status] /\ blocker \in [Tasks -> Blocker] /\ Refresh(planned, blocker)
      /\ UNCHANGED <<attempts, baseline>>
  BY DEF TypeOK, Status, TaskStatus, AddTasks, budgetVars
<1>2. \A t \in Tasks : OpensAs(planned, blocker, t) => OpensAs(status, blocker, t)
  BY DEF OpensAs, AddTasks, Present
<1> HIDE DEF planned
<1>3. QED BY <1>1, <1>2, RefreshOpens, SameBudget

\* A task that is offered has attempts left, if no approval is superseded and no
\* capability granted meanwhile: these two may wake a task whose attempts are spent.
THEOREM OfferedWorkHasBudget ==
    ASSUME NothingReopens
    PROVE  Spec => []ReadyHasBudget
<1>1. Init => BudgetIsLeft
  BY BudgetAssumption DEF Init, BudgetIsLeft, HasBudget, SpentAttempts
<1>2. TypeOK /\ BudgetIsLeft /\ [Next]_vars => BudgetIsLeft'
  <2>1. SUFFICES ASSUME TypeOK, BudgetIsLeft, [Next]_vars PROVE BudgetIsLeft'
    OBVIOUS
  <2>2. CASE Abandon \/ Complete \/ Terminated \/ UNCHANGED vars
    <3>1. UNCHANGED <<status, blocker, attempts, baseline>>
      BY <2>2 DEF Abandon, Complete, Terminated, vars, coreVars, budgetVars
    <3>2. QED BY <2>1, <3>1 DEF BudgetIsLeft, OpensAs, HasBudget, SpentAttempts
  <2>3. QED BY <2>1, <2>2, WorkLeavesBudget, TroubleLeavesBudget, GovernLeavesBudget, EscalateLeavesBudget,
            ReplanLeavesBudget, PlanLeavesBudget DEF Next, Plan
<1>3. BudgetIsLeft => ReadyHasBudget
  BY DEF BudgetIsLeft, OpensAs, ReadyHasBudget
<1>4. QED BY <1>1, <1>2, <1>3, InitType, NextType, PTL DEF Spec
==============================================================================
