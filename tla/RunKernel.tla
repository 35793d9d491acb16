------------------------------ MODULE RunKernel ------------------------------
(***************************************************************************)
(* walter/orchestration.py: the Manager-only control plane of one run.     *)
(*                                                                         *)
(* Every public mutation goes through Orchestrator._mutate: it reloads the *)
(* durable snapshot, refuses a run that is no longer active, applies one   *)
(* operation and commits it in one transaction.  An operation that raises  *)
(* GateError commits nothing, so each operation is one atomic action whose *)
(* guard is the conjunction of the code's checks.  Callers (the Manager    *)
(* model, the workflow driver, the CLI, a worker that answers late) may    *)
(* interleave operations in any order; nothing orders them but the guards. *)
(*                                                                         *)
(* An artifact is <<task, attempt>>: a submission needs a RUNNING task, so *)
(* one assignment produces at most one artifact.  Only a task's latest     *)
(* artifact is ever consulted, so only that one keeps a record.            *)
(***************************************************************************)
EXTENDS TaskGraph, Integers

CONSTANTS
    Packet,         \* [Tasks -> SUBSET Tasks]: dependencies a task is created with
    DevTasks,       \* tasks created as developer_sandbox, the others as model_only
    Checked,        \* tasks with a required_checks, an executable one among them
    Reviewed,       \* review_required, high_risk or DevTasks
    Workers,        \* identities a caller names as worker_id
    Judges,         \* identities a caller names as validator_id or reviewer_id
    Manager,        \* the configured manager_id
    TaskApprovals,  \* ids of approval requests about tasks
    ReplanApprovals,\* ids of approval requests about replan proposals
    CapabilityApprovals, \* ids of approval requests about a capability request
    DirectApprovals,\* ids of approval requests for change_capability, which src never calls
    Requests,       \* ids of the capability requests workers file
    Wanted,         \* profiles asked for in this instance
    Shapes,         \* structures a replan proposal may have
    Classes,        \* failure classes reported in this instance
    MaxAttempts, MaxRevisions, MaxReplans

RetryClasses    == {"PROVIDER_FAILURE", "TIMEOUT", "STALE_BASE"}
ReviseClasses   == {"BAD_OUTPUT", "MISSING_EVIDENCE"}
ReplaceClasses  == {"REPEATED_BAD_OUTPUT", "CONSTRAINT_VIOLATION"}
EscalateClasses == {"CAPABILITY_UNAVAILABLE", "UNSUPPORTED_CAPABILITY", "TOOL_FAILURE"}
ReplanClasses   == {"TASK_AMBIGUITY", "DEPENDENCY_FAILURE"}
FailureClass    == RetryClasses \cup ReviseClasses \cup ReplaceClasses
                        \cup EscalateClasses \cup ReplanClasses

Principals == Workers \cup Judges \cup {Manager}
Approvals == TaskApprovals \cup ReplanApprovals \cup CapabilityApprovals
                \cup DirectApprovals

None == "none"
NoAttempt == 0

\* CapabilityProfile, ranked as in the controller's request_capability_change.
Rank == [model_only |-> 0, researcher |-> 1, repo_reader |-> 1, developer_sandbox |-> 2,
         reviewer |-> -1]
Profile == {"model_only", "researcher", "repo_reader", "developer_sandbox", "reviewer"}
NeedsWorkspace(p) == p \in {"repo_reader", "developer_sandbox"}

\* ReplanProposal: tasks to add, remove, reopen, and new dependencies by task.
Shape == [add : SUBSET Tasks, remove : SUBSET Tasks, reopen : SUBSET Tasks,
          rewire : UNION {[D -> SUBSET Tasks] : D \in SUBSET Tasks}]

ASSUME PacketAssumption    == Packet \in [Tasks -> SUBSET Tasks]
ASSUME TaskKindAssumption  == /\ DevTasks \subseteq Tasks
                              /\ Checked \subseteq Tasks
                              /\ Reviewed \subseteq Tasks
                              /\ DevTasks \subseteq Checked \cap Reviewed
ASSUME ApprovalsAssumption == None \notin Approvals
ASSUME KindsAssumption     == (CapabilityApprovals \cup DirectApprovals) \cap TaskApprovals = {}
ASSUME ShapesAssumption    == Shapes \subseteq Shape
ASSUME ClassesAssumption   == Classes \subseteq FailureClass
ASSUME WantedAssumption    == Wanted \subseteq Profile
ASSUME BudgetAssumption    == /\ MaxAttempts \in Nat \ {0}
                              /\ MaxRevisions \in Nat
                              /\ MaxReplans \in Nat

VARIABLES
    runStatus,      \* run.status
    status,         \* task.status, "ABSENT" before the task is in run.tasks
    blocker,        \* task.blocker
    deps,           \* the task ids a packet names
    assignment,     \* attempt number of task.assignment, NoAttempt when None
    attempts,       \* task.attempts; the assignment ids 1..attempts[t] exist
    baseline,       \* task.attempt_baseline
    revisions,      \* task.revisions
    revBaseline,    \* task.revision_baseline
    authors,        \* worker ids in task.assignment_history
    bound,          \* task.workspace_id is set
    capability,     \* task.capability
    request,        \* run.capability_requests
    art,            \* the artifact task.artifact_ids[-1]
    accepted,       \* run.accepted_artifacts
    failures,       \* failures of a task with no recovery decision
    gates,          \* approval ids in task.approval_gates
    approval,       \* approvals[a].status, None before the request
    scope,          \* what an approval request is about
    planRevision,   \* plan.revision
    replans,        \* persisted replan proposals
    assessed        \* assessments of this revision that found nothing to ask a human about

coreVars == <<status, blocker, assignment, art>>
budgetVars == <<attempts, baseline, revisions, revBaseline, authors>>
planVars == <<deps, planRevision, replans, assessed>>
gateVars == <<gates, approval, scope>>
grantVars == <<bound, capability, request>>
vars == <<runStatus, coreVars, budgetVars, planVars, gateVars, grantVars, accepted, failures>>

TaskStatus == {"PLANNED", "READY", "DELEGATED", "RUNNING", "SUBMITTED", "REVIEWING",
               "REVISION_REQUIRED", "ACCEPTED", "REPLACED", "BLOCKED", "FAILED", "CANCELLED"}
InFlight == {"DELEGATED", "RUNNING", "SUBMITTED", "REVIEWING"}

\* task.blocker: the fixed BlockerReason values, "evidence" for failure
\* evidence or worker text, "readiness_lapsed" for that prefix.
Blocker == {None, "evidence", "prerequisites_missing", "approval_satisfied", "approval_pending",
            "approval_rejected", "escalation_pending", "unsupported", "tool_failure",
            "replan_required", "replacement_required", "readiness_lapsed"}
RefreshableBlockers == {"prerequisites_missing", "approval_satisfied", "readiness_lapsed"}

Artifact == [attempt : Nat, status : {None, "candidate", "accepted", "rejected", "superseded"},
             inputs : SUBSET (Tasks \X Nat), verdicts : SUBSET BOOLEAN,
             review : {None, "passed", "failed"}, judges : SUBSET Principals]
NoArtifact == [attempt |-> NoAttempt, status |-> None, inputs |-> {},
               verdicts |-> {}, review |-> None, judges |-> {}]

TaskScope == [kind |-> "task"]
ReplanScope(sh, base) == [kind |-> "replan", shape |-> sh, base |-> base]
CapabilityScope(t, p, ws) == [kind |-> "capability", task |-> t, profile |-> p, workspace |-> ws]
Scope == {TaskScope} \cup {ReplanScope(sh, b) : sh \in Shapes, b \in 0..MaxReplans}
            \cup {CapabilityScope(t, p, ws) : t \in Tasks, p \in Profile, ws \in BOOLEAN}
Proposal == [shape : Shapes, base : 0..MaxReplans, approval : Approvals \cup {None}]
Assessment == [shape : Shapes, done : SUBSET Tasks]
Failure == [task : Tasks, attempt : Nat, class : FailureClass]
CapabilityRequest == [task : Tasks, profile : Profile, approval : Approvals \cup {None},
                      status : {"pending", "approved", "denied", "escalated"}]
NoRequest == [status |-> None]

\* What each variable holds; planRevision in particular never exceeds the
\* replan budget apply_replan spends from.
TypeOK ==
    /\ runStatus \in {"active", "completed", "abandoned"}
    /\ status \in [Tasks -> TaskStatus \cup {"ABSENT"}]
    /\ blocker \in [Tasks -> Blocker]
    /\ deps \in [Tasks -> SUBSET Tasks]
    /\ assignment \in [Tasks -> Nat]
    /\ attempts \in [Tasks -> Nat]
    /\ baseline \in [Tasks -> Nat]
    /\ revisions \in [Tasks -> Nat]
    /\ revBaseline \in [Tasks -> Nat]
    /\ authors \in [Tasks -> SUBSET Principals]
    /\ bound \in [Tasks -> BOOLEAN]
    /\ capability \in [Tasks -> Profile]
    /\ request \in [Requests -> CapabilityRequest \cup {NoRequest}]
    /\ art \in [Tasks -> Artifact]
    /\ accepted \subseteq Tasks \X Nat
    /\ failures \subseteq Failure
    /\ gates \in [Tasks -> SUBSET Approvals]
    /\ approval \in [Approvals -> {None, "pending", "approved", "rejected", "superseded"}]
    /\ scope \in [Approvals -> Scope]
    /\ planRevision \in 0..MaxReplans
    /\ replans \subseteq Proposal
    /\ assessed \subseteq Assessment

-----------------------------------------------------------------------------
(* Readiness and lineage.                                                  *)

Active == runStatus = "active"
Done == {t \in Tasks : status[t] = "ACCEPTED"}
InPlan == {t \in Present(status) : status[t] # "CANCELLED"}     \* plan.task_ids

Developer(t) == capability[t] = "developer_sandbox"

\* The artifact ids _input_artifact_ids resolves for task t.
Inputs(t) == {<<u, art[u].attempt>> : u \in deps[t]}

\* One level of _validate_accepted_artifact, for the tasks accepted in done.
LocallyCanonical(u, done) ==
    /\ u \in done
    /\ art[u].status = "accepted"
    /\ <<u, art[u].attempt>> \in accepted
    /\ art[u].inputs = Inputs(u)

\* _validate_accepted_artifact with its recursion: u and everything upstream
\* of u is canonical and accepted.
Canonical(u, done) ==
    \E C \in SUBSET Tasks : /\ u \in C
                            /\ \A v \in C : LocallyCanonical(v, done) /\ deps[v] \subseteq C

\* _readiness_blocker returns None.
Ready(t, done) ==
    /\ \A u \in deps[t] : Canonical(u, done)
    /\ Developer(t) => bound[t]
    /\ \A a \in gates[t] : approval[a] = "approved"

\* _refresh, run last in an operation that has already assigned every other
\* variable, from the statuses st and blockers bl the operation produced.
Refresh(st, bl) ==
    \E done \in {{t \in Tasks : st[t] = "ACCEPTED"}} :
        LET ready(t) == Ready(t, done)'
            woken  == {t \in Tasks : /\ \/ st[t] = "PLANNED"
                                        \/ st[t] = "BLOCKED" /\ bl[t] \in RefreshableBlockers
                                     /\ ready(t)}
            lapsed == {t \in Tasks : st[t] = "READY" /\ ~ready(t)}
        IN  /\ status' = [t \in Tasks |-> CASE t \in woken  -> "READY"
                                            [] t \in lapsed -> "BLOCKED"
                                            [] OTHER        -> st[t]]
            /\ blocker' = [t \in Tasks |->
                             CASE t \in woken /\ st[t] = "BLOCKED" -> None
                               [] t \in lapsed                     -> "readiness_lapsed"
                               [] OTHER                            -> bl[t]]

-----------------------------------------------------------------------------
(* Planning.                                                               *)

Init ==
    /\ runStatus = "active"
    /\ status = [t \in Tasks |-> "ABSENT"]
    /\ blocker = [t \in Tasks |-> None]
    /\ deps = [t \in Tasks |-> {}]
    /\ assignment = [t \in Tasks |-> NoAttempt]
    /\ attempts = [t \in Tasks |-> 0]
    /\ baseline = [t \in Tasks |-> 0]
    /\ revisions = [t \in Tasks |-> 0]
    /\ revBaseline = [t \in Tasks |-> 0]
    /\ authors = [t \in Tasks |-> {}]
    /\ bound = [t \in Tasks |-> FALSE]
    /\ capability = [t \in Tasks |-> IF t \in DevTasks THEN "developer_sandbox" ELSE "model_only"]
    /\ request = [q \in Requests |-> NoRequest]
    /\ art = [t \in Tasks |-> NoArtifact]
    /\ accepted = {}
    /\ failures = {}
    /\ gates = [t \in Tasks |-> {}]
    /\ approval = [a \in Approvals |-> None]
    /\ scope = [a \in Approvals |-> TaskScope]
    /\ planRevision = 0
    /\ replans = {}
    /\ assessed = {}

\* add_tasks: only before any execution, only fresh tasks, only a valid graph.
AddTasks(S) ==
    /\ Active
    /\ planRevision = 0
    /\ \A t \in Tasks : attempts[t] = 0
    /\ S # {} /\ S \cap Present(status) = {}
    /\ deps' = [t \in Tasks |-> IF t \in S THEN Packet[t] ELSE deps[t]]
    /\ LET planned == [t \in Tasks |-> IF t \in S THEN "PLANNED" ELSE status[t]]
       IN  /\ GraphOk(planned, deps')
           /\ UNCHANGED <<runStatus, assignment, art, budgetVars, planRevision, replans, assessed,
                          gateVars, grantVars, accepted, failures>>
           /\ Refresh(planned, blocker)

\* Slip: the binding is saved without re-evaluating readiness.
BindWorkspace_NoRefresh(t) ==
    /\ Active
    /\ NeedsWorkspace(capability[t]) /\ ~bound[t] /\ attempts[t] = 0
    /\ status[t] \in {"PLANNED", "READY", "BLOCKED"}
    /\ status[t] = "BLOCKED" => blocker[t] = "prerequisites_missing"
    /\ bound' = [bound EXCEPT ![t] = TRUE]
    /\ UNCHANGED <<runStatus, coreVars, budgetVars, planVars, gateVars, capability, request,
                   accepted, failures>>

\* bind_workspace: the initial grant of a task that has not been delegated.
\* The controller's delegate binds one only for the profiles that use it.
BindWorkspace(t) ==
    /\ Active
    /\ NeedsWorkspace(capability[t]) /\ ~bound[t] /\ attempts[t] = 0
    /\ status[t] \in {"PLANNED", "READY", "BLOCKED"}
    /\ status[t] = "BLOCKED" => blocker[t] = "prerequisites_missing"
    /\ bound' = [bound EXCEPT ![t] = TRUE]
    /\ UNCHANGED <<runStatus, assignment, art, budgetVars, planVars, gateVars, capability, request,
                   accepted, failures>>
    /\ Refresh(status, blocker)

-----------------------------------------------------------------------------
(* Execution: assignment, candidate, evidence, acceptance.                 *)

SpentAttempts(t) == attempts[t] - baseline[t]
SpentRevisions(t) == revisions[t] - revBaseline[t]
HasBudget_OffByOne(t) == SpentAttempts(t) <= MaxAttempts  \* slip
HasBudget(t) == SpentAttempts(t) < MaxAttempts

\* The assignment id a caller presents is that of the task's assignment.
CurrentAssignment_AnyOfTask(t, k) == k <= attempts[t]  \* slip
CurrentAssignment(t, k) == assignment[t] = k

HoldsWork_OnlyRunning(t) == status[t] \in {"DELEGATED", "RUNNING"}  \* slip
HoldsWork(t) == status[t] \in InFlight

\* delegate: a fresh assignment, one attempt of the task's budget.
Delegate(t, w) ==
    /\ Active
    /\ w # Manager
    /\ HasBudget(t)
    /\ Ready(t, Done)
    /\ status[t] \in {"READY", "REVISION_REQUIRED"}
    /\ status' = [status EXCEPT ![t] = "DELEGATED"]
    /\ attempts' = [attempts EXCEPT ![t] = @ + 1]
    /\ assignment' = [assignment EXCEPT ![t] = attempts[t] + 1]
    /\ authors' = [authors EXCEPT ![t] = @ \cup {w}]
    /\ UNCHANGED <<runStatus, blocker, art, baseline, revisions, revBaseline,
                   planVars, gateVars, grantVars, accepted, failures>>

Start(t) ==
    /\ Active
    /\ Ready(t, Done)
    /\ status[t] = "DELEGATED"
    /\ status' = [status EXCEPT ![t] = "RUNNING"]
    /\ UNCHANGED <<runStatus, blocker, assignment, art, budgetVars, planVars, gateVars,
                   grantVars, accepted, failures>>

\* submit: the worker of assignment k, which may answer long after the task
\* moved on, delivers a completed candidate built on the current inputs.
Submit(t, k) ==
    /\ Active
    /\ CurrentAssignment(t, k)
    /\ \A u \in deps[t] : Canonical(u, Done)
    /\ status[t] = "RUNNING"
    /\ status' = [status EXCEPT ![t] = "SUBMITTED"]
    /\ art' = [art EXCEPT ![t] = [NoArtifact EXCEPT !.attempt = k, !.status = "candidate",
                                                    !.inputs = Inputs(t)]]
    /\ UNCHANGED <<runStatus, blocker, assignment, budgetVars, planVars, gateVars,
                   grantVars, accepted, failures>>

\* record_provisional_result: partial output, ahead of a classified failure.
RecordProvisional(t, k) ==
    /\ Active
    /\ status[t] = "RUNNING" /\ CurrentAssignment(t, k)
    /\ blocker' = [blocker EXCEPT ![t] = "evidence"]
    /\ UNCHANGED <<runStatus, status, assignment, art, budgetVars, planVars, gateVars,
                   grantVars, accepted, failures>>

\* _fail, for every task of T.
MarkFailed(T, class) ==
    /\ status' = [t \in Tasks |-> IF t \in T THEN "FAILED" ELSE status[t]]
    /\ blocker' = [t \in Tasks |-> IF t \in T THEN "evidence" ELSE blocker[t]]
    /\ failures' = failures \cup {[task |-> t, attempt |-> attempts[t], class |-> class] : t \in T}
    /\ UNCHANGED <<runStatus, assignment, art, budgetVars, planVars, gateVars, grantVars, accepted>>

\* fail: the Manager or the driver classifies a failure of in-flight work.
Fail(t, c) ==
    /\ Active
    /\ HoldsWork(t)
    /\ MarkFailed({t}, c)

\* fail_assignment: the worker of assignment k reports its own failure.
FailAssignment(t, k, c) ==
    /\ Active
    /\ CurrentAssignment(t, k)
    /\ HoldsWork(t)
    /\ MarkFailed({t}, c)

\* resume: interrupted assignments become TIMEOUT failures; submitted and
\* reviewing candidates are left as they are.
Resume ==
    LET interrupted == {t \in Tasks : status[t] \in {"DELEGATED", "RUNNING"}}
    IN  /\ Active
        /\ interrupted # {}
        /\ MarkFailed(interrupted, "TIMEOUT")

\* _candidate: the latest artifact, still a candidate, of a task under review.
CurrentCandidate(t) ==
    /\ art[t].status = "candidate"
    /\ status[t] \in {"SUBMITTED", "REVIEWING"}

\* validate and review: a principal that is no author adds its evidence.
Judge(t, v, judged) ==
    /\ Active
    /\ CurrentCandidate(t)
    /\ v # Manager /\ v \notin authors[t]
    /\ status' = [status EXCEPT ![t] = "REVIEWING"]
    /\ art' = [art EXCEPT ![t] = [judged EXCEPT !.judges = @ \cup {v}]]
    /\ UNCHANGED <<runStatus, blocker, assignment, budgetVars, planVars, gateVars,
                   grantVars, accepted, failures>>

Validate(t, v, passed) ==
    Judge(t, v, [art[t] EXCEPT !.verdicts = @ \cup {passed}])

Review(t, v, passed) ==
    Judge(t, v, [art[t] EXCEPT !.review = IF passed THEN "passed" ELSE "failed"])

\* The evidence accept demands of a candidate.
EvidenceComplete(t) ==
    /\ Manager \notin authors[t] \cup art[t].judges
    /\ FALSE \notin art[t].verdicts
    /\ t \in Checked => art[t].verdicts # {}
    /\ t \in Reviewed \/ Developer(t) => art[t].review = "passed"
    /\ t \notin Checked => art[t].review # None

Accept(t) ==
    /\ Active
    /\ CurrentCandidate(t)
    /\ EvidenceComplete(t)
    /\ Ready(t, Done)
    /\ art[t].inputs = Inputs(t)
    /\ art' = [art EXCEPT ![t].status = "accepted"]
    /\ accepted' = accepted \cup {<<t, art[t].attempt>>}
    /\ UNCHANGED <<runStatus, assignment, budgetVars, planVars, gateVars, grantVars, failures>>
    /\ Refresh([status EXCEPT ![t] = "ACCEPTED"], blocker)

-----------------------------------------------------------------------------
(* Recovery.                                                               *)

\* The action recover derives from the failure's class and the task's budgets.
Route(t, c) ==
    LET spent == ~HasBudget(t)
        revised == SpentRevisions(t) >= MaxRevisions
    IN  CASE c \in RetryClasses /\ ~spent              -> "RETRY"
          [] c \in ReviseClasses /\ ~spent /\ ~revised -> "REVISE"
          [] c \in ReviseClasses /\ ~spent /\ revised  -> "REPLACE"
          [] c \in ReplaceClasses                      -> "REPLACE"
          [] c \in EscalateClasses                     -> "ESCALATE"
          [] OTHER                                     -> "REPLAN"

RecoveredStatus == [RETRY |-> "READY", REVISE |-> "REVISION_REQUIRED", REPLACE |-> "REPLACED",
                    ESCALATE |-> "BLOCKED", REPLAN |-> "BLOCKED"]

RecoveredBlocker(route, c) ==
    CASE route = "RETRY"    -> None
      [] route = "REVISE"   -> "evidence"
      [] route = "REPLACE"  -> "replacement_required"
      [] route = "REPLAN"   -> "replan_required"
      [] OTHER              -> CASE c = "TOOL_FAILURE"           -> "tool_failure"
                                 [] c = "UNSUPPORTED_CAPABILITY" -> "unsupported"
                                 [] OTHER                        -> "escalation_pending"

\* recover rejects the latest artifact whatever the route and its status.
Rejected_Forgets(t) == art  \* slip
Rejected(t) == [art EXCEPT ![t].status = IF @ = None THEN None ELSE "rejected"]

\* recover: any failure of a FAILED task that has no recovery decision yet.
Recover(f) ==
    LET t == f.task
        route == Route(t, f.class)
    IN  /\ Active
        /\ f \in failures
        /\ status[t] = "FAILED"
        /\ route = "RETRY" => Ready(t, Done)
        /\ status' = [status EXCEPT ![t] = RecoveredStatus[route]]
        /\ blocker' = [blocker EXCEPT ![t] = RecoveredBlocker(route, f.class)]
        /\ revisions' = [revisions EXCEPT ![t] = IF route = "REVISE" THEN @ + 1 ELSE @]
        /\ art' = Rejected(t)
        /\ failures' = failures \ {f}
        /\ UNCHANGED <<runStatus, assignment, attempts, baseline, revBaseline, authors,
                       planVars, gateVars, grantVars, accepted>>

-----------------------------------------------------------------------------
(* Approvals and the task gates bound to them.                             *)

Pending == {a \in Approvals : approval[a] = "pending"}

\* request_approval without supersedes.
RequestApproval(a, s) ==
    /\ Active
    /\ approval[a] = None
    /\ approval' = [approval EXCEPT ![a] = "pending"]
    /\ scope' = [scope EXCEPT ![a] = s]
    /\ UNCHANGED <<runStatus, coreVars, budgetVars, planVars, gates, grantVars, accepted, failures>>

\* gate_task: bind an approval to a task that has not been delegated.
GateTask(t, a) ==
    /\ Active
    /\ status[t] \in {"PLANNED", "READY", "BLOCKED"} /\ attempts[t] = 0
    /\ approval[a] \notin {None, "superseded"}
    /\ a \notin gates[t]
    /\ gates' = [gates EXCEPT ![t] = @ \cup {a}]
    /\ UNCHANGED <<runStatus, assignment, art, budgetVars, planVars, approval, scope,
                   grantVars, accepted, failures>>
    /\ IF status[t] = "READY" /\ approval[a] # "approved"
       THEN Refresh([status EXCEPT ![t] = "BLOCKED"],
                    [blocker EXCEPT ![t] = IF approval[a] = "rejected" THEN "approval_rejected"
                                                                       ELSE "approval_pending"])
       ELSE Refresh(status, blocker)

\* decide_approval: one human decision, never revised.
DecideApproval(a, approved) ==
    /\ Active
    /\ approval[a] = "pending"
    /\ approval' = [approval EXCEPT ![a] = IF approved THEN "approved" ELSE "rejected"]
    /\ UNCHANGED <<runStatus, assignment, art, budgetVars, planVars, gates, scope,
                   grantVars, accepted, failures>>
    /\ LET gated == {t \in Tasks : a \in gates[t]}
           waiting == {t \in gated : status[t] = "BLOCKED" /\ blocker[t] = "approval_pending"}
       IN  Refresh(status,
                   [t \in Tasks |->
                      CASE ~approved /\ t \in gated -> "approval_rejected"
                        [] approved /\ t \in waiting ->
                              IF Developer(t) /\ ~bound[t] THEN "prerequisites_missing"
                                                             ELSE "approval_satisfied"
                        [] OTHER -> blocker[t]])

\* request_approval with supersedes: the new request takes over every gate of
\* the old one, unless a gated task is in flight.  There is no _refresh.
SupersedeApproval(old, new) ==
    LET gated == {t \in Tasks : old \in gates[t]}
    IN  /\ Active
        /\ approval[old] \notin {None, "superseded"} /\ approval[new] = None
        /\ \A t \in gated : ~HoldsWork(t)
        /\ approval' = [approval EXCEPT ![old] = "superseded", ![new] = "pending"]
        /\ scope' = [scope EXCEPT ![new] = TaskScope]
        /\ gates' = [t \in Tasks |-> IF t \in gated THEN (gates[t] \ {old}) \cup {new}
                                                    ELSE gates[t]]
        /\ status' = [t \in Tasks |-> IF t \in gated /\ status[t] = "READY" THEN "BLOCKED"
                                                                            ELSE status[t]]
        /\ blocker' = [t \in Tasks |-> IF t \in gated THEN "approval_pending" ELSE blocker[t]]
        /\ UNCHANGED <<runStatus, assignment, art, budgetVars, planVars, grantVars, accepted, failures>>

-----------------------------------------------------------------------------
(* Capability requests: a worker asks, the Manager binds the request to an *)
(* exact human approval, and the grant is applied in a later step          *)
(* (DurableController.request_capability_change, apply_capability_change). *)

Filed(q) == request[q] # NoRequest
Open(q) == request[q].status \in {"pending", "approved"}

\* The approval covers this request's task and profile, and a workspace if the
\* profile needs one (_approved: action, scope and digest must be equal).
ExactApproval_AnyCapability(q, a) == scope[a].kind = "capability"  \* slip
ExactApproval(q, a) ==
    \E ws \in BOOLEAN : /\ scope[a] = CapabilityScope(request[q].task, request[q].profile, ws)
                        /\ NeedsWorkspace(request[q].profile) => ws

\* _validate_capability_checks for a profile a task is about to get.
ChecksAllow(t, p) == p = "developer_sandbox" => t \in Checked

\* record_capability_request: the worker of assignment k cannot go on without
\* profile p; its partial output is kept, and nothing is granted.
RecordCapabilityRequest(q, t, k, p) ==
    /\ Active
    /\ status[t] = "RUNNING" /\ CurrentAssignment(t, k)
    /\ ~Filed(q) /\ p # capability[t]
    /\ blocker' = [blocker EXCEPT ![t] = "evidence"]
    /\ request' = [request EXCEPT ![q] = [task |-> t, profile |-> p, approval |-> None,
                                          status |-> "pending"]]
    /\ UNCHANGED <<runStatus, status, assignment, art, budgetVars, planVars, gateVars,
                   bound, capability, accepted, failures>>

\* The first transaction of the controller's request_capability_change, for a
\* request that raises the task's authority; one that does not is denied.
RequestCapabilityApproval(q, a) ==
    /\ Filed(q) /\ request[q].status = "pending" /\ request[q].approval = None
    /\ Rank[request[q].profile] > Rank[capability[request[q].task]]
    /\ ChecksAllow(request[q].task, request[q].profile)
    /\ RequestApproval(a, CapabilityScope(request[q].task, request[q].profile,
                                          NeedsWorkspace(request[q].profile)))

\* What one operation on request q alone leaves of it.
UpdateRequest(q, r) ==
    /\ request' = [request EXCEPT ![q] = r]
    /\ UNCHANGED <<runStatus, coreVars, budgetVars, planVars, gateVars, bound, capability,
                   accepted, failures>>

\* link_capability_approval, the second transaction.
LinkCapability(q, a) ==
    /\ Active
    /\ Filed(q) /\ request[q].status = "pending" /\ request[q].approval = None
    /\ approval[a] \notin {None, "superseded"} /\ ExactApproval(q, a)
    /\ UpdateRequest(q, [request[q] EXCEPT !.approval = a])

\* deny_capability_request
DenyCapability(q) ==
    /\ Active
    /\ Filed(q) /\ Open(q)
    /\ UpdateRequest(q, [request[q] EXCEPT !.status = "denied"])

Granted(q) == request[q].approval # None /\ approval[request[q].approval] = "approved"

\* approve_capability_request and mark_capability_escalated.
ApproveCapability(q) ==
    /\ Active
    /\ Filed(q) /\ request[q].status = "pending" /\ Granted(q)
    /\ UpdateRequest(q, [request[q] EXCEPT !.status = "approved"])

MarkEscalated(q) ==
    /\ Active
    /\ Filed(q) /\ request[q].status = "approved"
    /\ capability[request[q].task] = request[q].profile
    /\ UpdateRequest(q, [request[q] EXCEPT !.status = "escalated"])

Grantable_EvenAccepted(t) == status[t] \notin InFlight  \* slip
Grantable(t) == status[t] \in {"BLOCKED", "READY", "REVISION_REQUIRED"}

\* The grant of profile p, with or without a workspace, to task t.
Grant(t, p, ws) ==
    /\ capability' = [capability EXCEPT ![t] = p]
    /\ bound' = [bound EXCEPT ![t] = ws]
    /\ UNCHANGED <<runStatus, assignment, art, budgetVars, planVars, gateVars, accepted, failures>>

WaitsForCapability(t) == status[t] = "BLOCKED" /\ blocker[t] = "escalation_pending"

\* apply_capability_escalation
ApplyEscalation(q) ==
    LET t == request[q].task
        link == request[q].approval
    IN  /\ Active
        /\ Filed(q) /\ Open(q)
        /\ Granted(q) /\ ExactApproval(q, link)
        /\ Grantable(t) /\ ChecksAllow(t, request[q].profile)
        /\ Grant(t, request[q].profile, scope[link].workspace)
        /\ request' = [request EXCEPT ![q].status = "escalated"]
        /\ Refresh(status, IF WaitsForCapability(t) THEN [blocker EXCEPT ![t] = "approval_satisfied"]
                                                    ELSE blocker)

\* change_capability: the same grant without a worker's request.
ChangeCapability(a) ==
    LET t == scope[a].task
        p == scope[a].profile
        ws == scope[a].workspace
        missing == p = "developer_sandbox" /\ ~ws
        relieved == IF ~WaitsForCapability(t) THEN blocker
                    ELSE [blocker EXCEPT ![t] = IF missing THEN "prerequisites_missing"
                                                           ELSE "approval_satisfied"]
    IN  /\ Active
        /\ scope[a].kind = "capability" /\ approval[a] = "approved"
        /\ Grantable(t) \/ status[t] = "PLANNED"
        /\ ChecksAllow(t, p)
        /\ Grant(t, p, ws)
        /\ UNCHANGED request
        /\ \E done \in {Done} :
               IF status[t] = "READY" /\ ~Ready(t, done)'
               THEN Refresh([status EXCEPT ![t] = "BLOCKED"],
                            [relieved EXCEPT ![t] = "prerequisites_missing"])
               ELSE Refresh(status, relieved)

-----------------------------------------------------------------------------
(* Replanning, with the controller's handling of materiality               *)
(* (DurableController.propose_replan and apply_replan in adapter.py).      *)

ReplanBudgetLeft_OffByOne == planRevision <= MaxReplans  \* slip
ReplanBudgetLeft == planRevision < MaxReplans

\* The tasks a proposal of this structure resets.
Invalidated_ForgetsRewired(sh) == Affected(sh.reopen \cup sh.remove, deps)  \* slip
Invalidated(sh) == Affected(sh.reopen \cup sh.remove \cup DOMAIN sh.rewire, deps)

PlannedDeps(sh) == [t \in Tasks |-> CASE t \in DOMAIN sh.rewire -> sh.rewire[t]
                                      [] t \in sh.add           -> Packet[t]
                                      [] OTHER                  -> deps[t]]

\* _replan_defects returns no defect.
Applicable(sh) ==
    /\ sh.reopen \cup sh.remove \cup DOMAIN sh.rewire \subseteq Present(status)
    /\ sh.remove \cap sh.reopen = {}
    /\ sh.add \cap Present(status) = {}
    /\ ReplanBudgetLeft
    /\ GraphOk([t \in Tasks |-> CASE t \in sh.remove -> "CANCELLED"
                                  [] t \in sh.add    -> "PLANNED"
                                  [] OTHER           -> status[t]], PlannedDeps(sh))

\* _replan_materiality: everything but a reopening that discards no accepted
\* work needs a human, and so does a proposal that changes nothing.
Material(sh) ==
    \/ sh.add # {} \/ sh.remove # {} \/ DOMAIN sh.rewire # {}
    \/ sh.reopen = {}
    \/ Invalidated(sh) \cap Done # {}

\* replan_materiality, read by a caller (propose_replan and apply_replan of the
\* controller, the driver's _reopen_replan_blocked) in a transaction of its own.
\* What it goes on to do with the answer comes later, or never; done records
\* what was accepted when the assessment was made.
Assess(sh) ==
    /\ Active
    /\ sh.reopen \subseteq Present(status)
    /\ ~Material(sh)
    /\ assessed' = assessed \cup {[shape |-> sh, done |-> Done]}
    /\ UNCHANGED <<runStatus, coreVars, budgetVars, deps, planRevision, replans, gateVars,
                   grantVars, accepted, failures>>

\* The first half of the controller's propose_replan for a material proposal:
\* the approval is requested in a transaction of its own.  The request reads
\* nothing, so it is taken at the moment of the assessment that calls for it.
RequestReplanApproval(a, sh) ==
    /\ Applicable(sh) /\ Material(sh)
    /\ RequestApproval(a, ReplanScope(sh, planRevision))

\* The second half, or the whole of it for an autonomous proposal.
ProposeReplan(sh, a) ==
    LET p == [shape |-> sh, base |-> planRevision, approval |-> a]
    IN  /\ Active
        /\ p \notin replans
        /\ Applicable(sh)
        /\ IF a = None THEN \E r \in assessed : r.shape = sh
                       ELSE approval[a] # None /\ scope[a] = ReplanScope(sh, planRevision)
        /\ replans' = replans \cup {p}
        /\ UNCHANGED <<runStatus, coreVars, budgetVars, deps, planRevision, assessed, gateVars,
                       grantVars, accepted, failures>>

\* The kernel wants the exact approval of a proposal that says it needs one.  Of
\* any other it asks nothing: its caller assessed it, at some earlier moment of
\* this revision, and found nothing material.
Authorized_Unread(p) == IF p.approval = None THEN \E r \in assessed : r.shape = p.shape  \* slip
                                             ELSE approval[p.approval] # "rejected"
Authorized(p) == IF p.approval = None THEN \E r \in assessed : r.shape = p.shape
                                      ELSE approval[p.approval] = "approved"

\* What apply_replan leaves of the accepted artifacts, and the budget baselines
\* it sets for the tasks it reopens: the counters themselves keep growing.
AcceptedWithout_Forgets(discarded) == accepted  \* slip
AcceptedWithout(discarded) == {id \in accepted : id[1] \notin discarded}
Rebased_Forgets(base, counter, reopened) == base  \* slip
Rebased(base, counter, reopened) == [t \in Tasks |-> IF t \in reopened THEN counter[t] ELSE base[t]]

\* apply_replan: reset everything the proposal touches, whatever its status.  It
\* refuses a proposal of an earlier revision, and so what was assessed at one.
ApplyReplan(p) ==
    LET sh == p.shape
        affected == Invalidated(sh)
        kept == affected \ sh.remove
        planned == [t \in Tasks |-> CASE t \in sh.remove         -> "CANCELLED"
                                      [] t \in sh.add \cup kept  -> "PLANNED"
                                      [] OTHER                   -> status[t]]
    IN  /\ Active
        /\ p \in replans
        /\ p.base = planRevision
        /\ Applicable(sh)
        /\ Authorized(p)
        /\ GraphOk(planned, PlannedDeps(sh))
        /\ deps' = PlannedDeps(sh)
        /\ art' = [t \in Tasks |-> IF t \in affected /\ art[t].status # None
                                   THEN [art[t] EXCEPT !.status = "superseded"] ELSE art[t]]
        /\ accepted' = AcceptedWithout(affected)
        /\ assignment' = [t \in Tasks |-> IF t \in affected THEN NoAttempt ELSE assignment[t]]
        /\ baseline' = Rebased(baseline, attempts, kept)
        /\ revBaseline' = Rebased(revBaseline, revisions, kept)
        /\ planRevision' = planRevision + 1
        /\ assessed' = {}
        /\ UNCHANGED <<runStatus, attempts, revisions, authors, replans, gateVars, grantVars, failures>>
        /\ Refresh(planned, [t \in Tasks |-> IF t \in affected THEN None ELSE blocker[t]])

-----------------------------------------------------------------------------
(* The two ways a run ends.                                                *)

Abandon ==
    /\ Active
    /\ \A t \in Tasks : ~HoldsWork(t)
    /\ Pending = {}
    /\ \A q \in Requests : Filed(q) => request[q].status # "pending"
    /\ runStatus' = "abandoned"
    /\ UNCHANGED <<coreVars, budgetVars, planVars, gateVars, grantVars, accepted, failures>>

\* complete: every task that is not cancelled is accepted and still canonical,
\* and each criterion cites accepted artifacts.
Complete ==
    /\ Active
    /\ InPlan # {} /\ InPlan \subseteq Done
    /\ GraphOk(status, deps)
    /\ \A t \in InPlan : Ready(t, Done) /\ Canonical(t, Done)
    /\ Pending = {}
    /\ accepted # {}
    /\ runStatus' = "completed"
    /\ UNCHANGED <<coreVars, budgetVars, planVars, gateVars, grantVars, accepted, failures>>

-----------------------------------------------------------------------------
Plan == \E S \in SUBSET Tasks : AddTasks(S)

Work(t) ==
    \/ BindWorkspace(t)
    \/ \E w \in Workers : Delegate(t, w)
    \/ Start(t)
    \/ \E k \in 1..attempts[t] : Submit(t, k) \/ RecordProvisional(t, k)
    \/ \E v \in Judges, passed \in BOOLEAN : Validate(t, v, passed) \/ Review(t, v, passed)
    \/ Accept(t)

Trouble ==
    \/ \E t \in Tasks, c \in Classes : Fail(t, c)
    \/ \E t \in Tasks, c \in Classes : \E k \in 1..attempts[t] : FailAssignment(t, k, c)
    \/ Resume
    \/ \E f \in failures : Recover(f)

Govern ==
    \/ \E a \in TaskApprovals : RequestApproval(a, TaskScope)
    \/ \E t \in Tasks, a \in TaskApprovals : GateTask(t, a)
    \/ \E a \in Approvals, approved \in BOOLEAN : DecideApproval(a, approved)
    \/ \E old, new \in TaskApprovals : SupersedeApproval(old, new)

Escalate ==
    \/ \E q \in Requests, t \in Tasks, p \in Wanted :
          \E k \in 1..attempts[t] : RecordCapabilityRequest(q, t, k, p)
    \/ \E a \in DirectApprovals, t \in Tasks, p \in Wanted, ws \in BOOLEAN :
          RequestApproval(a, CapabilityScope(t, p, ws))
    \/ \E q \in Requests, a \in CapabilityApprovals : RequestCapabilityApproval(q, a)
    \/ \E q \in Requests, a \in CapabilityApprovals \cup DirectApprovals : LinkCapability(q, a)
    \/ \E q \in Requests :
          DenyCapability(q) \/ ApproveCapability(q) \/ MarkEscalated(q) \/ ApplyEscalation(q)
    \/ \E a \in DirectApprovals : ChangeCapability(a)

Replan ==
    \/ \E sh \in Shapes : Assess(sh)
    \/ \E a \in ReplanApprovals, sh \in Shapes : RequestReplanApproval(a, sh)
    \/ \E sh \in Shapes, a \in ReplanApprovals \cup {None} : ProposeReplan(sh, a)
    \/ \E p \in replans : ApplyReplan(p)

\* A completed or abandoned run refuses every further mutation.
Terminated == runStatus # "active" /\ UNCHANGED vars

Next ==
    \/ Plan
    \/ \E t \in Tasks : Work(t)
    \/ Trouble
    \/ Govern
    \/ Escalate
    \/ Replan
    \/ Abandon
    \/ Complete
    \/ Terminated

Spec == Init /\ [][Next]_vars

-----------------------------------------------------------------------------
(* Safety.                                                                 *)

\* Whatever order acceptances and replans come in, an ACCEPTED task rests on
\* inputs that are still accepted, all the way upstream (accept, the transitive
\* invalidation of _replan_affected, _validate_accepted_artifact).
CanonicalLineage == \A t \in Done : Canonical(t, Done)

\* run.accepted_artifacts, which completion evidence is checked against, holds
\* the latest artifact of each ACCEPTED task and nothing else.
AcceptedIsLatest == accepted = {<<t, art[t].attempt>> : t \in Done}

\* Work that is advertised as READY or in flight still passes every readiness
\* gate (inputs, workspace, approvals): no approval is withdrawn and no input
\* discarded under it (delegate, supersede, apply_replan, _refresh).
WorkStaysReady ==
    Active => \A t \in Tasks : status[t] \in InFlight \cup {"READY"} => Ready(t, Done)

\* No lost wake-up: a task that waits only for gates _refresh can re-evaluate
\* is never left waiting once they are open.
NoMissedWakeup ==
    Active => \A t \in Tasks :
        \/ status[t] = "PLANNED"
        \/ status[t] = "BLOCKED" /\ blocker[t] \in RefreshableBlockers
        => ~Ready(t, Done)

\* A task offered for delegation has attempts left, so delegate does not
\* refuse it forever (recover's routing, apply_replan's rebased budgets).
ReadyHasBudget ==
    \A t \in Tasks : status[t] \in {"READY", "REVISION_REQUIRED"} => HasBudget(t)

\* A task holds more authority than it was created with only because a human
\* approved that very profile for that very task, however many requests are
\* open and in whatever order they are linked, decided and applied.
GrantIsApproved ==
    \A t \in Tasks :
        \/ capability[t] = IF t \in DevTasks THEN "developer_sandbox" ELSE "model_only"
        \/ \E a \in CapabilityApprovals \cup DirectApprovals, ws \in BOOLEAN :
              approval[a] = "approved" /\ scope[a] = CapabilityScope(t, capability[t], ws)

\* Accepted work was reviewed as its task's capability demands: a grant never
\* reaches a task whose candidate was judged under a lesser profile.
DeveloperWorkIsReviewed ==
    \A t \in Done : Developer(t) => art[t].review = "passed"

\* No grant takes authority back: what an earlier request was escalated to is
\* never replaced by a profile that ranks no higher, by a request that asked
\* for more when it was filed (request_capability_change's rank check).
GrantsOnlyRaise ==
    [][\A t \in Tasks :
          /\ \E q \in Requests : /\ request[q].status = "escalated"
                                 /\ request[q].task = t /\ request[q].profile = capability[t]
          /\ \E q \in Requests : request'[q].status = "escalated" /\ request[q].status # "escalated"
          /\ capability'[t] # capability[t]
          => Rank[capability'[t]] > Rank[capability[t]]]_vars

\* Total work stays bounded by the replan budget: rebasing a budget never lets
\* a task run more than MaxAttempts times per plan revision.
WorkBound ==
    \A t \in Tasks : /\ attempts[t] <= MaxAttempts * (planRevision + 1)
                     /\ revisions[t] <= MaxRevisions * (planRevision + 1)

\* A candidate that can still be accepted, or was, has no evidence from the
\* Manager or from anyone who ever worked on the task, later attempts included.
IndependentEvidence ==
    \A t \in Tasks : art[t].status \in {"candidate", "accepted"} =>
        art[t].judges \cap (authors[t] \cup {Manager}) = {}

\* What is under review is what the current assignment produced, and no
\* acceptable candidate survives into a later assignment (submit's identity
\* check, recover's rejection, apply_replan's supersession).
CandidateIsCurrent ==
    \A t \in Tasks :
        /\ status[t] \in {"SUBMITTED", "REVIEWING"} =>
              art[t].status = "candidate" /\ art[t].attempt = assignment[t]
        /\ status[t] \in {"PLANNED", "READY", "BLOCKED", "REVISION_REQUIRED", "DELEGATED", "RUNNING"} =>
              art[t].status \notin {"candidate", "accepted"}

\* Accepted work is only ever discarded by a replan of the current revision that
\* a human approved or, without one, by a replan that was assessed before that
\* work was accepted: no assessment, however stale, lets a replan discard what
\* it had seen accepted (_replan_materiality, apply_replan).
DiscardIsNewOrApproved ==
    [][\A t \in Done : status'[t] # "ACCEPTED" =>
          \E p \in replans :
              /\ p.base = planRevision
              /\ t \in Invalidated(p.shape)
              /\ IF p.approval = None
                 THEN \E r \in assessed : r.shape = p.shape /\ t \notin r.done
                 ELSE approval[p.approval] = "approved"]_vars

\* What the comments of the controller's propose_replan and apply_replan claim:
\* a proposal that becomes material while it waits fails closed, so accepted
\* work is never discarded without a human's approval.
DiscardIsAuthorized ==
    [][\A t \in Done : status'[t] # "ACCEPTED" =>
          \E p \in replans : /\ p.base = planRevision
                             /\ t \in Invalidated(p.shape)
                             /\ p.approval # None /\ approval[p.approval] = "approved"]_vars

\* A replan changes which tasks the run must deliver only with a human's
\* approval (ENGINE.md: material scope change; _replan_materiality).
ScopeChangeIsAuthorized ==
    [][planRevision' # planRevision /\ InPlan' # InPlan =>
          \E p \in replans : /\ p.base = planRevision
                             /\ p.approval # None /\ approval[p.approval] = "approved"]_vars

\* The kernel implements AcceptedWork: whatever workers, reviewers, approvals
\* and recovery do, accepted artifacts change only by those abstract steps.
AW == INSTANCE AcceptedWork WITH
            required <- InPlan,
            needs    <- deps,
            canon    <- [t \in Tasks |-> IF t \in Done THEN art[t].attempt ELSE 0],
            used     <- [t \in Tasks |-> IF t \in Done THEN art[t].inputs ELSE {}],
            phase    <- runStatus
ImplementsAcceptedWork == AW!WorkSpec
==============================================================================
