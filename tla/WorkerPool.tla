----------------------------- MODULE WorkerPool -----------------------------
(***************************************************************************)
(* The worker processes of cavman/worker.py over the queue of JobQueue:    *)
(* slots that claim jobs, the workflow driver each runs (cavman/           *)
(* workflow.py), heartbeats, interruption, delivery, crashes and restarts, *)
(* and the requests of cavman/api.py that meet them.                       *)
(*                                                                         *)
(* An action is one transaction on one of the two databases, or the answer *)
(* of a model that decides the next one; between two of them any other     *)
(* process may act.  A run is reduced to a chain of tasks and to where its *)
(* current task is (RunKernel has the whole task graph): "failed" waits    *)
(* for recover, "requested" and "asking" for a human, "decided" for the    *)
(* driver to apply the decision.                                           *)
(***************************************************************************)
EXTENDS JobQueue

CONSTANTS
    Slots, WorkerOf,    \* execution slots and the process each belongs to
    Tasks,              \* number of tasks in a run's chain
    CodeTasks,          \* those that integrate code
    MaxAttempts,        \* delegations that budget and reopening replans allow a task
    MaxCrashes,         \* bound: process crashes of a behaviour
    Stalls,             \* may a live process miss heartbeats beyond its lease?
    Requests            \* the kinds of request users send

ASSUME SlotsAssumption ==
    /\ WorkerOf \in [Slots -> Workers] /\ Nobody \notin Slots \cup Runs
ASSUME ChainAssumption ==
    /\ Tasks \in Nat \ {0} /\ CodeTasks \subseteq 1..Tasks /\ MaxAttempts \in Nat \ {0}
ASSUME PoolAssumption ==
    /\ Jobs # {} /\ MaxCrashes \in Nat /\ Stalls \in BOOLEAN
    /\ Requests \subseteq {"continue", "stop", "abandon", "deliver"}

VARIABLES
    pc,             \* where each slot is in run_once
    job,            \* the job it executes
    verdict,        \* the status it will finish it with
    runStatus,      \* run.status
    done,           \* accepted tasks of the chain
    stage,          \* the current task: its status, or how far planning is
    by,             \* the slot whose driver holds the current assignment
    attempts,       \* delegations of the current task
    head,           \* the run whose commit is the integration head of a project
    delivery,       \* deliveries.status, "none" without a row
    deciding,       \* runs with a decided approval the API still has to continue
    closing,        \* runs the API found idle and is about to abandon
    retrying,       \* the run a delivery request holds the project for
    crashes

slotVars == <<pc, job, verdict>>
workVars == <<done, stage, by, attempts>>
apiVars == <<deciding, closing, retrying>>
poolVars == <<queueVars, slotVars, runStatus, workVars, head, delivery, apiVars, crashes>>

RunOf(s) == runOf[job[s]]
IsActive(r) == runStatus[r] = "active"
Owns(s) == OwnsJob(WorkerOf[s], job[s])
Awaiting == {"planning", "working", "judging"}
Driving == Awaiting \cup {"installing", "looping"}
Executing == Driving \cup {"claimed", "recovering", "starting", "stopping", "finishing"}

Stages == {"new", "criteria", "todo", "running", "submitted", "failed", "requested",
           "asking", "decided", "blocked", "accepted"}

PoolTypeOK ==
    /\ QueueTypeOK
    /\ pc \in [Slots -> Executing \cup {"off", "idle", "reaped", "delivering"}]
    /\ job \in [Slots -> Jobs]
    /\ verdict \in [Slots -> Terminal]
    /\ runStatus \in [Runs -> {"active", "completed", "abandoned"}]
    /\ done \in [Runs -> 0..Tasks]
    /\ stage \in [Runs -> Stages]
    /\ by \in [Runs -> Slots \cup {Nobody}]
    /\ attempts \in [Runs -> 0..MaxAttempts]
    /\ head \in [Projects -> Runs \cup {Nobody}]
    /\ delivery \in [Runs -> {"none", "ready", "failed"}]
    /\ deciding \subseteq Runs /\ closing \subseteq Runs
    /\ retrying \in [Holders -> Runs \cup {Nobody}]
    /\ crashes \in 0..MaxCrashes

PoolInit ==
    /\ QueueInit
    /\ pc = [s \in Slots |-> "idle"]
    /\ job = [s \in Slots |-> CHOOSE j \in Jobs : TRUE]
    /\ verdict = [s \in Slots |-> "failed"]
    /\ runStatus = [r \in Runs |-> "active"]
    /\ done = [r \in Runs |-> 0]
    /\ stage = [r \in Runs |-> "new"]
    /\ by = [r \in Runs |-> Nobody]
    /\ attempts = [r \in Runs |-> 0]
    /\ head = [p \in Projects |-> Nobody]
    /\ delivery = [r \in Runs |-> "none"]
    /\ deciding = {} /\ closing = {}
    /\ retrying = [h \in Holders |-> Nobody]
    /\ crashes = 0
-----------------------------------------------------------------------------
(* A slot between jobs: run_once and the first half of execute.            *)

Goes(s, step) == pc' = [pc EXCEPT ![s] = step]

FinishIfOwned_Always(s, status) ==  \* slip
    /\ state' = [state EXCEPT ![job[s]] = status]
    /\ owner' = [owner EXCEPT ![job[s]] = Nobody]
    /\ lapsed' = [lapsed EXCEPT ![job[s]] = FALSE]
    /\ UNCHANGED <<runOf, kind, cancel, leaseVars>>

\* finish: no effect on a job the worker no longer owns.
FinishIfOwned(s, status) ==
    IF Owns(s) THEN Finish(WorkerOf[s], job[s], status) ELSE UNCHANGED queueVars

\* recover_interrupted: in-flight assignments of an active run fail.
Interrupt(r) ==
    IF IsActive(r) /\ stage[r] = "running"
    THEN /\ stage' = [stage EXCEPT ![r] = "failed"]
         /\ by' = [by EXCEPT ![r] = Nobody]
         /\ UNCHANGED <<done, attempts>>
    ELSE UNCHANGED workVars

Reaps_Never(s) ==  \* slip
    /\ pc[s] = "idle"
    /\ Goes(s, "reaped")
    /\ UNCHANGED <<queueVars, job, verdict, runStatus, workVars, head, delivery, apiVars, crashes>>

Reaps(s) ==
    /\ pc[s] = "idle"
    /\ Goes(s, "reaped")
    /\ IF \E j \in Running : lapsed[j] THEN Reap ELSE UNCHANGED queueVars
    /\ UNCHANGED <<job, verdict, runStatus, workVars, head, delivery, apiVars, crashes>>

Claims(s) ==
    /\ pc[s] = "reaped"
    /\ \/ \E j \in Jobs :
             /\ Claim(WorkerOf[s])
             /\ state[j] = "queued" /\ state'[j] = "running"
             /\ job' = [job EXCEPT ![s] = j]
             /\ Goes(s, "claimed")
       \/ /\ \A j \in Jobs : ~Claimable(j)
          /\ Goes(s, "idle")
          /\ UNCHANGED <<queueVars, job>>
    /\ UNCHANGED <<verdict, runStatus, workVars, head, delivery, apiVars, crashes>>

Loads_NoRecovery(s) ==  \* slip
    /\ pc[s] = "claimed"
    /\ IF IsActive(RunOf(s)) THEN Goes(s, "starting") /\ UNCHANGED queueVars
       ELSE Goes(s, "idle") /\ FinishIfOwned(s, "succeeded")
    /\ UNCHANGED <<job, verdict, runStatus, workVars, head, delivery, apiVars, crashes>>

\* execute: a job of a run that is over ends at once, without a delivery.
Loads(s) ==
    /\ pc[s] = "claimed"
    /\ IF IsActive(RunOf(s))
       THEN /\ Goes(s, IF kind[job[s]] = "recover" THEN "recovering" ELSE "starting")
            /\ UNCHANGED queueVars
       ELSE Goes(s, "idle") /\ FinishIfOwned(s, "succeeded")
    /\ UNCHANGED <<job, verdict, runStatus, workVars, head, delivery, apiVars, crashes>>

RecoversRun(s) ==
    /\ pc[s] = "recovering"
    /\ Goes(s, "starting")
    /\ Interrupt(RunOf(s))
    /\ UNCHANGED <<queueVars, job, verdict, runStatus, head, delivery, apiVars, crashes>>

\* _config raises: no model provider is configured.
FailsToStart(s) ==
    /\ pc[s] = "starting"
    /\ Goes(s, "idle") /\ FinishIfOwned(s, "failed")
    /\ UNCHANGED <<job, verdict, runStatus, workVars, head, delivery, apiVars, crashes>>

Starts(s) ==
    /\ pc[s] = "starting"
    /\ Goes(s, IF stage[RunOf(s)] = "new" THEN "planning" ELSE "looping")
    /\ UNCHANGED <<queueVars, job, verdict, runStatus, workVars, head, delivery, apiVars, crashes>>
-----------------------------------------------------------------------------
(* The driver.  Its own steps leave the queue and the delivery alone.      *)

DriverFrame == UNCHANGED <<queueVars, job, delivery, apiVars, crashes>>

\* The driver returns, or raises what _drive turns into a status.
Ends(s, status) == Goes(s, "finishing") /\ verdict' = [verdict EXCEPT ![s] = status]

\* The current task of r moves on; its assignment, if any, is over.
MovesTo(r, new) ==
    /\ IsActive(r)
    /\ stage' = [stage EXCEPT ![r] = new]
    /\ by' = [by EXCEPT ![r] = Nobody]
    /\ UNCHANGED <<done, attempts>>

\* _install_plan: criteria and tasks are two transactions.
SetsCriteria(s) ==
    /\ pc[s] = "planning" /\ stage[RunOf(s)] \in {"new", "criteria"}
    /\ MovesTo(RunOf(s), "criteria")
    /\ Goes(s, "installing") /\ UNCHANGED <<verdict, runStatus, head>> /\ DriverFrame

AddsTasks(s) ==
    /\ pc[s] = "installing"
    /\ IF IsActive(RunOf(s)) /\ stage[RunOf(s)] = "criteria"
       THEN MovesTo(RunOf(s), "todo") /\ Goes(s, "looping")
       ELSE Goes(s, "planning") /\ UNCHANGED workVars
    /\ UNCHANGED <<verdict, runStatus, head>> /\ DriverFrame

\* No valid plan after MAX_PLAN_ATTEMPTS.
PlanFails(s) ==
    /\ pc[s] = "planning"
    /\ Ends(s, "failed") /\ UNCHANGED <<workVars, runStatus, head>> /\ DriverFrame

\* recover, by the driver's loop or by the call that recorded the failure.
RecoversFailure(s) ==
    LET r == RunOf(s)
    IN  /\ pc[s] = "looping" /\ stage[r] = "failed"
        /\ MovesTo(r, IF attempts[r] < MaxAttempts THEN "todo" ELSE "blocked")
        /\ UNCHANGED <<slotVars, runStatus, head>> /\ DriverFrame

\* _handle_capabilities: a request becomes an approval, and the driver ends.
AsksHuman(s) ==
    /\ pc[s] = "looping" /\ stage[RunOf(s)] = "requested"
    /\ MovesTo(RunOf(s), "asking")
    /\ Ends(s, "succeeded") /\ UNCHANGED <<runStatus, head>> /\ DriverFrame

AppliesDecision(s) ==
    /\ pc[s] = "looping" /\ stage[RunOf(s)] = "decided"
    /\ \E granted \in BOOLEAN :
          MovesTo(RunOf(s), IF granted THEN "todo" ELSE "blocked")
    /\ UNCHANGED <<slotVars, runStatus, head>> /\ DriverFrame

Delegates_Unbounded(s) ==  \* slip
    LET r == RunOf(s)
    IN  /\ pc[s] = "looping" /\ stage[r] = "todo" /\ IsActive(r)
        /\ stage' = [stage EXCEPT ![r] = "running"]
        /\ by' = [by EXCEPT ![r] = s]
        /\ attempts' = [attempts EXCEPT ![r] = @ + 1]
        /\ Goes(s, "working") /\ UNCHANGED <<verdict, done, runStatus, head>> /\ DriverFrame

Delegates(s) ==
    LET r == RunOf(s)
    IN  /\ pc[s] = "looping" /\ stage[r] = "todo" /\ IsActive(r) /\ attempts[r] < MaxAttempts
        /\ stage' = [stage EXCEPT ![r] = "running"]
        /\ by' = [by EXCEPT ![r] = s]
        /\ attempts' = [attempts EXCEPT ![r] = @ + 1]
        /\ Goes(s, "working") /\ UNCHANGED <<verdict, done, runStatus, head>> /\ DriverFrame

\* _finish: the kernel completes a run with every task accepted.
Completes(s) ==
    LET r == RunOf(s)
    IN  /\ pc[s] = "looping" /\ stage[r] = "accepted" /\ IsActive(r)
        /\ runStatus' = [runStatus EXCEPT ![r] = "completed"]
        /\ Ends(s, "succeeded") /\ UNCHANGED <<workVars, head>> /\ DriverFrame

\* The run is over, a delegation is refused, a decision is pending, or nothing
\* is ready: run returns.
Returns(s) ==
    LET r == RunOf(s)
    IN  /\ pc[s] = "looping"
        /\ \/ ~IsActive(r)
           \/ stage[r] = "todo" /\ attempts[r] = MaxAttempts
           \/ stage[r] \in {"criteria", "running", "submitted", "asking", "blocked"}
        /\ Ends(s, "succeeded") /\ UNCHANGED <<workVars, runStatus, head>> /\ DriverFrame

\* The assignment this slot's specialist works on is still the current one.
Assigned(s) == IsActive(RunOf(s)) /\ stage[RunOf(s)] = "running" /\ by[RunOf(s)] = s

\* delegate: the specialist submits, fails, or asks for a capability.
Answers(s) ==
    /\ pc[s] = "working" /\ Assigned(s)
    /\ \E new \in {"submitted", "failed", "requested"} :
          /\ MovesTo(RunOf(s), new)
          /\ Goes(s, IF new = "submitted" THEN "judging" ELSE "looping")
    /\ UNCHANGED <<verdict, runStatus, head>> /\ DriverFrame

\* submit and fail_assignment refuse an assignment that was replaced.
AnswersTooLate(s) ==
    /\ pc[s] = "working" /\ ~Assigned(s)
    /\ Goes(s, "looping") /\ UNCHANGED <<verdict, workVars, runStatus, head>> /\ DriverFrame

\* validate, review, accept and integrate: the next task of the chain is due.
Accepts(s) ==
    LET r == RunOf(s)
        n == done[r] + 1
    IN  /\ pc[s] = "judging" /\ stage[r] = "submitted" /\ IsActive(r)
        /\ done' = [done EXCEPT ![r] = n]
        /\ stage' = [stage EXCEPT ![r] = IF n = Tasks THEN "accepted" ELSE "todo"]
        /\ attempts' = [attempts EXCEPT ![r] = 0]
        /\ head' = IF n \in CodeTasks THEN [head EXCEPT ![ProjectOf[r]] = r] ELSE head
        /\ Goes(s, "looping") /\ UNCHANGED <<verdict, by, runStatus>> /\ DriverFrame

\* A failed check or review: fail, then recover.
Rejects(s) ==
    /\ pc[s] = "judging" /\ stage[RunOf(s)] = "submitted"
    /\ MovesTo(RunOf(s), "failed")
    /\ Goes(s, "looping") /\ UNCHANGED <<verdict, runStatus, head>> /\ DriverFrame

Overspends_LeavesWork(s) ==  \* slip
    /\ pc[s] \in Awaiting
    /\ Ends(s, "failed")
    /\ UNCHANGED <<workVars, runStatus, head>> /\ DriverFrame

\* UsageBudgetExceeded from a model call: delegate fails the assignment on its
\* way out, the planner and the reviewer leave the run as it is.
Overspends(s) ==
    /\ pc[s] \in Awaiting
    /\ Ends(s, "failed")
    /\ IF pc[s] = "working" /\ Assigned(s) THEN MovesTo(RunOf(s), "failed") ELSE UNCHANGED workVars
    /\ UNCHANGED <<runStatus, head>> /\ DriverFrame
-----------------------------------------------------------------------------
(* Supervision and the end of a job: _drive's heartbeat, execute's end.    *)

\* A heartbeat that changes something: it runs while the driver awaits.
Heartbeat(s) ==
    LET w == WorkerOf[s]
        stop == MustStop(w, job[s])
    IN  /\ pc[s] \in Awaiting
        /\ lapsed[job[s]] \/ stop
        /\ IF Owns(s) THEN Extend(w, job[s]) ELSE UNCHANGED queueVars
        /\ pc' = IF stop THEN [pc EXCEPT ![s] = "stopping"] ELSE pc
        /\ UNCHANGED <<job, verdict, runStatus, workVars, head, delivery, apiVars, crashes>>

\* The cancelled driver is gone: what it left in flight is failed.
Interrupts(s) ==
    /\ pc[s] = "stopping"
    /\ Interrupt(RunOf(s))
    /\ Ends(s, "cancelled") /\ UNCHANGED <<runStatus, head>> /\ DriverFrame

Finishes(s) ==
    /\ pc[s] = "finishing"
    /\ FinishIfOwned(s, verdict[s])
    /\ Goes(s, "delivering")
    /\ UNCHANGED <<job, verdict, runStatus, workVars, head, delivery, apiVars, crashes>>

\* assemble: refused unless the integration head is this run's own last commit.
Assembled(r) == IF CodeTasks = {} \/ head[ProjectOf[r]] = r THEN "ready" ELSE "failed"

\* deliver_run of a worker: once per run, and no project lease is taken.
Delivers(s) ==
    LET r == RunOf(s)
    IN  /\ pc[s] = "delivering"
        /\ delivery' = IF runStatus[r] = "completed" /\ delivery[r] = "none"
                       THEN [delivery EXCEPT ![r] = Assembled(r)] ELSE delivery
        /\ Goes(s, "idle")
        /\ UNCHANGED <<queueVars, job, verdict, runStatus, workVars, head, apiVars, crashes>>

SlotStep(s) ==
    \/ Reaps(s) \/ Claims(s) \/ Loads(s) \/ RecoversRun(s) \/ FailsToStart(s) \/ Starts(s)
    \/ SetsCriteria(s) \/ AddsTasks(s) \/ PlanFails(s) \/ RecoversFailure(s) \/ AsksHuman(s)
    \/ AppliesDecision(s) \/ Delegates(s) \/ Completes(s) \/ Returns(s) \/ Answers(s)
    \/ AnswersTooLate(s) \/ Accepts(s) \/ Rejects(s) \/ Overspends(s)
    \/ Heartbeat(s) \/ Interrupts(s) \/ Finishes(s) \/ Delivers(s)
-----------------------------------------------------------------------------
(* Processes and time.                                                     *)

SlotsOf(w) == {s \in Slots : WorkerOf[s] = w}
AllGo(w, step) == pc' = [s \in Slots |-> IF s \in SlotsOf(w) THEN step ELSE pc[s]]
ProcessFrame == UNCHANGED <<queueVars, job, verdict, runStatus, workVars, head, delivery, apiVars>>

Crash(w) ==
    /\ crashes < MaxCrashes
    /\ \E s \in SlotsOf(w) : pc[s] # "off"
    /\ AllGo(w, "off") /\ crashes' = crashes + 1 /\ ProcessFrame

Restart(w) ==
    /\ \E s \in SlotsOf(w) : pc[s] = "off"
    /\ AllGo(w, "idle") /\ UNCHANGED crashes /\ ProcessFrame

Attended_NotWhileWorking(j) ==  \* slip
    \E s \in Slots : job[s] = j /\ WorkerOf[s] = owner[j] /\ pc[s] \in Executing \ {"working"}
Attended(j) == \E s \in Slots : job[s] = j /\ WorkerOf[s] = owner[j] /\ pc[s] \in Executing

\* A job's lease expires unless a live process extends it in time.
TimePasses(j) ==
    /\ Stalls \/ ~Attended(j)
    /\ JobLeaseLapses(j)
    /\ UNCHANGED <<slotVars, runStatus, workVars, head, delivery, apiVars, crashes>>
-----------------------------------------------------------------------------
(* Requests.                                                               *)

ApiFrame == UNCHANGED <<slotVars, runStatus, workVars, head, delivery, crashes>>

\* Bound: users leave enough job ids for recoveries and promised continuations.
RequestsFit ==
    Cardinality(Jobs \ Created) > MaxRecoveries * Cardinality(Runs) + Cardinality(deciding)

HasJobs(r) == \E j \in Created : runOf[j] = r

StartsBuild(r) == ~HasJobs(r) /\ Enqueue(r, "start") /\ UNCHANGED apiVars /\ ApiFrame

ContinuesRun(r) ==
    /\ "continue" \in Requests /\ RequestsFit
    /\ IsActive(r) /\ HasJobs(r)
    /\ Enqueue(r, "continue") /\ UNCHANGED apiVars /\ ApiFrame

StopsRun(r) == "stop" \in Requests /\ RequestCancel(r) /\ UNCHANGED apiVars /\ ApiFrame

\* decide: first the decision, then a job for the run unless it has one.
DecidesApproval(r) ==
    /\ stage[r] = "asking" /\ RequestsFit
    /\ MovesTo(r, "decided")
    /\ deciding' = deciding \cup {r}
    /\ UNCHANGED <<queueVars, slotVars, runStatus, head, delivery, closing, retrying, crashes>>

ContinuesDecided(r) ==
    /\ r \in deciding
    /\ deciding' = deciding \ {r}
    /\ IF IsActive(r) /\ ~HasActiveJob(r) THEN Enqueue(r, "continue") ELSE UNCHANGED queueVars
    /\ UNCHANGED <<closing, retrying>> /\ ApiFrame

Abandons_Trusting(r) ==  \* slip
    /\ r \in closing
    /\ closing' = closing \ {r}
    /\ runStatus' = IF IsActive(r) THEN [runStatus EXCEPT ![r] = "abandoned"] ELSE runStatus
    /\ UNCHANGED <<queueVars, slotVars, workVars, head, delivery, deciding, retrying, crashes>>

\* abandon_run: the queue is checked first, the kernel decides afterwards.
FindsIdle(r) ==
    /\ "abandon" \in Requests /\ HasJobs(r) /\ ~HasActiveJob(r) /\ IsActive(r)
    /\ closing' = closing \cup {r}
    /\ UNCHANGED <<queueVars, deciding, retrying>> /\ ApiFrame

Abandons(r) ==
    /\ r \in closing
    /\ closing' = closing \ {r}
    /\ runStatus' = IF IsActive(r) /\ stage[r] \notin {"running", "submitted", "requested", "asking", "decided"}
                    THEN [runStatus EXCEPT ![r] = "abandoned"] ELSE runStatus
    /\ UNCHANGED <<queueVars, slotVars, workVars, head, delivery, deciding, retrying, crashes>>

\* assemble_delivery: the project is leased while the archive is assembled.
AcquiresForDelivery(h, r) ==
    /\ "deliver" \in Requests /\ retrying[h] = Nobody
    /\ runStatus[r] = "completed" /\ delivery[r] # "ready"
    /\ AcquireProject(ProjectOf[r], h)
    /\ retrying' = [retrying EXCEPT ![h] = r]
    /\ UNCHANGED <<deciding, closing>> /\ ApiFrame

RetriesDelivery(h) ==
    LET r == retrying[h]
    IN  /\ r # Nobody
        /\ delivery' = IF delivery[r] = "ready" THEN delivery
                       ELSE [delivery EXCEPT ![r] = Assembled(r)]
        /\ ReleaseProject(ProjectOf[r], h)
        /\ retrying' = [retrying EXCEPT ![h] = Nobody]
        /\ UNCHANGED <<slotVars, runStatus, workVars, head, deciding, closing, crashes>>

PoolNext ==
    \/ \E s \in Slots : SlotStep(s)
    \/ \E w \in Workers : Crash(w) \/ Restart(w)
    \/ \E j \in Jobs : TimePasses(j)
    \/ \E r \in Runs : \/ StartsBuild(r) \/ ContinuesRun(r) \/ StopsRun(r) \/ DecidesApproval(r)
                       \/ ContinuesDecided(r) \/ FindsIdle(r) \/ Abandons(r)
    \/ \E h \in Holders : RetriesDelivery(h) \/ \E r \in Runs : AcquiresForDelivery(h, r)

PoolSpec == PoolInit /\ [][PoolNext]_poolVars

\* A live slot keeps going (its loop polls, a model call ends), a process that
\* died is started again, an unattended lease runs out, and a request that the
\* API began is finished.  Users and crashes are under no obligation.
PoolFairness ==
    /\ \A s \in Slots : WF_poolVars(SlotStep(s))
    /\ \A w \in Workers : WF_poolVars(Restart(w))
    /\ \A j \in Jobs : WF_poolVars(TimePasses(j))
    /\ \A r \in Runs : WF_poolVars(ContinuesDecided(r)) /\ WF_poolVars(Abandons(r))
    /\ \A h \in Holders : WF_poolVars(RetriesDelivery(h))

FairPoolSpec == PoolSpec /\ PoolFairness
-----------------------------------------------------------------------------
(* Safety.                                                                 *)

\* The pool changes jobs and leases only as the queue's operations allow.
ImplementsQueue == QueueSpec

\* worker.py and heartbeat: a worker that still owns its job is never robbed of
\* the assignment its driver awaits, by a recovery or by another worker.
OwnedWorkIsUndisturbed == \A s \in Slots : pc[s] = "working" /\ Owns(s) => Assigned(s)

\* reap_expired, recover_interrupted: a driver never finds an assignment in
\* flight that nobody works on; whatever was interrupted was failed before.
NoOrphanAssignment ==
    \A s \in Slots :
        pc[s] \in Driving /\ Owns(s) /\ stage[RunOf(s)] = "running" => Assigned(s)

\* README: a run that was stopped or interrupted picks up where it left off: a
\* driver never finds a submission in flight that nobody judges any more.
NoOrphanSubmission ==
    \A s \in Slots :
        pc[s] \in Driving /\ Owns(s) /\ stage[RunOf(s)] = "submitted" => pc[s] = "judging"

\* README, as above: a driver that is past planning has tasks to work on.
NoOrphanPlan ==
    \A s \in Slots : pc[s] = "looping" /\ Owns(s) => stage[RunOf(s)] # "criteria"

\* request_cancel, reap_expired: a run whose job was asked to stop is not
\* resumed by a recovery; only the user continues it.
StopsAreRespected ==
    \A j, k \in Created :
        cancel[j] /\ runOf[j] = runOf[k] /\ j < k /\ kind[k] = "recover"
            => \E i \in Created : runOf[i] = runOf[j] /\ j < i /\ i < k /\ kind[i] = "continue"

\* abandon_run against continue and decide: a closed run has no work in flight
\* and no decision to wait for.
ClosedRunIsQuiet ==
    \A r \in Runs : runStatus[r] = "abandoned" =>
        stage[r] \notin {"running", "submitted", "requested", "asking", "decided"}

\* deliver_run against claim: a project's repository does not change hands while
\* an archive is assembled from it.
DeliveryHasProject ==
    \A s \in Slots :
        pc[s] = "delivering" /\ runStatus[RunOf(s)] = "completed" /\ delivery[RunOf(s)] = "none"
            => Project(job[s]) \notin BusyProjects

\* assemble: a refusal says that the integration branch moved outside Cavman.
\* Nobody else moves it here.
NoDeliveryRefused == \A r \in Runs : delivery[r] # "failed"

\* decide: when the request is over, a job is there that can still apply the
\* decision, one whose driver has not ended.
DecisionsResumeRuns ==
    [][\A r \in deciding \ deciding' :
          IsActive(r) /\ stage[r] = "decided" =>
              \E j \in Active' :
                  /\ runOf'[j] = r
                  /\ ~\E s \in Slots : job[s] = j /\ pc[s] \in {"stopping", "finishing"}]_poolVars
-----------------------------------------------------------------------------
(* Liveness, under PoolFairness.                                           *)

\* run_once: every job that is queued is executed and ends.
JobsEnd == \A j \in Jobs : state[j] = "queued" ~> state[j] \in Terminal

\* Interrupted or not, an assignment is answered, failed or recovered.
AssignmentsEnd == \A r \in Runs : stage[r] = "running" ~> stage[r] # "running"

\* A completed run gets its delivery.
CompletedIsDelivered == \A r \in Runs : runStatus[r] = "completed" ~> delivery[r] # "none"
==============================================================================
