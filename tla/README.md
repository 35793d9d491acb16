# Walter / Cavman in TLA+

Walter turns an objective into an accepted piece of software: a Manager model
plans tasks, workers produce candidates in sandboxes, deterministic checks and a
separate reviewer produce evidence, and a kernel decides what the evidence
allows. Cavman is the service around it: projects, a durable job queue, worker
processes, approvals over HTTP, delivery and maintenance. This directory holds
the specifications of that code, their TLC configurations and the proofs.

Paths below are relative to the repository root.

## 1. The system

| Component | Code | State it keeps | Operations |
|---|---|---|---|
| Run kernel | `src/walter/orchestration.py`, `models.py` | one durable snapshot per run: tasks, assignments, artifacts, evidence, failures, recoveries, approvals, gates, proposals, plan revision | about thirty mutations, each one transaction through `Orchestrator._mutate` |
| Manager controller | `src/walter/adapter.py` | none of its own (a controller per run, agents, a lock) | delegate, validate, review, accept and integrate, propose and apply replans, capability changes; model and sandbox calls happen between kernel operations |
| Sandbox and integration | `src/walter/sandbox.py`, `sandbox_e2b.py` | `grants.json`, git repositories and worktrees of a project | create, collect, integrate, replace, clean up |
| Run store | `src/walter/store.py`, `pg.py` | snapshots with versions, append-only events | load, compare-and-swap save, transactions |
| Usage budget, pulse | `src/walter/usage.py`, `pulse.py` | usage records | check before a model call, record after it |
| Job queue | `src/cavman/platform_store.py` | `jobs`, `project_leases`, and plain rows for projects, runs, deliveries, publications, rate events, duty leases | enqueue, claim, heartbeat, finish, reap, cancel, acquire, release |
| Worker | `src/cavman/worker.py`, `engine.py` | a slot's job, a driver thread, the stop flag | claim, drive, heartbeat, recover interrupted work, finish, deliver |
| Workflow driver | `src/cavman/workflow.py` | none (reads the run again each round) | plan, delegate, check, review, accept, recover, reopen, report, finish |
| Delivery and publishing | `src/cavman/delivery.py`, `publish.py` | archives, manifests, publications | assemble, save, publish |
| Maintenance, erasure | `src/cavman/maintenance.py`, `erasure.py`, `ops.py` | duty leases, retirement marks | retire, prune, purge, erase an account |
| API, accounts, views | `src/cavman/api.py`, `accounts.py`, `views.py` | sessions, caps | authorise, create projects and builds, decide approvals, stop, continue, abandon |
| One-shot tools | `importer.py`, `migrate.py`, `legacy.py`, the CLIs | files | import, migrate, probe |

How they interact. The API creates a run (kernel) and enqueues a job (queue). A
worker slot claims the job, builds a controller and a driver for the run and
drives it; the driver calls the kernel through the controller, with model and
sandbox calls in between. A human decides approvals through the API while the
driver runs or after it stopped; decisions enqueue a continue job. The reaper
replaces jobs whose lease lapsed by recovery jobs. Delivery and maintenance work
on a project's repository under a project lease, which the queue excludes from
claims. All of them share the two databases and nothing else; there is no order
between processes but what a transaction or a lease gives.

What is hard, component by component, and what makes each correct:

* **Kernel.** Calls arrive in any order and late (a worker that answers after its task
  was failed and delegated again; a proposal applied long after it was written; an
  approval superseded while its task is under review). Correct means: accepted work
  always rests on accepted work; evidence is independent of authors; accepted work is
  discarded by a human's decision, or by a caller who saw nothing of it when it asked
  whether one is needed; gates hold for advertised and running work; a gate that opens
  wakes what waits for it; budgets bound the work and never strand a task.
* **Queue.** Workers, the reaper, requests and maintenance race on leases that
  expire at any time. Correct means: one active job per run, one owner per
  project, capped recovery, and outcomes that a late worker cannot overwrite.
* **Worker.** A worker that lost its lease still runs code; a crash can fall
  between any two of claim, drive, recover, finish and deliver. Correct means: only
  the owner of a job touches its run, and a run that was interrupted is either
  recovered or ended.
* **Driver.** Each pass must make progress, report what blocks the run, or end it.
* **Integration.** A candidate lives in three stores that no transaction spans: the
  run in the kernel, worktrees and the branch in git, grants in a file that every
  process saves whole. Coroutines interleave, processes crash and outlive their
  lease between any two effects. Correct means: the branch holds accepted candidates
  and nothing else, what was recorded stays on it, no attempt works in another's
  workspace, and what the kernel names can be used or replaced after a crash.
* **Run store.** Threads, processes and readers share one row and its events, and
  several processes may open an old file at once. Correct means: one log, which every
  operation reads whole and extends; no reader sees two moments mixed; a migration
  happens once.
* **Usage, capacity.** Check-then-act over rows others are changing. Correct means:
  what is exceeded is bounded by what runs at once.
* **Delivery, maintenance, erasure.** Rows and the files they point to, without a
  transaction over both. Correct means: no row points to what is gone, and what no
  row owns is found by purge-orphans.

`PROJECT.json` lists the hazards at their lines, with the properties that cover them
or the reason none does. Lesser ones it leaves out: an approval that is committed
when its process dies before the proposal or the request that should cite it
(`adapter.py:818`, `adapter.py:902`; RunKernel reaches both, and the cost is a decision
a human makes for nothing); a replan that a human approved at one plan revision and
that discards what was accepted since (`orchestration.py:1258`); a pending request of a
cancelled task, which keeps `abandon` from closing the run (`orchestration.py:374`); a
REPLACED task with live dependants, around which every replan must route
(`orchestration.py:205`); maintenance leases computed from the clock at the start of a
pass (`maintenance.py:55`).

## 2. Modules

```
TaskGraph        graph operators: validity, consumer closure, invalidation
  RunKernel      one action per kernel operation, over a whole run
  AcceptedWork   abstract: what a run promises about accepted work
JobQueue         jobs and project leases
  WorkerPool     workers, drivers and requests over the queue
Integration      candidates, grants and the integration branch under the kernel
RunStore         snapshots, events, migration, and clients that follow them
  RunLog         abstract: what the store promises about a run
AccountData      rows and files of an account, from request to erasure
Spending         capacity, budgets and model calls
MCRunKernel, MCJobQueue, MCWorkerPool, MCIntegration, MCRunStore,
MCAccountData, MCSpending                      instances for TLC
RunKernelProofs                                types, budgets, lineage; refinement; readiness
  RunEvidenceProofs                            candidates, their evidence, and grants
AcceptedWorkProofs
WorkerPoolProofs                               the queue, the pool; refinement of the queue
IntegrationProofs                              the branch and the workspaces
RunStoreProofs                                 the store; refinement of RunLog
AccountDataProofs                              rows and what they point to
SpendingProofs                                 ceilings and limits
```

`RunKernel` takes one operation as one step; `RunStore` shows why it may. `JobQueue` is
what `WorkerPool` runs on. `Integration` follows a round of the driver through the
stores that `RunKernel` and `WorkerPool` leave out. In each module a definition whose
name ends in an underscore and a word (`Commits_Empty`) is a plausible slip of the
definition after it, used only to see that a property notices it.

### TaskGraph

`GraphOk` is `Orchestrator._graph`, `Affected` is `_replan_affected`. The code walks
the graph; the operators state the sets the walks compute (a cycle is a set with
no member that leaves it; the affected tasks are the least consumer-closed set
around the seed), so nothing is `RECURSIVE` and both can be used in proofs.

### RunKernel

`_mutate` loads the snapshot, refuses a run that is not active, applies one
operation and saves it in one transaction, and an operation that raises saves
nothing. So each operation is one action: the checks are its guard and the
trailing `_refresh`, where the code has one, is its last conjunct (`Refresh`, which
reads the new values of everything the operation assigned). Where the code has
none (`delegate`, `submit`, `recover`, a supersession), neither has the action.

| State | Code |
|---|---|
| `status`, `blocker`, `deps` | `task.status`, `task.blocker`, `packet.dependencies` |
| `capability`, `bound`, `request` | `task.capability`, `task.workspace_id` is set, `run.capability_requests` |
| `assignment`, `attempts`, `baseline`, `revisions`, `revBaseline`, `authors` | the current assignment (by attempt number), counters and baselines, the workers in `assignment_history` |
| `art` | the task's latest artifact: attempt, status, inputs, validation verdicts, review, judges |
| `accepted` | `run.accepted_artifacts` |
| `failures` | failures without a recovery decision |
| `gates`, `approval`, `scope` | `task.approval_gates`, approval statuses, what an approval request is about |
| `planRevision`, `replans` | `plan.revision`, the persisted proposals |
| `assessed` | what callers hold of `replan_materiality`: the shapes it called autonomous at this revision, each with what was accepted when it was asked |

An artifact is identified by its task and attempt: a submission needs a RUNNING
task and moves it on, so an assignment has at most one artifact, and every check
in the code looks at `artifact_ids[-1]` only. Blocker texts are reduced to the
fixed reasons, `"evidence"` for free text and the readiness-lapsed prefix, because
that is all `_refresh` and the gate operations compare. Approval digests are the
scope itself. The controller's part in replanning is included because it is where
materiality is enforced: `RequestReplanApproval` and `ProposeReplan` are two
transactions, as in `DurableController.propose_replan`, and `Assess` is the read of
`replan_materiality` that the controller (`propose_replan`, `apply_replan`) and the
driver (`_reopen_replan_blocked`) make before a proposal without an approval. The kernel's
`apply_replan` is a transaction of its own, at any later moment of the revision, and asks
nothing of such a proposal (`Authorized`).

Capability requests are there from the worker's request to the grant:
`RecordCapabilityRequest` (the worker of the current assignment asks),
`RequestCapabilityApproval` and `LinkCapability` (the two transactions of
`DurableController.request_capability_change`), `DenyCapability`, `ApproveCapability`,
`ApplyEscalation`, `MarkEscalated`, and `ChangeCapability`, the same grant without a
request. A profile is one of five, a workspace is there or not: which workspace it
is matters to the sandbox only. A task's required checks are fixed; `Checked` are
the tasks with one, and it is assumed to be executable, which a developer task
needs (`_validate_capability_checks`). Approval ids are constants in four classes,
so that an instance enables only what its run is about. Some operations have no
caller in `src/` but its tests: `gate_task`, supersession,
`approve_capability_request`, `mark_capability_escalated`, `change_capability`. They are
public operations of the kernel and are modelled as such; supersession is limited
to approvals about tasks (assumption `KindsAssumption`).

Abstracted: the free-text fields, usage records, events, the order of lists, the
inputs registered by name and packets that name artifacts rather than tasks
(`required_inputs` that name tasks are dependencies).

Not in the module: `replace_workspace` and `record_integration`, which are in
Integration; `record_usage`, which is in RunStore and Spending; legacy approval gates
(`recover_legacy`), `register_input` and `set_completion_criteria`.

### AcceptedWork

The abstract specification: a required task is accepted on accepted inputs; a
consumer-closed set of tasks may be discarded and the rest of the plan reshaped,
but survivors keep their inputs and stay required; a run ends complete with every
required task accepted, or abandoned, and then nothing changes. Workers, reviews,
gates, budgets and recovery are absent. `RunKernel!ImplementsAcceptedWork` maps the
kernel to it (canonical artifact of an ACCEPTED task, its recorded inputs, the
tasks that are not CANCELLED).

### JobQueue

Each method of `PlatformStore` is a `BEGIN IMMEDIATE` transaction, so one action
each. Time is reduced to whether a lease has expired, and `JobLeaseLapses` and
`ProjectLeaseLapses` may happen at any moment, which covers paused processes, slow
heartbeats and clock jumps. An expired lease that nobody reaped is still the
worker's: `heartbeat` and `finish` look at owner and status, not at the time. Job
ids are numbered in creation order because `claim` takes the oldest. `enqueue` takes
any of the three kinds: users start and continue runs, and `cavman ops requeue` asks for
a recovery, which no cap refuses. Such a row is `"requeued"` here and `"recover"` in
the table, so that what the reaper adds can be told from what an operator does; the
cap counts both.

### WorkerPool

The worker processes over the queue: `EXTENDS JobQueue`, and every step of the pool
does a queue operation or none. An action is one transaction on one of the two
databases, or the answer of a model together with the transaction it leads to;
anything may happen between two of them.

| State | Code |
|---|---|
| `pc[s]`, `job[s]`, `verdict[s]` | where slot `s` is in `run_once`, `execute`, `_drive` and the driver's `run`; the job and the status it will be finished with |
| `runStatus`, `done`, `stage`, `by`, `attempts` | the run: its status, the accepted tasks of its chain, the current task's status, whose driver awaits its assignment, delegations |
| `head` | the run that committed last to the project's integration branch |
| `delivery` | `deliveries.status` |
| `deciding`, `closing`, `retrying` | API requests between their first and their second transaction |
| `crashes` | bound on `Crash` |

| Action | Code |
|---|---|
| `Reaps`, `Claims` | `run_once`: `reap_expired`, then `claim`, two transactions |
| `Loads`, `RecoversRun`, `FailsToStart`, `Starts` | `execute` before the driver: a job of a run that is over, `recover_interrupted` for a recovery, no configured provider, a run with or without a plan |
| `SetsCriteria`, `AddsTasks`, `PlanFails` | `_install_plan` and its retries |
| `Delegates`, `Answers`, `AnswersTooLate` | `_delegate` up to the specialist's answer, which the kernel refuses if the assignment was replaced |
| `Accepts`, `Rejects`, `RecoversFailure` | validation, review, acceptance and integration; failures and `recover` |
| `AsksHuman`, `AppliesDecision`, `Completes`, `Returns` | the other branches of a pass of `run` |
| `Overspends` | `UsageBudgetExceeded` from any model call |
| `Heartbeat`, `Interrupts`, `Finishes`, `Delivers` | `_drive`'s loop, its cancelled driver, `finish`, `deliver_run` |
| `Crash`, `Restart`, `TimePasses` | a process dies, the supervisor starts it again, a lease expires |
| `StartsBuild` .. `RetriesDelivery` | the API: build, continue, stop, decide (two transactions), abandon (two), assemble a delivery (acquire, then assemble and release) |

A run is a chain of `Tasks` tasks with one current task, since what the pool adds to
`RunKernel` is who works on it and when, not the graph. Replans are folded into
`MaxAttempts`, the delegations that budget and reopening allow a task. A worker's
capability request is one stage (`"requested"`) although three transactions record
it. A heartbeat that changes nothing is a stutter; one that extends a lapsed lease
or finds that the worker must stop happens only while the driver awaits a model,
because both run on one event loop. A restarted process gets a fresh
worker id in the code; the model keeps the name, and nothing confuses the two
because a slot acts through the job it claimed and forgets it on a crash. The
worker's own `deliver_run` takes no project lease; the API's takes one.

Left out: project leases that lapse (they do in JobQueue), crashes of the API
process, and `cavman ops requeue` (in JobQueue and Spending); the maintenance pass is in
AccountData, `_limits` in Spending, and the compare-and-swap of an integration in Integration.

### Integration

One run of code tasks, driven by `cavman/workflow.py` through `walter/adapter.py`, over
`walter/sandbox.py`. An action is one effect on one store, and a crash, an error or the
loss of the lease (`Crashes`, `Fails`; `Starts` of a second process) may fall between any
two. Inside a
process the coroutines of different tasks give way to each other only at an `await` of
a model or a thread: the steps in `Sync` are the others, and `Turn` lets no second
coroutine run while one is there.

| State | Code |
|---|---|
| `deps`, `status`, `by`, `attempts`, `ws`, `art` | dependencies, `task.status`, whose process awaits the assignment, `task.attempts`, `task.workspace_id`, the last artifact (base, contents, `integrated_commit`) |
| `worktree`, `head` | per candidate: its worktree, base and contents, the commit made of it (`sealed`), the attempt that wrote it last; `refs/heads/walter-integration` |
| `disk`, `mem` | grants in `grants.json`, and in each `WorkspaceManager` |
| `pc`, `hold` | where each process is with each task; the candidate of the step, and the one it replaces |
| `live`, `closed`, `faults`, `stalls` | running processes; is the run complete, or its candidates retired; how many processes died or operations failed, and how many outlived their lease |

| Action | Code |
|---|---|
| `Starts`, `Round`, `Leaves`, `Crashes` | `_load_manifest` and `recover_interrupted`; a pass of the driver with a coroutine per ready task; the end of a drive; the process dies |
| `Fails` | an operation raises (git fails or takes longer than its 30 seconds, a save meets another one and gives up): the coroutine ends where it is, `run` logs it and goes on with the next round |
| `Delegates`, `Registers`, `Binds`, `Discards`, `Begins`, `Marks` | `delegate`: one that was bound and never used or a candidate of its own (`Builds`), which is first a worktree, then a grant in the file with the last attempt carried over; `bind_workspace` or `replace_workspace`; `cleanup` of the old; `core.delegate` and `start`; `mark_used` |
| `Writes`, `GivesUp`, `Returns`, `Submits` | the specialist writes, fails, or returns; the workspace is frozen; fingerprint and `core.submit` |
| `Validates`, `Reviews`, `ChecksBase`, `Accepts` | trusted validation and review, each in a read-only copy; `accept_and_integrate` |
| `Finishes`, `StartsIntegration`, `AdvancesHead`, `Records` | `_finish`; `integrate` up to the fingerprint; `_commit_candidate` and `update-ref`; `record_integration` |
| `Retires` | `retire_run` |

A commit is the sequence of changes since the project's first commit, so two commits
are equal exactly when their histories are. A change's bytes are a number, 0 for none.
A human who unblocks a task, replans, capability requests and planning are not here:
RunKernel and WorkerPool have them. Not modelled either: tasks that only read or
research, the candidates' branches (a worktree stands for both, so a branch that
outlives its worktree is not seen), safety candidates, several runs that integrate in turns
(WorkerPool), and what keeps a workspace from reaching outside of itself. `Fails` may
leave a specialist's failure unrecorded, which takes a second error in the code, where
the first is recorded as one; the recorded failures are `GivesUp` and `Verdict`. Taken
for granted: a write of `grants.json` succeeds, a binding the kernel refuses is followed
by a cleanup that succeeds (`Binds`), and an error in `carry_over` leaves the new candidate
as its base, which is what its own error path restores.

### RunStore and RunLog

`SQLiteStore` under `_mutate`, `_mutation_result`, the API's `retry_conflicts` and
`record_usage`, which differ in how often they try again (`Attempts`). A transaction
that writes is one action. A load is a read transaction: the row in one step
(`LoadsRow`, which fixes what the transaction sees), its events in the next
(`Verifies`). A snapshot is the sequence of operations folded into it.

| State | Code |
|---|---|
| `schema`, `task`, `backup` | `PRAGMA user_version`, a task of a version 1 snapshot, `schema_migration_backups` |
| `alive`, `row`, `log` | the rows of `runs` and `events` |
| `pc`, `ops`, `local`, `view`, `tries`, `start` | where an actor is; what it loaded; the attempt it is at; how long the log was when its operation began |
| `lock` | the process's `RLock`, held over `transaction()` |
| `step`, `got`, `cursor`, `latest` | a client of `/stream` or `/events`: what it was sent and will ask for next |

`Opens`, `Creates`, `Upgrades` open the store; `Begins`, `LoadsRow`, `Verifies`, `Saves`
are an operation; `Erases` is `delete_run`; `Looks`, `Fetches` are a client's two reads.
A page of `/events` may repeat events and the property says only that it skips none.
PostgreSQL (`pg.py`) is taken to make a writing transaction as exclusive as `BEGIN
IMMEDIATE` does. The creation of a run is one insert, so the run is there from the
start.

`RunLog` is the abstract specification: a run is a log, an operation is decided on the
whole log and appended in one step, erasing the run erases all of it. It is what
RunKernel assumes when it takes an operation as one step.

### AccountData

What no transaction covers: the rows of the platform and the kernel runs, sessions,
repositories, worktrees and archives they point to. Every step of a request
(`Begins`, `CreatesProject`, `CreatesKernelRun`, `CreatesRun`, `Enqueues`), of the worker
(`Claims`, `Converses`, `Completes`, `Finishes`), of a delivery (`Asks`, `Looks`,
`Assembles`, `Saves`), of the maintenance pass (`Lists`, `Sorts`, `Holds`, `Retires`,
`Passes`), of an erasure (`Erases`) and of purge-orphans (`Reads`, `Scans`), and of the
deletions both end in (`PurgesRun` .. `PurgesRepositories`), is an action; `Dies`, `Stops`,
`Halts` and `Reaps` are the losses.

| State | Code |
|---|---|
| `projects`, `runs`, `job`, `delivery`, `retired`, `lease` | the tables of `platform_store.py` |
| `kernel`, `sessions`, `repos`, `archives`, `cleared` | kernel runs and their status, sessions with turns in them, directories, archives, runs without their worktrees |
| `young` | what was written less than the minimum age of purge-orphans ago |
| `stage`, `at`, `care`, `sweep` | where requests, deliverers, maintenance and the two purges are |

What is young becomes old together (`Ages`), and only when no request, delivery or purge
is under way: each is taken to be shorter than the minimum age, an hour, which is the
argument of `purge_orphans`' docstring. Leases of the API and of the maintenance pass do
not lapse here (JobQueue has lapsing leases). Erasing an account while a pass is under
way can leave a row of `retired_runs` without its run; nothing reads it. `Scans` reads the
directories at once and cannot fail; `purge_orphans` lists and stats them one by one
(`erasure.py:73-78`) and may raise when an erasure removes one of them meanwhile. Such a
purge did not end, and counts as interrupted (`Halts`). Publications
are pushed to a service outside and are not modelled.

### Spending

Requests check the account's allowance, then count active builds, then enqueue
(`Asks`, `Counts`, `Enqueues`); one whose run already has a job passes uncounted, and the
job may end before it enqueues. A decision of an approval continues its run and an
operator requeues one without either check (`Decides`): such a job is `uncounted` until
it ends. Which run waits for a decision is the kernel's, so any may be continued so.

A worker computes the ceilings of a job once, from what the account had left when the
job began (`Claims`, `Starts`: `_limits`). Each model call checks the records there are
(`Calls`) and is recorded when it ends (`Records`), or its record is lost (`Loses`, `Dies`).
What it costs is known then: nothing, if the provider reports no price, or up to
`MaxPrice`, for which the code has no bound and the bounds stated here need a name.

| State | Code |
|---|---|
| `request`, `target` | where each API request is, and its run |
| `job`, `holder`, `uncounted` | the run's active job, `lease_owner`; was it enqueued without a count |
| `budget`, `calls`, `cost` | `runs.budget_usd`, the number and the price of `usage_records` |
| `work`, `stage`, `seen`, `limit`, `flying` | per slot: its run, how far it is, what `_limits` read and returned, its calls in flight |
| `stalled` | runs whose job was reaped under a worker that went on (`Lapses`) |

A worker that lost its lease keeps its ceilings and goes on calling until it ends;
`finish` then leaves the job alone. Token ceilings are checked as the call ceiling is and
are left out; so are rate limits, disk limits, ceilings from the environment, and the
month's end.

## 3. Runs

| Run | Instance | Shows |
|---|---|---|
| `exec` | one developer task; two workers and the Manager, each of whom may try to work, validate and review; failures that are retried, revised or replaced, and replanned when attempts run out; two attempts, one revision, two replans that nobody need approve | `TypeOK`, `ReadyHasBudget`, `WorkBound`, `IndependentEvidence`, `CandidateIsCurrent` |
| `replan` | a chain a, b, c; reopening either end, removing c, rewiring c; one approval, one replan, assessments at any moment before it | `CanonicalLineage`, `AcceptedIsLatest`, `DiscardIsNewOrApproved`, `ImplementsAcceptedWork` |
| `gates` | two tasks, the second a developer's; two approvals that gate, decide and supersede | `WorkStaysReady`, `NoMissedWakeup` |
| `capability` | one checked task created without tools; one worker request and one direct change for either workspace profile; two attempts, one replan | `GrantIsApproved`, `DeveloperWorkIsReviewed` |
| `queue` | two runs of one project, two workers, two lease holders, an operator who requeues | `OneActiveJobPerRun`, `OneOwnerPerProject`, `RecoveryIsCapped`, `OutcomeIsFinal` (the queue's type invariant is part of `PoolTypeOK`) |
| `pool` | one run of one code task, two processes with a slot each, one crash, continue, abandon and delivery requests, fairness | `PoolTypeOK`, `OwnedWorkIsUndisturbed`, `NoOrphanAssignment`, `ClosedRunIsQuiet`, `JobsEnd`, `AssignmentsEnd` |
| `pool_stall` | one process with two slots whose leases lapse at any moment; stop, continue and abandon requests | `StopsAreRespected`, `ImplementsQueue` |
| `integration` | two code tasks, side by side or one on top of the other; three candidates, two attempts, two processes, one crash, error or lapsed lease | `IntegrationTypeOK`, `BranchIsAccepted`, `AttemptsAreIsolated`, `WorkspaceStays`, `RecordedInOrder`, `RetiredIsClean` |
| `store` | two threads of a worker (one closes the run, one accounts for two calls), a decision over HTTP, the erasure; a file of schema 0, 1 or 2; a stream and a page | `StoreTypeOK`, `ReadersSeeOneState`, `ConflictsComeFromOutside`, `MigrationIsSafe`, `ImplementsRunLog` |
| `account_data` | two builds of one project, one process lost, two erasures, purges or passes | `NothingDangles`, `PurgeIsComplete` |
| `spending` | three runs; two requests, or two slots of two calls at once that cost up to two each; a run may make two calls, its account one; deaths, lapsed leases, lost records, decisions | `SpendingIsBounded`, `BuildsAreBounded` |
| `interrupted_integration` | the instance of `integration` | violation of `InterruptedIntegrationCompletes` (section 4) |

Some properties hold on a condition that is part of their statement: `BranchIsAccepted`
(its second half), `AttemptsAreIsolated`, `WorkspaceStays` and `RetiredIsClean` speak of
behaviours in which no process outlived its lease (`stalls = 0`), `RetiredIsClean` allows
one worktree for each crash or error, `BuildsAreBounded` is about the builds that were
counted, and `OwnedWorkIsUndisturbed` is checked where leases hold. Section 4 says what
happens otherwise. What is left of `BranchIsAccepted` then, that a recorded commit never
leaves the branch, is checked with crashes, errors and lapsed leases alike, and so is
`RecordedInOrder`.

Bounds of the kernel's runs. Three tasks are the smallest plan in which invalidation
must pass through a task (`Affected_OneHop` is caught there and nowhere smaller). Two
attempts and two replans are the smallest budgets with a retry that succeeds, one that
exhausts the budget, and a rebase after either. Two identities besides the Manager are
enough for author and judge to change places. Two approvals are enough to supersede one.
The state constraint `PositiveEvidence` (in `replan`, `gates` and `capability`) stops
exploring candidates with a failed check or review: they can only wait to be failed,
which a fresh candidate may be too; `exec` explores them. One request and one direct
change are enough for two grants of one task to meet. `OneStructure` (in `replan`)
considers one shape per behaviour among the assessments, proposals and approvals: with
one replan a second is never applied.

Bounds of the queue and the pool. In `queue` the constraint `FirstStarts` leaves the kind
`"start"` to the first job of a run, as the API does; the queue does not look at it. Four
jobs for two runs let a recovery follow a
start, be reaped in its turn and be replaced by a continue; in `pool` they let one
run be started, recovered and continued. `RequestsFit` keeps users from taking the
job ids that recoveries and decisions already promised will need; without it an
instance would run out of ids where the program never does. `MaxCrashes` is at most
`MaxRecoveries` in the runs with liveness: beyond it a run is not recovered
automatically, by design. `SlotEach` gives every process one slot, `SlotsTogether`
puts both slots into one process: a worker id that owns two jobs is what the
queue's owner checks must not confuse. `Stalls` separates the two questions: what
holds while live workers keep their leases (`pool`) and what is left when they do
not (`pool_stall`).

Bounds of the other runs. In `integration` two tasks are enough for two coroutines to
race for the branch and for one task to build on another; the third candidate is a
retry's, and two attempts let it happen; one fault, a crash, an error or a lapsed lease,
interrupts any step, and the next round or a second process meets what is left. One edit
is enough, because contents are compared with the base and with what was submitted, and
the base differs. In `store` each kind of operation is there once, and accounting, which
a closed run still accepts, twice; an erasure needs one attempt. `record_usage` tries
five times in the code and three in the instance: with two foreign commits in reach a
third attempt is never lost. In `account_data` two builds of one project let each
outlive the other; two sweeps let a purge follow an erasure that died, or race with it.
In `spending` three runs for two slots let one wait while the others spend, or be queued
uncounted beside two that were; a price of two makes one call pass a ceiling of one, and
a budget of two leave something after a call. `RequestsOrCalls` keeps requests and calls
from being in progress together, which only multiplies them, since a request reads what
was recorded and calls read neither requests nor the number of builds; `TwoWork` lets
two of the runs work, one have the larger budget and one lose its lease to a worker that
goes on.

Symmetry is used over interchangeable identities in `exec`, `queue`, `integration`,
`account_data` and `spending`, which check no liveness. Deadlock is checked where the
system goes on by itself: a terminal run stutters through `Terminated`, time always
passes in the queue, idle slots poll, and a job of `spending` can always end.
`integration`, `store` and `account_data` really stop, when the run is retired or
blocked for a human, when every operation is done, and when everything is erased, and
say `CHECK_DEADLOCK FALSE`.

Fairness (`PoolFairness`). A live slot takes its next step: `run_once` is called in a
loop that sleeps in between, and model and sandbox calls have timeouts, so an
awaited answer, or the failure that stands for it, comes. A process that died is
restarted by its supervisor. The lease of a job nobody attends runs out, because
time passes. A request whose first transaction is committed gets to its second
one. Users and crashes are under no obligation. It is weak
fairness throughout: nothing in the code promises that an intermittently possible
step is taken, and slots poll without yielding to each other. The properties of the
other modules are safety properties and assume no fairness.

## 4. Findings

**An interrupted integration cannot be completed** (run `interrupted_integration`).
`integrate` moves the branch with `update-ref`; `record_integration` writes the commit
into the run afterwards. If the process dies between the two, or a decision over HTTP
makes the save of the record fail (`ConcurrentUpdate`, `orchestration.py:156-164`; the
driver only logs it), the next round or driver finds accepted work without a commit and
calls `_integrate` again, which compares the candidate's base with a head that is by now
the candidate's own commit and raises `IntegrationStale`. Nothing changes by trying
again, so the run neither completes nor is delivered. `adapter.py:388` calls
`_integrate` "Trusted integration of the task's accepted candidate; idempotent.", and
the docstring of `record_integration` (`orchestration.py:669`) has interrupted
integrations completed idempotently.

Other disagreements the specifications reproduce. The configuration files named here
are not part of the runs of section 3: `tlc -config X.cfg M` shows the behaviour.

* *A reopening resurrects removed tasks* (`scope.cfg`, `MCRunKernel`,
  `ScopeChangeIsAuthorized`). `apply_replan` resets every transitive consumer to PLANNED,
  a CANCELLED one too, and materiality counts only ACCEPTED consumers: reopening failed
  work, which needs no human, brings back a task whose removal a human approved.
  `docs/ENGINE.md:435` calls CANCELLED terminal, and `docs/ENGINE.md:474` lists adding tasks
  among what escalates.
* *A grant wakes a task without attempts* (`capability_budget.cfg`, `MCRunKernel`,
  `ReadyHasBudget`). `recover` downgrades only RETRY and REVISE when the attempts are
  spent, so a request filed by the last attempt escalates; applying the grant makes the
  task READY, and `delegate` refuses it. `docs/ENGINE.md:145` routes an exhausted budget to
  REPLAN, and the comment at `orchestration.py:1243` calls a READY task that is refused
  forever a dead end.
* *A worker that lost its lease fails its successor's assignment* (`zombie.cfg`,
  `MCWorkerPool`, `OwnedWorkIsUndisturbed`). `_drive` returns "cancelled" for a lost lease
  as for a user's stop, and `execute` then calls `recover_interrupted` without asking
  whether the job is still its own. By then the reaper may have queued a recovery and
  another worker may have delegated: that assignment is failed with TIMEOUT and its
  submission refused. `platform_store.py:536` says that "another claimant owns recovery
  now".
* *A submission whose review is cut short is stranded* (`review_budget.cfg`,
  `MCWorkerPool`, `NoOrphanSubmission`). `recover_interrupted` fails DELEGATED and RUNNING
  work only, and the driver judges a submission only in the pass that delegated it.
  After a usage limit, a stop or a crash during a review the continued run has nothing to
  do, and it cannot be abandoned either. The dashboard tells the user to raise the
  budget and continue.
* *A run that integrated first and completes last cannot be delivered* (`moved_head.cfg`,
  `MCWorkerPool`, `NoDeliveryRefused`). Runs of a project share its integration branch;
  `assemble` refuses a head that is not the run's own, with a message that the branch
  moved outside Cavman, although another run of Cavman's moved it.
* *Sessions outlive an erasure that dies* (`purge_sessions.cfg`, `MCAccountData`,
  `SessionsArePurged`). `_purge` deletes the kernel runs first, and purge-orphans looks for
  the sessions of the kernel runs it finds: those of an erasure that died between the
  two stay, although the module's docstring (`erasure.py:6-9`) promises that
  purge-orphans removes what is left.
* *A delivery that is ready becomes a failed one* (`delivery_race.cfg`, `MCAccountData`,
  `DeliveryIsKept`). The worker delivers without a project lease, so a request may deliver
  the same run; whichever fails and saves last overwrites the other's result, although
  `deliver_run` (`delivery.py:224`) assembles "once" and records the outcome "durably".
* *Work is discarded that no human gave up* (`discard.cfg`, `MCRunKernel`,
  `DiscardIsAuthorized`). `DurableController.apply_replan` derives the materiality again in a
  read of its own and calls `core.apply_replan` afterwards (`adapter.py:833-858`), as the
  driver's `_reopen_replan_blocked` does (`workflow.py:340-343`); the kernel asks nothing of
  a proposal that needs no approval (`orchestration.py:1223`). An acceptance in between is
  discarded with nobody asked, although the comment at `adapter.py:809-811` and the
  docstring at `adapter.py:834-842` say the check is made so that this cannot happen.
  `DiscardIsNewOrApproved` is what holds: what goes was accepted after the caller looked.
* *An account passes its monthly ceilings by a factor* (`account_ceiling.cfg`,
  `MCSpending`, `AccountKeepsItsCeiling`). Every job may spend what the account had left
  when the job began, so jobs that run together spend it several times.
  `accounts.py:3-4` sets the ceilings because "a per-run budget alone does not bound what
  one account can spend". `SpendingIsBounded` says how far it goes: once the ceiling for
  each worker, with what the calls in flight cost on top, whatever that is.
* *More builds at once than an account may have* (`build_limit.cfg`, `MCSpending`,
  `ActiveBuildsAreCapped`). `api.py:365` tells the user how many builds are "the most at
  once", and `config.py:116` says of the setting "runs with queued or running work".
  `decide` enqueues without counting (`api.py:660-661`), as `cavman ops requeue` does
  (`ops.py:35`), and as `continue_run` does if the job it met has ended since
  (`api.py:676-679`). A user who decides the approvals of several waiting runs starts
  them all. `BuildsAreBounded` is about the builds that were counted.
* *Two specialists in one workspace* (`integration.cfg`, with `stalls = 0` taken out of
  `AttemptsAreIsolated`). A process that outlives its lease between `core.start` and
  `mark_used` leaves a candidate that is bound and not used; the next process takes it
  for a fresh one (`adapter.py:1238-1242`) and starts its own specialist there. The same
  process can change a candidate between the fingerprint and the commit of
  `integrate`, whose docstring promises the accepted bytes.
* *A task built without what it depends on* (`early_start.cfg`, `MCIntegration`,
  `StartsOnRecorded`). `accept` and `integrate` are two steps. A crash between them, or an
  error of the second (git fails or takes longer than 30 seconds, the record meets another
  save), leaves a dependency accepted and not on the branch; `run` logs the error
  (`workflow.py:233-239`), the next round delegates the dependant at once, and what was
  left is integrated only when everything is accepted. The planner is told that "later
  tasks build on accepted code" (`workflow.py:77`). What holds is `RecordedInOrder`: the
  dependant's commit is not recorded before the dependency's, because the later of the
  two meets a branch that moved.
* *A worktree that retirement never finds* (`integration.cfg`, with `Cardinality(Left) <= 0`
  in `RetiredIsClean`). The worktree is made (`sandbox.py:800`) before its grant is saved
  (`sandbox.py:816`), and `retire_run` (`sandbox.py:1377-1395`) looks at grants only: after a
  crash between the two the directory and its branch stay for good.
* *Supersession overwrites blockers* (`gates.cfg` with `INVARIANT ReadyHasBudget`).
  `request_approval` with `supersedes` sets every gated task's blocker to
  APPROVAL_PENDING whatever it was blocked for; approving the replacement wakes a
  task parked for a replan because its attempts are spent.
* *A grant can take authority back* (`capability.cfg` with `CapabilityApprovals = {g, h}`,
  `DirectApprovals = {}`, `Requests = {q, r}`, `MaxAttempts = 1`, `CONSTRAINT
  EachAttemptFilesOne`, `PROPERTY GrantsOnlyRaise`). The rank of a request is compared when its
  approval is requested (`adapter.py:874-880`), not when it is applied. The Manager's
  tools allow the order; the workflow driver applies requests oldest first.
* *A crash between a stop and its finish* (`pool.cfg` with `Requests = {"stop", "continue"}`,
  `SPECIFICATION PoolSpec`, `INVARIANT NoOrphanAssignment`). A cancelled job is reaped without
  a recovery, and the continue that follows does not interrupt what is in flight.
* *A crash between criteria and tasks* (`Requests = {}`, `INVARIANT NoOrphanPlan`). A run with
  criteria and no tasks counts as planned.
* *A decision while the driver ends* (`MaxCrashes = 0`, `Requests = {}`, `PROPERTY
  DecisionsResumeRuns`). `decide` finds the job still active and enqueues none, but its
  driver has already read the run.
* *A crash between completion and delivery* (`Requests = {}`, `SPECIFICATION FairPoolSpec`,
  `PROPERTY CompletedIsDelivered`). The recovery finds the run completed and ends before
  `deliver_run`; a user can still ask for the delivery.
* *A delivery without the project* (`Runs = {r1, r2}`, `ProjectOf <- SharedProject`,
  `Jobs = {1, 2, 3}`, `MaxAttempts = 1`, `MaxCrashes = 0`, `MaxRecoveries = 0`, `INVARIANT
  DeliveryHasProject`). The worker delivers after `finish`, when another run of the project
  may be claimed.

## 5. Proofs

TLAPS proves, for every value of the constants:

* `RunKernelProofs!TypeCorrect`: `Spec => []TypeOK`, one lemma per operation. The
  replan budget is part of it: `planRevision` stays within `0..MaxReplans`.
* `RunKernelProofs!WorkIsBounded`: `Spec => []WorkBound`. `WorkBound` is not inductive,
  since delegation compares attempts with a baseline. `BudgetInv` bounds the baseline
  by `MaxAttempts * planRevision` and the attempts by the baseline plus
  `MaxAttempts`; rebasing spends exactly the revision it needs (`RebaseKeepsWithin`).
* `RunKernelProofs!LineageStaysCanonical` and `AcceptedStaysLatest`: `CanonicalLineage`
  speaks of everything upstream of an accepted task. What is inductive is one level
  of it for every accepted task (`AcceptedInv`): the accepted tasks themselves are
  then the closed set that `Canonical` asks for. Three lemmas carry it: an operation
  that leaves accepted work alone (`FrameInv`, shown for most operations), an
  acceptance (`AcceptInv`: everything it was built from is accepted) and a replan
  (`ApplyReplanInv`: the affected set holds its seed and is consumer-closed, so a
  survivor's inputs survive).
* `RunKernelProofs!KernelImplementsAcceptedWork`: every step of the kernel is a step of
  `AcceptedWork` or a stutter under the mapping, from `LineageInv`.
* `RunKernelProofs!DiscardsAreNewOrApproved`, the action property. `AssessedInv` says of
  every assessment of this revision that what it saw accepted still is, and that its
  shape touches none of it: whatever is accepted since can only be downstream of what
  is not accepted yet (`GrowthKeepsAssessed`), and a replan ends the revision.
* `RunKernelProofs!WorkRemainsReady` and `NoWakeupIsMissed`, from `ReadyInv`. `Ready` walks
  upstream; while every accepted task is canonical (`AcceptedInv`) it comes to conditions
  on the task alone (`Prepared`). What `_refresh` leaves agrees with it (`RefreshReady`);
  each operation that does not refresh is shown to disturb neither what is offered nor
  what waits.
* `RunKernelProofs!OfferedWorkHasBudget`: `ReadyHasBudget` holds if nothing but a refresh
  or a recovery opens a task (`NothingReopens`: no capability requests, no direct grants,
  and no second approval of a task to supersede the first). The hypothesis is essential:
  without it the property is false, see section 4. `BudgetIsLeft` says it also of what a
  refresh may open later.
* `RunEvidenceProofs!CandidateStaysCurrent` and `EvidenceStaysIndependent`: independence
  needs that a task is only delegated while it has no acceptable candidate, so
  `EvidenceInv` proves both together; most operations are `Calm` (they move no task
  into or out of review).
* `RunEvidenceProofs!GrantsAreApproved`: from the grants together with `LinksAreGrants`
  (requests cite only approvals about capabilities), because a decided approval is
  never decided again and supersession reaches approvals about tasks only.
  `AcceptedDeveloperWorkIsReviewed` is inductive given `AcceptedInv`.
* `WorkerPoolProofs!QueueTypeCorrect`, `AtMostOneActiveJob`, `ProjectHasOneOwner` and
  `RecoveryStaysCapped`: the type invariant and the three invariants of the queue, from
  `QueueInv`, which is inductive as a whole: the recovery cap needs that a run has
  one active job, so that a reaping adds at most one recovery to it, and that jobs are
  numbered in order, so that what operators requeue later is not among those before it.
  `OutcomesAreFinal` is the action property, from the same invariant.
* `WorkerPoolProofs!PoolTypeCorrect`. The type invariant is not inductive:
  `Accepts` adds one to `done`, so `ChainUnfinished` (work in hand belongs to a task
  of the chain that is not accepted yet) goes with it.
* `WorkerPoolProofs!PoolImplementsQueue`: every step of the pool is a step of
  `JobQueue` or leaves its variables alone, whatever a worker that lost its job still
  does. So the queue's invariants hold in the pool; `PoolHasOneActiveJob` is the one
  the next two need.
* `WorkerPoolProofs!ClosedRunStaysQuiet`: `ClosedRunIsQuiet` by itself is inductive,
  because the kernel's transaction looks at the run again and a closed run refuses
  everything.
* `WorkerPoolProofs!OwnedWorkStaysUndisturbed`: `~Stalls /\ PoolSpec => []OwnedWorkIsUndisturbed`.
  The strengthening says that a slot in the middle of a job owns it (`Leased`: an attended
  lease does not lapse, and only lapsed jobs are reaped) and that two such slots have
  different jobs (`OneSlotPerJob`), hence different runs. `~Stalls` is essential:
  `zombie.cfg` is the same property without it.
* `WorkerPoolProofs!StopsStayRespected`, whatever stalls or crashes. Jobs are numbered in
  the order they are added, the active job of a run is its newest and a build's job its
  first (`JobsInOrder`). A recovery therefore replaces the newest job; if an older one was
  asked to stop, the newest is a recovery or a continuation, and the first of those after
  the stop was a continuation.
* `WorkerPoolProofs!NoAssignmentIsOrphaned`: with `~Stalls`, no stop among the requests, and
  a reaper that may replace every lapsed job (`[]RecoveriesSuffice`). `RunningIsMinded`:
  an assignment in flight has an active job, and either its driver awaits the answer or
  a recovery is on its way to it. `CrashesAreRecovered` replaces the last hypothesis by one
  on the constants, `MaxCrashes <= MaxRecoveries`: every recovery of a run was paid for by
  a crash (`LossesAreCounted`), and a crash takes all slots of its process
  (`DownTogether`). `CrashesOrphanNothing` is the two together, and `pool.cfg` meets its
  hypotheses. Each is essential: with a stop, a second crash or a stalled worker
  the property is false (section 4; `MaxCrashes = 2` with one recovery).
* `RunStoreProofs!StoreTypeCorrect`, and with it that a thread which loads, verifies or
  saves holds its process's lock.
* `RunStoreProofs!ReadersMeetOneState` and `StoreImplementsRunLog`, from `LogInv`: the
  snapshot is the log; a loaded copy with the row's version has the row's history, so
  a save that passes the version check was decided on the whole log; a verifying reader
  holds as many events as its copy's cursor says; a client's cursor is never ahead of
  what it was sent. The refinement is then one step of `RunLog` for `Saves` and `Erases` and
  a stutter for everything else.
* `RunStoreProofs!MigrationStaysSafe`, from `MigrationInv`: who is past opening has met
  schema 2, and what a process decided to do about the schema it read is refused or
  harmless if another has done it since.
* `RunStoreProofs!ConflictsAreForeign`: `ConflictInv` counts, for every operation, the
  commits of other processes since it began; an attempt is lost only to a new one, since
  the lock keeps the threads of its own process from saving meanwhile.
* `IntegrationProofs`, all six invariants of Integration, from one inductive invariant in
  two layers. `Protocol` holds whatever crashes, fails or stalls: a task is judged in one
  process, a candidate is one task's, the workspace the kernel names exists, a commit
  that was recorded, or is about to be, is on the branch, and a task's candidate stands on
  a head no older than those its dependencies were built on (`BasesAreInOrder`), which is
  why commits are recorded in order. The branch moves only by a compare-and-swap that
  extends it, so that a process that outlived its lease can spoil what the branch holds,
  never what was recorded. `Single` is what one process at a time adds (`stalls = 0`): its
  grants are those on disk, each stage of an attempt knows what its workspace holds
  (`AttemptsAgree`), submitted work stays as it was, and every worktree without a grant is
  being granted or was left by a fault (`OrphansAreFew`). Each layer is kept by every step
  given the one before; that is also why `BranchIsAccepted` and its neighbours name
  `stalls` where they do.
* `AccountDataProofs!RowsPointToWhatIs`: no process locks what a row points to, and the
  proof says why that is enough. A build whose row may still be inserted is young and
  named by its request only (`RequestsAgree`); what deliveries, maintenance and purges hold
  without a lock is a build whose request is past that (`HeldAreSettled`), and it never
  returns; what is about to be purged has no row and gets none (`PurgedIsLost`), because
  purge-orphans spares what is young and reads the rows first (`UnknownIsYoung`).
* `AccountDataProofs!OrphansArePurged`, from the same invariant and `LostIsFound`: at
  each stage of a purge, what is lost and still there is in the list of what remains
  to be removed.
* `SpendingProofs!SpendingBounded` and `BuildsBounded`. For a run, what was recorded is
  counted with what the calls in flight may cost (`RunInv`): a call is made while less than
  the ceiling was recorded, and no more are in flight than the workers at the run make at
  once, which is one worker unless one outlived its lease (`LeaseInv`: whoever works on a
  run that never lost a worker holds its job). For the account, each worker carries what it
  may still add (`ToCome`), so that a call only moves from one to the other and a job that
  starts adds no more than the account had left; the sum over workers is at most once the
  ceiling and its overshoot for each. The sums are cardinalities of finite sets of
  rows (`RowsAreFinite`, `TotalOfASum`), which needs finitely many runs and workers.
  `BuildsInv` counts, besides the builds that were counted, those that requests which found
  room are about to start.
* `AcceptedWorkProofs!BuildIsConsistent`: `WorkSpec => []ConsistentBuild`, the promise a
  reader of the abstract specification wants to hear: each accepted artifact was
  built from exactly the artifacts that are accepted now.

The assumptions are the named ASSUMEs of the modules: the packet is a function on
tasks, developer tasks have checks and a review (which `_validate_capability_checks`
and `accept` enforce), approval ids are not the null value and
those about capabilities are not those about tasks, budgets are natural
numbers and at least one attempt is allowed; runs belong to projects, job ids are
numbers and there is at least one, nobody is called `"nobody"`; slots belong to
workers, and a chain has at least one task and an attempt for each. The store's: every
actor has a process and a kind of operation, each kind is tried at least once, schemas
are 0, 1 or 2, no client is both a stream and a page, and nobody is called `Free`.
Integration's: edits are positive numbers (zero is no edit), dependencies name tasks,
bounds are natural numbers, and `None` is no candidate, process or commit. AccountData's:
bounds are natural numbers and `None` is no build or project. Spending's: budgets and
limits are numbers, there is at least one worker, lane and build, a call may cost
something (`MaxPrice`), runs, requests and workers are finitely many, and `None` is none
of them.

Every safety property a run checks is proved, three of them under the hypotheses above
(`ReadyHasBudget`, `OwnedWorkIsUndisturbed`, `NoOrphanAssignment`). Only model-checked are
`JobsEnd` and `AssignmentsEnd`: liveness under fairness and ENABLED are out of the
prover's reach. So are recursive definitions, of which there are none.

## 6. Plan

In order of importance:

1. The workflow driver over a whole graph: that every drive ends, under weak fairness
   of the driver's own steps. `WorkerPool` shows it for a chain.
2. Spending and AccountData against abstract specifications of their own: a meter that
   admits a call while something is left, and a table whose rows and files change together.
3. The rest of the kernel: legacy gates, registered inputs, completion criteria.
4. Publications with their names, and leases of maintenance that lapse.

Not modelled:

* Parsing, rendering, configuration, prompts and projections for display
  (`contracts.py`, `readiness.py`, `runtime.py`, most of `views.py`): functions of what
  they read, without an ordering worth checking.
* Process isolation (`sandbox.py`'s bubblewrap arguments and path checks,
  `sandbox_e2b.py`): what a sandbox confines is a property of the host, not of a state
  machine.
* Signatures and digests: equality of what they are taken of stands for them.
* The web front end, deployment, evals and scripts; the importer and the migration
  tools, which run once and alone; the command lines; `scripted.py`, which stands in for
  a model provider in tests.
