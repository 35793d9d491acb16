------------------------------ MODULE JobQueue ------------------------------
(***************************************************************************)
(* The jobs and project_leases tables of cavman/platform_store.py.         *)
(*                                                                         *)
(* Every operation is one BEGIN IMMEDIATE transaction (_write), so each is *)
(* one atomic action; the processes that call them (API requests, worker   *)
(* slots, the maintenance pass) interleave in any order.  Nothing is known *)
(* of a clock but whether a lease has expired: lapsed[j] stands for        *)
(* lease_expires < now, leaseLapsed[p] for expires < now, and time passes  *)
(* in the two Lapse actions.                                               *)
(***************************************************************************)
EXTENDS Integers, FiniteSets

CONSTANTS
    Runs, Projects,
    ProjectOf,      \* [Runs -> Projects]
    Jobs,           \* job ids in creation order: 1..n
    Workers,        \* worker ids that claim jobs
    Holders,        \* holders of project leases: delivery requests, maintenance passes
    MaxRecoveries   \* settings.max_recoveries

Nobody == "nobody"

ASSUME RunsAssumption      == Runs # {}
ASSUME ProjectOfAssumption == ProjectOf \in [Runs -> Projects]
ASSUME JobsAssumption      == Jobs \subseteq Nat
ASSUME NobodyAssumption    == Nobody \notin Workers \cup Holders
ASSUME RecoveryAssumption  == MaxRecoveries \in Nat

VARIABLES
    state,          \* jobs.status, "absent" before the row exists
    runOf,          \* jobs.run_id
    kind,           \* jobs.kind; "requeued" is a recover row an operator queued
    owner,          \* jobs.lease_owner
    lapsed,         \* jobs.lease_expires < now, of a running job
    cancel,         \* jobs.cancel_requested
    lease,          \* project_leases.holder, Nobody without a row
    leaseLapsed     \* project_leases.expires < now

jobVars == <<state, runOf, kind, owner, lapsed, cancel>>
leaseVars == <<lease, leaseLapsed>>
queueVars == <<jobVars, leaseVars>>

Kinds == {"start", "continue", "recover", "requeued"}
Terminal == {"succeeded", "failed", "cancelled"}

Created == {j \in Jobs : state[j] # "absent"}
Active == {j \in Jobs : state[j] \in {"queued", "running"}}
Running == {j \in Jobs : state[j] = "running"}
Project(j) == ProjectOf[runOf[j]]
\* The rows of kind recover, which nothing but kind here tells apart.
Recoveries(r) == {j \in Created : runOf[j] = r /\ kind[j] \in {"recover", "requeued"}}
HeldProjects == {p \in Projects : lease[p] # Nobody /\ ~leaseLapsed[p]}
BusyProjects == {Project(j) : j \in Running}

\* The rows' columns, and the pairing of status and lease that claim, finish
\* and reap_expired keep: exactly the running jobs have a lease owner.
QueueTypeOK ==
    /\ state \in [Jobs -> {"absent", "queued", "running"} \cup Terminal]
    /\ runOf \in [Jobs -> Runs]
    /\ kind \in [Jobs -> Kinds]
    /\ owner \in [Jobs -> Workers \cup {Nobody}]
    /\ lapsed \in [Jobs -> BOOLEAN] /\ \A j \in Jobs : lapsed[j] => state[j] = "running"
    /\ cancel \in [Jobs -> BOOLEAN]
    /\ lease \in [Projects -> Holders \cup {Nobody}]
    /\ leaseLapsed \in [Projects -> BOOLEAN]
    /\ \A j \in Jobs : state[j] = "running" <=> owner[j] # Nobody

QueueInit ==
    /\ state = [j \in Jobs |-> "absent"]
    /\ runOf = [j \in Jobs |-> CHOOSE r \in Runs : TRUE]
    /\ kind = [j \in Jobs |-> "start"]
    /\ owner = [j \in Jobs |-> Nobody]
    /\ lapsed = [j \in Jobs |-> FALSE]
    /\ cancel = [j \in Jobs |-> FALSE]
    /\ lease = [p \in Projects |-> Nobody]
    /\ leaseLapsed = [p \in Projects |-> FALSE]

-----------------------------------------------------------------------------
\* ids are the next job ids: unused, and no smaller one stays unused.
NextIds(ids) ==
    /\ ids \subseteq Jobs \ Created
    /\ \A j \in ids, k \in Jobs : k < j => k \in Created \cup ids

HasActiveJob_QueuedOnly(r) == \E j \in Jobs : state[j] = "queued" /\ runOf[j] = r  \* slip
HasActiveJob(r) == \E j \in Active : runOf[j] = r

\* enqueue: no-op, returning the active job, when the run already has one.  It
\* takes any kind and looks at no cap: `cavman ops requeue` asks for a recovery.
Enqueue(r, k) ==
    /\ ~HasActiveJob(r)
    /\ \E j \in Jobs :
          /\ NextIds({j})
          /\ state' = [state EXCEPT ![j] = "queued"]
          /\ runOf' = [runOf EXCEPT ![j] = r]
          /\ kind' = [kind EXCEPT ![j] = k]
    /\ UNCHANGED <<owner, lapsed, cancel, leaseVars>>

Claimable_IgnoresLeases(j) ==  \* slip
    state[j] = "queued" /\ Project(j) \notin BusyProjects
Claimable(j) == state[j] = "queued" /\ Project(j) \notin BusyProjects \cup HeldProjects

\* claim: lease the oldest queued job whose project is free.
Claim(w) ==
    \E j \in Jobs :
        /\ Claimable(j)
        /\ \A k \in Jobs : Claimable(k) => j <= k
        /\ state' = [state EXCEPT ![j] = "running"]
        /\ owner' = [owner EXCEPT ![j] = w]
        /\ lapsed' = [lapsed EXCEPT ![j] = FALSE]
        /\ UNCHANGED <<runOf, kind, cancel, leaseVars>>

\* Worker w still owns job j: the condition of heartbeat and of finish.
OwnsJob_ById(w, j) == j \in Created  \* slip
OwnsJob(w, j) == owner[j] = w /\ state[j] = "running"

\* heartbeat, when the lease still holds: extended, expired or not.
Extend(w, j) ==
    /\ OwnsJob(w, j)
    /\ lapsed' = [lapsed EXCEPT ![j] = FALSE]
    /\ UNCHANGED <<state, runOf, kind, owner, cancel, leaseVars>>

\* What heartbeat tells the worker: stop, for a cancellation or a lost lease.
MustStop(w, j) == ~OwnsJob(w, j) \/ cancel[j]

\* finish: the update applies only to a job the worker still owns.
Finish(w, j, s) ==
    /\ OwnsJob(w, j)
    /\ state' = [state EXCEPT ![j] = s]
    /\ owner' = [owner EXCEPT ![j] = Nobody]
    /\ lapsed' = [lapsed EXCEPT ![j] = FALSE]
    /\ UNCHANGED <<runOf, kind, cancel, leaseVars>>

\* The expired jobs reap_expired replaces by an explicit recovery job.
Recovered_Always(expired) == expired  \* slip
Recovered(expired) ==
    {j \in expired : Cardinality(Recoveries(runOf[j])) < MaxRecoveries /\ ~cancel[j]}

\* reap_expired: every expired running job fails in one transaction.  new
\* numbers the recovery jobs in the order of the rows they replace.
Reap ==
    LET expired == {j \in Running : lapsed[j]}
        replaced == Recovered(expired)
    IN  /\ expired # {}
        /\ \E new \in [replaced -> Jobs \ Created] :
              LET ids == {new[j] : j \in replaced}
                  source(i) == CHOOSE j \in replaced : new[j] = i
              IN  /\ \A j, k \in replaced : j < k => new[j] < new[k]
                  /\ NextIds(ids)
                  /\ state' = [j \in Jobs |-> CASE j \in expired -> "failed"
                                                [] j \in ids     -> "queued"
                                                [] OTHER         -> state[j]]
                  /\ runOf' = [j \in Jobs |-> IF j \in ids THEN runOf[source(j)] ELSE runOf[j]]
                  /\ kind' = [j \in Jobs |-> IF j \in ids THEN "recover" ELSE kind[j]]
        /\ owner' = [j \in Jobs |-> IF j \in expired THEN Nobody ELSE owner[j]]
        /\ lapsed' = [j \in Jobs |-> j \notin expired /\ lapsed[j]]
        /\ UNCHANGED <<cancel, leaseVars>>

\* request_cancel: a queued job ends at once, a running one is asked to stop.
RequestCancel(r) ==
    \E j \in Active :
        /\ runOf[j] = r
        /\ IF state[j] = "queued"
           THEN state' = [state EXCEPT ![j] = "cancelled"] /\ UNCHANGED cancel
           ELSE cancel' = [cancel EXCEPT ![j] = TRUE] /\ UNCHANGED state
        /\ UNCHANGED <<runOf, kind, owner, lapsed, leaseVars>>

-----------------------------------------------------------------------------
\* acquire_project: refused while one of the project's jobs runs or another
\* holder's lease is current.
AcquireProject(p, h) ==
    /\ p \notin BusyProjects
    /\ p \in HeldProjects => lease[p] = h
    /\ lease' = [lease EXCEPT ![p] = h]
    /\ leaseLapsed' = [leaseLapsed EXCEPT ![p] = FALSE]
    /\ UNCHANGED jobVars

ReleaseProject(p, h) ==
    /\ lease[p] = h
    /\ lease' = [lease EXCEPT ![p] = Nobody]
    /\ leaseLapsed' = [leaseLapsed EXCEPT ![p] = FALSE]
    /\ UNCHANGED jobVars

\* Time passes a lease's expiry.
JobLeaseLapses(j) ==
    /\ j \in Running /\ ~lapsed[j]
    /\ lapsed' = [lapsed EXCEPT ![j] = TRUE]
    /\ UNCHANGED <<state, runOf, kind, owner, cancel, leaseVars>>

ProjectLeaseLapses(p) ==
    /\ p \in HeldProjects
    /\ leaseLapsed' = [leaseLapsed EXCEPT ![p] = TRUE]
    /\ UNCHANGED <<jobVars, lease>>

QueueNext ==
    \/ \E r \in Runs, k \in {"start", "continue", "requeued"} : Enqueue(r, k)
    \/ \E w \in Workers : Claim(w)
    \/ \E w \in Workers, j \in Jobs : Extend(w, j)
    \/ \E w \in Workers, j \in Jobs, s \in Terminal : Finish(w, j, s)
    \/ Reap
    \/ \E r \in Runs : RequestCancel(r)
    \/ \E p \in Projects, h \in Holders : AcquireProject(p, h) \/ ReleaseProject(p, h)
    \/ \E j \in Jobs : JobLeaseLapses(j)
    \/ \E p \in Projects : ProjectLeaseLapses(p)

QueueSpec == QueueInit /\ [][QueueNext]_queueVars

-----------------------------------------------------------------------------
(* Safety.                                                                 *)

\* enqueue: at most one job per run is ever queued or running, whatever
\* requests, reaping and late finishes interleave.
OneActiveJobPerRun == \A i, j \in Active : runOf[i] = runOf[j] => i = j

\* claim and acquire_project: a project's sandbox state is owned by one job at
\* a time, and by no job while somebody else's lease on the project is current.
OneOwnerPerProject ==
    /\ \A i, j \in Running : Project(i) = Project(j) => i = j
    /\ BusyProjects \cap HeldProjects = {}

\* reap_expired: a run cannot loop forever.  However operators requeue it in
\* between, it is never recovered automatically once it was recovered as often
\* as the cap allows, by the reaper or by an operator.
RecoveryIsCapped ==
    \A j \in Created : kind[j] = "recover" =>
        Cardinality({i \in Recoveries(runOf[j]) : i < j}) < MaxRecoveries

\* A job that ended keeps its outcome: a worker that lost its lease cannot
\* overwrite what the reaper, a cancellation or its successor recorded.
OutcomeIsFinal ==
    [][\A j \in Jobs : state[j] \in Terminal => state'[j] = state[j] /\ runOf'[j] = runOf[j]]_queueVars
==============================================================================
