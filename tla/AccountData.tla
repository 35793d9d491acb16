----------------------------- MODULE AccountData -----------------------------
(***************************************************************************)
(* What cavman holds for an account, from the request that creates it to   *)
(* its erasure: the rows of the platform database (cavman/                 *)
(* platform_store.py) and what they point to, which no transaction covers: *)
(* kernel runs, conversation sessions, repositories, their worktrees and   *)
(* archives.  Requests of cavman/api.py, a worker, the delivery, the       *)
(* maintenance pass, the erasure of the account and `cavman ops            *)
(* purge-orphans` work on them at once, and any of them may die.           *)
(*                                                                         *)
(* One account and one worker slot; the queue's own races are in JobQueue  *)
(* and WorkerPool.  A lease of the API or of the maintenance pass does not *)
(* run out here.                                                           *)
(***************************************************************************)
EXTENDS Naturals, FiniteSets

CONSTANTS
    Builds,     \* run ids, each created by a request of its own
    Projects,
    MaxFaults,  \* bound: processes that die, workers that outlive their lease
    MaxBegun,   \* bound: erasures, purges and maintenance passes
    None

ASSUME BoundsAssumption == MaxFaults \in Nat /\ MaxBegun \in Nat
ASSUME NoneAssumption == None \notin Builds \cup Projects

VARIABLES
    projects, runs, job, delivery, retired, lease,      \* rows of the platform
    kernel, sessions, repos, archives,  \* what is outside of it
    cleared,    \* runs whose worktrees retire_run has removed
    young,      \* what was written less than purge-orphans' minimum age ago
    stage, home,    \* where the request of each build is, and its project
    at, on,     \* where the worker and the API's delivery are, on which build
    care,       \* the maintenance pass
    sweep,      \* _purge: of the erasure and of purge-orphans
    lost,       \* history: what no row owned when purge-orphans began
    faults, begun   \* processes lost; erasures, purges and passes begun

records == <<projects, runs, job, delivery, retired, lease>>
files == <<kernel, sessions, repos, cleared, archives>>
requestVars == <<stage, home>>
deliveryVars == <<at, on>>
sweepVars == <<sweep, lost>>
counters == <<faults, begun>>
others == <<care, sweepVars, counters>>
vars == <<records, files, young, requestVars, deliveryVars, others>>

Deliverers == {"worker", "api"}
Sweepers == {"erasure", "operator"}
Busy == {"queued", "running"}

KernelRun(b) == <<"run", b>>
Repository(p) == <<"repo", p>>
Archive(b) == <<"archive", b>>

\* What is there, and which of it a row of the platform still owns.
Present == {KernelRun(b) : b \in {x \in Builds : kernel[x] # "none"}}
    \cup {Repository(p) : p \in repos} \cup {Archive(b) : b \in archives}
Owned == {KernelRun(b) : b \in runs} \cup {Repository(p) : p \in projects}
    \cup {Archive(b) : b \in runs}

NoSweep == [at |-> "off", runs |-> {}, projects |-> {}, archives |-> {}]
NoCare == [at |-> "off", runs |-> {}, project |-> None]

Init ==
    /\ projects = {} /\ runs = {} /\ retired = {}
    /\ job = [b \in Builds |-> "none"]
    /\ delivery = [b \in Builds |-> "none"]
    /\ lease = [p \in Projects |-> "free"]
    /\ kernel = [b \in Builds |-> "none"]
    /\ sessions = {} /\ repos = {} /\ cleared = {} /\ archives = {} /\ young = {}
    /\ stage = [b \in Builds |-> "new"]
    /\ home = [b \in Builds |-> None]
    /\ at = [d \in Deliverers |-> "idle"]
    /\ on = [d \in Deliverers |-> None]
    /\ care = NoCare
    /\ sweep = [s \in Sweepers |-> NoSweep]
    /\ lost = {} /\ faults = 0 /\ begun = 0
-----------------------------------------------------------------------------
(* Requests: create_build, create_project, continue_run, abandon_run.      *)

Advances(b, to) == stage' = [stage EXCEPT ![b] = to]

\* A new project's repository comes first; an existing project is looked up.
Begins(b) ==
    /\ stage[b] = "new"
    /\ \E p \in Projects :
        /\ home' = [home EXCEPT ![b] = p]
        /\ \/ /\ \A other \in Builds : home[other] # p
              /\ repos' = repos \cup {p} /\ young' = young \cup {Repository(p)}
              /\ Advances(b, "repo")
           \/ p \in projects /\ Advances(b, "project") /\ UNCHANGED <<repos, young>>
    /\ UNCHANGED <<records, kernel, sessions, cleared, archives, deliveryVars, others>>

\* The insert fails only with the process; the request of a project ends here.
CreatesProject(b) ==
    /\ stage[b] = "repo"
    /\ projects' = projects \cup {home[b]}
    /\ stage' \in {[stage EXCEPT ![b] = to] : to \in {"project", "ended"}}
    /\ UNCHANGED <<runs, job, delivery, retired, lease, files, young, home, deliveryVars, others>>

\* engine.create_run.
CreatesKernelRun(b) ==
    /\ stage[b] = "project"
    /\ kernel' = [kernel EXCEPT ![b] = "active"]
    /\ young' = young \cup {KernelRun(b)}
    /\ Advances(b, "kernel")
    /\ UNCHANGED <<records, sessions, repos, cleared, archives, home, deliveryVars, others>>

\* platform.create_run refuses a project that is gone.
CreatesRun(b) ==
    /\ stage[b] = "kernel"
    /\ IF home[b] \in projects
       THEN runs' = runs \cup {b} /\ Advances(b, "run")
       ELSE UNCHANGED runs /\ Advances(b, "ended")
    /\ UNCHANGED <<projects, job, delivery, retired, lease, files, young, home, deliveryVars,
                   others>>

\* enqueue: the row of a job refers to that of its run.
Enqueues(b) ==
    /\ b \in runs /\ job[b] = "none"
    /\ \/ stage[b] = "run" /\ Advances(b, "ended")
       \/ stage[b] = "ended" /\ kernel[b] = "active" /\ UNCHANGED stage
    /\ job' = [job EXCEPT ![b] = "queued"]
    /\ UNCHANGED <<projects, runs, delivery, retired, lease, files, young, home, deliveryVars,
                   others>>

Misses(b) ==
    /\ stage[b] = "run" /\ b \notin runs
    /\ Advances(b, "ended")
    /\ UNCHANGED <<records, files, young, home, deliveryVars, others>>

Abandons(b) ==
    /\ b \in runs /\ job[b] = "none" /\ kernel[b] = "active"
    /\ kernel' = [kernel EXCEPT ![b] = "abandoned"]
    /\ UNCHANGED <<records, sessions, repos, cleared, archives, young, requestVars, deliveryVars,
                   others>>

\* The process that serves the request dies.
Dies(b) ==
    /\ stage[b] \in {"repo", "project", "kernel", "run"}
    /\ faults < MaxFaults /\ faults' = faults + 1
    /\ Advances(b, "ended")
    /\ UNCHANGED <<records, files, young, home, deliveryVars, care, sweepVars, begun>>
-----------------------------------------------------------------------------
(* The worker, and the delivery it and the API assemble.                   *)

Goes(d, to) == at' = [at EXCEPT ![d] = to]
Rests(d) == at' = [at EXCEPT ![d] = "idle"] /\ on' = [on EXCEPT ![d] = None]

Works(p) == \E b \in runs : home[b] = p /\ job[b] = "running"

Claims(b) ==
    /\ at["worker"] = "idle" /\ job[b] = "queued"
    /\ lease[home[b]] = "free" /\ ~Works(home[b])
    /\ job' = [job EXCEPT ![b] = "running"]
    /\ sessions' = sessions \cup {b}
    /\ Goes("worker", "working") /\ on' = [on EXCEPT !["worker"] = b]
    /\ UNCHANGED <<projects, runs, delivery, retired, lease, kernel, repos, cleared, archives,
                   young, requestVars, others>>

\* Its turns are kept in a session, whatever became of the run.
Converses ==
    /\ at["worker"] = "working"
    /\ sessions' = sessions \cup {on["worker"]}
    /\ UNCHANGED <<records, kernel, repos, cleared, archives, young, requestVars, deliveryVars,
                   others>>

Completes ==
    /\ at["worker"] = "working" /\ kernel[on["worker"]] = "active"
    /\ kernel' = [kernel EXCEPT ![on["worker"]] = "completed"]
    /\ UNCHANGED <<records, sessions, repos, cleared, archives, young, requestVars, deliveryVars,
                   others>>

\* The job ends, whatever the run came to, before the delivery is assembled.
Finishes ==
    /\ at["worker"] = "working"
    /\ job' = [job EXCEPT ![on["worker"]] = IF @ = "running" THEN "none" ELSE @]
    /\ Goes("worker", "delivering")
    /\ UNCHANGED <<projects, runs, delivery, retired, lease, files, young, requestVars, on, others>>

\* The worker misses its heartbeats: the job is queued again and it works on.
Reaps(b) ==
    /\ job[b] = "running" /\ faults < MaxFaults /\ faults' = faults + 1
    /\ job' = [job EXCEPT ![b] = "queued"]
    /\ UNCHANGED <<projects, runs, delivery, retired, lease, files, young, requestVars,
                   deliveryVars, care, sweepVars, begun>>

\* assemble_delivery holds the project while it delivers.
Asks(b) ==
    /\ at["api"] = "idle"
    /\ b \in runs /\ kernel[b] = "completed" /\ delivery[b] # "ready"
    /\ lease[home[b]] = "free" /\ ~Works(home[b])
    /\ lease' = [lease EXCEPT ![home[b]] = "api"]
    /\ Goes("api", "delivering") /\ on' = [on EXCEPT !["api"] = b]
    /\ UNCHANGED <<projects, runs, job, delivery, retired, files, young, requestVars, others>>

\* release_project deletes only what its caller holds.
Frees(d) ==
    lease' = [p \in Projects |-> IF lease[p] = d THEN "free" ELSE lease[p]]

Wanted(d, b) ==
    /\ delivery[b] = "none" \/ (delivery[b] = "failed" /\ d = "api")
    /\ kernel[b] = "completed" /\ b \in runs

\* deliver_run: the delivery and the run are read, then the archive is written;
\* nothing to do, a run that is gone, or one that is not complete end it.
Looks(d) ==
    /\ at[d] = "delivering"
    /\ IF Wanted(d, on[d])
       THEN Goes(d, "assembling") /\ UNCHANGED <<on, lease>>
       ELSE Rests(d) /\ Frees(d)
    /\ UNCHANGED <<projects, runs, job, delivery, retired, files, young, requestVars, others>>

\* assemble: the archive is replaced as a whole, or there is an error.
Assembles(d) ==
    /\ at[d] = "assembling"
    /\ \/ /\ home[on[d]] \in repos
          /\ archives' = archives \cup {on[d]} /\ young' = young \cup {Archive(on[d])}
          /\ lost' = lost \ {Archive(on[d])}
          /\ Goes(d, "ready")
       \/ Goes(d, "failed") /\ UNCHANGED <<archives, young, lost>>
    /\ UNCHANGED <<records, kernel, sessions, repos, cleared, requestVars, on, care, sweep,
                   counters>>

\* save_delivery: the row refers to that of its run.
Saves(d) ==
    /\ at[d] \in {"ready", "failed"}
    /\ delivery' = [delivery EXCEPT ![on[d]] = IF on[d] \in runs THEN at[d] ELSE @]
    /\ Rests(d) /\ Frees(d)
    /\ UNCHANGED <<projects, runs, job, retired, files, young, requestVars, others>>

\* A process dies; the lease of a job or of a request outlives it and expires.
Stops(d) ==
    /\ at[d] # "idle" /\ faults < MaxFaults /\ faults' = faults + 1
    /\ Rests(d) /\ Frees(d)
    /\ job' = [b \in Builds |->
            IF d = "worker" /\ b = on[d] /\ job[b] = "running" THEN "queued" ELSE job[b]]
    /\ UNCHANGED <<projects, runs, delivery, retired, files, young, requestVars, care, sweepVars,
                   begun>>
-----------------------------------------------------------------------------
(* The maintenance pass.                                                   *)

Starts == begun < MaxBegun /\ begun' = begun + 1

\* unretired_runs.
Lists ==
    /\ care.at = "off" /\ Starts
    /\ care' = [NoCare EXCEPT !.at = "sorting",
                              !.runs = {b \in runs \ retired : job[b] \notin Busy}]
    /\ UNCHANGED <<records, files, young, requestVars, deliveryVars, sweepVars, faults>>

\* _finished.
Finished(b) ==
    \/ kernel[b] = "completed" /\ delivery[b] = "ready"
    \/ kernel[b] = "abandoned"

\* A run whose kernel record is gone by now is only marked.
Sorts ==
    /\ care.at = "sorting"
    /\ retired' = retired \cup {b \in care.runs : kernel[b] = "none"}
    /\ care' = [care EXCEPT !.at = "choosing", !.runs = {b \in care.runs : Finished(b)}]
    /\ UNCHANGED <<projects, runs, job, delivery, lease, files, young, requestVars, deliveryVars,
                   sweepVars, counters>>

\* acquire_project, for each project that still has a repository.
Holds ==
    /\ care.at = "choosing" /\ care.runs # {}
    /\ \E b \in care.runs :
        LET p == home[b] IN
        IF p \in repos /\ lease[p] = "free" /\ ~Works(p)
        THEN /\ lease' = [lease EXCEPT ![p] = "maintenance"]
             /\ care' = [care EXCEPT !.at = "retiring", !.project = p]
        ELSE /\ care' = [care EXCEPT !.runs = {x \in @ : home[x] # p}]
             /\ UNCHANGED lease
    /\ UNCHANGED <<projects, runs, job, delivery, retired, files, young, requestVars,
                   deliveryVars, sweepVars, counters>>

\* retire_run, then mark_retired; a repository that is gone ends the project.
Retires ==
    /\ care.at = "retiring"
    /\ LET mine == {b \in care.runs : home[b] = care.project} IN
       IF mine = {} \/ care.project \notin repos
       THEN /\ care' = [care EXCEPT !.at = "choosing", !.runs = @ \ mine, !.project = None]
            /\ Frees("maintenance")
            /\ UNCHANGED <<retired, cleared>>
       ELSE /\ \E b \in mine :
                IF b \notin cleared
                THEN cleared' = cleared \cup {b} /\ UNCHANGED <<care, retired>>
                ELSE /\ retired' = retired \cup {b}
                     /\ care' = [care EXCEPT !.runs = @ \ {b}]
                     /\ UNCHANGED cleared
            /\ UNCHANGED lease
    /\ UNCHANGED <<projects, runs, job, delivery, kernel, sessions, repos, archives, young,
                   requestVars, deliveryVars, sweepVars, counters>>

Passes ==
    /\ care.at = "choosing" /\ care.runs = {}
    /\ care' = NoCare
    /\ UNCHANGED <<records, files, young, requestVars, deliveryVars, sweepVars, counters>>
-----------------------------------------------------------------------------
(* Erasure and purge-orphans, and what they have in common: _purge.        *)

Sweeps(s, with) == sweep' = [sweep EXCEPT ![s] = with]

\* delete_owner: one transaction, refused while a job runs.
Erases ==
    /\ sweep["erasure"].at = "off" /\ Starts
    /\ \A b \in runs : job[b] # "running"
    /\ Sweeps("erasure", [at |-> "runs", runs |-> runs, projects |-> projects, archives |-> {}])
    /\ projects' = {} /\ runs' = {} /\ retired' = retired \ runs
    /\ job' = [b \in Builds |-> IF b \in runs THEN "none" ELSE job[b]]
    /\ delivery' = [b \in Builds |-> IF b \in runs THEN "none" ELSE delivery[b]]
    /\ lease' = [p \in Projects |-> IF p \in projects THEN "free" ELSE lease[p]]
    /\ UNCHANGED <<files, young, requestVars, deliveryVars, care, lost, faults>>

\* purge_orphans: the cutoff, then known_ids.
Reads ==
    /\ sweep["operator"].at = "off" /\ Starts
    /\ Sweeps("operator", [at |-> "scanning", runs |-> runs, projects |-> projects, archives |-> {}])
    /\ lost' = Present \ (Owned \cup young)
    /\ UNCHANGED <<records, files, young, requestVars, deliveryVars, care, faults>>

Old_AtOnce(thing) == TRUE  \* slip

Old(thing) == thing \notin young

\* What is old and was not known.
Scans ==
    LET known == sweep["operator"] IN
    /\ known.at = "scanning"
    /\ Sweeps("operator",
        [at |-> "runs",
         runs |-> {b \in Builds \ known.runs : kernel[b] # "none" /\ Old(KernelRun(b))},
         projects |-> {p \in repos \ known.projects : Old(Repository(p))},
         archives |-> {b \in archives \ known.runs : Old(Archive(b))}])
    /\ UNCHANGED <<records, files, young, requestVars, deliveryVars, care, lost, counters>>

\* The runs, their sessions, their archives, the repositories, one by one.
PurgesRun(s) ==
    /\ sweep[s].at = "runs"
    /\ IF \E b \in sweep[s].runs : kernel[b] # "none"
       THEN /\ \E b \in sweep[s].runs :
                kernel[b] # "none" /\ kernel' = [kernel EXCEPT ![b] = "none"]
            /\ UNCHANGED sweep
       ELSE Sweeps(s, [sweep[s] EXCEPT !.at = "sessions"]) /\ UNCHANGED kernel
    /\ UNCHANGED <<records, sessions, repos, cleared, archives, young, requestVars, deliveryVars,
                   care, lost, counters>>

PurgesSessions(s) ==
    /\ sweep[s].at = "sessions"
    /\ sessions' = sessions \ sweep[s].runs
    /\ Sweeps(s, [sweep[s] EXCEPT !.at = "archives"])
    /\ UNCHANGED <<records, kernel, repos, cleared, archives, young, requestVars, deliveryVars,
                   care, lost, counters>>

Doomed_RunsOnly(s) == sweep[s].runs  \* slip

\* An archive may have no kernel run left to be found by.
Doomed(s) == sweep[s].runs \cup sweep[s].archives

PurgesArchives(s) ==
    /\ sweep[s].at = "archives"
    /\ archives' = archives \ Doomed(s)
    /\ Sweeps(s, [sweep[s] EXCEPT !.at = "repos"])
    /\ UNCHANGED <<records, kernel, sessions, repos, cleared, young, requestVars, deliveryVars,
                   care, lost, counters>>

PurgesRepositories(s) ==
    /\ sweep[s].at = "repos"
    /\ repos' = repos \ sweep[s].projects
    /\ Sweeps(s, NoSweep)
    /\ UNCHANGED <<records, kernel, sessions, cleared, archives, young, requestVars,
                   deliveryVars, care, lost, counters>>

\* The process that purges dies, and what it removed stays removed.
Halts(s) ==
    /\ sweep[s].at \notin {"off", "scanning"}
    /\ faults < MaxFaults /\ faults' = faults + 1
    /\ Sweeps(s, NoSweep) /\ lost' = {}
    /\ UNCHANGED <<records, files, young, requestVars, deliveryVars, care, begun>>

\* An hour passes.  A request, a delivery or a purge takes less: purge_orphans
\* relies on it ("a build being created has its repository and kernel run for a
\* moment before its platform records").
Ages ==
    /\ young # {} /\ young' = {}
    /\ \A b \in Builds : stage[b] \in {"new", "ended"}
    /\ \A d \in Deliverers : at[d] \in {"idle", "working"}
    /\ \A s \in Sweepers : sweep[s].at = "off"
    /\ UNCHANGED <<records, files, requestVars, deliveryVars, others>>

Next ==
    \/ \E b \in Builds :
        \/ Begins(b) \/ CreatesProject(b) \/ CreatesKernelRun(b) \/ CreatesRun(b)
        \/ Enqueues(b) \/ Misses(b) \/ Abandons(b) \/ Dies(b)
        \/ Claims(b) \/ Reaps(b) \/ Asks(b)
    \/ Converses \/ Completes \/ Finishes
    \/ \E d \in Deliverers : Looks(d) \/ Assembles(d) \/ Saves(d) \/ Stops(d)
    \/ Lists \/ Sorts \/ Holds \/ Retires \/ Passes
    \/ Erases \/ Reads \/ Scans
    \/ \E s \in Sweepers :
        \/ PurgesRun(s) \/ PurgesSessions(s) \/ PurgesArchives(s)
        \/ PurgesRepositories(s) \/ Halts(s)
    \/ Ages

Spec == Init /\ [][Next]_vars
-----------------------------------------------------------------------------
\* No row points to what is not there, although nothing but the order of the
\* steps keeps the platform and the disk together: a run has its kernel run, its
\* project and its repository, a delivery that is ready its archive, a job its
\* run; and worktrees are retired only from a run that can need them no more.
NothingDangles ==
    /\ \A b \in runs : kernel[b] # "none" /\ home[b] \in projects
    /\ projects \subseteq repos
    /\ \A b \in Builds :
        /\ delivery[b] = "ready" => b \in archives
        /\ job[b] # "none" \/ delivery[b] # "none" => b \in runs
        /\ b \in cleared \cap runs =>
            kernel[b] = "abandoned" \/ (kernel[b] = "completed" /\ b \in archives)

\* purge-orphans leaves nothing that no row owned when it began and was old then:
\* kernel run, repository or archive.
PurgeIsComplete == sweep["operator"].at = "off" => lost \cap Present = {}

\* delivery.py:224 "Assemble a completed run's archive once and record the outcome
\* durably": a delivery that is ready stays ready while its run exists.
DeliveryIsKept ==
    [][\A b \in Builds : delivery[b] = "ready" /\ b \in runs' => delivery'[b] = "ready"]_vars

\* erasure.py:6-9 "If the process stops part-way, ``cavman ops purge-orphans``
\* removes what is left": the sessions too.
SessionsArePurged ==
    lost # {} /\ (\A s \in Sweepers : sweep[s].at = "off") /\ at["worker"] = "idle" =>
        \A b \in sessions : b \in runs \/ kernel[b] # "none"
==============================================================================
