-------------------------- MODULE AccountDataProofs --------------------------
(***************************************************************************)
(* What the platform's rows point to is there, and what no row owns is     *)
(* purged, for any number of builds, projects, faults, erasures, purges    *)
(* and passes.                                                             *)
(*                                                                         *)
(* A build is settled once its row could be inserted: it never returns.    *)
(* Whatever holds on to a build without a lock (a delivery, a maintenance  *)
(* pass, a purge) holds a settled one, so that an erased run stays erased  *)
(* under it; and what a purge finds and no row owns is old, so that no     *)
(* request is about to insert its row.                                     *)
(***************************************************************************)
EXTENDS AccountData, TLAPS

Stages == {"new", "repo", "project", "kernel", "run", "ended"}
Kernels == {"none", "active", "completed", "abandoned"}
Purging == {"runs", "sessions", "archives", "repos"}

SweepRecord == [at : {"off", "scanning"} \cup Purging, runs : SUBSET Builds,
                projects : SUBSET Projects, archives : SUBSET Builds]
CareRecord == [at : {"off", "sorting", "choosing", "retiring"}, runs : SUBSET Builds,
               project : Projects \cup {None}]

RowType ==
    /\ projects \subseteq Projects /\ runs \subseteq Builds /\ retired \subseteq Builds
    /\ job \in [Builds -> {"none"} \cup Busy]
    /\ delivery \in [Builds -> {"none", "ready", "failed"}]
FileType ==
    /\ kernel \in [Builds -> Kernels] /\ repos \subseteq Projects
    /\ cleared \subseteq Builds /\ archives \subseteq Builds
RequestType == stage \in [Builds -> Stages] /\ home \in [Builds -> Projects \cup {None}]
DeliveryType ==
    /\ at \in [Deliverers -> {"idle", "working", "delivering", "assembling", "ready", "failed"}]
    /\ on \in [Deliverers -> Builds \cup {None}]
SweepType ==
    /\ sweep \in [Sweepers -> SweepRecord] /\ sweep["erasure"].at # "scanning"
    /\ \A s \in Sweepers : sweep[s].at = "off" => sweep[s] = NoSweep
    /\ care \in CareRecord

TypeInv == RowType /\ FileType /\ RequestType /\ DeliveryType /\ SweepType

\* The row of the build was inserted, or never will be.
Settled(b) == stage[b] \in {"run", "ended"}

\* A kernel run and a repository come before their rows, and are young meanwhile.
RequestsAgree ==
    \A b \in Builds :
        /\ IF stage[b] = "new" THEN home[b] = None ELSE home[b] \in Projects
        /\ kernel[b] # "none" => stage[b] = "kernel" \/ Settled(b)
        /\ stage[b] = "kernel" => kernel[b] # "none" /\ KernelRun(b) \in young
        /\ stage[b] = "repo" =>
               /\ home[b] \in repos \ projects /\ Repository(home[b]) \in young
               /\ \A x \in Builds \ {b} : home[x] # home[b]

Named(p) == \E b \in Builds : home[b] = p
ProjectsAreNamed == \A p \in repos \cup projects : Named(p)

\* What is held without a lock.
HeldAreSettled ==
    /\ \A b \in runs \cup archives \cup cleared \cup care.runs : Settled(b)
    /\ \A d \in Deliverers : at[d] # "idle" => on[d] \in Builds /\ Settled(on[d])

\* The run can need its worktrees no more.
Over(b) == kernel[b] = "abandoned" \/ (kernel[b] = "completed" /\ b \in archives)

ArchivesAgree ==
    /\ \A d \in Deliverers : at[d] = "ready" /\ on[d] \in runs => on[d] \in archives
    /\ care.at \in {"choosing", "retiring"} => \A b \in care.runs \cap runs : Over(b)

\* What is about to be purged has no row and gets none.
PurgedIsLost ==
    \A s \in Sweepers : sweep[s].at \in Purging =>
        /\ \A b \in Doomed(s) : b \notin runs /\ Settled(b)
        /\ \A p \in sweep[s].projects :
               p \notin projects /\ Named(p) /\ \A b \in Builds : home[b] = p => stage[b] # "repo"

\* What got its row after purge-orphans read the rows is young.
UnknownIsYoung ==
    LET known == sweep["operator"] IN
    known.at = "scanning" =>
        /\ \A b \in runs \ known.runs :
               KernelRun(b) \in young /\ (b \in archives => Archive(b) \in young)
        /\ \A p \in projects \ known.projects : Repository(p) \in young

Purposes == RequestsAgree /\ ProjectsAreNamed /\ HeldAreSettled

DataInv ==
    /\ TypeInv /\ Purposes /\ NothingDangles
    /\ ArchivesAgree /\ PurgedIsLost /\ UnknownIsYoung
-----------------------------------------------------------------------------
(* What purge-orphans has still to find or to remove.                      *)

\* What is lost was made, and is not made again.
LostIsMade ==
    /\ \A b \in Builds : KernelRun(b) \in lost => stage[b] = "kernel" \/ Settled(b)
    /\ \A p \in Projects : Repository(p) \in lost => Named(p)

LostRun(b) == KernelRun(b) \in lost /\ kernel[b] # "none"
LostRepository(p) == Repository(p) \in lost /\ p \in repos
LostArchive(b) == Archive(b) \in lost /\ b \in archives

LostIsFound ==
    LET known == sweep["operator"] IN
    /\ known.at = "scanning" =>
        /\ \A b \in Builds : LostRun(b) => b \notin known.runs /\ KernelRun(b) \notin young
        /\ \A p \in Projects :
               LostRepository(p) => p \notin known.projects /\ Repository(p) \notin young
        /\ \A b \in Builds : LostArchive(b) => b \notin known.runs /\ Archive(b) \notin young
    /\ known.at # "scanning" =>
        /\ \A b \in Builds : LostRun(b) => known.at = "runs" /\ b \in known.runs
        /\ \A p \in Projects : LostRepository(p) => known.at \in Purging /\ p \in known.projects
        /\ \A b \in Builds : LostArchive(b) =>
               known.at \in Purging \ {"repos"} /\ b \in Doomed("operator")

LostInv == LostIsMade /\ LostIsFound
-----------------------------------------------------------------------------
(* The steps, by what they work on, and what each kind leaves alone.       *)

Request(b) == Begins(b) \/ CreatesProject(b) \/ CreatesKernelRun(b) \/ CreatesRun(b) \/
   Enqueues(b) \/ Misses(b) \/ Abandons(b) \/ Dies(b)
JobStep(b) == Claims(b) \/ Reaps(b) \/ Asks(b)
WorkStep == Converses \/ Completes \/ Finishes
DeliveryStep(d) == Looks(d) \/ Assembles(d) \/ Saves(d) \/ Stops(d)
CareStep == Lists \/ Sorts \/ Holds \/ Retires \/ Passes
OwnerStep == Erases \/ Reads \/ Scans \/ Ages
PurgeStep(s) == PurgesRun(s) \/ PurgesSessions(s) \/ PurgesArchives(s) \/ PurgesRepositories(s)
   \/ Halts(s)

LEMMA NextIsOneOf ==
    ASSUME [Next]_vars
    PROVE  \/ \E b \in Builds : Request(b)
           \/ \E b \in Builds : JobStep(b)
           \/ WorkStep
           \/ \E d \in Deliverers : DeliveryStep(d)
           \/ CareStep
           \/ OwnerStep
           \/ \E s \in Sweepers : PurgeStep(s)
           \/ UNCHANGED vars
  BY DEF Next, Request, JobStep, WorkStep, DeliveryStep, CareStep, OwnerStep, PurgeStep

LEMMA RequestFrame ==
    ASSUME NEW b \in Builds, Request(b)
    PROVE UNCHANGED <<retired, delivery, cleared, archives, at, on, care, sweep, lost>>
  BY DEF Request, Begins, CreatesProject, CreatesKernelRun, CreatesRun, Enqueues, Misses,
     Abandons, Dies, Advances, Goes, Rests, Sweeps, records, files, requestVars, deliveryVars,
     others, sweepVars, counters

LEMMA JobStepFrame ==
    ASSUME NEW b \in Builds, JobStep(b)
    PROVE UNCHANGED <<projects, runs, retired, delivery, kernel, repos, cleared, archives,
       young, stage, home, care, sweep, lost>>
  BY DEF JobStep, Claims, Reaps, Asks, Advances, Goes, Rests, Sweeps, records, files,
     requestVars, deliveryVars, others, sweepVars, counters

LEMMA WorkStepFrame ==
    ASSUME WorkStep
    PROVE UNCHANGED <<projects, runs, retired, delivery, repos, cleared, archives, young, stage,
       home, on, care, sweep, lost>>
  BY DEF WorkStep, Converses, Completes, Finishes, Advances, Goes, Rests, Sweeps, records,
     files, requestVars, deliveryVars, others, sweepVars, counters

LEMMA DeliveryStepFrame ==
    ASSUME NEW d \in Deliverers, DeliveryStep(d)
    PROVE UNCHANGED <<projects, runs, retired, kernel, repos, cleared, stage, home, care,
       sweep>>
  BY DEF DeliveryStep, Looks, Assembles, Saves, Stops, Advances, Goes, Rests, Sweeps, records,
     files, requestVars, deliveryVars, others, sweepVars, counters

LEMMA CareStepFrame ==
    ASSUME CareStep
    PROVE  /\ UNCHANGED <<projects, runs, job, delivery, kernel, repos, archives, young, stage, home,
                          at, on, sweep, lost>>
           /\ Sorts \/ UNCHANGED retired \/ Retires
           /\ Retires \/ UNCHANGED cleared
<1> USE DEF requestVars, deliveryVars, sweepVars
<1>1. CASE Lists
  BY <1>1 DEF Lists, records, files
<1>2. CASE Sorts
  BY <1>2 DEF Sorts, files
<1>3. CASE Holds
  BY <1>3 DEF Holds, files
<1>4. CASE Retires
  BY <1>4 DEF Retires
<1>5. CASE Passes
  BY <1>5 DEF Passes, records, files
<1>6. QED BY <1>1, <1>2, <1>3, <1>4, <1>5 DEF CareStep

LEMMA OwnerStepFrame ==
    ASSUME OwnerStep
    PROVE UNCHANGED <<kernel, repos, cleared, archives, stage, home, at, on, care>>
  BY DEF OwnerStep, Erases, Reads, Scans, Ages, Advances, Goes, Rests, Sweeps, records, files,
     requestVars, deliveryVars, others, sweepVars, counters

LEMMA PurgeStepFrame ==
    ASSUME NEW s \in Sweepers, PurgeStep(s)
    PROVE UNCHANGED <<projects, runs, retired, job, delivery, cleared, young, stage, home, at,
       on, care>>
  BY DEF PurgeStep, PurgesRun, PurgesSessions, PurgesArchives, PurgesRepositories, Halts,
     Advances, Goes, Rests, Sweeps, records, files, requestVars, deliveryVars, others,
     sweepVars, counters

LEMMA Things ==
    /\ \A x, y : /\ KernelRun(x) = KernelRun(y) <=> x = y
                 /\ Repository(x) = Repository(y) <=> x = y
                 /\ Archive(x) = Archive(y) <=> x = y
    /\ \A x, y : KernelRun(x) # Repository(y) /\ KernelRun(x) # Archive(y) /\ Repository(x) # Archive(y)
  BY DEF KernelRun, Repository, Archive
-----------------------------------------------------------------------------
(* What a request does.                                                    *)

LEMMA SettledStay ==
    ASSUME TypeInv, NEW b \in Builds, Request(b)
    PROVE  /\ \A x \in Builds : Settled(x) => Settled(x)'
           /\ \A x \in Builds \ {b} : stage'[x] = stage[x]
  BY DEF TypeInv, RequestType, Request, Settled, Begins, CreatesProject, CreatesKernelRun,
         CreatesRun, Enqueues, Misses, Abandons, Dies, Advances, requestVars

LEMMA RunsGrow ==
    ASSUME TypeInv, NEW b \in Builds, Request(b)
    PROVE  \/ runs' = runs
           \/ runs' = runs \cup {b} /\ stage[b] = "kernel" /\ stage'[b] = "run" /\ home[b] \in projects
  BY DEF TypeInv, RequestType, RowType, Request, Begins, CreatesProject, CreatesKernelRun,
         CreatesRun, Enqueues, Misses, Abandons, Dies, Advances, records

LEMMA ProjectsGrow ==
    ASSUME TypeInv, NEW b \in Builds, Request(b)
    PROVE  \/ projects' = projects
           \/ projects' = projects \cup {home[b]} /\ stage[b] = "repo"
  BY DEF Request, Begins, CreatesProject, CreatesKernelRun, CreatesRun, Enqueues, Misses, Abandons,
         Dies, records

LEMMA HomesStay ==
    ASSUME TypeInv, RequestsAgree, NEW b \in Builds, Request(b)
    PROVE  \A x \in Builds : home[x] # None => home'[x] = home[x]
  BY DEF TypeInv, RequestType, RequestsAgree, Request, Begins, CreatesProject, CreatesKernelRun,
         CreatesRun, Enqueues, Misses, Abandons, Dies, Advances, requestVars

LEMMA RepositoriesAreNew ==
    ASSUME TypeInv, RequestsAgree, NEW b \in Builds, Request(b), NEW x \in Builds,
           stage'[x] = "repo"
    PROVE  (stage[x] = "repo" /\ home'[x] = home[x]) \/ ~Named(home'[x])
<1>1. CASE Begins(b)
  BY <1>1 DEF Begins, TypeInv, RequestType, Advances, Named
<1>2. CASE ~Begins(b)
  BY <1>2 DEF TypeInv, RequestType, Request, CreatesProject, CreatesKernelRun, CreatesRun,
              Enqueues, Misses, Abandons, Dies, Advances, requestVars
<1>3. QED BY <1>1, <1>2
-----------------------------------------------------------------------------
(* What the maintenance pass and a purge do.                               *)

LEMMA CareTyped ==
    ASSUME TypeInv
    PROVE  /\ care.at \in {"off", "sorting", "choosing", "retiring"}
           /\ care.runs \in SUBSET Builds /\ care.project \in Projects \cup {None}
           /\ care = [at |-> care.at, runs |-> care.runs, project |-> care.project]
  BY DEF TypeInv, SweepType, CareRecord

LEMMA ListsWhat ==
    ASSUME Lists
    PROVE  care' = [at |-> "sorting", runs |-> {b \in runs \ retired : job[b] \notin Busy},
                    project |-> None]
  BY DEF Lists, NoCare

LEMMA SortsWhat ==
    ASSUME TypeInv, Sorts
    PROVE  care' = [at |-> "choosing", runs |-> {b \in care.runs : Finished(b)},
                    project |-> care.project]
  BY CareTyped DEF Sorts

LEMMA HoldsWhat ==
    ASSUME TypeInv, Holds
    PROVE  \E b \in care.runs :
             \/ care' = [at |-> "retiring", runs |-> care.runs, project |-> home[b]]
                /\ home[b] \in repos
             \/ care' = [at |-> "choosing", runs |-> {x \in care.runs : home[x] # home[b]},
                         project |-> care.project]
  BY CareTyped DEF Holds

LEMMA RetiresWhat ==
    ASSUME TypeInv, Retires
    PROVE  \/ care' = [at |-> "choosing", runs |-> {b \in care.runs : home[b] # care.project},
                       project |-> None]
           \/ care' = care
           \/ \E b \in care.runs :
                care' = [at |-> "retiring", runs |-> care.runs \ {b}, project |-> care.project]
  BY CareTyped DEF Retires

LEMMA CareIsCare ==
    ASSUME TypeInv, CareStep
    PROVE  /\ care' \in CareRecord
           /\ Lists \/ care'.runs \subseteq care.runs
           /\ care'.at \in {"choosing", "retiring"} =>
                  care.at \in {"choosing", "retiring"} \/ Sorts
<1> USE CareTyped DEF CareRecord
<1>1. CASE Lists
  BY <1>1, ListsWhat DEF TypeInv, RowType
<1>2. CASE Sorts
  BY <1>2, SortsWhat
<1>3. CASE Holds
  <2>1. care.at = "choosing"
    BY <1>3 DEF Holds
  <2>2. QED BY <1>3, <2>1, HoldsWhat DEF TypeInv, FileType
<1>4. CASE Retires
  <2>1. care.at = "retiring"
    BY <1>4 DEF Retires
  <2>2. QED BY <1>4, <2>1, RetiresWhat
<1>5. CASE Passes
  BY <1>5 DEF Passes, NoCare
<1>6. QED BY <1>1, <1>2, <1>3, <1>4, <1>5 DEF CareStep

LEMMA PurgesRunWhat ==
    ASSUME TypeInv, NEW s \in Sweepers, PurgesRun(s)
    PROVE  /\ sweep[s].at = "runs" /\ sweep'[s].at \in {"runs", "sessions"}
           /\ \A z \in Sweepers :
                /\ sweep'[z].runs = sweep[z].runs /\ sweep'[z].projects = sweep[z].projects
                /\ sweep'[z].archives = sweep[z].archives
                /\ z # s => sweep'[z] = sweep[z]
           /\ sweep'[s].at = "sessions" => \A b \in sweep[s].runs : kernel[b] = "none"
           /\ \A b \in Builds : kernel'[b] = kernel[b] \/ kernel'[b] = "none"
           /\ UNCHANGED <<repos, archives, lost>>
<1>1. sweep[s].at = "runs" /\ sweep \in [Sweepers -> SweepRecord] /\ sweep[s] \in SweepRecord
  BY DEF PurgesRun, TypeInv, SweepType
<1>2. UNCHANGED <<repos, archives, lost>>
  BY DEF PurgesRun
<1>3. CASE \E b \in sweep[s].runs : kernel[b] # "none"
  BY <1>1, <1>2, <1>3 DEF PurgesRun, TypeInv, FileType
<1>4. CASE \A b \in sweep[s].runs : kernel[b] = "none"
  <2>1. Sweeps(s, [sweep[s] EXCEPT !.at = "sessions"]) /\ kernel' = kernel
    BY <1>4 DEF PurgesRun
  <2>2. [sweep[s] EXCEPT !.at = "sessions"]
            = [at |-> "sessions", runs |-> sweep[s].runs, projects |-> sweep[s].projects,
               archives |-> sweep[s].archives]
    BY <1>1 DEF SweepRecord
  <2>3. /\ sweep'[s] = [sweep[s] EXCEPT !.at = "sessions"]
        /\ \A z \in Sweepers \ {s} : sweep'[z] = sweep[z]
    BY <1>1, <2>1 DEF Sweeps
  <2>4. /\ sweep'[s].at = "sessions" /\ sweep'[s].runs = sweep[s].runs
        /\ sweep'[s].projects = sweep[s].projects /\ sweep'[s].archives = sweep[s].archives
    BY <2>2, <2>3
  <2>5. QED BY <1>1, <1>2, <1>4, <2>1, <2>3, <2>4
<1>5. QED BY <1>3, <1>4
-----------------------------------------------------------------------------
(* Types.                                                                  *)

LEMMA PlainTypes ==
    ASSUME DataInv, [Next]_vars PROVE (RowType /\ FileType /\ RequestType /\ DeliveryType)'
<1> USE DEF DataInv, TypeInv, RowType, FileType, RequestType, DeliveryType, Busy, Kernels,
   Stages, Advances, Goes, Rests, Purposes, RequestsAgree, HeldAreSettled, records, files,
   requestVars, deliveryVars
<1>1. ASSUME NEW b \in Builds, Request(b) PROVE (RowType /\ FileType /\ RequestType /\ DeliveryType)'
  <2>1. CASE Begins(b)
    BY <2>1 DEF Begins
  <2>2. CASE CreatesProject(b)
    BY <2>2 DEF CreatesProject
  <2>3. CASE CreatesKernelRun(b)
    BY <2>3 DEF CreatesKernelRun
  <2>4. CASE CreatesRun(b)
    BY <2>4 DEF CreatesRun
  <2>5. CASE Enqueues(b)
    BY <2>5 DEF Enqueues
  <2>6. CASE Misses(b)
    BY <2>6 DEF Misses
  <2>7. CASE Abandons(b)
    BY <2>7 DEF Abandons
  <2>8. CASE Dies(b)
    BY <2>8 DEF Dies
  <2>9. QED BY <1>1, <2>1, <2>2, <2>3, <2>4, <2>5, <2>6, <2>7, <2>8 DEF Request
<1>2. ASSUME NEW b \in Builds, JobStep(b) PROVE (RowType /\ FileType /\ RequestType /\ DeliveryType)'
  <2>1. CASE Claims(b)
    BY <2>1 DEF Claims
  <2>2. CASE Reaps(b)
    BY <2>2 DEF Reaps
  <2>3. CASE Asks(b)
    BY <2>3 DEF Asks
  <2>4. QED BY <1>2, <2>1, <2>2, <2>3 DEF JobStep
<1>3. ASSUME WorkStep PROVE (RowType /\ FileType /\ RequestType /\ DeliveryType)'
  <2>1. CASE Completes
    BY <2>1 DEF Completes
  <2>2. CASE Finishes
    BY <2>2 DEF Finishes
  <2>3. CASE Converses
    BY <2>3 DEF Converses
  <2>4. QED BY <1>3, <2>1, <2>2, <2>3 DEF WorkStep
<1>4. ASSUME NEW d \in Deliverers, DeliveryStep(d) PROVE (RowType /\ FileType /\ RequestType /\ DeliveryType)'
  <2>1. CASE Looks(d)
    BY <2>1 DEF Looks
  <2>2. CASE Assembles(d)
    BY <2>2 DEF Assembles
  <2>3. CASE Saves(d)
    BY <2>3 DEF Saves
  <2>4. CASE Stops(d)
    BY <2>4 DEF Stops
  <2>5. QED BY <1>4, <2>1, <2>2, <2>3, <2>4 DEF DeliveryStep
<1>5. ASSUME CareStep PROVE (RowType /\ FileType /\ RequestType /\ DeliveryType)'
  <2>1. retired' \subseteq Builds /\ cleared' \subseteq Builds
    <3>1. CASE Sorts
      BY <3>1, CareTyped DEF Sorts
    <3>2. CASE Retires
      BY <3>2, CareTyped DEF Retires
    <3>3. QED BY <1>5, <3>1, <3>2, CareStepFrame
  <2>2. QED BY <1>5, <2>1, CareStepFrame
<1>6. ASSUME OwnerStep PROVE (RowType /\ FileType /\ RequestType /\ DeliveryType)'
  <2>1. CASE Erases
    BY <2>1 DEF Erases
  <2>2. CASE Reads \/ Scans \/ Ages
    BY <2>2 DEF Reads, Scans, Ages
  <2>3. QED BY <1>6, <2>1, <2>2 DEF OwnerStep
<1>7. ASSUME NEW s \in Sweepers, PurgeStep(s) PROVE (RowType /\ FileType /\ RequestType /\ DeliveryType)'
  <2>1. CASE PurgesRun(s)
    BY <2>1 DEF PurgesRun
  <2>2. CASE PurgesArchives(s)
    BY <2>2 DEF PurgesArchives
  <2>3. CASE PurgesRepositories(s)
    BY <2>3 DEF PurgesRepositories
  <2>4. CASE PurgesSessions(s) \/ Halts(s)
    BY <2>4 DEF PurgesSessions, Halts
  <2>5. QED BY <1>7, <2>1, <2>2, <2>3, <2>4 DEF PurgeStep
<1>8. CASE UNCHANGED vars
  BY <1>8 DEF vars
<1>9. QED BY <1>1, <1>2, <1>3, <1>4, <1>5, <1>6, <1>7, <1>8, NextIsOneOf

LEMMA SweepTypeIsKept ==
    ASSUME DataInv, [Next]_vars PROVE SweepType'
<1> USE DEF DataInv, TypeInv, RowType, FileType, SweepType, Sweepers, NoSweep, SweepRecord,
   Purging, Sweeps, others, sweepVars
<1>1. ASSUME NEW b \in Builds, Request(b) PROVE SweepType'
  BY <1>1, RequestFrame
<1>2. ASSUME NEW b \in Builds, JobStep(b) PROVE SweepType'
  BY <1>2, JobStepFrame
<1>3. ASSUME WorkStep PROVE SweepType'
  BY <1>3, WorkStepFrame
<1>4. ASSUME NEW d \in Deliverers, DeliveryStep(d) PROVE SweepType'
  BY <1>4, DeliveryStepFrame
<1>5. ASSUME CareStep PROVE SweepType'
  BY <1>5, CareIsCare, CareStepFrame
<1>6. ASSUME OwnerStep PROVE SweepType'
  <2>1. CASE Erases
    BY <2>1 DEF Erases
  <2>2. CASE Reads
    BY <2>2 DEF Reads
  <2>3. CASE Scans
    BY <2>3 DEF Scans
  <2>4. CASE Ages
    BY <2>4 DEF Ages
  <2>5. QED BY <1>6, <2>1, <2>2, <2>3, <2>4 DEF OwnerStep
<1>7. ASSUME NEW s \in Sweepers, PurgeStep(s) PROVE SweepType'
  <2>1. CASE PurgesRun(s)
    <3>1. CASE UNCHANGED sweep
      BY <2>1, <3>1 DEF PurgesRun
    <3>2. CASE Sweeps(s, [sweep[s] EXCEPT !.at = "sessions"])
      <4>1. sweep[s] \in SweepRecord
        OBVIOUS
      <4>2. [sweep[s] EXCEPT !.at = "sessions"] \in SweepRecord
        BY <4>1
      <4>3. UNCHANGED care
        BY <2>1 DEF PurgesRun
      <4>4. QED BY <3>2, <4>2, <4>3
    <3>3. QED BY <2>1, <3>1, <3>2 DEF PurgesRun
  <2>2. CASE PurgesSessions(s)
    BY <2>2 DEF PurgesSessions
  <2>3. CASE PurgesArchives(s)
    BY <2>3 DEF PurgesArchives
  <2>4. CASE PurgesRepositories(s)
    BY <2>4 DEF PurgesRepositories
  <2>5. CASE Halts(s)
    BY <2>5 DEF Halts
  <2>6. QED BY <1>7, <2>1, <2>2, <2>3, <2>4, <2>5 DEF PurgeStep
<1>8. CASE UNCHANGED vars
  BY <1>8 DEF vars
<1>9. QED BY <1>1, <1>2, <1>3, <1>4, <1>5, <1>6, <1>7, <1>8, NextIsOneOf
-----------------------------------------------------------------------------
(* What the rows point to.                                                 *)

LEMMA RequestsStayAgreed ==
    ASSUME DataInv, [Next]_vars PROVE RequestsAgree'
<1> USE Things DEF DataInv, TypeInv, FileType, RequestType, Purposes, RequestsAgree,
   ProjectsAreNamed, Named, PurgedIsLost, Settled, Purging, Doomed, Advances, records, files,
   requestVars
<1>1. ASSUME NEW b \in Builds, Request(b) PROVE RequestsAgree'
  <2>1. CASE Begins(b)
    BY <2>1 DEF Begins
  <2>2. CASE CreatesProject(b)
    BY <2>2 DEF CreatesProject
  <2>3. CASE CreatesKernelRun(b)
    BY <2>3 DEF CreatesKernelRun
  <2>4. CASE CreatesRun(b)
    BY <2>4 DEF CreatesRun
  <2>5. CASE Enqueues(b)
    BY <2>5 DEF Enqueues
  <2>6. CASE Misses(b)
    BY <2>6 DEF Misses
  <2>7. CASE Abandons(b)
    BY <2>7 DEF Abandons
  <2>8. CASE Dies(b)
    BY <2>8 DEF Dies
  <2>9. QED BY <1>1, <2>1, <2>2, <2>3, <2>4, <2>5, <2>6, <2>7, <2>8 DEF Request
<1>2. ASSUME NEW b \in Builds, JobStep(b) PROVE RequestsAgree'
  BY <1>2, JobStepFrame
<1>3. ASSUME WorkStep PROVE RequestsAgree'
  <2>1. CASE Completes
    BY <2>1 DEF Completes
  <2>2. CASE Converses \/ Finishes
    BY <2>2 DEF Converses, Finishes
  <2>3. QED BY <1>3, <2>1, <2>2 DEF WorkStep
<1>4. ASSUME NEW d \in Deliverers, DeliveryStep(d) PROVE RequestsAgree'
  <2>1. CASE Assembles(d)
    BY <2>1 DEF Assembles
  <2>2. CASE Looks(d) \/ Saves(d) \/ Stops(d)
    BY <2>2 DEF Looks, Saves, Stops
  <2>3. QED BY <1>4, <2>1, <2>2 DEF DeliveryStep
<1>5. ASSUME CareStep PROVE RequestsAgree'
  BY <1>5, CareStepFrame
<1>6. ASSUME OwnerStep PROVE RequestsAgree'
  <2>1. CASE Erases
    BY <2>1 DEF Erases
  <2>2. CASE Ages
    BY <2>2 DEF Ages
  <2>3. CASE Reads \/ Scans
    BY <2>3 DEF Reads, Scans
  <2>4. QED BY <1>6, <2>1, <2>2, <2>3 DEF OwnerStep
<1>7. ASSUME NEW s \in Sweepers, PurgeStep(s) PROVE RequestsAgree'
  <2>1. CASE PurgesRun(s)
    BY <2>1 DEF PurgesRun
  <2>2. CASE PurgesRepositories(s)
    BY <2>2 DEF PurgesRepositories
  <2>3. CASE PurgesSessions(s) \/ PurgesArchives(s) \/ Halts(s)
    BY <2>3 DEF PurgesSessions, PurgesArchives, Halts
  <2>4. QED BY <1>7, <2>1, <2>2, <2>3 DEF PurgeStep
<1>8. CASE UNCHANGED vars
  BY <1>8 DEF vars
<1>9. QED BY <1>1, <1>2, <1>3, <1>4, <1>5, <1>6, <1>7, <1>8, NextIsOneOf

LEMMA ProjectsStayNamed ==
    ASSUME DataInv, [Next]_vars PROVE ProjectsAreNamed'
<1> USE DEF DataInv, TypeInv, RequestType, FileType, RowType, Purposes, RequestsAgree,
   ProjectsAreNamed, Named, records, files, requestVars
<1>1. ASSUME NEW b \in Builds, Request(b) PROVE ProjectsAreNamed'
  <2>1. CASE Begins(b)
    <3>1. PICK q \in Projects : home' = [home EXCEPT ![b] = q] /\ repos' \subseteq repos \cup {q}
      BY <2>1 DEF Begins
    <3>2. home[b] = None /\ home'[b] = q /\ projects' = projects
      BY <2>1, <3>1 DEF Begins
    <3>3. ASSUME NEW p \in repos \cup projects PROVE \E x \in Builds : home'[x] = p
      <4>1. p \in Projects
        OBVIOUS
      <4>2. PICK x \in Builds : home[x] = p
        OBVIOUS
      <4>3. x # b
        BY <3>2, <4>1, <4>2, NoneAssumption
      <4>4. QED BY <3>1, <4>2, <4>3
    <3>4. QED BY <3>1, <3>2, <3>3
  <2>2. CASE CreatesProject(b)
    BY <2>2 DEF CreatesProject
  <2>3. CASE CreatesKernelRun(b) \/ CreatesRun(b) \/ Enqueues(b) \/ Misses(b) \/ Abandons(b) \/ Dies(b)
    BY <2>3 DEF CreatesKernelRun, CreatesRun, Enqueues, Misses, Abandons, Dies
  <2>4. QED BY <1>1, <2>1, <2>2, <2>3 DEF Request
<1>2. ASSUME NEW b \in Builds, JobStep(b) PROVE ProjectsAreNamed'
  BY <1>2, JobStepFrame
<1>3. ASSUME WorkStep PROVE ProjectsAreNamed'
  BY <1>3, WorkStepFrame
<1>4. ASSUME NEW d \in Deliverers, DeliveryStep(d) PROVE ProjectsAreNamed'
  BY <1>4, DeliveryStepFrame
<1>5. ASSUME CareStep PROVE ProjectsAreNamed'
  BY <1>5, CareStepFrame
<1>6. ASSUME OwnerStep PROVE ProjectsAreNamed'
  <2>1. CASE Erases
    BY <2>1 DEF Erases
  <2>2. CASE Reads \/ Scans \/ Ages
    BY <2>2 DEF Reads, Scans, Ages
  <2>3. QED BY <1>6, <2>1, <2>2 DEF OwnerStep
<1>7. ASSUME NEW s \in Sweepers, PurgeStep(s) PROVE ProjectsAreNamed'
  <2>1. CASE PurgesRepositories(s)
    BY <2>1 DEF PurgesRepositories
  <2>2. CASE PurgesRun(s) \/ PurgesSessions(s) \/ PurgesArchives(s) \/ Halts(s)
    BY <2>2 DEF PurgesRun, PurgesSessions, PurgesArchives, Halts
  <2>3. QED BY <1>7, <2>1, <2>2 DEF PurgeStep
<1>8. CASE UNCHANGED vars
  BY <1>8 DEF vars
<1>9. QED BY <1>1, <1>2, <1>3, <1>4, <1>5, <1>6, <1>7, <1>8, NextIsOneOf

LEMMA HeldStaySettled ==
    ASSUME DataInv, [Next]_vars PROVE HeldAreSettled'
<1> USE DEF DataInv, TypeInv, RowType, FileType, DeliveryType, Purposes, HeldAreSettled,
   Settled, Goes, Rests, records, files, requestVars, deliveryVars, others
<1>1. ASSUME NEW b \in Builds, Request(b) PROVE HeldAreSettled'
  <2>1. \A x \in Builds : Settled(x) => Settled(x)'
    BY <1>1, SettledStay
  <2>2. UNCHANGED <<archives, cleared, at, on, care>>
    BY <1>1, RequestFrame
  <2>3. runs' = runs \/ (runs' = runs \cup {b} /\ Settled(b)')
    BY <1>1, RunsGrow DEF Settled
  <2>4. \A x \in runs' \cup archives \cup cleared \cup care.runs : Settled(x)'
    BY <2>1, <2>3, CareTyped
  <2>5. ASSUME NEW d \in Deliverers, at'[d] # "idle" PROVE on'[d] \in Builds /\ Settled(on[d])'
    <3>1. on'[d] = on[d] /\ on[d] \in Builds /\ Settled(on[d])
      BY <2>2, <2>5
    <3>2. QED BY <3>1, <2>1
  <2>6. QED BY <2>2, <2>4, <2>5
<1>2. ASSUME NEW b \in Builds, JobStep(b) PROVE HeldAreSettled'
  <2>1. UNCHANGED <<runs, archives, cleared, care, stage>>
    BY <1>2, JobStepFrame
  <2>2. \A x \in Builds : job[x] # "none" => x \in runs
    BY DEF NothingDangles
  <2>3. \A d \in Deliverers : at'[d] # "idle" => on'[d] \in Builds /\ Settled(on'[d])
    <3>1. CASE Claims(b)
      BY <2>2, <3>1 DEF Claims
    <3>2. CASE Asks(b)
      BY <3>2 DEF Asks
    <3>3. CASE Reaps(b)
      BY <3>3 DEF Reaps
    <3>4. QED BY <1>2, <3>1, <3>2, <3>3 DEF JobStep
  <2>4. QED BY <2>1, <2>3 DEF Settled
<1>3. ASSUME WorkStep PROVE HeldAreSettled'
  <2>1. CASE Finishes
    BY <2>1 DEF Finishes
  <2>2. CASE Converses \/ Completes
    BY <2>2 DEF Converses, Completes
  <2>3. QED BY <1>3, <2>1, <2>2 DEF WorkStep
<1>4. ASSUME NEW d \in Deliverers, DeliveryStep(d) PROVE HeldAreSettled'
  <2>1. CASE Looks(d)
    BY <2>1 DEF Looks
  <2>2. CASE Assembles(d)
    BY <2>2 DEF Assembles
  <2>3. CASE Saves(d)
    BY <2>3 DEF Saves
  <2>4. CASE Stops(d)
    BY <2>4 DEF Stops
  <2>5. QED BY <1>4, <2>1, <2>2, <2>3, <2>4 DEF DeliveryStep
<1>5. ASSUME CareStep PROVE HeldAreSettled'
  <2>1. UNCHANGED <<runs, archives, stage, at, on>>
    BY <1>5, CareStepFrame
  <2>2. \A x \in cleared' \cup care'.runs : Settled(x)
    <3>1. CASE Lists
      BY <1>5, <3>1, ListsWhat, CareStepFrame DEF Lists
    <3>2. CASE Retires
      <4>1. care'.runs \subseteq care.runs /\ cleared' \subseteq cleared \cup care.runs
        BY <3>2, RetiresWhat DEF Retires
      <4>2. QED BY <4>1
    <3>3. QED BY <1>5, <3>1, <3>2, CareIsCare, CareStepFrame
  <2>3. QED BY <2>1, <2>2 DEF Settled
<1>6. ASSUME OwnerStep PROVE HeldAreSettled'
  <2>1. CASE Erases
    BY <2>1 DEF Erases
  <2>2. CASE Reads \/ Scans \/ Ages
    BY <2>2 DEF Reads, Scans, Ages
  <2>3. QED BY <1>6, <2>1, <2>2 DEF OwnerStep
<1>7. ASSUME NEW s \in Sweepers, PurgeStep(s) PROVE HeldAreSettled'
  <2>1. CASE PurgesArchives(s)
    BY <2>1 DEF PurgesArchives
  <2>2. CASE PurgesRun(s) \/ PurgesSessions(s) \/ PurgesRepositories(s) \/ Halts(s)
    BY <2>2 DEF PurgesRun, PurgesSessions, PurgesRepositories, Halts
  <2>3. QED BY <1>7, <2>1, <2>2 DEF PurgeStep
<1>8. CASE UNCHANGED vars
  BY <1>8 DEF vars
<1>9. QED BY <1>1, <1>2, <1>3, <1>4, <1>5, <1>6, <1>7, <1>8, NextIsOneOf

LEMMA NothingDanglesStays ==
    ASSUME DataInv, [Next]_vars PROVE NothingDangles'
<1> USE DEF DataInv, TypeInv, RowType, FileType, Purposes, RequestsAgree, HeldAreSettled,
   NothingDangles, ArchivesAgree, PurgedIsLost, Over, Settled, Doomed, Purging, records, files,
   requestVars
<1>1. ASSUME NEW b \in Builds, Request(b) PROVE NothingDangles'
  <2>1. CASE Begins(b)
    BY <2>1 DEF Begins
  <2>2. CASE CreatesProject(b)
    BY <2>2 DEF CreatesProject
  <2>3. CASE CreatesKernelRun(b)
    BY <2>3 DEF CreatesKernelRun
  <2>4. CASE CreatesRun(b)
    BY <2>4 DEF CreatesRun
  <2>5. CASE Enqueues(b)
    BY <2>5 DEF Enqueues
  <2>6. CASE Abandons(b)
    BY <2>6 DEF Abandons
  <2>7. CASE Misses(b) \/ Dies(b)
    BY <2>7 DEF Misses, Dies
  <2>8. QED BY <1>1, <2>1, <2>2, <2>3, <2>4, <2>5, <2>6, <2>7 DEF Request
<1>2. ASSUME NEW b \in Builds, JobStep(b) PROVE NothingDangles'
  <2>1. CASE Claims(b)
    BY <2>1 DEF Claims
  <2>2. CASE Reaps(b)
    BY <2>2 DEF Reaps
  <2>3. CASE Asks(b)
    BY <2>3 DEF Asks
  <2>4. QED BY <1>2, <2>1, <2>2, <2>3 DEF JobStep
<1>3. ASSUME WorkStep PROVE NothingDangles'
  <2>1. CASE Completes
    BY <2>1 DEF Completes
  <2>2. CASE Finishes
    BY <2>2 DEF Finishes
  <2>3. CASE Converses
    BY <2>3 DEF Converses
  <2>4. QED BY <1>3, <2>1, <2>2, <2>3 DEF WorkStep
<1>4. ASSUME NEW d \in Deliverers, DeliveryStep(d) PROVE NothingDangles'
  <2>1. CASE Assembles(d)
    BY <2>1 DEF Assembles
  <2>2. CASE Saves(d)
    BY <2>2 DEF Saves
  <2>3. CASE Stops(d)
    BY <2>3 DEF Stops
  <2>4. CASE Looks(d)
    BY <2>4 DEF Looks
  <2>5. QED BY <1>4, <2>1, <2>2, <2>3, <2>4 DEF DeliveryStep
<1>5. ASSUME CareStep PROVE NothingDangles'
  <2>1. CASE Retires
    BY <2>1 DEF Retires
  <2>2. QED BY <1>5, <2>1, CareStepFrame DEF CareStep
<1>6. ASSUME OwnerStep PROVE NothingDangles'
  <2>1. CASE Erases
    BY <2>1 DEF Erases
  <2>2. CASE Reads \/ Scans \/ Ages
    BY <2>2 DEF Reads, Scans, Ages
  <2>3. QED BY <1>6, <2>1, <2>2 DEF OwnerStep
<1>7. ASSUME NEW s \in Sweepers, PurgeStep(s) PROVE NothingDangles'
  <2>1. CASE PurgesRun(s)
    BY <2>1 DEF PurgesRun
  <2>2. CASE PurgesArchives(s)
    BY <2>2 DEF PurgesArchives
  <2>3. CASE PurgesRepositories(s)
    BY <2>3 DEF PurgesRepositories
  <2>4. CASE PurgesSessions(s) \/ Halts(s)
    BY <2>4 DEF PurgesSessions, Halts
  <2>5. QED BY <1>7, <2>1, <2>2, <2>3, <2>4 DEF PurgeStep
<1>8. CASE UNCHANGED vars
  BY <1>8 DEF vars
<1>9. QED BY <1>1, <1>2, <1>3, <1>4, <1>5, <1>6, <1>7, <1>8, NextIsOneOf

LEMMA ArchivesStayAgreed ==
    ASSUME DataInv, [Next]_vars PROVE ArchivesAgree'
<1> USE DEF DataInv, TypeInv, RowType, FileType, DeliveryType, Purposes, HeldAreSettled,
   NothingDangles, ArchivesAgree, PurgedIsLost, Over, Settled, Doomed, Purging, Finished, Goes,
   Rests, records, files, deliveryVars, others
<1>1. ASSUME NEW b \in Builds, Request(b) PROVE ArchivesAgree'
  <2>1. CASE CreatesKernelRun(b)
    BY <2>1 DEF CreatesKernelRun
  <2>2. CASE CreatesRun(b)
    BY <2>2 DEF CreatesRun
  <2>3. CASE Abandons(b)
    BY <2>3 DEF Abandons
  <2>4. CASE Begins(b) \/ CreatesProject(b) \/ Enqueues(b) \/ Misses(b) \/ Dies(b)
    BY <2>4 DEF Begins, CreatesProject, Enqueues, Misses, Dies
  <2>5. QED BY <1>1, <2>1, <2>2, <2>3, <2>4 DEF Request
<1>2. ASSUME NEW b \in Builds, JobStep(b) PROVE ArchivesAgree'
  <2>1. CASE Claims(b)
    BY <2>1 DEF Claims
  <2>2. CASE Asks(b)
    BY <2>2 DEF Asks
  <2>3. CASE Reaps(b)
    BY <2>3 DEF Reaps
  <2>4. QED BY <1>2, <2>1, <2>2, <2>3 DEF JobStep
<1>3. ASSUME WorkStep PROVE ArchivesAgree'
  <2>1. CASE Completes
    BY <2>1 DEF Completes
  <2>2. CASE Finishes
    BY <2>2 DEF Finishes
  <2>3. CASE Converses
    BY <2>3 DEF Converses
  <2>4. QED BY <1>3, <2>1, <2>2, <2>3 DEF WorkStep
<1>4. ASSUME NEW d \in Deliverers, DeliveryStep(d) PROVE ArchivesAgree'
  <2>1. CASE Looks(d)
    BY <2>1 DEF Looks
  <2>2. CASE Assembles(d)
    BY <2>2 DEF Assembles
  <2>3. CASE Saves(d)
    BY <2>3 DEF Saves
  <2>4. CASE Stops(d)
    BY <2>4 DEF Stops
  <2>5. QED BY <1>4, <2>1, <2>2, <2>3, <2>4 DEF DeliveryStep
<1>5. ASSUME CareStep PROVE ArchivesAgree'
  <2>1. UNCHANGED <<at, on, runs, archives, kernel>>
    BY <1>5, CareStepFrame
  <2>2. CASE Lists
    BY <2>1, <2>2, ListsWhat
  <2>3. CASE Sorts
    BY <2>1, <2>3, SortsWhat
  <2>4. CASE ~Lists /\ ~Sorts
    BY <1>5, <2>1, <2>4, CareIsCare, CareTyped
  <2>5. QED BY <2>2, <2>3, <2>4
<1>6. ASSUME OwnerStep PROVE ArchivesAgree'
  <2>1. CASE Erases
    BY <2>1 DEF Erases
  <2>2. CASE Reads \/ Scans \/ Ages
    BY <2>2 DEF Reads, Scans, Ages
  <2>3. QED BY <1>6, <2>1, <2>2 DEF OwnerStep
<1>7. ASSUME NEW s \in Sweepers, PurgeStep(s) PROVE ArchivesAgree'
  <2>1. CASE PurgesRun(s)
    BY <2>1 DEF PurgesRun
  <2>2. CASE PurgesArchives(s)
    BY <2>2 DEF PurgesArchives
  <2>3. CASE PurgesSessions(s) \/ PurgesRepositories(s) \/ Halts(s)
    BY <2>3 DEF PurgesSessions, PurgesRepositories, Halts
  <2>4. QED BY <1>7, <2>1, <2>2, <2>3 DEF PurgeStep
<1>8. CASE UNCHANGED vars
  BY <1>8 DEF vars
<1>9. QED BY <1>1, <1>2, <1>3, <1>4, <1>5, <1>6, <1>7, <1>8, NextIsOneOf

LEMMA PurgedStaysLost ==
    ASSUME DataInv, [Next]_vars PROVE PurgedIsLost'
<1> USE Things DEF DataInv, TypeInv, SweepType, Purposes, RequestsAgree, ProjectsAreNamed,
   Named, HeldAreSettled, PurgedIsLost, UnknownIsYoung, Settled, Doomed, Purging, Old, NoSweep,
   Sweeps, records, requestVars, others, sweepVars
<1>1. ASSUME NEW b \in Builds, Request(b) PROVE PurgedIsLost'
  <2>1. sweep' = sweep
    BY <1>1, RequestFrame
  <2>2. ASSUME NEW s \in Sweepers, sweep[s].at \in Purging, NEW x \in Doomed(s)
        PROVE  x \notin runs' /\ Settled(x)'
    <3>1. x \in Builds /\ Settled(x) /\ x \notin runs
      <4>1. sweep[s].runs \subseteq Builds /\ sweep[s].archives \subseteq Builds
        BY DEF SweepRecord
      <4>2. QED BY <2>2, <4>1
    <3>2. QED BY <1>1, <3>1, RunsGrow, SettledStay
  <2>3. ASSUME NEW s \in Sweepers, sweep[s].at \in Purging, NEW p \in sweep[s].projects
        PROVE  /\ p \notin projects' /\ \E x \in Builds : home'[x] = p
               /\ \A x \in Builds : home'[x] = p => stage'[x] # "repo"
    <3>1. p \in Projects /\ p \notin projects /\ Named(p)
      BY <2>3 DEF SweepRecord
    <3>2. p \notin projects'
      BY <1>1, <2>3, <3>1, ProjectsGrow
    <3>3. \E x \in Builds : home'[x] = p
      BY <1>1, <3>1, HomesStay, NoneAssumption
    <3>4. \A x \in Builds : home'[x] = p => stage'[x] # "repo"
      BY <1>1, <2>3, <3>1, RepositoriesAreNew
    <3>5. QED BY <3>2, <3>3, <3>4
  <2>4. QED BY <2>1, <2>2, <2>3
<1>2. ASSUME NEW b \in Builds, JobStep(b) PROVE PurgedIsLost'
  BY <1>2, JobStepFrame
<1>3. ASSUME WorkStep PROVE PurgedIsLost'
  BY <1>3, WorkStepFrame
<1>4. ASSUME NEW d \in Deliverers, DeliveryStep(d) PROVE PurgedIsLost'
  BY <1>4, DeliveryStepFrame
<1>5. ASSUME CareStep PROVE PurgedIsLost'
  BY <1>5, CareStepFrame
<1>6. ASSUME OwnerStep PROVE PurgedIsLost'
  <2>1. CASE Erases
    BY <2>1 DEF Erases
  <2>2. CASE Reads
    BY <2>2 DEF Reads
  <2>3. CASE Scans
    BY <2>3 DEF Scans
  <2>4. CASE Ages
    BY <2>4 DEF Ages
  <2>5. QED BY <1>6, <2>1, <2>2, <2>3, <2>4 DEF OwnerStep
<1>7. ASSUME NEW s \in Sweepers, PurgeStep(s) PROVE PurgedIsLost'
  <2>1. CASE PurgesRun(s)
    BY <2>1, PurgesRunWhat, PurgeStepFrame, <1>7
  <2>2. CASE PurgesSessions(s)
    BY <2>2 DEF PurgesSessions
  <2>3. CASE PurgesArchives(s)
    BY <2>3 DEF PurgesArchives
  <2>4. CASE PurgesRepositories(s)
    BY <2>4 DEF PurgesRepositories
  <2>5. CASE Halts(s)
    BY <2>5 DEF Halts
  <2>6. QED BY <1>7, <2>1, <2>2, <2>3, <2>4, <2>5 DEF PurgeStep
<1>8. CASE UNCHANGED vars
  BY <1>8 DEF vars
<1>9. QED BY <1>1, <1>2, <1>3, <1>4, <1>5, <1>6, <1>7, <1>8, NextIsOneOf

LEMMA UnknownStaysYoung ==
    ASSUME DataInv, [Next]_vars PROVE UnknownIsYoung'
<1> USE Things DEF DataInv, Purposes, RequestsAgree, HeldAreSettled, UnknownIsYoung, Settled,
   Sweepers, NoSweep, Sweeps, records, files, others, sweepVars
<1>1. ASSUME NEW b \in Builds, Request(b) PROVE UnknownIsYoung'
  <2>1. CASE Begins(b)
    BY <2>1 DEF Begins
  <2>2. CASE CreatesProject(b)
    BY <2>2 DEF CreatesProject
  <2>3. CASE CreatesKernelRun(b)
    BY <2>3 DEF CreatesKernelRun
  <2>4. CASE CreatesRun(b)
    BY <2>4 DEF CreatesRun
  <2>5. CASE Enqueues(b) \/ Misses(b) \/ Abandons(b) \/ Dies(b)
    BY <2>5 DEF Enqueues, Misses, Abandons, Dies
  <2>6. QED BY <1>1, <2>1, <2>2, <2>3, <2>4, <2>5 DEF Request
<1>2. ASSUME NEW b \in Builds, JobStep(b) PROVE UnknownIsYoung'
  BY <1>2, JobStepFrame
<1>3. ASSUME WorkStep PROVE UnknownIsYoung'
  BY <1>3, WorkStepFrame
<1>4. ASSUME NEW d \in Deliverers, DeliveryStep(d) PROVE UnknownIsYoung'
  <2>1. CASE Assembles(d)
    BY <2>1 DEF Assembles
  <2>2. CASE Looks(d) \/ Saves(d) \/ Stops(d)
    BY <2>2 DEF Looks, Saves, Stops
  <2>3. QED BY <1>4, <2>1, <2>2 DEF DeliveryStep
<1>5. ASSUME CareStep PROVE UnknownIsYoung'
  BY <1>5, CareStepFrame
<1>6. ASSUME OwnerStep PROVE UnknownIsYoung'
  <2>1. CASE Erases
    BY <2>1 DEF Erases
  <2>2. CASE Reads
    BY <2>2 DEF Reads
  <2>3. CASE Scans
    BY <2>3 DEF Scans
  <2>4. CASE Ages
    BY <2>4 DEF Ages
  <2>5. QED BY <1>6, <2>1, <2>2, <2>3, <2>4 DEF OwnerStep
<1>7. ASSUME NEW s \in Sweepers, PurgeStep(s) PROVE UnknownIsYoung'
  <2>1. CASE PurgesRun(s)
    BY <2>1, PurgesRunWhat, PurgeStepFrame, <1>7
  <2>2. CASE PurgesSessions(s)
    BY <2>2 DEF PurgesSessions
  <2>3. CASE PurgesArchives(s)
    BY <2>3 DEF PurgesArchives
  <2>4. CASE PurgesRepositories(s)
    BY <2>4 DEF PurgesRepositories
  <2>5. CASE Halts(s)
    BY <2>5 DEF Halts
  <2>6. QED BY <1>7, <2>1, <2>2, <2>3, <2>4, <2>5 DEF PurgeStep
<1>8. CASE UNCHANGED vars
  BY <1>8 DEF vars
<1>9. QED BY <1>1, <1>2, <1>3, <1>4, <1>5, <1>6, <1>7, <1>8, NextIsOneOf
-----------------------------------------------------------------------------
(* What is purged.                                                         *)

LEMMA LostStaysMade ==
    ASSUME DataInv, LostInv, [Next]_vars PROVE LostIsMade'
<1> USE Things DEF DataInv, TypeInv, RequestType, Purposes, RequestsAgree, ProjectsAreNamed,
   Named, LostInv, LostIsMade, Settled, Present, Advances, requestVars, others, sweepVars
<1>1. ASSUME NEW b \in Builds, Request(b) PROVE LostIsMade'
  <2>1. CASE Begins(b)
    <3>1. \A x \in Builds : stage'[x] = stage[x] \/ stage[x] = "new"
      BY <2>1 DEF Begins
    <3>2. \A p \in Projects : Named(p) => \E x \in Builds : home'[x] = p
      BY <1>1, HomesStay, NoneAssumption
    <3>3. lost' = lost
      BY <1>1, RequestFrame
    <3>4. QED BY <3>1, <3>2, <3>3
  <2>2. CASE CreatesProject(b)
    BY <2>2 DEF CreatesProject
  <2>3. CASE CreatesKernelRun(b)
    BY <2>3 DEF CreatesKernelRun
  <2>4. CASE CreatesRun(b)
    BY <2>4 DEF CreatesRun
  <2>5. CASE Enqueues(b)
    BY <2>5 DEF Enqueues
  <2>6. CASE Misses(b)
    BY <2>6 DEF Misses
  <2>7. CASE Dies(b)
    BY <2>7 DEF Dies
  <2>8. CASE Abandons(b)
    BY <2>8 DEF Abandons
  <2>9. QED BY <1>1, <2>1, <2>2, <2>3, <2>4, <2>5, <2>6, <2>7, <2>8 DEF Request
<1>2. ASSUME NEW b \in Builds, JobStep(b) PROVE LostIsMade'
  BY <1>2, JobStepFrame
<1>3. ASSUME WorkStep PROVE LostIsMade'
  BY <1>3, WorkStepFrame
<1>4. ASSUME NEW d \in Deliverers, DeliveryStep(d) PROVE LostIsMade'
  <2>1. CASE Assembles(d)
    BY <2>1 DEF Assembles
  <2>2. CASE Looks(d) \/ Saves(d) \/ Stops(d)
    BY <2>2 DEF Looks, Saves, Stops
  <2>3. QED BY <1>4, <2>1, <2>2 DEF DeliveryStep
<1>5. ASSUME CareStep PROVE LostIsMade'
  BY <1>5, CareStepFrame
<1>6. ASSUME OwnerStep PROVE LostIsMade'
  <2>1. CASE Reads
    BY <2>1 DEF Reads
  <2>2. CASE Erases \/ Scans \/ Ages
    BY <2>2 DEF Erases, Scans, Ages
  <2>3. QED BY <1>6, <2>1, <2>2 DEF OwnerStep
<1>7. ASSUME NEW s \in Sweepers, PurgeStep(s) PROVE LostIsMade'
  <2>1. CASE Halts(s)
    BY <2>1 DEF Halts
  <2>2. CASE PurgesRun(s) \/ PurgesSessions(s) \/ PurgesArchives(s) \/ PurgesRepositories(s)
    BY <2>2 DEF PurgesRun, PurgesSessions, PurgesArchives, PurgesRepositories
  <2>3. QED BY <1>7, <2>1, <2>2 DEF PurgeStep
<1>8. CASE UNCHANGED vars
  BY <1>8 DEF vars
<1>9. QED BY <1>1, <1>2, <1>3, <1>4, <1>5, <1>6, <1>7, <1>8, NextIsOneOf

LEMMA LostStaysFound ==
    ASSUME DataInv, LostInv, [Next]_vars PROVE LostIsFound'
<1> USE Things DEF DataInv, TypeInv, SweepType, Named, LostInv, LostIsMade, LostIsFound,
   LostRun, LostRepository, LostArchive, Settled, Doomed, Purging, Owned, Old, Sweepers, Sweeps,
   files, others, sweepVars
<1>1. ASSUME NEW b \in Builds, Request(b) PROVE LostIsFound'
  <2>1. CASE Begins(b)
    BY <2>1 DEF Begins
  <2>2. CASE CreatesKernelRun(b)
    BY <2>2 DEF CreatesKernelRun
  <2>3. CASE Abandons(b)
    BY <2>3 DEF Abandons
  <2>4. CASE CreatesProject(b) \/ CreatesRun(b) \/ Enqueues(b) \/ Misses(b) \/ Dies(b)
    BY <2>4 DEF CreatesProject, CreatesRun, Enqueues, Misses, Dies
  <2>5. QED BY <1>1, <2>1, <2>2, <2>3, <2>4 DEF Request
<1>2. ASSUME NEW b \in Builds, JobStep(b) PROVE LostIsFound'
  BY <1>2, JobStepFrame
<1>3. ASSUME WorkStep PROVE LostIsFound'
  <2>1. CASE Completes
    BY <2>1 DEF Completes
  <2>2. CASE Converses \/ Finishes
    BY <2>2 DEF Converses, Finishes
  <2>3. QED BY <1>3, <2>1, <2>2 DEF WorkStep
<1>4. ASSUME NEW d \in Deliverers, DeliveryStep(d) PROVE LostIsFound'
  <2>1. CASE Assembles(d)
    BY <2>1 DEF Assembles
  <2>2. CASE Looks(d) \/ Saves(d) \/ Stops(d)
    BY <2>2 DEF Looks, Saves, Stops
  <2>3. QED BY <1>4, <2>1, <2>2 DEF DeliveryStep
<1>5. ASSUME CareStep PROVE LostIsFound'
  BY <1>5, CareStepFrame
<1>6. ASSUME OwnerStep PROVE LostIsFound'
  <2>1. CASE Erases
    BY <2>1 DEF Erases
  <2>2. CASE Reads
    BY <2>2 DEF Reads
  <2>3. CASE Scans
    BY <2>3 DEF Scans
  <2>4. CASE Ages
    BY <2>4 DEF Ages
  <2>5. QED BY <1>6, <2>1, <2>2, <2>3, <2>4 DEF OwnerStep
<1>7. ASSUME NEW s \in Sweepers, PurgeStep(s) PROVE LostIsFound'
  <2>1. CASE PurgesRun(s)
    BY <2>1, PurgesRunWhat, PurgeStepFrame, <1>7
  <2>2. CASE PurgesSessions(s)
    BY <2>2 DEF PurgesSessions
  <2>3. CASE PurgesArchives(s)
    BY <2>3 DEF PurgesArchives
  <2>4. CASE PurgesRepositories(s)
    BY <2>4 DEF PurgesRepositories
  <2>5. CASE Halts(s)
    BY <2>5 DEF Halts
  <2>6. QED BY <1>7, <2>1, <2>2, <2>3, <2>4, <2>5 DEF PurgeStep
<1>8. CASE UNCHANGED vars
  BY <1>8 DEF vars
<1>9. QED BY <1>1, <1>2, <1>3, <1>4, <1>5, <1>6, <1>7, <1>8, NextIsOneOf
-----------------------------------------------------------------------------
LEMMA DataAtFirst == ASSUME Init PROVE DataInv /\ LostInv
<1> USE DEF Init, NoSweep, NoCare
<1>1. TypeInv
  BY DEF TypeInv, RowType, FileType, RequestType, DeliveryType, SweepType, SweepRecord, CareRecord,
         Kernels, Stages, Deliverers, Sweepers
<1>2. Purposes /\ NothingDangles /\ ArchivesAgree
  BY DEF Purposes, RequestsAgree, ProjectsAreNamed, HeldAreSettled, NothingDangles, ArchivesAgree
<1>3. PurgedIsLost /\ UnknownIsYoung
  BY DEF PurgedIsLost, UnknownIsYoung, Purging, Sweepers
<1>4. LostInv
  BY DEF LostInv, LostIsMade, LostIsFound, LostRun, LostRepository, LostArchive
<1>5. QED BY <1>1, <1>2, <1>3, <1>4 DEF DataInv

LEMMA DataIsKept == ASSUME DataInv, [Next]_vars PROVE DataInv'
  BY PlainTypes, SweepTypeIsKept, RequestsStayAgreed, ProjectsStayNamed, HeldStaySettled,
     NothingDanglesStays, ArchivesStayAgreed, PurgedStaysLost, UnknownStaysYoung
     DEF DataInv, TypeInv, Purposes

LEMMA LostIsKept == ASSUME DataInv, LostInv, [Next]_vars PROVE LostInv'
  BY LostStaysMade, LostStaysFound DEF LostInv

LEMMA Invariant == Spec => [](DataInv /\ LostInv)
<1>1. Init => DataInv /\ LostInv
  BY DataAtFirst
<1>2. DataInv /\ LostInv /\ [Next]_vars => (DataInv /\ LostInv)'
  BY DataIsKept, LostIsKept
<1>3. QED BY <1>1, <1>2, PTL DEF Spec

\* A row's kernel run, project, repository and archive are there, in any order of
\* the steps of requests, workers, deliveries, maintenance, erasure and purges
\* (api.py create_build, delivery.py deliver_run, erasure.py, maintenance.py).
THEOREM RowsPointToWhatIs == Spec => []NothingDangles
<1>1. DataInv => NothingDangles
  BY DEF DataInv
<1>2. QED BY <1>1, Invariant, PTL

\* purge_orphans that was not interrupted leaves nothing that no row owned when
\* it began and that was old then (erasure.py purge_orphans).
THEOREM OrphansArePurged == Spec => []PurgeIsComplete
<1>1. ASSUME DataInv, LostInv PROVE PurgeIsComplete
  <2>1. SUFFICES ASSUME sweep["operator"].at = "off", NEW thing \in lost \cap Present PROVE FALSE
    BY DEF PurgeIsComplete
  <2>2. CASE \E b \in Builds : thing = KernelRun(b) /\ kernel[b] # "none"
    BY <1>1, <2>1, <2>2 DEF LostInv, LostIsFound, LostRun
  <2>3. CASE \E p \in repos : thing = Repository(p)
    BY <1>1, <2>1, <2>3 DEF DataInv, TypeInv, FileType, LostInv, LostIsFound, LostRepository, Purging
  <2>4. CASE \E b \in archives : thing = Archive(b)
    BY <1>1, <2>1, <2>4 DEF DataInv, TypeInv, FileType, LostInv, LostIsFound, LostArchive, Purging
  <2>5. QED BY <2>1, <2>2, <2>3, <2>4 DEF Present
<1>2. QED BY <1>1, Invariant, PTL
==============================================================================
