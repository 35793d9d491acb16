-------------------------- MODULE WorkerPoolProofs ---------------------------
(***************************************************************************)
(* The job queue, for every number of runs, projects, jobs, workers and    *)
(* lease holders, and the worker pool over it, for every number of slots   *)
(* and processes, whatever crashes, stalls and requests do.                *)
(*                                                                         *)
(* QueueInv is inductive as it stands: that recovery is capped needs that  *)
(* a run has one active job (reap_expired then adds at most one recovery   *)
(* per run) and that jobs are numbered in order (no later row counts for   *)
(* an earlier one), and that a project has one owner needs the pairing of  *)
(* status and lease owner in the type invariant.                           *)
(*                                                                         *)
(* Every step of the pool is a step of the queue or leaves the queue       *)
(* alone (StepIsQueueStep), so the queue keeps QueueInv under the pool,    *)
(* and the pool's own variables keep their types (TypeStep).  On these     *)
(* rest three sections: what holds while leases are extended in time, that *)
(* stops are respected, and that no crash orphans an assignment.           *)
(***************************************************************************)
EXTENDS WorkerPool, FiniteSetTheorems, TLAPS

Status == {"absent", "queued", "running"} \cup Terminal

RecoveriesAreFinite == \A r \in Runs : IsFiniteSet(Recoveries(r))
NumberedInOrder == \A c \in Created, k \in Jobs : k < c => k \in Created
Earlier(j) == {i \in Recoveries(runOf[j]) : i < j}

QueueInv ==
    /\ QueueTypeOK
    /\ OneActiveJobPerRun
    /\ OneOwnerPerProject
    /\ NumberedInOrder
    /\ RecoveriesAreFinite
    /\ RecoveryIsCapped

USE RunsAssumption, ProjectOfAssumption, JobsAssumption, NobodyAssumption, RecoveryAssumption

LEMMA QueueInitInv == QueueInit => QueueInv
<1> SUFFICES ASSUME QueueInit PROVE QueueInv
  OBVIOUS
<1>1. QueueTypeOK
  BY DEF QueueInit, QueueTypeOK, Kinds, Terminal
<1>2. Created = {} /\ Active = {} /\ Running = {}
  BY DEF QueueInit, Created, Active, Running
<1>3. \A r \in Runs : Recoveries(r) = {}
  BY <1>2 DEF Recoveries
<1>4. QED BY <1>1, <1>2, <1>3, FS_EmptySet
        DEF QueueInv, OneActiveJobPerRun, OneOwnerPerProject, BusyProjects, RecoveriesAreFinite,
            RecoveryIsCapped, NumberedInOrder

\* Whatever jobs are added, what was counted for a recovery stays what it was.
LEMMA OldCapsHold ==
    ASSUME QueueInv, Created \subseteq Created',
           \A j \in Created : runOf'[j] = runOf[j] /\ kind'[j] = kind[j]
    PROVE  \A j \in Created : kind'[j] = "recover" => (Cardinality(Earlier(j)) < MaxRecoveries)'
<1> SUFFICES ASSUME NEW j \in Created, kind'[j] = "recover"
             PROVE  (Cardinality(Earlier(j)) < MaxRecoveries)'
  OBVIOUS
<1>1. Cardinality(Earlier(j)) < MaxRecoveries
  BY DEF QueueInv, RecoveryIsCapped, Earlier
<1>2. Earlier(j)' = Earlier(j)
  <2>1. \A i \in Jobs : i < j => i \in Created
    BY DEF QueueInv, NumberedInOrder
  <2>2. Created' \subseteq Jobs
    BY DEF Created
  <2>3. QED BY <2>1, <2>2 DEF Earlier, Recoveries
<1>3. QED BY <1>1, <1>2

\* Steps that create no job, restart none and keep every job's run and kind.
LEMMA QuietStep ==
    ASSUME QueueInv, QueueTypeOK', UNCHANGED <<runOf, kind>>,
           Created' = Created, Active' \subseteq Active, Running' \subseteq Running,
           HeldProjects' \subseteq HeldProjects
    PROVE  QueueInv'
<1>1. OneActiveJobPerRun'
  BY DEF QueueInv, OneActiveJobPerRun
<1>2. OneOwnerPerProject'
  BY DEF QueueInv, OneOwnerPerProject, BusyProjects, Project
<1>3. \A r \in Runs : Recoveries(r)' = Recoveries(r)
  BY DEF Recoveries
<1>4. RecoveryIsCapped' /\ NumberedInOrder'
  BY OldCapsHold DEF RecoveryIsCapped, Earlier, QueueInv, NumberedInOrder
<1>5. QED BY <1>1, <1>2, <1>3, <1>4 DEF QueueInv, RecoveriesAreFinite

LEMMA EnqueueInv ==
    ASSUME QueueInv, NEW r \in Runs, NEW k \in {"start", "continue", "requeued"}, Enqueue(r, k)
    PROVE  QueueInv'
<1>1. PICK j \in Jobs : /\ j \notin Created /\ NextIds({j})
                        /\ state' = [state EXCEPT ![j] = "queued"]
                        /\ runOf' = [runOf EXCEPT ![j] = r]
                        /\ kind' = [kind EXCEPT ![j] = k]
  BY DEF Enqueue, NextIds
<1>2. QueueTypeOK'
  BY <1>1 DEF QueueInv, QueueTypeOK, Enqueue, Kinds, leaseVars, Created
<1>3. /\ Created' = Created \cup {j} /\ Active' = Active \cup {j} /\ Running' = Running
      /\ \A i \in Created : runOf'[i] = runOf[i] /\ kind'[i] = kind[i]
      /\ runOf'[j] = r
  BY <1>1 DEF QueueInv, QueueTypeOK, Created, Active, Running
<1>4. OneActiveJobPerRun'
  BY <1>1, <1>3 DEF QueueInv, OneActiveJobPerRun, Enqueue, HasActiveJob, Active, Created
<1>5. OneOwnerPerProject'
  <2>1. HeldProjects' = HeldProjects
    BY DEF Enqueue, leaseVars, HeldProjects
  <2>2. \A i \in Running : Project(i)' = Project(i)
    BY <1>3 DEF Project, Running, Created
  <2>3. QED BY <1>3, <2>1, <2>2 DEF QueueInv, OneOwnerPerProject, BusyProjects
<1>6. RecoveriesAreFinite'
  <2>1. ASSUME NEW q \in Runs
        PROVE  Recoveries(q)' = Recoveries(q) \/ Recoveries(q)' = Recoveries(q) \cup {j}
    BY <1>1, <1>3 DEF Recoveries, QueueInv, QueueTypeOK
  <2>2. QED BY <2>1, FS_AddElement DEF QueueInv, RecoveriesAreFinite
<1>7. RecoveryIsCapped'
  <2>1. kind'[j] # "recover"
    BY <1>1 DEF QueueInv, QueueTypeOK
  <2>2. QED BY <1>3, <2>1, OldCapsHold DEF RecoveryIsCapped, Earlier
<1>8. NumberedInOrder'
  BY <1>1, <1>3 DEF QueueInv, NumberedInOrder, NextIds
<1>9. QED BY <1>2, <1>4, <1>5, <1>6, <1>7, <1>8 DEF QueueInv

LEMMA ClaimInv ==
    ASSUME QueueInv, NEW w \in Workers, Claim(w)
    PROVE  QueueInv'
<1>1. PICK j \in Jobs : /\ Claimable(j)
                        /\ state' = [state EXCEPT ![j] = "running"]
                        /\ owner' = [owner EXCEPT ![j] = w]
                        /\ lapsed' = [lapsed EXCEPT ![j] = FALSE]
                        /\ UNCHANGED <<runOf, kind, cancel, leaseVars>>
  BY DEF Claim
<1>2. QueueTypeOK'
  BY <1>1 DEF QueueInv, QueueTypeOK, leaseVars
<1>3. Created' = Created /\ Active' = Active /\ Running' = Running \cup {j}
  BY <1>1 DEF Claimable, QueueInv, QueueTypeOK, Created, Active, Running
<1>4. OneActiveJobPerRun'
  BY <1>1, <1>3 DEF QueueInv, OneActiveJobPerRun
<1>5. OneOwnerPerProject'
  <2>1. HeldProjects' = HeldProjects /\ \A i \in Jobs : Project(i)' = Project(i)
    BY <1>1 DEF leaseVars, HeldProjects, Project
  <2>2. Project(j) \notin BusyProjects \cup HeldProjects
    BY <1>1 DEF Claimable
  <2>3. Running' \subseteq Jobs
    BY DEF Running
  <2>4. QED BY <1>3, <2>1, <2>2, <2>3 DEF QueueInv, OneOwnerPerProject, BusyProjects
<1>6. \A q \in Runs : Recoveries(q)' = Recoveries(q)
  BY <1>1, <1>3 DEF Recoveries
<1>7. RecoveryIsCapped' /\ NumberedInOrder'
  BY <1>1, <1>3, OldCapsHold DEF RecoveryIsCapped, Earlier, QueueInv, NumberedInOrder
<1>8. QED BY <1>2, <1>4, <1>5, <1>6, <1>7 DEF QueueInv, RecoveriesAreFinite

LEMMA ExtendInv ==
    ASSUME QueueInv, NEW w \in Workers, NEW j \in Jobs, Extend(w, j)
    PROVE  QueueInv'
<1>1. QueueTypeOK'
  BY DEF QueueInv, QueueTypeOK, Extend, OwnsJob, leaseVars
<1>2. QED BY <1>1, QuietStep DEF Extend, leaseVars, Created, Active, Running, HeldProjects

LEMMA FinishInv ==
    ASSUME QueueInv, NEW w \in Workers, NEW j \in Jobs, NEW s \in Terminal, Finish(w, j, s)
    PROVE  QueueInv'
<1>1. QueueTypeOK'
  BY DEF QueueInv, QueueTypeOK, Finish, OwnsJob, Terminal, leaseVars
<1>2. Created' = Created /\ Active' \subseteq Active /\ Running' \subseteq Running
  BY DEF QueueInv, QueueTypeOK, Finish, OwnsJob, Terminal, Created, Active, Running
<1>3. QED BY <1>1, <1>2, QuietStep DEF Finish, leaseVars, HeldProjects

LEMMA RequestCancelInv ==
    ASSUME QueueInv, NEW r \in Runs, RequestCancel(r)
    PROVE  QueueInv'
<1>1. PICK j \in Active :
          /\ IF state[j] = "queued"
             THEN state' = [state EXCEPT ![j] = "cancelled"] /\ UNCHANGED cancel
             ELSE cancel' = [cancel EXCEPT ![j] = TRUE] /\ UNCHANGED state
          /\ UNCHANGED <<runOf, kind, owner, lapsed, leaseVars>>
  BY DEF RequestCancel
<1>2. QueueTypeOK'
  BY <1>1 DEF QueueInv, QueueTypeOK, Terminal, leaseVars, Active
<1>3. Created' = Created /\ Active' \subseteq Active /\ Running' \subseteq Running
  BY <1>1 DEF QueueInv, QueueTypeOK, Created, Active, Running
<1>4. QED BY <1>1, <1>2, <1>3, QuietStep DEF leaseVars, HeldProjects

LEMMA AcquireProjectInv ==
    ASSUME QueueInv, NEW p \in Projects, NEW h \in Holders, AcquireProject(p, h)
    PROVE  QueueInv'
<1>1. QueueTypeOK'
  BY DEF QueueInv, QueueTypeOK, AcquireProject, jobVars
<1>2. HeldProjects' \subseteq HeldProjects \cup {p}
  BY DEF QueueInv, QueueTypeOK, AcquireProject, HeldProjects
<1>3. Active' = Active /\ Running' = Running /\ BusyProjects' = BusyProjects
  BY DEF AcquireProject, jobVars, Active, Running, BusyProjects, Project
<1>4. OneOwnerPerProject' /\ OneActiveJobPerRun'
  BY <1>2, <1>3 DEF QueueInv, OneOwnerPerProject, OneActiveJobPerRun, AcquireProject, jobVars, Project
<1>5. \A q \in Runs : Recoveries(q)' = Recoveries(q)
  BY DEF AcquireProject, jobVars, Recoveries, Created
<1>6. RecoveryIsCapped' /\ NumberedInOrder'
  <2>1. Created' = Created /\ UNCHANGED <<runOf, kind>>
    BY DEF AcquireProject, jobVars, Created
  <2>2. QED BY <2>1, OldCapsHold DEF RecoveryIsCapped, Earlier, QueueInv, NumberedInOrder
<1>7. QED BY <1>1, <1>4, <1>5, <1>6 DEF QueueInv, RecoveriesAreFinite

LEMMA ReleaseProjectInv ==
    ASSUME QueueInv, NEW p \in Projects, NEW h \in Holders, ReleaseProject(p, h)
    PROVE  QueueInv'
<1>1. QueueTypeOK'
  BY DEF QueueInv, QueueTypeOK, ReleaseProject, jobVars
<1>2. HeldProjects' \subseteq HeldProjects
  BY DEF QueueInv, QueueTypeOK, ReleaseProject, HeldProjects
<1>3. QED BY <1>1, <1>2, QuietStep DEF ReleaseProject, jobVars, Created, Active, Running

LEMMA LapseInv ==
    ASSUME QueueInv,
           \/ \E j \in Jobs : JobLeaseLapses(j)
           \/ \E p \in Projects : ProjectLeaseLapses(p)
    PROVE  QueueInv'
<1>1. QueueTypeOK'
  BY DEF QueueInv, QueueTypeOK, JobLeaseLapses, ProjectLeaseLapses, jobVars, leaseVars, Running
<1>2. HeldProjects' \subseteq HeldProjects
  BY DEF QueueInv, QueueTypeOK, JobLeaseLapses, ProjectLeaseLapses, leaseVars, HeldProjects
<1>3. QED BY <1>1, <1>2, QuietStep
        DEF JobLeaseLapses, ProjectLeaseLapses, jobVars, Created, Active, Running

\* reap_expired: each expired job fails and leaves at most one recovery job,
\* of its own run, which has no other active job.
LEMMA ReapInv ==
    ASSUME QueueInv, Reap
    PROVE  QueueInv'
<1> DEFINE expired == {j \in Running : lapsed[j]}
           replaced == Recovered(expired)
<1>1. PICK new \in [replaced -> Jobs \ Created] :
        LET ids == {new[j] : j \in replaced}
            source(i) == CHOOSE j \in replaced : new[j] = i
        IN  /\ \A j, k \in replaced : j < k => new[j] < new[k]
            /\ NextIds(ids)
            /\ state' = [j \in Jobs |-> CASE j \in expired -> "failed"
                                          [] j \in ids     -> "queued"
                                          [] OTHER         -> state[j]]
            /\ runOf' = [j \in Jobs |-> IF j \in ids THEN runOf[source(j)] ELSE runOf[j]]
            /\ kind' = [j \in Jobs |-> IF j \in ids THEN "recover" ELSE kind[j]]
  BY DEF Reap
<1> DEFINE ids == {new[j] : j \in replaced}
           source(i) == CHOOSE j \in replaced : new[j] = i
<1>2. /\ replaced \subseteq expired /\ expired \subseteq Running
      /\ Running \subseteq Active /\ Active \subseteq Created /\ Created \subseteq Jobs
      /\ ids \subseteq Jobs \ Created
  BY DEF Recovered, Running, Active, Created
<1>3. \A i \in ids : source(i) \in replaced /\ new[source(i)] = i
  OBVIOUS
<1>4. /\ state' = [j \in Jobs |-> CASE j \in expired -> "failed"
                                    [] j \in ids     -> "queued"
                                    [] OTHER         -> state[j]]
      /\ runOf' = [j \in Jobs |-> IF j \in ids THEN runOf[source(j)] ELSE runOf[j]]
      /\ kind' = [j \in Jobs |-> IF j \in ids THEN "recover" ELSE kind[j]]
      /\ owner' = [j \in Jobs |-> IF j \in expired THEN Nobody ELSE owner[j]]
      /\ lapsed' = [j \in Jobs |-> j \notin expired /\ lapsed[j]]
      /\ UNCHANGED <<cancel, lease, leaseLapsed>>
  BY <1>1 DEF Reap, leaseVars
<1> HIDE DEF source, replaced
<1>5. /\ \A j \in ids : state'[j] = "queued" /\ runOf'[j] = runOf[source(j)] /\ kind'[j] = "recover"
      /\ \A j \in expired : state'[j] = "failed"
      /\ \A j \in Created : runOf'[j] = runOf[j] /\ kind'[j] = kind[j]
      /\ \A j \in Jobs \ (ids \cup expired) : state'[j] = state[j]
  BY <1>2, <1>4
<1> HIDE DEF ids, expired
<1>6. QueueTypeOK'
  <2>1. state' \in [Jobs -> Status]
    BY <1>2, <1>4 DEF QueueInv, QueueTypeOK, Status, Terminal
  <2>2. runOf' \in [Jobs -> Runs] /\ kind' \in [Jobs -> Kinds]
    BY <1>2, <1>3, <1>4 DEF QueueInv, QueueTypeOK, Kinds
  <2>3. owner' \in [Jobs -> Workers \cup {Nobody}]
    BY <1>4 DEF QueueInv, QueueTypeOK
  <2>4. lapsed' \in [Jobs -> BOOLEAN]
    BY <1>4
  <2>5. \A j \in Jobs : (state'[j] = "running" <=> owner'[j] # Nobody)
                        /\ (lapsed'[j] => state'[j] = "running")
    BY <1>2, <1>4, <1>5 DEF QueueInv, QueueTypeOK, Created, Running
  <2>6. QED BY <1>4, <2>1, <2>2, <2>3, <2>4, <2>5 DEF QueueInv, QueueTypeOK, Status
<1>7. /\ Created' = Created \cup ids /\ Active' = (Active \ expired) \cup ids
      /\ Running' = Running \ expired
  <2>1. Created' = Created \cup ids
    BY <1>2, <1>5 DEF Created, Running
  <2>2. Active' = (Active \ expired) \cup ids
    BY <1>2, <1>5 DEF Created, Active
  <2>3. Running' = Running \ expired
    BY <1>2, <1>5 DEF Created, Running
  <2>4. QED BY <2>1, <2>2, <2>3
<1>8. OneActiveJobPerRun'
  <2> SUFFICES ASSUME NEW i \in Active', NEW k \in Active', runOf'[i] = runOf'[k] PROVE i = k
    BY DEF OneActiveJobPerRun
  <2>1. \A m, n \in Active : runOf[m] = runOf[n] => m = n
    BY DEF QueueInv, OneActiveJobPerRun
  <2>2. \A m \in ids : source(m) \in Active /\ source(m) \in expired /\ runOf'[m] = runOf[source(m)]
    BY <1>2, <1>3, <1>5
  <2>3. \A m \in Active : runOf'[m] = runOf[m]
    BY <1>2, <1>5
  <2>4. CASE i \in ids /\ k \in ids
    BY <1>3, <2>1, <2>2, <2>4
  <2>5. CASE i \in ids /\ k \in Active \ expired
    BY <2>1, <2>2, <2>3, <2>5
  <2>6. CASE i \in Active \ expired /\ k \in ids
    BY <2>1, <2>2, <2>3, <2>6
  <2>7. CASE i \in Active /\ k \in Active
    BY <2>1, <2>3, <2>7
  <2>8. QED BY <1>7, <2>4, <2>5, <2>6, <2>7
<1>9. OneOwnerPerProject'
  <2>1. HeldProjects' = HeldProjects
    BY <1>4 DEF HeldProjects
  <2>2. \A i \in Running : Project(i)' = Project(i)
    BY <1>2, <1>5 DEF Project
  <2>3. QED BY <1>7, <2>1, <2>2 DEF QueueInv, OneOwnerPerProject, BusyProjects
<1>10. ASSUME NEW r \in Runs
       PROVE  /\ IsFiniteSet(Recoveries(r))'
              /\ \A i \in ids : runOf'[i] = r => (Cardinality(Earlier(i)) < MaxRecoveries)'
  <2> DEFINE added == {i \in ids : runOf[source(i)] = r}
  <2>1. Recoveries(r)' = Recoveries(r) \cup added
    BY <1>2, <1>5, <1>7 DEF Recoveries
  <2>2. IsFiniteSet(Recoveries(r))
    BY DEF QueueInv, RecoveriesAreFinite
  <2>3. CASE added = {}
    BY <1>5, <2>1, <2>2, <2>3
  <2>4. CASE added # {}
    <3>1. PICK i \in added : TRUE
      BY <2>4
    <3>2. added = {i}
      <4>1. \A k \in added : source(k) \in Active /\ runOf[source(k)] = r
        BY <1>2, <1>3
      <4>2. \A k \in added : source(k) = source(i)
        BY <3>1, <4>1 DEF QueueInv, OneActiveJobPerRun
      <4>3. \A k \in added : new[source(k)] = k
        BY <1>3
      <4>4. QED BY <3>1, <4>2, <4>3
    <3>3. Cardinality(Recoveries(r)) < MaxRecoveries
      BY <1>3, <3>1 DEF Recovered, replaced
    <3>4. Recoveries(r)' = Recoveries(r) \cup {i} /\ runOf'[i] = r /\ i \in Jobs
      BY <1>2, <1>5, <2>1, <3>1, <3>2
    <3>5. Earlier(i)' \subseteq Recoveries(r)
      <4>1. Recoveries(runOf[i])' = Recoveries(r)'
        BY <3>4 DEF Recoveries
      <4>2. Earlier(i)' \subseteq Recoveries(r)' /\ ~((i < i)')
        BY <3>4, <4>1, JobsAssumption DEF Earlier
      <4>3. i \notin Earlier(i)'
        BY <4>2 DEF Earlier
      <4>4. QED BY <3>4, <4>2, <4>3
    <3>6. /\ Cardinality(Earlier(i)') <= Cardinality(Recoveries(r))
          /\ Cardinality(Earlier(i)') \in Nat /\ Cardinality(Recoveries(r)) \in Nat
      BY <2>2, <3>5, FS_Subset, FS_CardinalityType
    <3>7. Cardinality(Earlier(i)') < MaxRecoveries
      BY <3>3, <3>6
    <3>8. \A k \in ids : runOf'[k] = r => k = i
      BY <1>5, <3>2
    <3>9. QED BY <2>2, <3>4, <3>7, <3>8, FS_AddElement
  <2>5. QED BY <2>3, <2>4
<1>11. RecoveryIsCapped'
  <2>1. \A i \in ids : runOf'[i] \in Runs
    BY <1>2, <1>6 DEF QueueTypeOK
  <2>2. \A i \in ids : (Cardinality(Earlier(i)) < MaxRecoveries)'
    BY <1>10, <2>1
  <2>3. QED BY <1>5, <1>7, <2>2, OldCapsHold DEF RecoveryIsCapped, Earlier
<1>12. NumberedInOrder'
  BY <1>1, <1>7 DEF QueueInv, NumberedInOrder, NextIds, ids
<1>13. QED BY <1>6, <1>8, <1>9, <1>10, <1>11, <1>12 DEF QueueInv, RecoveriesAreFinite

\* Every operation keeps QueueInv.
LEMMA QueueStepInv == QueueInv /\ [QueueNext]_queueVars => QueueInv'
<1> SUFFICES ASSUME QueueInv, [QueueNext]_queueVars PROVE QueueInv'
  OBVIOUS
<1>1. CASE UNCHANGED queueVars
  <2>1. QueueTypeOK'
    BY <1>1 DEF QueueInv, QueueTypeOK, queueVars, jobVars, leaseVars
  <2>2. QED BY <1>1, <2>1, QuietStep
          DEF queueVars, jobVars, leaseVars, Created, Active, Running, HeldProjects
<1>2. CASE \E r \in Runs, k \in {"start", "continue", "requeued"} : Enqueue(r, k)
  BY <1>2, EnqueueInv
<1>3. CASE \E w \in Workers : Claim(w)
  BY <1>3, ClaimInv
<1>4. CASE \E w \in Workers, j \in Jobs : Extend(w, j)
  BY <1>4, ExtendInv
<1>5. CASE \E w \in Workers, j \in Jobs, s \in Terminal : Finish(w, j, s)
  BY <1>5, FinishInv
<1>6. CASE Reap
  BY <1>6, ReapInv
<1>7. CASE \E r \in Runs : RequestCancel(r)
  BY <1>7, RequestCancelInv
<1>8. CASE \E p \in Projects, h \in Holders : AcquireProject(p, h) \/ ReleaseProject(p, h)
  BY <1>8, AcquireProjectInv, ReleaseProjectInv
<1>9. CASE (\E j \in Jobs : JobLeaseLapses(j)) \/ (\E p \in Projects : ProjectLeaseLapses(p))
  BY <1>9, LapseInv
<1>10. QED BY <1>1, <1>2, <1>3, <1>4, <1>5, <1>6, <1>7, <1>8, <1>9 DEF QueueNext

LEMMA QueueInvariant == QueueSpec => []QueueInv
BY QueueInitInv, QueueStepInv, PTL DEF QueueSpec

\* The columns hold what the schema and the code put there, and exactly the
\* running jobs have a lease owner.
THEOREM QueueTypeCorrect == QueueSpec => []QueueTypeOK
BY QueueInvariant, PTL DEF QueueInv

\* enqueue and reap_expired never leave a run with two queued or running jobs.
THEOREM AtMostOneActiveJob == QueueSpec => []OneActiveJobPerRun
BY QueueInvariant, PTL DEF QueueInv

\* claim and acquire_project: a project has one owner at a time.
THEOREM ProjectHasOneOwner == QueueSpec => []OneOwnerPerProject
BY QueueInvariant, PTL DEF QueueInv

\* reap_expired: whatever operators requeue, no run is recovered automatically
\* once it was recovered as often as the cap allows.
THEOREM RecoveryStaysCapped == QueueSpec => []RecoveryIsCapped
BY QueueInvariant, PTL DEF QueueInv

\* finish, the reaper and a cancellation never touch a job that has ended, and
\* the next job takes an unused id.
THEOREM OutcomesAreFinal == QueueSpec => OutcomeIsFinal
<1> DEFINE Kept == \A j \in Jobs : state[j] \in Terminal => state'[j] = state[j] /\ runOf'[j] = runOf[j]
<1>1. QueueInv /\ [QueueNext]_queueVars => [Kept]_queueVars
  <2> SUFFICES ASSUME QueueInv, QueueNext, NEW j \in Jobs, state[j] \in Terminal
               PROVE  state'[j] = state[j] /\ runOf'[j] = runOf[j]
    OBVIOUS
  <2>1. /\ state \in [Jobs -> Status] /\ runOf \in [Jobs -> Runs]
        /\ state[j] \notin {"absent", "queued", "running"}
    BY DEF QueueInv, QueueTypeOK, Status, Terminal
  <2>2. CASE \E r \in Runs, k \in {"start", "continue", "requeued"} : Enqueue(r, k)
    BY <2>1, <2>2 DEF Enqueue, NextIds, Created
  <2>3. CASE \E w \in Workers : Claim(w)
    BY <2>1, <2>3 DEF Claim, Claimable
  <2>4. CASE \E w \in Workers, i \in Jobs, s \in Terminal : Finish(w, i, s)
    BY <2>1, <2>4 DEF Finish, OwnsJob
  <2>5. CASE Reap
    <3> DEFINE expired == {i \in Running : lapsed[i]}
               replaced == Recovered(expired)
    <3>1. PICK new \in [replaced -> Jobs \ Created] :
            LET ids == {new[i] : i \in replaced}
                source(i) == CHOOSE m \in replaced : new[m] = i
            IN  /\ state' = [i \in Jobs |-> CASE i \in expired -> "failed"
                                              [] i \in ids     -> "queued"
                                              [] OTHER         -> state[i]]
                /\ runOf' = [i \in Jobs |-> IF i \in ids THEN runOf[source(i)] ELSE runOf[i]]
      BY <2>5 DEF Reap
    <3>2. j \notin expired
      BY <2>1 DEF Running
    <3>3. j \notin {new[i] : i \in replaced}
      BY <2>1 DEF Created
    <3> HIDE DEF expired, replaced
    <3>4. QED BY <2>1, <3>1, <3>2, <3>3
  <2>6. CASE \E r \in Runs : RequestCancel(r)
    BY <2>1, <2>6 DEF RequestCancel, Active
  <2>7. CASE \/ \E w \in Workers, i \in Jobs : Extend(w, i)
             \/ \E p \in Projects, h \in Holders : AcquireProject(p, h) \/ ReleaseProject(p, h)
             \/ \E i \in Jobs : JobLeaseLapses(i)
             \/ \E p \in Projects : ProjectLeaseLapses(p)
    BY <2>7 DEF Extend, AcquireProject, ReleaseProject, JobLeaseLapses, ProjectLeaseLapses, jobVars
  <2>8. QED BY <2>2, <2>3, <2>4, <2>5, <2>6, <2>7 DEF QueueNext
<1>2. QED BY QueueInvariant, <1>1, PTL DEF OutcomeIsFinal, QueueSpec
-----------------------------------------------------------------------------
(* The worker pool.                                                        *)

USE SlotsAssumption, ChainAssumption, PoolAssumption

\* The queue's operations as the pool calls them: a run's first job, and only
\* that one, is a build that starts, and users ask for a cancellation.
PoolQueueNext ==
    \/ \E r \in Runs : ~HasJobs(r) /\ Enqueue(r, "start")
    \/ \E r \in Runs : Enqueue(r, "continue")
    \/ \E w \in Workers : Claim(w)
    \/ \E w \in Workers, j \in Jobs : Extend(w, j)
    \/ \E w \in Workers, j \in Jobs, s \in Terminal : Finish(w, j, s)
    \/ Reap
    \/ "stop" \in Requests /\ \E r \in Runs : RequestCancel(r)
    \/ \E p \in Projects, h \in Holders : AcquireProject(p, h) \/ ReleaseProject(p, h)
    \/ \E j \in Jobs : JobLeaseLapses(j)

\* finish, called by a slot: the queue's Finish or nothing.
LEMMA FinishIsQueueStep ==
    ASSUME PoolTypeOK, NEW s \in Slots, NEW status \in Terminal, FinishIfOwned(s, status)
    PROVE  [PoolQueueNext]_queueVars
BY DEF FinishIfOwned, Finish, OwnsJob, Owns, PoolTypeOK, PoolQueueNext

\* The steps of a slot in run_once, execute and _drive that touch the queue.
LEMMA SlotIsQueueStep ==
    ASSUME PoolTypeOK, NEW s \in Slots, SlotStep(s)
    PROVE  [PoolQueueNext]_queueVars
<1>1. CASE Reaps(s)
  BY <1>1 DEF Reaps, PoolQueueNext
<1>2. CASE Claims(s)
  BY <1>2 DEF Claims, PoolQueueNext
<1>3. CASE Loads(s) \/ FailsToStart(s)
  BY <1>3, FinishIsQueueStep DEF Loads, FailsToStart, Terminal
<1>4. CASE Finishes(s)
  <2>1. verdict[s] \in Terminal /\ WorkerOf[s] \in Workers /\ job[s] \in Jobs
    BY DEF PoolTypeOK
  <2>2. CASE Owns(s)
    BY <1>4, <2>1, <2>2 DEF Finishes, FinishIfOwned, PoolQueueNext
  <2>3. CASE ~Owns(s)
    BY <1>4, <2>3 DEF Finishes, FinishIfOwned
  <2>4. QED BY <2>2, <2>3
<1>5. CASE Heartbeat(s)
  <2>1. WorkerOf[s] \in Workers /\ job[s] \in Jobs
    BY DEF PoolTypeOK
  <2>2. QED BY <1>5, <2>1 DEF Heartbeat, PoolQueueNext
<1>6. CASE \/ RecoversRun(s) \/ Starts(s) \/ SetsCriteria(s) \/ AddsTasks(s) \/ PlanFails(s)
           \/ RecoversFailure(s) \/ AsksHuman(s) \/ AppliesDecision(s) \/ Delegates(s)
  BY <1>6 DEF RecoversRun, Starts, SetsCriteria, AddsTasks, PlanFails, RecoversFailure,
              AsksHuman, AppliesDecision, Delegates, DriverFrame
<1>7. CASE \/ Completes(s) \/ Returns(s) \/ Answers(s) \/ AnswersTooLate(s) \/ Accepts(s)
           \/ Rejects(s) \/ Overspends(s) \/ Interrupts(s) \/ Delivers(s)
  BY <1>7 DEF Completes, Returns, Answers, AnswersTooLate, Accepts, Rejects, Overspends,
              Interrupts, Delivers, DriverFrame
<1>8. QED BY <1>1, <1>2, <1>3, <1>4, <1>5, <1>6, <1>7 DEF SlotStep

\* The steps of processes, of time and of requests.
LEMMA StepIsQueueStep == PoolTypeOK /\ [PoolNext]_poolVars => [PoolQueueNext]_queueVars
<1> SUFFICES ASSUME PoolTypeOK, [PoolNext]_poolVars PROVE [PoolQueueNext]_queueVars
  OBVIOUS
<1>1. CASE UNCHANGED poolVars
  BY <1>1 DEF poolVars
<1>2. CASE \E s \in Slots : SlotStep(s)
  BY <1>2, SlotIsQueueStep
<1>3. CASE \E w \in Workers : Crash(w) \/ Restart(w)
  BY <1>3 DEF Crash, Restart, ProcessFrame
<1>4. CASE \E j \in Jobs : TimePasses(j)
  BY <1>4 DEF TimePasses, PoolQueueNext
<1>5. ASSUME NEW r \in Runs, StartsBuild(r) \/ ContinuesRun(r) \/ ContinuesDecided(r)
      PROVE  [PoolQueueNext]_queueVars
  BY <1>5 DEF StartsBuild, ContinuesRun, ContinuesDecided, PoolQueueNext
<1>6. ASSUME NEW r \in Runs, StopsRun(r)
      PROVE  [PoolQueueNext]_queueVars
  BY <1>6 DEF StopsRun, PoolQueueNext
<1>7. ASSUME NEW r \in Runs, DecidesApproval(r) \/ FindsIdle(r) \/ Abandons(r)
      PROVE  [PoolQueueNext]_queueVars
  BY <1>7 DEF DecidesApproval, FindsIdle, Abandons
<1>8. ASSUME NEW h \in Holders, NEW r \in Runs, AcquiresForDelivery(h, r)
      PROVE  [PoolQueueNext]_queueVars
  <2>1. ProjectOf[r] \in Projects
    OBVIOUS
  <2>2. QED BY <1>8, <2>1 DEF AcquiresForDelivery, PoolQueueNext
<1>9. ASSUME NEW h \in Holders, RetriesDelivery(h)
      PROVE  [PoolQueueNext]_queueVars
  <2>1. retrying[h] \in Runs /\ ProjectOf[retrying[h]] \in Projects
    BY <1>9 DEF RetriesDelivery, PoolTypeOK
  <2>2. QED BY <1>9, <2>1 DEF RetriesDelivery, PoolQueueNext
<1>10. QED BY <1>1, <1>2, <1>3, <1>4, <1>5, <1>6, <1>7, <1>8, <1>9 DEF PoolNext

LEMMA PoolStepIsQueueStep == PoolTypeOK /\ [PoolNext]_poolVars => [QueueNext]_queueVars
BY StepIsQueueStep DEF PoolQueueNext, QueueNext

-----------------------------------------------------------------------------
(* Types.                                                                  *)

Steps == Executing \cup {"off", "idle", "reaped", "delivering"}

LEMMA StepNames ==
    {"off", "idle", "reaped", "claimed", "recovering", "starting", "planning", "installing",
     "looping", "working", "judging", "stopping", "finishing", "delivering"} = Steps
BY DEF Steps, Executing, Driving, Awaiting

\* The types of the slots, of the runs and of the requests, which most steps
\* leave to two of the three.
SlotTypes ==
    /\ pc \in [Slots -> Steps]
    /\ job \in [Slots -> Jobs]
    /\ verdict \in [Slots -> Terminal]

RunTypes ==
    /\ runStatus \in [Runs -> {"active", "completed", "abandoned"}]
    /\ done \in [Runs -> 0..Tasks]
    /\ stage \in [Runs -> Stages]
    /\ by \in [Runs -> Slots \cup {Nobody}]
    /\ attempts \in [Runs -> 0..MaxAttempts]
    /\ head \in [Projects -> Runs \cup {Nobody}]
    /\ delivery \in [Runs -> {"none", "ready", "failed"}]

RequestTypes ==
    /\ deciding \subseteq Runs /\ closing \subseteq Runs
    /\ retrying \in [Holders -> Runs \cup {Nobody}]
    /\ crashes \in 0..MaxCrashes

LEMMA TypesSplit == PoolTypeOK <=> QueueTypeOK /\ SlotTypes /\ RunTypes /\ RequestTypes
BY DEF PoolTypeOK, SlotTypes, RunTypes, RequestTypes, Steps

LEMMA PoolInitTypes == PoolInit => PoolTypeOK
<1> SUFFICES ASSUME PoolInit PROVE PoolTypeOK
  OBVIOUS
<1>1. QueueTypeOK
  BY QueueInitInv DEF PoolInit, QueueInv
<1>2. SlotTypes
  <2>1. (CHOOSE j \in Jobs : TRUE) \in Jobs
    OBVIOUS
  <2>2. QED BY <2>1, StepNames DEF PoolInit, SlotTypes, Terminal
<1>3. RunTypes
  BY DEF PoolInit, RunTypes, Stages
<1>4. RequestTypes
  BY DEF PoolInit, RequestTypes
<1>5. QED BY <1>1, <1>2, <1>3, <1>4, TypesSplit

LEMMA SlotKeepsSlotTypes ==
    ASSUME SlotTypes, NEW s \in Slots, SlotStep(s)
    PROVE  SlotTypes'
<1> USE StepNames DEF SlotTypes, Goes, Ends, Terminal
<1>1. CASE Reaps(s) \/ Claims(s) \/ Loads(s) \/ RecoversRun(s) \/ FailsToStart(s) \/ Starts(s)
  BY <1>1 DEF Reaps, Claims, Loads, RecoversRun, FailsToStart, Starts
<1>2. CASE \/ SetsCriteria(s) \/ AddsTasks(s) \/ PlanFails(s) \/ RecoversFailure(s)
           \/ AsksHuman(s) \/ AppliesDecision(s) \/ Delegates(s)
  BY <1>2 DEF SetsCriteria, AddsTasks, PlanFails, RecoversFailure, AsksHuman, AppliesDecision,
              Delegates, DriverFrame, slotVars
<1>3. CASE \/ Completes(s) \/ Returns(s) \/ Answers(s) \/ AnswersTooLate(s) \/ Accepts(s)
           \/ Rejects(s) \/ Overspends(s)
  BY <1>3 DEF Completes, Returns, Answers, AnswersTooLate, Accepts, Rejects, Overspends,
              DriverFrame
<1>4. CASE Heartbeat(s) \/ Interrupts(s) \/ Finishes(s) \/ Delivers(s)
  BY <1>4 DEF Heartbeat, Interrupts, Finishes, Delivers, DriverFrame
<1>5. QED BY <1>1, <1>2, <1>3, <1>4 DEF SlotStep

\* A chain that is not accepted has a task to do: what makes the count of
\* accepted tasks end at Tasks.
ChainUnfinished == \A r \in Runs : stage[r] # "accepted" => done[r] # Tasks

LEMMA SlotKeepsRunTypes ==
    ASSUME SlotTypes, QueueTypeOK, RunTypes, ChainUnfinished, NEW s \in Slots, SlotStep(s)
    PROVE  RunTypes'
<1>1. RunOf(s) \in Runs /\ ProjectOf[RunOf(s)] \in Projects
  BY DEF RunOf, SlotTypes, QueueTypeOK
<1> USE <1>1 DEF RunTypes, Stages
<1>2. CASE \/ Reaps(s) \/ Claims(s) \/ Loads(s) \/ FailsToStart(s) \/ Starts(s) \/ PlanFails(s)
           \/ Returns(s) \/ AnswersTooLate(s) \/ Heartbeat(s) \/ Finishes(s)
  BY <1>2 DEF Reaps, Claims, Loads, FailsToStart, Starts, PlanFails, Returns, AnswersTooLate,
              Heartbeat, Finishes, workVars, DriverFrame
<1>3. CASE RecoversRun(s) \/ Interrupts(s)
  BY <1>3 DEF RecoversRun, Interrupts, Interrupt, workVars, DriverFrame
<1>4. CASE SetsCriteria(s) \/ AddsTasks(s) \/ RecoversFailure(s) \/ AsksHuman(s) \/ AppliesDecision(s)
  BY <1>4 DEF SetsCriteria, AddsTasks, RecoversFailure, AsksHuman, AppliesDecision, MovesTo,
              workVars, DriverFrame
<1>5. CASE Answers(s) \/ Rejects(s) \/ Overspends(s)
  BY <1>5 DEF Answers, Rejects, Overspends, MovesTo, workVars, DriverFrame
<1>6. CASE Delegates(s)
  BY <1>6 DEF Delegates, DriverFrame
<1>7. CASE Completes(s)
  BY <1>7 DEF Completes, workVars, DriverFrame
<1>8. CASE Accepts(s)
  <2>1. done[RunOf(s)] # Tasks
    BY <1>8 DEF Accepts, ChainUnfinished
  <2>2. done[RunOf(s)] + 1 \in 0..Tasks
    BY <2>1
  <2>3. QED BY <1>8, <2>2 DEF Accepts, DriverFrame
<1>9. CASE Delivers(s)
  BY <1>9 DEF Delivers, Assembled, workVars
<1>10. QED BY <1>2, <1>3, <1>4, <1>5, <1>6, <1>7, <1>8, <1>9 DEF SlotStep

\* Steps that move no run: what a run's stage says stays true.
LEMMA StillStages ==
    ASSUME UNCHANGED <<runStatus, done, stage>>
    PROVE  /\ ChainUnfinished => ChainUnfinished'
           /\ ClosedRunIsQuiet => ClosedRunIsQuiet'
BY DEF ChainUnfinished, ClosedRunIsQuiet

\* A driver that moves its run finds it active and its chain unfinished, and
\* accepts the last task only by counting it.
LEMMA SlotKeepsStages ==
    ASSUME SlotTypes, QueueTypeOK, RunTypes, ChainUnfinished, ClosedRunIsQuiet,
           NEW s \in Slots, SlotStep(s)
    PROVE  ChainUnfinished' /\ ClosedRunIsQuiet'
<1>1. RunOf(s) \in Runs
  BY DEF RunOf, SlotTypes, QueueTypeOK
<1>2. CASE \/ Reaps(s) \/ Claims(s) \/ Loads(s) \/ FailsToStart(s) \/ Starts(s) \/ PlanFails(s)
           \/ Returns(s) \/ AnswersTooLate(s) \/ Heartbeat(s) \/ Finishes(s) \/ Delivers(s)
  BY <1>2, StillStages DEF Reaps, Claims, Loads, FailsToStart, Starts, PlanFails, Returns,
        AnswersTooLate, Heartbeat, Finishes, Delivers, workVars, DriverFrame
<1> USE <1>1 DEF RunTypes, ChainUnfinished, ClosedRunIsQuiet, IsActive
<1>3. CASE RecoversRun(s) \/ Interrupts(s)
  BY <1>3 DEF RecoversRun, Interrupts, Interrupt, workVars, DriverFrame
<1>4. CASE SetsCriteria(s) \/ AddsTasks(s) \/ RecoversFailure(s) \/ AsksHuman(s) \/ AppliesDecision(s)
  BY <1>4 DEF SetsCriteria, AddsTasks, RecoversFailure, AsksHuman, AppliesDecision, MovesTo,
              workVars, DriverFrame
<1>5. CASE Answers(s) \/ Rejects(s) \/ Overspends(s)
  BY <1>5 DEF Answers, Rejects, Overspends, Assigned, MovesTo, workVars, DriverFrame
<1>6. CASE Delegates(s) \/ Completes(s)
  BY <1>6 DEF Delegates, Completes, workVars, DriverFrame
<1>7. CASE Accepts(s)
  BY <1>7 DEF Accepts, DriverFrame
<1>8. QED BY <1>2, <1>3, <1>4, <1>5, <1>6, <1>7 DEF SlotStep

\* The other processes: crashes, time and requests.
LEMMA OthersKeepTypes ==
    ASSUME QueueTypeOK, SlotTypes, RunTypes, RequestTypes, ChainUnfinished, ClosedRunIsQuiet,
           PoolNext, ~\E s \in Slots : SlotStep(s)
    PROVE  SlotTypes' /\ RunTypes' /\ RequestTypes' /\ ChainUnfinished' /\ ClosedRunIsQuiet'
<1>1. CASE \E w \in Workers : Crash(w) \/ Restart(w)
  <2>1. UNCHANGED <<runStatus, workVars, head, delivery, apiVars>>
    BY <1>1 DEF Crash, Restart, ProcessFrame
  <2>2. SlotTypes'
    BY <1>1, StepNames DEF Crash, Restart, ProcessFrame, AllGo, SlotTypes
  <2>3. RunTypes' /\ RequestTypes'
    BY <1>1, <2>1 DEF RunTypes, RequestTypes, workVars, apiVars, Crash, Restart
  <2>4. QED BY <2>1, <2>2, <2>3, StillStages DEF workVars
<1>2. CASE \E j \in Jobs : TimePasses(j)
  <2>1. UNCHANGED <<slotVars, runStatus, workVars, head, delivery, apiVars, crashes>>
    BY <1>2 DEF TimePasses
  <2>2. QED BY <2>1, StillStages
          DEF SlotTypes, RunTypes, RequestTypes, slotVars, workVars, apiVars
<1>3. ASSUME NEW r \in Runs,
             StartsBuild(r) \/ ContinuesRun(r) \/ StopsRun(r) \/ ContinuesDecided(r) \/ FindsIdle(r)
      PROVE  SlotTypes' /\ RunTypes' /\ RequestTypes' /\ ChainUnfinished' /\ ClosedRunIsQuiet'
  <2>1. UNCHANGED <<slotVars, runStatus, workVars, head, delivery, crashes, retrying>>
    BY <1>3 DEF StartsBuild, ContinuesRun, StopsRun, ContinuesDecided, FindsIdle, ApiFrame, apiVars
  <2>2. deciding' \subseteq Runs /\ closing' \subseteq Runs
    BY <1>3 DEF StartsBuild, ContinuesRun, StopsRun, ContinuesDecided, FindsIdle, apiVars,
                RequestTypes
  <2>3. QED BY <2>1, <2>2, StillStages DEF SlotTypes, RunTypes, RequestTypes, slotVars, workVars
<1>4. ASSUME NEW r \in Runs, DecidesApproval(r)
      PROVE  SlotTypes' /\ RunTypes' /\ RequestTypes' /\ ChainUnfinished' /\ ClosedRunIsQuiet'
  <2>1. SlotTypes' /\ RequestTypes'
    BY <1>4 DEF DecidesApproval, SlotTypes, RequestTypes, slotVars
  <2>2. RunTypes'
    BY <1>4 DEF DecidesApproval, MovesTo, RunTypes, Stages
  <2>3. ChainUnfinished' /\ ClosedRunIsQuiet'
    BY <1>4 DEF DecidesApproval, MovesTo, IsActive, RunTypes, ChainUnfinished, ClosedRunIsQuiet
  <2>4. QED BY <2>1, <2>2, <2>3
<1>5. ASSUME NEW r \in Runs, Abandons(r)
      PROVE  SlotTypes' /\ RunTypes' /\ RequestTypes' /\ ChainUnfinished' /\ ClosedRunIsQuiet'
  <2>1. SlotTypes' /\ RequestTypes'
    BY <1>5 DEF Abandons, SlotTypes, RequestTypes, slotVars
  <2>2. RunTypes'
    BY <1>5 DEF Abandons, RunTypes, workVars
  <2>3. ChainUnfinished' /\ ClosedRunIsQuiet'
    BY <1>5 DEF Abandons, RunTypes, workVars, ChainUnfinished, ClosedRunIsQuiet
  <2>4. QED BY <2>1, <2>2, <2>3
<1>6. ASSUME NEW h \in Holders, RetriesDelivery(h) \/ \E r \in Runs : AcquiresForDelivery(h, r)
      PROVE  SlotTypes' /\ RunTypes' /\ RequestTypes' /\ ChainUnfinished' /\ ClosedRunIsQuiet'
  <2>1. UNCHANGED <<slotVars, runStatus, workVars, head, deciding, closing, crashes>>
    BY <1>6 DEF RetriesDelivery, AcquiresForDelivery, ApiFrame
  <2>2. RequestTypes'
    BY <1>6, <2>1 DEF RetriesDelivery, AcquiresForDelivery, RequestTypes
  <2>3. delivery' \in [Runs -> {"none", "ready", "failed"}]
    BY <1>6 DEF RetriesDelivery, AcquiresForDelivery, ApiFrame, RunTypes, Assembled
  <2>4. QED BY <2>1, <2>2, <2>3, StillStages DEF SlotTypes, RunTypes, slotVars, workVars
<1>7. QED BY <1>1, <1>2, <1>3, <1>4, <1>5, <1>6 DEF PoolNext

-----------------------------------------------------------------------------
(* The invariant and what follows from it.                                 *)

PoolInv == QueueInv /\ PoolTypeOK /\ ChainUnfinished /\ ClosedRunIsQuiet

LEMMA PoolStepInv == PoolInv /\ [PoolNext]_poolVars => PoolInv'
<1> SUFFICES ASSUME PoolInv, [PoolNext]_poolVars PROVE PoolInv'
  OBVIOUS
<1>1. QueueTypeOK /\ SlotTypes /\ RunTypes /\ RequestTypes
  BY TypesSplit DEF PoolInv
<1>2. QueueInv' /\ QueueTypeOK'
  BY PoolStepIsQueueStep, QueueStepInv DEF PoolInv, QueueInv
<1>3. SlotTypes' /\ RunTypes' /\ RequestTypes' /\ ChainUnfinished' /\ ClosedRunIsQuiet'
  <2>1. CASE UNCHANGED poolVars
    BY <1>1, <2>1, StillStages
    DEF PoolInv, poolVars, slotVars, workVars, apiVars, SlotTypes, RunTypes, RequestTypes
  <2>2. ASSUME NEW s \in Slots, SlotStep(s)
        PROVE  SlotTypes' /\ RunTypes' /\ RequestTypes' /\ ChainUnfinished' /\ ClosedRunIsQuiet'
    <3>1. RequestTypes'
      BY <1>1, <2>2 DEF RequestTypes, SlotStep, Reaps, Claims, Loads, RecoversRun, FailsToStart,
           Starts, SetsCriteria, AddsTasks, PlanFails, RecoversFailure, AsksHuman,
           AppliesDecision, Delegates, Completes, Returns, Answers, AnswersTooLate, Accepts,
           Rejects, Overspends, Heartbeat, Interrupts, Finishes, Delivers, DriverFrame, apiVars
    <3>2. QED BY <1>1, <2>2, <3>1, SlotKeepsSlotTypes, SlotKeepsRunTypes, SlotKeepsStages
            DEF PoolInv
  <2>3. CASE PoolNext /\ ~\E s \in Slots : SlotStep(s)
    BY <1>1, <2>3, OthersKeepTypes DEF PoolInv
  <2>4. QED BY <2>1, <2>2, <2>3
<1>4. PoolTypeOK'
  <2>1. (QueueTypeOK /\ SlotTypes /\ RunTypes /\ RequestTypes)'
    BY <1>2, <1>3
  <2>2. QED BY <2>1 DEF PoolTypeOK, SlotTypes, RunTypes, RequestTypes, Steps
<1>5. QED BY <1>2, <1>3, <1>4 DEF PoolInv

LEMMA PoolInvariant == PoolSpec => []PoolInv
<1>1. PoolInit => PoolInv
  <2> SUFFICES ASSUME PoolInit PROVE PoolInv
    OBVIOUS
  <2>1. QueueInv /\ PoolTypeOK
    BY QueueInitInv, PoolInitTypes DEF PoolInit
  <2>2. ChainUnfinished /\ ClosedRunIsQuiet
    BY DEF PoolInit, ChainUnfinished, ClosedRunIsQuiet
  <2>3. QED BY <2>1, <2>2 DEF PoolInv
<1>2. QED BY <1>1, PoolStepInv, PTL DEF PoolSpec

\* The pool's variables hold what the code puts there: in particular a task is
\* delegated at most MaxAttempts times and no task beyond the chain is accepted.
THEOREM PoolTypeCorrect == PoolSpec => []PoolTypeOK
BY PoolInvariant, PTL DEF PoolInv

\* Whatever a worker that stalled, crashed or lost its lease still does, and
\* whatever requests arrive, jobs and leases change only by the operations of
\* the queue.
THEOREM PoolImplementsQueue == PoolSpec => ImplementsQueue
<1>1. PoolInit => QueueInit
  BY DEF PoolInit
<1>2. PoolInv /\ [PoolNext]_poolVars => [QueueNext]_queueVars
  BY PoolStepIsQueueStep DEF PoolInv
<1>3. QED BY <1>1, <1>2, PoolInvariant, PTL DEF PoolSpec, QueueSpec, ImplementsQueue

\* Hence the queue's guarantees hold of the pool: one active job per run.
THEOREM PoolHasOneActiveJob == PoolSpec => []OneActiveJobPerRun
BY PoolImplementsQueue, AtMostOneActiveJob, PTL DEF ImplementsQueue

\* abandon_run checks the queue and the kernel at different moments; no run is
\* ever closed with work in flight or a decision to wait for.
THEOREM ClosedRunStaysQuiet == PoolSpec => []ClosedRunIsQuiet
BY PoolInvariant, PTL DEF PoolInv

-----------------------------------------------------------------------------
(* While leases hold.  If live processes extend their leases in time, a     *)
(* slot that executes a job owns it, alone, and so nobody else works on its *)
(* run: the assignment it waits for stays its own.                          *)

\* The job stays with its run and its owner, and its lease does not expire.
Kept(j) ==
    /\ state'[j] = state[j] /\ owner'[j] = owner[j] /\ runOf'[j] = runOf[j]
    /\ lapsed'[j] => lapsed[j]

Leased == \A s \in Slots : pc[s] \in Executing => Owns(s) /\ ~lapsed[job[s]]

OneSlotPerJob ==
    \A s, t \in Slots : pc[s] \in Executing /\ pc[t] \in Executing /\ job[s] = job[t] => s = t

LEMMA ReapKeeps ==
    ASSUME QueueTypeOK, Reap
    PROVE  \A j \in Running : ~lapsed[j] => Kept(j)
<1> SUFFICES ASSUME NEW j \in Jobs, state[j] = "running", ~lapsed[j] PROVE Kept(j)
  BY DEF Running
<1> DEFINE expired == {i \in Running : lapsed[i]}
           replaced == Recovered(expired)
<1>1. PICK new \in [replaced -> Jobs \ Created] :
        LET ids == {new[i] : i \in replaced}
            source(i) == CHOOSE m \in replaced : new[m] = i
        IN  /\ state' = [i \in Jobs |-> CASE i \in expired -> "failed"
                                          [] i \in ids     -> "queued"
                                          [] OTHER         -> state[i]]
            /\ runOf' = [i \in Jobs |-> IF i \in ids THEN runOf[source(i)] ELSE runOf[i]]
  BY DEF Reap
<1>2. /\ owner' = [i \in Jobs |-> IF i \in expired THEN Nobody ELSE owner[i]]
      /\ lapsed' = [i \in Jobs |-> i \notin expired /\ lapsed[i]]
  BY DEF Reap
<1>3. j \notin expired /\ j \notin {new[i] : i \in replaced}
  BY DEF Created
<1> HIDE DEF expired, replaced
<1>4. QED BY <1>1, <1>2, <1>3 DEF Kept

LEMMA ClaimKeeps ==
    ASSUME QueueTypeOK, NEW w \in Workers, Claim(w)
    PROVE  \A j \in Running : Kept(j)
BY DEF Claim, Claimable, Running, Kept, QueueTypeOK

LEMMA EnqueueKeeps ==
    ASSUME QueueTypeOK, NEW r \in Runs, NEW k \in {"start", "continue"}, Enqueue(r, k)
    PROVE  \A j \in Running : Kept(j)
BY DEF Enqueue, NextIds, Created, Running, Kept, QueueTypeOK

LEMMA CancelKeeps ==
    ASSUME QueueTypeOK, NEW r \in Runs, RequestCancel(r)
    PROVE  \A j \in Running : Kept(j)
BY DEF RequestCancel, Active, Running, Kept, QueueTypeOK

LEMMA UnchangedKeeps == UNCHANGED jobVars => \A j \in Jobs : Kept(j)
BY DEF jobVars, Kept

\* A slot's step leaves the other slots and the jobs they execute alone.
LEMMA SlotKeepsOthers ==
    ASSUME PoolInv, Leased, OneSlotPerJob, NEW t \in Slots, SlotStep(t),
           NEW s \in Slots, s # t, pc[s] \in Executing
    PROVE  pc'[s] = pc[s] /\ job'[s] = job[s] /\ Kept(job[s])
<1>1. QueueTypeOK /\ SlotTypes /\ job[s] \in Jobs /\ job[t] \in Jobs
  BY TypesSplit DEF PoolInv, SlotTypes
<1>2. job[s] \in Running /\ ~lapsed[job[s]]
  BY <1>1 DEF Leased, Owns, OwnsJob, Running
<1>3. pc'[s] = pc[s] /\ job'[s] = job[s]
  BY <1>1 DEF SlotTypes, SlotStep, Reaps, Claims, Loads, RecoversRun, FailsToStart, Starts,
       SetsCriteria, AddsTasks, PlanFails, RecoversFailure, AsksHuman, AppliesDecision,
       Delegates, Completes, Returns, Answers, AnswersTooLate, Accepts, Rejects, Overspends,
       Heartbeat, Interrupts, Finishes, Delivers, Goes, Ends, DriverFrame, slotVars
<1>4. Kept(job[s])
  <2>1. CASE UNCHANGED queueVars
    BY <1>1, <2>1, UnchangedKeeps DEF queueVars
  <2>2. CASE Reaps(t)
    BY <1>1, <1>2, <2>1, <2>2, ReapKeeps DEF Reaps
  <2>3. CASE Claims(t)
    BY <1>1, <1>2, <2>1, <2>3, ClaimKeeps DEF Claims
  <2>4. CASE Loads(t) \/ FailsToStart(t) \/ Finishes(t)
    <3>1. job[t] # job[s]
      BY <2>4 DEF OneSlotPerJob, Loads, FailsToStart, Finishes, Executing
    <3>2. CASE Owns(t)
      BY <1>1, <2>1, <2>4, <3>1, <3>2
      DEF Loads, FailsToStart, Finishes, FinishIfOwned, Finish, Kept, QueueTypeOK
    <3>3. CASE ~Owns(t)
      BY <2>1, <2>4, <3>3 DEF Loads, FailsToStart, Finishes, FinishIfOwned
    <3>4. QED BY <3>2, <3>3
  <2>5. CASE Heartbeat(t)
    BY <1>1, <2>1, <2>5 DEF Heartbeat, Extend, Kept, QueueTypeOK
  <2>6. CASE \/ RecoversRun(t) \/ Starts(t) \/ SetsCriteria(t) \/ AddsTasks(t) \/ PlanFails(t)
             \/ RecoversFailure(t) \/ AsksHuman(t) \/ AppliesDecision(t) \/ Delegates(t)
    BY <2>1, <2>6 DEF RecoversRun, Starts, SetsCriteria, AddsTasks, PlanFails, RecoversFailure,
              AsksHuman, AppliesDecision, Delegates, DriverFrame
  <2>7. CASE \/ Completes(t) \/ Returns(t) \/ Answers(t) \/ AnswersTooLate(t) \/ Accepts(t)
             \/ Rejects(t) \/ Overspends(t) \/ Interrupts(t) \/ Delivers(t)
    BY <2>1, <2>7 DEF Completes, Returns, Answers, AnswersTooLate, Accepts, Rejects, Overspends,
              Interrupts, Delivers, DriverFrame
  <2>8. QED BY <2>2, <2>3, <2>4, <2>5, <2>6, <2>7 DEF SlotStep
<1>5. QED BY <1>3, <1>4

\* A slot that executes after its own step did before, on the same job, or has
\* just claimed a job that was queued.
LEMMA SlotKeepsItself ==
    ASSUME PoolInv, Leased, NEW s \in Slots, SlotStep(s), pc'[s] \in Executing
    PROVE  /\ Owns(s)' /\ ~lapsed'[job'[s]]
           /\ \/ pc[s] \in Executing /\ job'[s] = job[s]
              \/ state[job'[s]] = "queued"
<1>1. /\ QueueTypeOK /\ SlotTypes /\ job[s] \in Jobs /\ WorkerOf[s] \in Workers
  BY TypesSplit DEF PoolInv, SlotTypes
<1>2. CASE \/ Reaps(s) \/ Delivers(s) \/ FailsToStart(s) \/ Finishes(s)
           \/ Loads(s) /\ ~IsActive(RunOf(s))
  BY <1>1, <1>2 DEF SlotTypes, Reaps, Delivers, FailsToStart, Finishes, Loads, Goes, Executing,
                    Driving, Awaiting
<1>3. CASE Claims(s)
  <2>1. PICK j \in Jobs : /\ Claim(WorkerOf[s])
                          /\ state[j] = "queued" /\ state'[j] = "running"
                          /\ job' = [job EXCEPT ![s] = j]
    BY <1>1, <1>3 DEF SlotTypes, Claims, Goes, Executing, Driving, Awaiting
  <2>2. owner'[j] = WorkerOf[s] /\ ~lapsed'[j]
    BY <1>1, <2>1 DEF Claim, QueueTypeOK
  <2>3. job'[s] = j
    BY <1>1, <2>1 DEF SlotTypes
  <2>4. QED BY <2>1, <2>2, <2>3 DEF Owns, OwnsJob
<1>4. CASE Heartbeat(s)
  <2>1. pc[s] \in Executing /\ job' = job
    BY <1>4 DEF Heartbeat, Executing, Driving
  <2>2. Extend(WorkerOf[s], job[s])
    BY <1>4, <2>1 DEF Heartbeat, Leased
  <2>3. QED BY <1>1, <2>1, <2>2 DEF Extend, Owns, OwnsJob, QueueTypeOK
<1>5. CASE \/ RecoversRun(s) \/ Starts(s) \/ SetsCriteria(s) \/ AddsTasks(s) \/ PlanFails(s)
           \/ RecoversFailure(s) \/ AsksHuman(s) \/ AppliesDecision(s) \/ Delegates(s)
           \/ Loads(s) /\ IsActive(RunOf(s))
  <2>1. UNCHANGED <<queueVars, job>>
    BY <1>5 DEF RecoversRun, Starts, SetsCriteria, AddsTasks, PlanFails, RecoversFailure,
         AsksHuman, AppliesDecision, Delegates, Loads, DriverFrame
  <2>2. pc[s] \in Executing
    BY <1>5 DEF RecoversRun, Starts, SetsCriteria, AddsTasks, PlanFails, RecoversFailure,
         AsksHuman, AppliesDecision, Delegates, Loads, Executing, Driving, Awaiting
  <2>3. QED BY <2>1, <2>2 DEF Leased, Owns, OwnsJob, queueVars, jobVars
<1>6. CASE \/ Completes(s) \/ Returns(s) \/ Answers(s) \/ AnswersTooLate(s) \/ Accepts(s)
           \/ Rejects(s) \/ Overspends(s) \/ Interrupts(s)
  <2>1. UNCHANGED <<queueVars, job>>
    BY <1>6 DEF Completes, Returns, Answers, AnswersTooLate, Accepts, Rejects, Overspends,
         Interrupts, DriverFrame
  <2>2. pc[s] \in Executing
    BY <1>6 DEF Completes, Returns, Answers, AnswersTooLate, Accepts, Rejects, Overspends,
         Interrupts, Executing, Driving, Awaiting
  <2>3. QED BY <2>1, <2>2 DEF Leased, Owns, OwnsJob, queueVars, jobVars
<1>7. QED BY <1>2, <1>3, <1>4, <1>5, <1>6 DEF SlotStep

\* Crashes, time and requests take no job from a slot that executes it, if
\* leases that live processes attend to do not expire.
LEMMA OthersKeepJobs ==
    ASSUME ~Stalls, PoolInv, Leased, PoolNext, ~\E t \in Slots : SlotStep(t),
           NEW s \in Slots, pc'[s] \in Executing
    PROVE  pc[s] = pc'[s] /\ job'[s] = job[s] /\ Kept(job[s])
<1>1. QueueTypeOK /\ SlotTypes /\ job[s] \in Jobs
  BY TypesSplit DEF PoolInv, SlotTypes
<1>2. CASE \E w \in Workers : Crash(w) \/ Restart(w)
  BY <1>1, <1>2, UnchangedKeeps
  DEF Crash, Restart, AllGo, ProcessFrame, Executing, Driving, Awaiting, queueVars
<1>3. ASSUME ~\E w \in Workers : Crash(w) \/ Restart(w)
      PROVE  UNCHANGED slotVars
  BY <1>3 DEF PoolNext, TimePasses, StartsBuild, ContinuesRun, StopsRun, DecidesApproval,
       ContinuesDecided, FindsIdle, Abandons, RetriesDelivery, AcquiresForDelivery, ApiFrame
<1>4. ASSUME pc[s] \in Executing PROVE job[s] \in Running
  BY <1>1, <1>4 DEF Leased, Owns, OwnsJob, Running
<1>5. CASE \E j \in Jobs : TimePasses(j)
  <2>1. UNCHANGED slotVars
    BY <1>5 DEF TimePasses
  <2>2. PICK j \in Jobs : ~Attended(j) /\ JobLeaseLapses(j)
    BY <1>5 DEF TimePasses
  <2>3. Attended(job[s])
    BY <2>1 DEF slotVars, Leased, Owns, OwnsJob, Attended
  <2>4. QED BY <1>1, <2>1, <2>2, <2>3 DEF slotVars, JobLeaseLapses, Kept, QueueTypeOK
<1>6. ASSUME UNCHANGED slotVars,
             NEW r \in Runs, StartsBuild(r) \/ ContinuesRun(r) \/ StopsRun(r) \/ ContinuesDecided(r)
      PROVE  pc[s] = pc'[s] /\ job'[s] = job[s] /\ Kept(job[s])
  <2>1. CASE UNCHANGED queueVars
    BY <1>1, <1>6, <2>1, UnchangedKeeps DEF slotVars, queueVars
  <2>2. CASE Enqueue(r, "start") \/ Enqueue(r, "continue")
    BY <1>1, <1>4, <1>6, <2>2, EnqueueKeeps DEF slotVars
  <2>3. CASE RequestCancel(r)
    BY <1>1, <1>4, <1>6, <2>3, CancelKeeps DEF slotVars
  <2>4. QED BY <1>6, <2>1, <2>2, <2>3
          DEF StartsBuild, ContinuesRun, StopsRun, ContinuesDecided
<1>7. ASSUME UNCHANGED slotVars, UNCHANGED jobVars
      PROVE  pc[s] = pc'[s] /\ job'[s] = job[s] /\ Kept(job[s])
  BY <1>1, <1>7, UnchangedKeeps DEF slotVars
<1>8. ASSUME UNCHANGED slotVars,
             \/ \E r \in Runs : DecidesApproval(r) \/ FindsIdle(r) \/ Abandons(r)
             \/ \E h \in Holders : RetriesDelivery(h) \/ \E r \in Runs : AcquiresForDelivery(h, r)
      PROVE  UNCHANGED jobVars
  BY <1>8 DEF DecidesApproval, FindsIdle, Abandons, RetriesDelivery, AcquiresForDelivery,
       AcquireProject, ReleaseProject, queueVars
<1>9. QED BY <1>2, <1>3, <1>5, <1>6, <1>7, <1>8 DEF PoolNext

LEMMA LeaseStep ==
    ASSUME ~Stalls, PoolInv, Leased, OneSlotPerJob, [PoolNext]_poolVars
    PROVE  Leased' /\ OneSlotPerJob'
<1>1. CASE UNCHANGED poolVars
  BY <1>1 DEF poolVars, slotVars, queueVars, jobVars, Leased, OneSlotPerJob, Owns, OwnsJob
<1>2. CASE PoolNext /\ ~\E t \in Slots : SlotStep(t)
  BY <1>2, OthersKeepJobs DEF Leased, OneSlotPerJob, Owns, OwnsJob, Kept
<1>3. ASSUME NEW t \in Slots, SlotStep(t)
      PROVE  Leased' /\ OneSlotPerJob'
  <2>1. SlotTypes /\ SlotTypes'
    BY <1>3, TypesSplit, SlotKeepsSlotTypes DEF PoolInv
  <2>2. ASSUME NEW s \in Slots, s # t, pc'[s] \in Executing
        PROVE  pc[s] \in Executing
    BY <1>3, <2>1, <2>2 DEF SlotTypes, SlotStep, Reaps, Claims, Loads, RecoversRun, FailsToStart,
         Starts, SetsCriteria, AddsTasks, PlanFails, RecoversFailure, AsksHuman,
         AppliesDecision, Delegates, Completes, Returns, Answers, AnswersTooLate, Accepts,
         Rejects, Overspends, Heartbeat, Interrupts, Finishes, Delivers, Goes, Ends, DriverFrame,
         slotVars
  <2>3. Leased'
    BY <1>3, <2>2, SlotKeepsOthers, SlotKeepsItself DEF Leased, Owns, OwnsJob, Kept
  <2>4. ASSUME NEW s \in Slots, s # t, pc'[s] \in Executing, pc'[t] \in Executing
        PROVE  job'[s] # job'[t]
    <3>1. pc[s] \in Executing /\ job'[s] = job[s] /\ state[job[s]] = "running"
      BY <1>3, <2>2, <2>4, SlotKeepsOthers DEF Leased, Owns, OwnsJob
    <3>2. QED BY <1>3, <2>4, <3>1, SlotKeepsItself DEF OneSlotPerJob
  <2>5. ASSUME NEW s \in Slots, NEW u \in Slots, s # t, u # t, pc'[s] \in Executing,
               pc'[u] \in Executing, job'[s] = job'[u]
        PROVE  s = u
    BY <1>3, <2>2, <2>5, SlotKeepsOthers DEF OneSlotPerJob
  <2>6. QED BY <2>3, <2>4, <2>5 DEF OneSlotPerJob
<1>4. QED BY <1>1, <1>2, <1>3

\* A slot changes the work of the run whose job it executes, and of no other.
LEMMA SlotMindsItsRun ==
    ASSUME PoolInv, NEW t \in Slots, SlotStep(t),
           NEW r \in Runs, pc[t] \in Executing => RunOf(t) # r
    PROVE  stage'[r] = stage[r] /\ by'[r] = by[r] /\ runStatus'[r] = runStatus[r]
<1>1. RunTypes /\ RunOf(t) \in Runs
  BY TypesSplit DEF PoolInv, SlotTypes, QueueTypeOK, RunOf
<1> USE <1>1 DEF RunTypes, Executing, Driving, Awaiting
<1>2. CASE \/ Reaps(t) \/ Claims(t) \/ Loads(t) \/ FailsToStart(t) \/ Starts(t) \/ PlanFails(t)
           \/ Returns(t) \/ AnswersTooLate(t) \/ Heartbeat(t) \/ Finishes(t) \/ Delivers(t)
  BY <1>2 DEF Reaps, Claims, Loads, FailsToStart, Starts, PlanFails, Returns, AnswersTooLate,
        Heartbeat, Finishes, Delivers, workVars, DriverFrame
<1>3. CASE RecoversRun(t) \/ Interrupts(t)
  BY <1>3 DEF RecoversRun, Interrupts, Interrupt, workVars, DriverFrame
<1>4. CASE SetsCriteria(t) \/ AddsTasks(t) \/ RecoversFailure(t) \/ AsksHuman(t) \/ AppliesDecision(t)
  BY <1>4 DEF SetsCriteria, AddsTasks, RecoversFailure, AsksHuman, AppliesDecision, MovesTo,
              workVars, DriverFrame
<1>5. CASE Answers(t) \/ Rejects(t) \/ Overspends(t)
  BY <1>5 DEF Answers, Rejects, Overspends, MovesTo, workVars, DriverFrame
<1>6. CASE Delegates(t) \/ Completes(t) \/ Accepts(t)
  BY <1>6 DEF Delegates, Completes, Accepts, workVars, DriverFrame
<1>7. QED BY <1>2, <1>3, <1>4, <1>5, <1>6 DEF SlotStep

\* Requests leave a running assignment alone.
LEMMA OthersKeepAssignments ==
    ASSUME PoolInv, PoolNext, ~\E t \in Slots : SlotStep(t),
           NEW r \in Runs, stage[r] = "running"
    PROVE  stage'[r] = stage[r] /\ by'[r] = by[r] /\ runStatus'[r] = runStatus[r]
<1>1. RunTypes
  BY TypesSplit DEF PoolInv
<1>2. CASE \E q \in Runs : DecidesApproval(q)
  BY <1>1, <1>2 DEF DecidesApproval, MovesTo, RunTypes
<1>3. CASE \E q \in Runs : Abandons(q)
  BY <1>1, <1>3 DEF Abandons, workVars, RunTypes
<1>4. CASE ~\E q \in Runs : DecidesApproval(q) \/ Abandons(q)
  BY <1>4 DEF PoolNext, Crash, Restart, ProcessFrame, TimePasses, StartsBuild, ContinuesRun,
       StopsRun, ContinuesDecided, FindsIdle, RetriesDelivery, AcquiresForDelivery, ApiFrame,
       workVars
<1>5. QED BY <1>2, <1>3, <1>4

LEMMA OwnedWorkStep ==
    ASSUME ~Stalls, PoolInv, Leased, OneSlotPerJob, OwnedWorkIsUndisturbed, [PoolNext]_poolVars
    PROVE  OwnedWorkIsUndisturbed'
<1> SUFFICES ASSUME NEW s \in Slots, pc'[s] = "working"
             PROVE  Assigned(s)'
  BY DEF OwnedWorkIsUndisturbed
<1>1. /\ QueueTypeOK /\ SlotTypes /\ RunTypes /\ job[s] \in Jobs /\ RunOf(s) \in Runs
      /\ pc'[s] \in Executing
  BY TypesSplit DEF PoolInv, SlotTypes, QueueTypeOK, RunOf, Executing, Driving, Awaiting
<1>2. CASE UNCHANGED poolVars
  BY <1>1, <1>2 DEF poolVars, slotVars, workVars, queueVars, jobVars, Leased, Assigned, IsActive,
       RunOf, OwnedWorkIsUndisturbed
<1>3. CASE SlotStep(s)
  <2>1. CASE Delegates(s)
    <3>1. stage'[RunOf(s)] = "running" /\ by'[RunOf(s)] = s /\ runStatus' = runStatus
      BY <1>1, <2>1 DEF Delegates, RunTypes
    <3>2. RunOf(s)' = RunOf(s)
      BY <2>1 DEF Delegates, DriverFrame, RunOf, queueVars, jobVars
    <3>3. IsActive(RunOf(s))
      BY <2>1 DEF Delegates
    <3>4. QED BY <3>1, <3>2, <3>3 DEF Assigned, IsActive
  <2>2. CASE Heartbeat(s)
    <3>1. pc[s] = "working"
      BY <1>1, <2>2 DEF Heartbeat, SlotTypes
    <3>2. Assigned(s)
      BY <1>1, <3>1 DEF Leased, OwnedWorkIsUndisturbed, Executing, Driving, Awaiting
    <3>3. RunOf(s)' = RunOf(s)
      BY <2>2 DEF Heartbeat, Extend, RunOf, queueVars, jobVars
    <3>4. QED BY <2>2, <3>2, <3>3 DEF Heartbeat, Assigned, IsActive, workVars
  <2>3. CASE ~Delegates(s) /\ ~Heartbeat(s)
    <3>1. pc'[s] # "working"
      BY <1>1, <1>3, <2>3 DEF SlotTypes, SlotStep, Reaps, Claims, Loads, RecoversRun, FailsToStart,
         Starts, SetsCriteria, AddsTasks, PlanFails, RecoversFailure, AsksHuman,
         AppliesDecision, Completes, Returns, Answers, AnswersTooLate, Accepts,
         Rejects, Overspends, Interrupts, Finishes, Delivers, Goes, Ends, DriverFrame,
         slotVars
    <3>2. QED BY <3>1
  <2>4. QED BY <2>1, <2>2, <2>3
<1>4. ASSUME NEW t \in Slots, t # s, SlotStep(t)
      PROVE  Assigned(s)'
  <2>1. pc[s] = "working"
    BY <1>1, <1>4 DEF SlotTypes, SlotStep, Reaps, Claims, Loads, RecoversRun, FailsToStart,
         Starts, SetsCriteria, AddsTasks, PlanFails, RecoversFailure, AsksHuman,
         AppliesDecision, Delegates, Completes, Returns, Answers, AnswersTooLate, Accepts,
         Rejects, Overspends, Heartbeat, Interrupts, Finishes, Delivers, Goes, Ends, DriverFrame,
         slotVars
  <2>2. pc[s] \in Executing /\ Assigned(s)
    BY <2>1 DEF Leased, OwnedWorkIsUndisturbed, Executing, Driving, Awaiting
  <2>3. RunOf(s)' = RunOf(s)
    BY <1>4, <2>2, SlotKeepsOthers DEF RunOf, Kept
  <2>4. pc[t] \in Executing => RunOf(t) # RunOf(s)
    <3>1. SUFFICES ASSUME pc[t] \in Executing, RunOf(t) = RunOf(s) PROVE FALSE
      OBVIOUS
    <3>2. job[s] \in Active /\ job[t] \in Active
      BY <1>1, <2>2, <3>1 DEF Leased, Owns, OwnsJob, Active, SlotTypes
    <3>3. job[s] = job[t]
      BY <3>1, <3>2 DEF PoolInv, QueueInv, OneActiveJobPerRun, RunOf
    <3>4. QED BY <1>4, <2>2, <3>1, <3>3 DEF OneSlotPerJob
  <2>5. \A r \in Runs : (pc[t] \in Executing => RunOf(t) # r) =>
          stage'[r] = stage[r] /\ by'[r] = by[r] /\ runStatus'[r] = runStatus[r]
    BY <1>4, SlotMindsItsRun
  <2>6. QED BY <1>1, <2>2, <2>3, <2>4, <2>5 DEF Assigned, IsActive
<1>5. CASE PoolNext /\ ~\E t \in Slots : SlotStep(t)
  <2>1. pc[s] = "working" /\ RunOf(s)' = RunOf(s)
    BY <1>1, <1>5, OthersKeepJobs DEF RunOf, Kept
  <2>2. Assigned(s)
    BY <1>1, <2>1 DEF Leased, OwnedWorkIsUndisturbed, Executing, Driving, Awaiting
  <2>3. QED BY <1>1, <1>5, <2>1, <2>2, OthersKeepAssignments DEF Assigned, IsActive
<1>6. QED BY <1>2, <1>3, <1>4, <1>5

\* What holds while leases are extended in time.
WhileLeased == PoolInv /\ Leased /\ OneSlotPerJob /\ OwnedWorkIsUndisturbed

LEMMA LeasedInvariant == ~Stalls /\ PoolSpec => []WhileLeased
<1>1. PoolInit => Leased /\ OneSlotPerJob /\ OwnedWorkIsUndisturbed
  BY DEF PoolInit, Leased, OneSlotPerJob, OwnedWorkIsUndisturbed, Executing, Driving, Awaiting
<1>2. CASE ~Stalls
  <2>1. PoolInv /\ Leased /\ OneSlotPerJob /\ OwnedWorkIsUndisturbed /\ [PoolNext]_poolVars
          => Leased' /\ OneSlotPerJob' /\ OwnedWorkIsUndisturbed'
    BY <1>2, LeaseStep, OwnedWorkStep
  <2>2. QED BY <1>1, <2>1, PoolInvariant, PTL DEF PoolSpec, WhileLeased
<1>3. QED BY <1>2

\* worker.py: as long as live workers extend their leases in time, no recovery,
\* interruption, request or other worker ever takes a specialist's assignment
\* from the worker that waits for it.
THEOREM OwnedWorkStaysUndisturbed == ~Stalls /\ PoolSpec => []OwnedWorkIsUndisturbed
BY LeasedInvariant, PTL DEF WhileLeased
-----------------------------------------------------------------------------
(* Stops.  Jobs are numbered as they are added and the active job of a run  *)
(* is its newest, so a recovery that follows a stopped job replaces one     *)
(* that was added after it: another recovery, or a continuation.            *)

\* Job ids are given out in order, a run's active job is its newest, a build
\* starts with its first job, only a job that runs is asked to stop, and nobody
\* in the pool requeues a run by hand.
JobsInOrder ==
    /\ \A c \in Created, k \in Jobs : k < c => k \in Created
    /\ \A m \in Active, j \in Created : runOf[j] = runOf[m] => j <= m
    /\ \A m, j \in Created : kind[m] = "start" /\ runOf[j] = runOf[m] => m <= j
    /\ \A j \in Jobs : cancel[j] => j \in Created
    /\ \A j \in Created : kind[j] # "requeued"

StopInv == JobsInOrder /\ StopsAreRespected

\* What a step of the queue does to its rows, if N are the jobs it adds.
Adds(N) ==
    /\ N \subseteq Jobs \ Created /\ NextIds(N)
    /\ Created' = Created \cup N
    /\ (\A n \in N : state'[n] = "queued") /\ Active' \subseteq Active \cup N
    /\ \A j \in Created : runOf'[j] = runOf[j] /\ kind'[j] = kind[j]
    /\ \A j \in Jobs : cancel'[j] => cancel[j] \/ j \in Active
    /\ N # {} => cancel' = cancel
    /\ \A n \in N :
          \/ kind'[n] = "start" /\ \A j \in Created : runOf[j] # runOf'[n]
          \/ kind'[n] = "continue"
          \/ /\ kind'[n] = "recover"
             /\ \E m \in Running : runOf[m] = runOf'[n] /\ lapsed[m] /\ ~cancel[m]

LEMMA EnqueueAdds ==
    ASSUME QueueTypeOK, NEW r \in Runs, NEW k \in Kinds, Enqueue(r, k),
           k = "continue" \/ (k = "start" /\ ~HasJobs(r))
    PROVE  \E N : Adds(N)
<1>1. PICK j \in Jobs : /\ NextIds({j}) /\ j \notin Created
                        /\ state' = [state EXCEPT ![j] = "queued"]
                        /\ runOf' = [runOf EXCEPT ![j] = r]
                        /\ kind' = [kind EXCEPT ![j] = k]
                        /\ cancel' = cancel
  BY DEF Enqueue, NextIds
<1>2. /\ Created' = Created \cup {j} /\ Active' = Active \cup {j}
      /\ \A i \in Created : runOf'[i] = runOf[i] /\ kind'[i] = kind[i]
      /\ runOf'[j] = r /\ kind'[j] = k /\ state'[j] = "queued"
  BY <1>1 DEF QueueTypeOK, Created, Active
<1>3. Adds({j})
  BY <1>1, <1>2 DEF Adds, HasJobs
<1>4. QED BY <1>3

LEMMA ReapAdds ==
    ASSUME QueueTypeOK, Reap
    PROVE  \E N : Adds(N)
<1> DEFINE expired == {j \in Running : lapsed[j]}
           replaced == Recovered(expired)
<1>1. PICK new \in [replaced -> Jobs \ Created] :
        LET ids == {new[j] : j \in replaced}
            source(i) == CHOOSE j \in replaced : new[j] = i
        IN  /\ NextIds(ids)
            /\ state' = [j \in Jobs |-> CASE j \in expired -> "failed"
                                          [] j \in ids     -> "queued"
                                          [] OTHER         -> state[j]]
            /\ runOf' = [j \in Jobs |-> IF j \in ids THEN runOf[source(j)] ELSE runOf[j]]
            /\ kind' = [j \in Jobs |-> IF j \in ids THEN "recover" ELSE kind[j]]
  BY DEF Reap
<1> DEFINE ids == {new[j] : j \in replaced}
           source(i) == CHOOSE j \in replaced : new[j] = i
<1>2. /\ replaced \subseteq expired /\ expired \subseteq Active /\ Active \subseteq Created
      /\ Created \subseteq Jobs /\ ids \subseteq Jobs \ Created
      /\ \A j \in replaced : j \in Running /\ lapsed[j] /\ ~cancel[j]
  BY DEF Recovered, Running, Active, Created
<1>3. \A i \in ids : source(i) \in replaced
  OBVIOUS
<1>4. /\ NextIds(ids) /\ cancel' = cancel
      /\ \A j \in Jobs : state'[j] = CASE j \in expired -> "failed"
                                        [] j \in ids     -> "queued"
                                        [] OTHER         -> state[j]
      /\ \A j \in ids : runOf'[j] = runOf[source(j)] /\ kind'[j] = "recover"
      /\ \A j \in Jobs \ ids : runOf'[j] = runOf[j] /\ kind'[j] = kind[j]
  BY <1>1, <1>2 DEF Reap
<1> HIDE DEF source, replaced, ids, expired
<1>5. Created' = Created \cup ids
  BY <1>2, <1>4 DEF Created
<1>6. (\A n \in ids : state'[n] = "queued") /\ Active' \subseteq Active \cup ids
  BY <1>2, <1>4 DEF Active, Running
<1>7. \A n \in ids : /\ kind'[n] = "recover"
                      /\ \E m \in Running : runOf[m] = runOf'[n] /\ lapsed[m] /\ ~cancel[m]
  BY <1>2, <1>3, <1>4
<1>8. Adds(ids)
  BY <1>2, <1>4, <1>5, <1>6, <1>7 DEF Adds
<1>9. QED BY <1>8

\* Every other step of the queue adds no job.
LEMMA OthersAdd ==
    ASSUME QueueTypeOK,
           \/ \E w \in Workers : Claim(w)
           \/ \E w \in Workers, j \in Jobs : Extend(w, j)
           \/ \E w \in Workers, j \in Jobs, s \in Terminal : Finish(w, j, s)
           \/ \E r \in Runs : RequestCancel(r)
           \/ \E p \in Projects, h \in Holders : AcquireProject(p, h) \/ ReleaseProject(p, h)
           \/ \E j \in Jobs : JobLeaseLapses(j)
           \/ UNCHANGED queueVars
    PROVE  Adds({})
<1>1. SUFFICES /\ Created' = Created /\ Active' \subseteq Active
               /\ \A j \in Jobs : cancel'[j] => cancel[j] \/ j \in Active
               /\ UNCHANGED <<runOf, kind>>
  BY DEF Adds, NextIds
<1>2. CASE \E w \in Workers : Claim(w)
  BY <1>2 DEF Claim, Claimable, QueueTypeOK, Created, Active
<1>3. CASE \E w \in Workers, j \in Jobs, s \in Terminal : Finish(w, j, s)
  BY <1>3 DEF Finish, OwnsJob, QueueTypeOK, Created, Active, Terminal
<1>4. CASE \E r \in Runs : RequestCancel(r)
  <2>1. PICK j \in Active :
            \/ state' = [state EXCEPT ![j] = "cancelled"] /\ cancel' = cancel
            \/ cancel' = [cancel EXCEPT ![j] = TRUE] /\ state' = state
    BY <1>4 DEF RequestCancel
  <2>2. UNCHANGED <<runOf, kind>>
    BY <1>4 DEF RequestCancel
  <2>3. \A i \in Jobs : cancel'[i] => cancel[i] \/ i \in Active
    BY <2>1 DEF QueueTypeOK
  <2>4. Created' = Created /\ Active' \subseteq Active
    <3>1. \A i \in Jobs : state'[i] = state[i] \/ (i = j /\ state'[i] = "cancelled")
      BY <2>1 DEF QueueTypeOK
    <3>2. state[j] \in {"queued", "running"}
      BY DEF Active
    <3>3. QED BY <3>1, <3>2 DEF Created, Active
  <2>5. QED BY <2>2, <2>3, <2>4
<1>5. CASE \/ \E w \in Workers, j \in Jobs : Extend(w, j)
           \/ \E p \in Projects, h \in Holders : AcquireProject(p, h) \/ ReleaseProject(p, h)
           \/ \E j \in Jobs : JobLeaseLapses(j)
           \/ UNCHANGED queueVars
  BY <1>5 DEF Extend, AcquireProject, ReleaseProject, JobLeaseLapses, queueVars, jobVars, Created, Active
<1>6. QED BY <1>2, <1>3, <1>4, <1>5

LEMMA StepAdds == QueueTypeOK /\ [PoolQueueNext]_queueVars => \E N : Adds(N)
<1> SUFFICES ASSUME QueueTypeOK, [PoolQueueNext]_queueVars PROVE \E N : Adds(N)
  OBVIOUS
<1>1. CASE \/ \E r \in Runs : ~HasJobs(r) /\ Enqueue(r, "start")
           \/ \E r \in Runs : Enqueue(r, "continue")
  BY <1>1, EnqueueAdds DEF Kinds
<1>2. QED BY <1>1, ReapAdds, OthersAdd DEF PoolQueueNext

\* New jobs come after all others.
LEMMA NewJobsAreLast ==
    ASSUME JobsInOrder, NEW N, Adds(N)
    PROVE  \A n \in N, c \in Created : c < n
<1> SUFFICES ASSUME NEW n \in N, NEW c \in Created PROVE c < n
  OBVIOUS
<1>1. n \in Jobs /\ c \in Jobs /\ n \notin Created /\ n # c
  BY DEF Adds, Created
<1>2. ASSUME n < c PROVE FALSE
  <2>1. \A x \in Created, y \in Jobs : y < x => y \in Created
    BY DEF JobsInOrder
  <2>2. QED BY <1>1, <1>2, <2>1
<1>3. n \in Int /\ c \in Int
  BY <1>1
<1>4. QED BY <1>1, <1>2, <1>3

LEMMA OrderStep ==
    ASSUME QueueInv', JobsInOrder, NEW N, Adds(N)
    PROVE  JobsInOrder'
<1>0. \A n \in N, c \in Created : c <= n
  <2>1. \A i \in Created, n \in N : i \in Nat /\ n \in Nat
    BY DEF Created, Adds
  <2>2. QED BY <2>1, NewJobsAreLast
<1>1. /\ Created \subseteq Jobs /\ Active \subseteq Created /\ N \subseteq Jobs
      /\ Created' \subseteq Jobs /\ (\A j \in Created' : j <= j) /\ N \subseteq Active'
  BY DEF Created, Active, Adds
<1>2. \A i, j \in Active' : runOf'[i] = runOf'[j] => i = j
  BY DEF QueueInv, OneActiveJobPerRun
<1>3. ASSUME NEW c \in Created', NEW k \in Jobs, k < c PROVE k \in Created'
  BY <1>1, <1>3 DEF Adds, NextIds, JobsInOrder
<1>4. ASSUME NEW m \in Active', NEW j \in Created', runOf'[j] = runOf'[m] PROVE j <= m
  <2>1. CASE j \in N
    <3>1. j = m
      BY <1>1, <1>2, <1>4, <2>1 DEF Adds
    <3>2. QED BY <1>1, <3>1
  <2>2. CASE j \in Created /\ m \in N
    BY <1>0, <2>2
  <2>3. CASE j \in Created /\ m \in Active
    BY <1>1, <1>4, <2>3 DEF Adds, JobsInOrder
  <2>4. QED BY <2>1, <2>2, <2>3 DEF Adds
<1>5. ASSUME NEW m \in Created', NEW j \in Created', kind'[m] = "start", runOf'[j] = runOf'[m]
      PROVE  m <= j
  <2>1. CASE m \in N /\ j \in N
    <3>1. j = m
      BY <1>1, <1>2, <1>5, <2>1 DEF Adds
    <3>2. QED BY <1>1, <3>1
  <2>2. CASE m \in N /\ j \in Created
    BY <1>5, <2>2 DEF Adds
  <2>3. CASE m \in Created /\ j \in N
    BY <1>0, <2>3
  <2>4. CASE m \in Created /\ j \in Created
    BY <1>5, <2>4 DEF Adds, JobsInOrder
  <2>5. QED BY <2>1, <2>2, <2>3, <2>4 DEF Adds
<1>6. \A j \in Jobs : cancel'[j] => j \in Created'
  BY <1>1 DEF Adds, JobsInOrder
<1>7. \A j \in Created' : kind'[j] # "requeued"
  BY DEF Adds, JobsInOrder
<1>8. QED BY <1>3, <1>4, <1>5, <1>6, <1>7 DEF JobsInOrder

\* A job that was asked to stop stays the last of its run until it has ended,
\* and then neither the reaper nor a recovery of it adds one.
LEMMA StopStep ==
    ASSUME QueueInv, QueueInv', StopInv, NEW N, Adds(N)
    PROVE  StopsAreRespected'
<1> SUFFICES ASSUME NEW j \in Created', NEW k \in Created', cancel'[j], runOf'[j] = runOf'[k],
                    j < k, kind'[k] = "recover"
             PROVE  \E i \in Created' : runOf'[i] = runOf'[j] /\ j < i /\ i < k /\ kind'[i] = "continue"
  BY DEF StopsAreRespected
<1>1. /\ Created \subseteq Jobs /\ Active \subseteq Created /\ N \subseteq Jobs /\ N \subseteq Active'
      /\ j \in Jobs /\ k \in Jobs
  BY DEF Created, Active, Adds
<1>2. JobsInOrder /\ StopsAreRespected
  BY DEF StopInv
<1>3. j \in Created
  <2>1. j \notin N
    <3>1. SUFFICES ASSUME j \in N PROVE FALSE
      OBVIOUS
    <3>2. k \notin Created
      BY <1>1, <1>2, <3>1, NewJobsAreLast
    <3>3. k \in N
      BY <3>2 DEF Adds
    <3>4. j = k
      BY <1>1, <3>1, <3>3 DEF QueueInv, OneActiveJobPerRun
    <3>5. QED BY <1>1, <3>4
  <2>2. QED BY <2>1 DEF Adds
<1>4. ASSUME NEW m \in Created, m <= k, cancel[j], runOf[m] = runOf[j], j < m,
             kind[m] = "recover" \/ (kind[m] = "continue" /\ m < k)
      PROVE  \E i \in Created' : runOf'[i] = runOf'[j] /\ j < i /\ i < k /\ kind'[i] = "continue"
  <2>1. PICK i \in Created : runOf[i] = runOf[j] /\ j < i /\ i < k /\ kind[i] = "continue"
    <3>1. CASE kind[m] = "continue" /\ m < k
      BY <1>4, <3>1
    <3>2. CASE kind[m] = "recover"
      <4>1. PICK i \in Created : runOf[i] = runOf[j] /\ j < i /\ i < m /\ kind[i] = "continue"
        BY <1>2, <1>3, <1>4, <3>2 DEF StopsAreRespected
      <4>2. i < k
        BY <1>1, <1>4, <4>1
      <4>3. QED BY <4>1, <4>2
    <3>3. QED BY <1>4, <3>1, <3>2
  <2>2. QED BY <1>3, <2>1 DEF Adds
<1>5. CASE k \in Created
  <2>1. runOf[k] = runOf[j] /\ kind[k] = "recover"
    BY <1>3, <1>5 DEF Adds
  <2>2. j \notin Active
    BY <1>1, <1>2, <1>5, <2>1 DEF JobsInOrder
  <2>3. cancel[j]
    BY <1>1, <2>2 DEF Adds
  <2>4. QED BY <1>1, <1>4, <1>5, <2>1, <2>3
<1>6. CASE k \in N
  <2>1. PICK m \in Active : runOf[m] = runOf'[k] /\ ~cancel[m]
    BY <1>6 DEF Adds, Active, Running
  <2>2. cancel[j] /\ runOf[m] = runOf[j]
    BY <1>3, <1>6, <2>1 DEF Adds
  <2>3. j < m /\ m < k
    BY <1>1, <1>2, <1>3, <1>6, <2>1, <2>2, NewJobsAreLast DEF JobsInOrder
  <2>4. kind[m] # "start"
    BY <1>1, <1>2, <1>3, <2>2, <2>3 DEF JobsInOrder
  <2>5. kind[m] \in {"start", "continue", "recover"}
    BY <1>1, <1>2 DEF QueueInv, QueueTypeOK, Kinds, JobsInOrder
  <2>6. QED BY <1>1, <1>4, <2>2, <2>3, <2>4, <2>5
<1>7. QED BY <1>5, <1>6 DEF Adds

\* request_cancel, reap_expired: once a run's job was asked to stop, no recovery
\* brings the run back before its user continues it.
THEOREM StopsStayRespected == PoolSpec => []StopsAreRespected
<1>1. PoolInit => StopInv
  BY DEF PoolInit, QueueInit, StopInv, JobsInOrder, StopsAreRespected, Created, Active
<1>2. PoolInv /\ PoolInv' /\ StopInv /\ [PoolNext]_poolVars => StopInv'
  <2> SUFFICES ASSUME PoolInv, PoolInv', StopInv, [PoolNext]_poolVars PROVE StopInv'
    OBVIOUS
  <2>1. PICK N : Adds(N)
    BY StepIsQueueStep, StepAdds DEF PoolInv, QueueInv
  <2>2. QED BY <2>1, OrderStep, StopStep DEF PoolInv, StopInv
<1>3. QED BY <1>1, <1>2, PoolInvariant, PTL DEF PoolSpec, StopInv

-----------------------------------------------------------------------------
(* Orphans.  While leases hold and nobody stops a run, an assignment in     *)
(* flight has a job that is minded: a recovery is on its way to it, or its  *)
(* driver awaits the answer.  That ends only when the reaper finds a job    *)
(* it may not replace.                                                      *)

\* reap_expired replaces every job whose lease has run out.
RecoveriesSuffice ==
    \A j \in Running : lapsed[j] => Cardinality(Recoveries(runOf[j])) < MaxRecoveries

\* A job that a recovery is about to reach, or whose driver awaits its answer.
Minded(j) ==
    \/ state[j] = "queued" /\ kind[j] = "recover"
    \/ /\ state[j] = "running"
       /\ \A s \in Slots : pc[s] \in Executing /\ job[s] = j =>
             \/ pc[s] = "claimed" /\ kind[j] = "recover"
             \/ pc[s] \in {"recovering", "working", "stopping"}


RunningIsMinded ==
    \A r \in Runs : stage[r] = "running" =>
        IsActive(r) /\ \E j \in Active : runOf[j] = r /\ Minded(j)

NobodyStops == \A j \in Jobs : ~cancel[j]

LEMMA NobodyStopsStep ==
    ASSUME "stop" \notin Requests, PoolInv, NobodyStops, [PoolNext]_poolVars
    PROVE  NobodyStops'
<1>1. CASE UNCHANGED cancel
  BY <1>1 DEF NobodyStops
<1>2. QED
  BY <1>1, StepIsQueueStep DEF PoolInv, PoolQueueNext, Enqueue, Claim, Extend, Finish, Reap,
     AcquireProject, ReleaseProject, JobLeaseLapses, queueVars, jobVars

LEMMA SlotFrame ==
    ASSUME SlotTypes, NEW t \in Slots, SlotStep(t), NEW s \in Slots, s # t
    PROVE  pc'[s] = pc[s] /\ job'[s] = job[s]
BY DEF SlotTypes, SlotStep, Reaps, Claims, Loads, RecoversRun, FailsToStart, Starts,
   SetsCriteria, AddsTasks, PlanFails, RecoversFailure, AsksHuman, AppliesDecision,
   Delegates, Completes, Returns, Answers, AnswersTooLate, Accepts, Rejects, Overspends,
   Heartbeat, Interrupts, Finishes, Delivers, Goes, Ends, DriverFrame, slotVars

\* An assignment comes into flight when it is delegated, and its run is active
\* as long as it is.
LEMMA OnlyDelegatesRuns ==
    ASSUME PoolInv, NEW t \in Slots, SlotStep(t), ~Delegates(t)
    PROVE  \A r \in Runs : stage'[r] = "running" =>
              stage[r] = "running" /\ (IsActive(r) => IsActive(r)')
<1>1. RunTypes /\ RunOf(t) \in Runs
  BY TypesSplit DEF PoolInv, SlotTypes, QueueTypeOK, RunOf
<1> USE <1>1 DEF RunTypes, IsActive
<1>2. CASE \/ Reaps(t) \/ Claims(t) \/ Loads(t) \/ FailsToStart(t) \/ Starts(t) \/ PlanFails(t)
           \/ Returns(t) \/ AnswersTooLate(t) \/ Heartbeat(t) \/ Finishes(t) \/ Delivers(t)
  BY <1>2 DEF Reaps, Claims, Loads, FailsToStart, Starts, PlanFails, Returns, AnswersTooLate,
        Heartbeat, Finishes, Delivers, workVars, DriverFrame
<1>3. CASE RecoversRun(t) \/ Interrupts(t)
  BY <1>3 DEF RecoversRun, Interrupts, Interrupt, workVars, DriverFrame
<1>4. CASE SetsCriteria(t) \/ AddsTasks(t) \/ RecoversFailure(t) \/ AsksHuman(t) \/ AppliesDecision(t)
  BY <1>4 DEF SetsCriteria, AddsTasks, RecoversFailure, AsksHuman, AppliesDecision, MovesTo,
              workVars, DriverFrame
<1>5. CASE Answers(t) \/ Rejects(t) \/ Overspends(t)
  BY <1>5 DEF Answers, Rejects, Overspends, MovesTo, workVars, DriverFrame
<1>6. CASE Completes(t) \/ Accepts(t)
  BY <1>6 DEF Completes, Accepts, workVars, DriverFrame
<1>7. QED BY <1>2, <1>3, <1>4, <1>5, <1>6 DEF SlotStep

LEMMA OthersRunNothing ==
    ASSUME PoolInv, PoolNext, ~\E t \in Slots : SlotStep(t)
    PROVE  \A r \in Runs : stage'[r] = "running" =>
              stage[r] = "running" /\ (IsActive(r) => IsActive(r)')
<1>1. RunTypes
  BY TypesSplit DEF PoolInv
<1>2. CASE \E q \in Runs : DecidesApproval(q)
  BY <1>1, <1>2 DEF DecidesApproval, MovesTo, RunTypes, IsActive
<1>3. CASE \E q \in Runs : Abandons(q)
  BY <1>1, <1>3 DEF Abandons, workVars, RunTypes, IsActive
<1>4. CASE ~\E q \in Runs : DecidesApproval(q) \/ Abandons(q)
  BY <1>4 DEF PoolNext, Crash, Restart, ProcessFrame, TimePasses, StartsBuild, ContinuesRun,
       StopsRun, ContinuesDecided, FindsIdle, RetriesDelivery, AcquiresForDelivery, ApiFrame,
       workVars, IsActive
<1>5. QED BY <1>2, <1>3, <1>4

\* A job stays minded while its row is as it was and no slot takes it up.
LEMMA StaysMinded ==
    ASSUME NEW j \in Active, Minded(j),
           state'[j] = state[j], kind'[j] = kind[j], runOf'[j] = runOf[j],
           \A s \in Slots : pc'[s] \in Executing /\ job'[s] = j => pc'[s] = pc[s] /\ job[s] = j
    PROVE  j \in Active' /\ Minded(j)' /\ runOf'[j] = runOf[j]
BY DEF Active, Minded

LEMMA ReapMinds ==
    ASSUME QueueTypeOK, NobodyStops, RecoveriesSuffice, Reap, NEW j \in Active
    PROVE  \/ state'[j] = state[j] /\ kind'[j] = kind[j] /\ runOf'[j] = runOf[j]
           \/ \E i \in Jobs : state'[i] = "queued" /\ kind'[i] = "recover" /\ runOf'[i] = runOf[j]
<1> DEFINE expired == {k \in Running : lapsed[k]}
           replaced == Recovered(expired)
<1>1. PICK new \in [replaced -> Jobs \ Created] :
        LET ids == {new[k] : k \in replaced}
            source(i) == CHOOSE k \in replaced : new[k] = i
        IN  /\ \A k, m \in replaced : k < m => new[k] < new[m]
            /\ state' = [k \in Jobs |-> CASE k \in expired -> "failed"
                                          [] k \in ids     -> "queued"
                                          [] OTHER         -> state[k]]
            /\ runOf' = [k \in Jobs |-> IF k \in ids THEN runOf[source(k)] ELSE runOf[k]]
            /\ kind' = [k \in Jobs |-> IF k \in ids THEN "recover" ELSE kind[k]]
  BY DEF Reap
<1> DEFINE ids == {new[k] : k \in replaced}
           source(i) == CHOOSE k \in replaced : new[k] = i
<1>2. /\ j \in Created /\ j \in Jobs /\ Created \cap ids = {} /\ ids \subseteq Jobs
      /\ expired \subseteq Created /\ expired \subseteq Jobs
  BY DEF Active, Created, Running
<1>3. replaced = expired
  BY <1>2 DEF Recovered, RecoveriesSuffice, NobodyStops
<1>4. CASE j \notin expired
  BY <1>1, <1>2, <1>4
<1>5. CASE j \in expired
  <2>1. new[j] \in ids /\ new[j] \in Jobs /\ new[j] \notin expired
    BY <1>2, <1>3, <1>5
  <2>2. source(new[j]) = j
    <3>1. source(new[j]) \in replaced /\ new[source(new[j])] = new[j]
      BY <1>3, <1>5
    <3>2. \A k, m \in replaced : new[k] = new[m] => k = m
      <4>1. \A k \in replaced : k \in Nat /\ new[k] \in Nat
        BY <1>2, <1>3
      <4>2. \A k, m \in replaced : k < m => new[k] < new[m]
        BY <1>1
      <4> HIDE DEF replaced
      <4>3. QED BY <4>1, <4>2
    <3> HIDE DEF source, replaced
    <3>3. QED BY <1>3, <1>5, <3>1, <3>2
  <2>3. /\ state'[new[j]] = "queued" /\ kind'[new[j]] = "recover"
        /\ runOf'[new[j]] = runOf[source(new[j])]
    BY <1>1, <2>1
  <2>4. QED BY <2>1, <2>2, <2>3
<1>6. QED BY <1>4, <1>5

\* Crashes, time and requests.
LEMMA OthersMind ==
    ASSUME ~Stalls, WhileLeased, "stop" \notin Requests, PoolNext, ~\E t \in Slots : SlotStep(t),
           NEW j \in Active, Minded(j)
    PROVE  j \in Active' /\ Minded(j)' /\ runOf'[j] = runOf[j]
<1>1. QueueTypeOK /\ j \in Jobs /\ state[j] # "absent"
  BY DEF WhileLeased, PoolInv, QueueInv, Active
<1>2. \A s \in Slots : pc'[s] \in Executing => pc[s] = pc'[s] /\ job'[s] = job[s]
  BY OthersKeepJobs DEF WhileLeased
<1>3. state'[j] = state[j] /\ kind'[j] = kind[j] /\ runOf'[j] = runOf[j]
  <2>1. CASE UNCHANGED <<state, kind, runOf>>
    BY <2>1
  <2>2. CASE \E r \in Runs, k \in Kinds : Enqueue(r, k)
    BY <1>1, <2>2 DEF Enqueue, NextIds, Created, QueueTypeOK
  <2>3. QED
    BY <2>1, <2>2 DEF PoolNext, Crash, Restart, ProcessFrame, TimePasses, JobLeaseLapses, StartsBuild,
       ContinuesRun, StopsRun, DecidesApproval, ContinuesDecided, FindsIdle, Abandons, RetriesDelivery,
       AcquiresForDelivery, AcquireProject, ReleaseProject, queueVars, jobVars, Kinds
<1>4. QED BY <1>2, <1>3, StaysMinded

\* A slot that neither reaps nor claims writes no row but that of its own job.
LEMMA SlotRows ==
    ASSUME QueueTypeOK, NEW t \in Slots, SlotStep(t), ~Reaps(t), ~Claims(t)
    PROVE  /\ UNCHANGED <<runOf, kind, job>>
           /\ \A j \in Jobs : j # job[t] => state'[j] = state[j]
<1>1. CASE Loads(t) \/ FailsToStart(t) \/ Finishes(t)
  BY <1>1 DEF Loads, FailsToStart, Finishes, FinishIfOwned, Finish, QueueTypeOK, queueVars, jobVars
<1>2. CASE Heartbeat(t)
  BY <1>2 DEF Heartbeat, Extend, queueVars, jobVars
<1>3. CASE \/ RecoversRun(t) \/ Starts(t) \/ SetsCriteria(t) \/ AddsTasks(t) \/ PlanFails(t)
           \/ RecoversFailure(t) \/ AsksHuman(t) \/ AppliesDecision(t) \/ Delegates(t)
  BY <1>3 DEF RecoversRun, Starts, SetsCriteria, AddsTasks, PlanFails, RecoversFailure,
              AsksHuman, AppliesDecision, Delegates, DriverFrame, queueVars, jobVars, slotVars
<1>4. CASE \/ Completes(t) \/ Returns(t) \/ Answers(t) \/ AnswersTooLate(t) \/ Accepts(t)
           \/ Rejects(t) \/ Overspends(t) \/ Interrupts(t) \/ Delivers(t)
  BY <1>4 DEF Completes, Returns, Answers, AnswersTooLate, Accepts, Rejects, Overspends,
              Interrupts, Delivers, DriverFrame, queueVars, jobVars
<1>5. QED BY <1>1, <1>2, <1>3, <1>4 DEF SlotStep

\* The slot that executes the job of a run in flight.
LEMMA OwnSlotMinds ==
    ASSUME WhileLeased, NEW t \in Slots, SlotStep(t), pc[t] \in Executing,
           Minded(job[t]), IsActive(RunOf(t)),
           stage[RunOf(t)] = "running", stage'[RunOf(t)] = "running"
    PROVE  /\ UNCHANGED <<state, kind, runOf, job>>
           /\ \/ pc[t] = "claimed" /\ pc'[t] = "recovering"
              \/ pc[t] = "working" /\ pc'[t] \in {"working", "stopping"}
<1>1. QueueTypeOK /\ SlotTypes /\ RunTypes /\ RunOf(t) \in Runs /\ Owns(t)
  BY TypesSplit DEF WhileLeased, PoolInv, SlotTypes, QueueTypeOK, RunOf, Leased
<1>2. \/ pc[t] = "claimed" /\ kind[job[t]] = "recover"
      \/ pc[t] \in {"recovering", "working", "stopping"}
  BY <1>1 DEF Minded, Owns, OwnsJob
<1>3. pc[t] = "working" => Assigned(t)
  BY <1>1 DEF WhileLeased, OwnedWorkIsUndisturbed
<1>4. CASE pc[t] = "claimed"
  <2>1. Loads(t)
    BY <1>4 DEF SlotStep, Reaps, Claims, Loads, RecoversRun, FailsToStart, Starts,
       SetsCriteria, AddsTasks, PlanFails, RecoversFailure, AsksHuman, AppliesDecision,
       Delegates, Completes, Returns, Answers, AnswersTooLate, Accepts, Rejects, Overspends,
       Heartbeat, Interrupts, Finishes, Delivers, Awaiting
  <2>2. QED BY <1>1, <1>2, <1>4, <2>1 DEF Loads, Goes, SlotTypes, queueVars, jobVars
<1>5. CASE pc[t] \in {"recovering", "stopping"}
  <2>1. RecoversRun(t) \/ Interrupts(t)
    BY <1>5 DEF SlotStep, Reaps, Claims, Loads, RecoversRun, FailsToStart, Starts,
       SetsCriteria, AddsTasks, PlanFails, RecoversFailure, AsksHuman, AppliesDecision,
       Delegates, Completes, Returns, Answers, AnswersTooLate, Accepts, Rejects, Overspends,
       Heartbeat, Interrupts, Finishes, Delivers, Awaiting
  <2>2. QED BY <1>1, <2>1 DEF RecoversRun, Interrupts, Interrupt, RunTypes
<1>6. CASE pc[t] = "working"
  <2>1. Answers(t) \/ Overspends(t) \/ Heartbeat(t)
    BY <1>3, <1>6 DEF SlotStep, Reaps, Claims, Loads, RecoversRun, FailsToStart, Starts,
       SetsCriteria, AddsTasks, PlanFails, RecoversFailure, AsksHuman, AppliesDecision,
       Delegates, Completes, Returns, Answers, AnswersTooLate, Accepts, Rejects, Overspends,
       Heartbeat, Interrupts, Finishes, Delivers, Awaiting
  <2>2. ~Answers(t) /\ ~Overspends(t)
    BY <1>1, <1>3, <1>6 DEF Answers, Overspends, MovesTo, RunTypes
  <2>3. QED BY <1>1, <1>6, <2>1, <2>2 DEF Heartbeat, Extend, SlotTypes
<1>7. QED BY <1>2, <1>4, <1>5, <1>6

\* A slot's step keeps a run in flight minded.
LEMMA SlotMinds ==
    ASSUME ~Stalls, WhileLeased, NobodyStops, RecoveriesSuffice,
           NEW t \in Slots, SlotStep(t), NEW r \in Runs,
           IsActive(r), stage[r] = "running", stage'[r] = "running",
           NEW j \in Active, runOf[j] = r, Minded(j)
    PROVE  \E i \in Active' : runOf'[i] = r /\ Minded(i)'
<1>1. QueueTypeOK /\ SlotTypes /\ j \in Jobs /\ job[t] \in Jobs /\ pc \in [Slots -> Steps]
  BY TypesSplit DEF WhileLeased, PoolInv, SlotTypes, Active
<1>2. \A s \in Slots \ {t} : pc'[s] = pc[s] /\ job'[s] = job[s]
  BY <1>1, SlotFrame
<1>3. CASE Reaps(t)
  <2>1. pc'[t] \notin Executing
    BY <1>1, <1>3 DEF Reaps, Goes, Executing, Driving, Awaiting
  <2>2. CASE state'[j] = state[j] /\ kind'[j] = kind[j] /\ runOf'[j] = runOf[j]
    BY <1>2, <2>1, <2>2, StaysMinded
  <2>3. CASE \E i \in Jobs : state'[i] = "queued" /\ kind'[i] = "recover" /\ runOf'[i] = runOf[j]
    BY <2>3 DEF Active, Minded
  <2>4. QED BY <1>1, <1>3, <2>2, <2>3, ReapMinds DEF Reaps, queueVars, jobVars
<1>4. CASE Claims(t)
  <2>1. CASE UNCHANGED queueVars
    <3>1. pc'[t] \notin Executing
      <4>1. \A w \in Workers, k \in Jobs : ~(Claim(w) /\ state[k] = "queued" /\ state'[k] = "running")
        BY <2>1 DEF queueVars, jobVars
      <4>2. WorkerOf[t] \in Workers
        OBVIOUS
      <4>3. QED BY <1>1, <1>4, <4>1, <4>2 DEF Claims, Goes, Executing, Driving, Awaiting
    <3>2. QED BY <1>2, <2>1, <3>1, StaysMinded DEF queueVars, jobVars
  <2>2. ASSUME NEW k \in Jobs, Claim(WorkerOf[t]), state[k] = "queued", state'[k] = "running",
               job' = [job EXCEPT ![t] = k], Goes(t, "claimed")
        PROVE  \E i \in Active' : runOf'[i] = r /\ Minded(i)'
    <3>1. /\ UNCHANGED <<runOf, kind>> /\ pc'[t] = "claimed" /\ job'[t] = k
          /\ \A i \in Jobs : i # k => state'[i] = state[i]
      BY <1>1, <2>2 DEF Claim, Goes, SlotTypes, QueueTypeOK
    <3>2. CASE k = j
      <4>1. kind[j] = "recover"
        BY <2>2, <3>2 DEF Minded
      <4>2. \A s \in Slots \ {t} : pc[s] \in Executing => job[s] # j
        BY <2>2, <3>2 DEF WhileLeased, Leased, Owns, OwnsJob
      <4>3. j \in Active' /\ Minded(j)'
        BY <1>2, <2>2, <3>1, <3>2, <4>1, <4>2 DEF Minded, Active
      <4>4. QED BY <3>1, <4>3
    <3>3. CASE k # j
      BY <1>1, <1>2, <3>1, <3>3, StaysMinded
    <3>4. QED BY <3>2, <3>3
  <2>3. QED BY <1>4, <2>1, <2>2 DEF Claims
<1>5. CASE ~Reaps(t) /\ ~Claims(t)
  <2>1. /\ UNCHANGED <<runOf, kind, job>>
        /\ \A i \in Jobs : i # job[t] => state'[i] = state[i]
    BY <1>1, <1>5, SlotRows
  <2>2. CASE job[t] # j
    BY <1>1, <1>2, <2>1, <2>2, StaysMinded
  <2>3. CASE job[t] = j /\ pc[t] \in Executing
    <3>1. /\ UNCHANGED <<state, kind, runOf, job>>
          /\ \/ pc[t] = "claimed" /\ pc'[t] = "recovering"
             \/ pc[t] = "working" /\ pc'[t] \in {"working", "stopping"}
      BY <2>3, OwnSlotMinds DEF RunOf
    <3>2. state[j] = "running"
      BY <2>3 DEF WhileLeased, Leased, Owns, OwnsJob
    <3>3. \A s \in Slots \ {t} : ~(pc'[s] \in Executing /\ job'[s] = j)
      BY <1>2, <2>3 DEF WhileLeased, OneSlotPerJob
    <3>4. j \in Active' /\ Minded(j)'
      BY <3>1, <3>2, <3>3 DEF Minded, Active
    <3>5. QED BY <3>1, <3>4
  <2>4. CASE job[t] = j /\ pc[t] \notin Executing
    <3>1. Delivers(t)
      BY <1>5, <2>4 DEF SlotStep, Loads, RecoversRun, FailsToStart, Starts,
         SetsCriteria, AddsTasks, PlanFails, RecoversFailure, AsksHuman, AppliesDecision,
         Delegates, Completes, Returns, Answers, AnswersTooLate, Accepts, Rejects, Overspends,
         Heartbeat, Interrupts, Finishes, Awaiting, Driving, Executing
    <3>2. pc'[t] \notin Executing /\ UNCHANGED state
      BY <1>1, <3>1 DEF Delivers, Goes, queueVars, jobVars, Awaiting, Driving, Executing
    <3>3. QED BY <1>2, <2>1, <3>2, StaysMinded
  <2>5. QED BY <2>2, <2>3, <2>4
<1>6. QED BY <1>3, <1>4, <1>5

LEMMA DelegatesMinds ==
    ASSUME WhileLeased, NEW t \in Slots, Delegates(t), NEW r \in Runs, r = RunOf(t)
    PROVE  /\ \A q \in Runs \ {r} : stage'[q] = stage[q] /\ (IsActive(q) => IsActive(q)')
           /\ IsActive(r)' /\ \E i \in Active' : runOf'[i] = r /\ Minded(i)'
<1>1. SlotTypes /\ RunTypes /\ job[t] \in Jobs
  BY TypesSplit DEF WhileLeased, PoolInv, SlotTypes
<1>2. /\ UNCHANGED <<queueVars, job, runStatus>> /\ pc'[t] = "working" /\ pc[t] = "looping"
      /\ IsActive(r)
  BY <1>1 DEF Delegates, DriverFrame, Goes, SlotTypes
<1>3. PICK j \in Jobs : j = job[t]
  BY <1>1
<1>4. \A s \in Slots : pc'[s] \in Executing /\ job'[s] = j => s = t
  BY <1>1, <1>2, <1>3 DEF Delegates, Goes, SlotTypes, WhileLeased, OneSlotPerJob, Executing, Driving
<1>5. state[j] = "running"
  BY <1>2, <1>3 DEF WhileLeased, Leased, Owns, OwnsJob, Executing, Driving
<1>6. j \in Active' /\ runOf'[j] = r /\ Minded(j)'
  BY <1>1, <1>2, <1>3, <1>4, <1>5 DEF Minded, Active, RunOf, queueVars, jobVars
<1>7. \A q \in Runs : stage'[q] = IF q = r THEN "running" ELSE stage[q]
  BY <1>1 DEF Delegates, RunTypes
<1>8. \A q \in Runs : IsActive(q) => IsActive(q)'
  BY <1>2 DEF IsActive
<1>9. QED BY <1>2, <1>6, <1>7, <1>8

LEMMA MindedStep ==
    ASSUME ~Stalls, "stop" \notin Requests, WhileLeased, NobodyStops, RecoveriesSuffice,
           RunningIsMinded, [PoolNext]_poolVars
    PROVE  RunningIsMinded'
<1>1. CASE UNCHANGED poolVars
  BY <1>1 DEF poolVars, queueVars, jobVars, slotVars, workVars, RunningIsMinded, Minded, Active, IsActive
<1>2. ASSUME NEW t \in Slots, SlotStep(t), ~Delegates(t) PROVE RunningIsMinded'
  BY <1>2, OnlyDelegatesRuns, SlotMinds DEF RunningIsMinded, WhileLeased
<1>3. ASSUME NEW t \in Slots, Delegates(t) PROVE RunningIsMinded'
  <2>0. PICK own \in Runs : own = RunOf(t)
    BY TypesSplit DEF WhileLeased, PoolInv, SlotTypes, QueueTypeOK, RunOf
  <2>1. ASSUME NEW r \in Runs, r # own, stage'[r] = "running"
        PROVE  IsActive(r)' /\ \E i \in Active' : runOf'[i] = r /\ Minded(i)'
    <3>1. stage[r] = "running" /\ (IsActive(r) => IsActive(r)')
      BY <1>3, <2>0, <2>1, DelegatesMinds
    <3>2. IsActive(r)
      BY <3>1 DEF RunningIsMinded
    <3>3. PICK j \in Active : runOf[j] = r /\ Minded(j)
      BY <3>1 DEF RunningIsMinded
    <3>4. SlotStep(t)
      BY <1>3 DEF SlotStep
    <3>5. \E i \in Active' : runOf'[i] = r /\ Minded(i)'
      BY <2>1, <3>1, <3>2, <3>3, <3>4, SlotMinds
    <3>6. QED BY <3>1, <3>2, <3>5
  <2>2. QED BY <1>3, <2>0, <2>1, DelegatesMinds DEF RunningIsMinded
<1>4. CASE PoolNext /\ ~\E t \in Slots : SlotStep(t)
  <2>1. \A j \in Active : Minded(j) => j \in Active' /\ Minded(j)' /\ runOf'[j] = runOf[j]
    BY <1>4, OthersMind
  <2>2. \A r \in Runs : stage'[r] = "running" => stage[r] = "running" /\ (IsActive(r) => IsActive(r)')
    BY <1>4, OthersRunNothing DEF WhileLeased
  <2>3. QED BY <2>1, <2>2 DEF RunningIsMinded
<1>5. QED BY <1>1, <1>2, <1>3, <1>4

LEMMA MindedIsNoOrphan ==
    ASSUME WhileLeased, RunningIsMinded
    PROVE  NoOrphanAssignment
<1> SUFFICES ASSUME NEW s \in Slots, pc[s] \in Driving, stage[RunOf(s)] = "running"
             PROVE  Assigned(s)
  BY DEF NoOrphanAssignment
<1>1. /\ pc[s] \in Executing /\ RunOf(s) \in Runs /\ job[s] \in Active /\ state[job[s]] = "running"
      /\ Owns(s)
  BY TypesSplit DEF WhileLeased, PoolInv, SlotTypes, QueueTypeOK, RunOf, Leased, Owns, OwnsJob,
     Active, Executing
<1>2. PICK j \in Active : runOf[j] = RunOf(s) /\ Minded(j)
  BY <1>1 DEF RunningIsMinded
<1>3. j = job[s]
  BY <1>1, <1>2 DEF WhileLeased, PoolInv, QueueInv, OneActiveJobPerRun, RunOf
<1>4. pc[s] = "working"
  BY <1>1, <1>2, <1>3 DEF Minded, Driving, Awaiting
<1>5. QED BY <1>1, <1>4 DEF WhileLeased, OwnedWorkIsUndisturbed

LEMMA StopFreeInvariant == ~Stalls /\ "stop" \notin Requests /\ PoolSpec => []NobodyStops
<1>1. PoolInit => NobodyStops
  BY DEF PoolInit, QueueInit, NobodyStops
<1>2. CASE "stop" \notin Requests
  <2>1. PoolInv /\ NobodyStops /\ [PoolNext]_poolVars => NobodyStops'
    BY <1>2, NobodyStopsStep
  <2>2. QED BY <1>1, <2>1, PoolInvariant, PTL DEF PoolSpec
<1>3. QED BY <1>2

\* recover_interrupted: as long as the reaper may replace every job whose lease
\* ran out and no user stops a run, no driver ever finds an assignment in flight
\* that nobody works on, whichever processes crash and whenever they return.
THEOREM NoAssignmentIsOrphaned ==
    ~Stalls /\ "stop" \notin Requests /\ PoolSpec /\ []RecoveriesSuffice => []NoOrphanAssignment
<1>1. PoolInit => RunningIsMinded
  BY DEF PoolInit, RunningIsMinded
<1>2. CASE ~Stalls /\ "stop" \notin Requests
  <2>1. WhileLeased /\ NobodyStops /\ RecoveriesSuffice /\ RunningIsMinded /\ [PoolNext]_poolVars
          => RunningIsMinded'
    BY <1>2, MindedStep
  <2>2. WhileLeased /\ RunningIsMinded => NoOrphanAssignment
    BY MindedIsNoOrphan
  <2>3. QED BY <1>1, <1>2, <2>1, <2>2, LeasedInvariant, StopFreeInvariant, PTL DEF PoolSpec
<1>3. QED BY <1>2

(***************************************************************************)
(* Each recovery of a run is paid for by a crash: the crash that left the   *)
(* job without a slot, until the reaper finds it.                           *)
(***************************************************************************)
Executed(j) == \E s \in Slots : pc[s] \in Executing /\ job[s] = j
IsLost(r) == \E j \in Running : runOf[j] = r /\ ~Executed(j)

LossesAreCounted ==
    \A r \in Runs : /\ Cardinality(Recoveries(r)) <= crashes
                    /\ IsLost(r) => Cardinality(Recoveries(r)) < crashes

DownTogether ==
    \A s, t \in Slots : WorkerOf[s] = WorkerOf[t] => (pc[s] = "off" <=> pc[t] = "off")

LEMMA DownTogetherStep ==
    ASSUME PoolInv, DownTogether, [PoolNext]_poolVars
    PROVE  DownTogether'
<1>1. SlotTypes
  BY TypesSplit DEF PoolInv
<1>2. CASE UNCHANGED slotVars
  BY <1>2 DEF slotVars, DownTogether
<1>3. ASSUME NEW t \in Slots, SlotStep(t)
      PROVE  DownTogether'
  <2>1. \A s \in Slots : s # t => pc'[s] = pc[s]
    BY <1>1, <1>3, SlotFrame
  <2>2. pc[t] # "off" /\ pc'[t] # "off"
    BY <1>1, <1>3 DEF SlotTypes, SlotStep, Reaps, Claims, Loads, RecoversRun, FailsToStart, Starts,
       SetsCriteria, AddsTasks, PlanFails, RecoversFailure, AsksHuman, AppliesDecision,
       Delegates, Completes, Returns, Answers, AnswersTooLate, Accepts, Rejects, Overspends,
       Heartbeat, Interrupts, Finishes, Delivers, Goes, Ends, DriverFrame, slotVars, Awaiting
  <2>3. QED BY <2>1, <2>2 DEF DownTogether
<1>4. ASSUME NEW w \in Workers, Crash(w) \/ Restart(w)
      PROVE  DownTogether'
  BY <1>1, <1>4 DEF Crash, Restart, AllGo, SlotsOf, DownTogether, SlotTypes
<1>5. CASE PoolNext /\ ~(\E t \in Slots : SlotStep(t)) /\ ~(\E w \in Workers : Crash(w) \/ Restart(w))
  BY <1>2, <1>5 DEF PoolNext, TimePasses, StartsBuild, ContinuesRun, StopsRun, DecidesApproval,
       ContinuesDecided, FindsIdle, Abandons, RetriesDelivery, AcquiresForDelivery, ApiFrame
<1>6. QED BY <1>2, <1>3, <1>4, <1>5 DEF poolVars

\* A job that a slot executes is executed still or has ended, unless its process crashed.
LEMMA SlotStaysOn ==
    ASSUME WhileLeased, NEW t \in Slots, SlotStep(t), NEW j \in Running, Executed(j)
    PROVE  Executed(j)' \/ j \notin Running'
<1>1. QueueTypeOK /\ SlotTypes /\ j \in Jobs
  BY TypesSplit DEF WhileLeased, PoolInv, SlotTypes, Running
<1>2. PICK s \in Slots : pc[s] \in Executing /\ job[s] = j
  BY DEF Executed
<1>3. CASE s # t
  BY <1>1, <1>2, <1>3, SlotFrame DEF Executed
<1>4. CASE s = t
  <2>1. ~Reaps(t) /\ ~Claims(t) /\ ~Delivers(t)
    BY <1>2, <1>4 DEF Reaps, Claims, Delivers, Executing, Driving, Awaiting
  <2>2. job'[t] = j
    BY <1>1, <1>2, <1>4, <2>1, SlotRows
  <2>3. CASE Loads(t) \/ FailsToStart(t) \/ Finishes(t)
    <3>1. Owns(t)
      BY <1>2, <1>4 DEF WhileLeased, Leased
    <3>2. CASE pc'[t] \in Executing
      BY <2>2, <3>2 DEF Executed
    <3>3. CASE \E status \in Terminal : FinishIfOwned(t, status)
      <4>1. state'[j] \in Terminal
        BY <1>1, <1>2, <1>4, <3>1, <3>3 DEF FinishIfOwned, Finish, QueueTypeOK
      <4>2. QED BY <4>1 DEF Running, Terminal
    <3>4. QED
      BY <1>1, <2>3, <3>2, <3>3
      DEF Loads, FailsToStart, Finishes, Goes, SlotTypes, Terminal, Executing, Driving, Awaiting
  <2>4. CASE ~Loads(t) /\ ~FailsToStart(t) /\ ~Finishes(t)
    <3>1. pc'[t] \in Executing
      BY <1>1, <2>1, <2>4 DEF SlotTypes, SlotStep, RecoversRun, Starts,
       SetsCriteria, AddsTasks, PlanFails, RecoversFailure, AsksHuman, AppliesDecision,
       Delegates, Completes, Returns, Answers, AnswersTooLate, Accepts, Rejects, Overspends,
       Heartbeat, Interrupts, Goes, Ends, DriverFrame, slotVars, Awaiting, Driving, Executing
    <3>2. QED BY <2>2, <3>1 DEF Executed
  <2>5. QED BY <2>3, <2>4
<1>5. QED BY <1>3, <1>4

LEMMA OthersStayOn ==
    ASSUME PoolInv, DownTogether, PoolNext, ~\E t \in Slots : SlotStep(t),
           ~\E w \in Workers : Crash(w), NEW j \in Running, Executed(j)
    PROVE  Executed(j)'
<1>1. SlotTypes
  BY TypesSplit DEF PoolInv
<1>2. CASE UNCHANGED slotVars
  BY <1>2 DEF slotVars, Executed
<1>3. ASSUME NEW w \in Workers, Restart(w)
      PROVE  Executed(j)'
  <2>1. PICK s \in Slots : pc[s] \in Executing /\ job[s] = j
    BY DEF Executed
  <2>2. s \notin SlotsOf(w)
    BY <1>3, <2>1 DEF Restart, SlotsOf, DownTogether, Executing, Driving, Awaiting
  <2>3. pc'[s] = pc[s] /\ job'[s] = job[s]
    BY <1>1, <1>3, <2>2 DEF Restart, AllGo, ProcessFrame, SlotTypes
  <2>4. QED BY <2>1, <2>3 DEF Executed
<1>4. CASE ~\E w \in Workers : Restart(w)
  BY <1>2, <1>4 DEF PoolNext, TimePasses, StartsBuild, ContinuesRun, StopsRun, DecidesApproval,
       ContinuesDecided, FindsIdle, Abandons, RetriesDelivery, AcquiresForDelivery, ApiFrame
<1>5. QED BY <1>3, <1>4

\* A job starts to run when a slot claims it.
LEMMA ClaimedIsExecuted ==
    ASSUME PoolInv, [PoolNext]_poolVars, NEW j \in Running', j \notin Running
    PROVE  Executed(j)'
<1>1. QueueTypeOK /\ SlotTypes /\ j \in Jobs
  BY TypesSplit DEF PoolInv, Running
<1>2. ASSUME NEW t \in Slots, Claims(t)
      PROVE  Executed(j)'
  <2>1. PICK k \in Jobs : Claim(WorkerOf[t]) /\ state[k] = "queued" /\ state'[k] = "running"
                          /\ job' = [job EXCEPT ![t] = k] /\ Goes(t, "claimed")
    BY <1>2 DEF Claims, queueVars, jobVars, Running
  <2>2. j = k
    BY <1>1, <2>1 DEF Claim, Running, QueueTypeOK
  <2>3. pc'[t] = "claimed" /\ job'[t] = j
    BY <1>1, <2>1, <2>2 DEF Goes, SlotTypes
  <2>4. QED BY <2>3 DEF Executed, Executing
<1>3. ASSUME NEW t \in Slots, SlotStep(t), ~Claims(t)
      PROVE  state[j] = "running"
  <2>1. CASE UNCHANGED state
    BY <2>1 DEF Running
  <2>2. CASE Reap
    <3>1. \E expired, ids \in SUBSET Jobs :
             state' = [i \in Jobs |-> CASE i \in expired -> "failed"
                                        [] i \in ids     -> "queued"
                                        [] OTHER         -> state[i]]
      BY <2>2 DEF Reap, Running
    <3>2. QED BY <1>1, <3>1 DEF Running
  <2>3. CASE \E status \in Terminal : FinishIfOwned(t, status)
    BY <1>1, <2>1, <2>3 DEF FinishIfOwned, Finish, Running, Terminal, QueueTypeOK, queueVars, jobVars
  <2>4. CASE Loads(t) \/ FailsToStart(t) \/ Finishes(t)
    BY <1>1, <2>1, <2>3, <2>4 DEF Loads, FailsToStart, Finishes, SlotTypes, Terminal, queueVars, jobVars
  <2>5. CASE ~Loads(t) /\ ~FailsToStart(t) /\ ~Finishes(t)
    BY <1>3, <2>1, <2>2, <2>5 DEF SlotStep, Reaps, RecoversRun, Starts, SetsCriteria, AddsTasks, PlanFails,
       RecoversFailure, AsksHuman, AppliesDecision, Delegates, Completes, Returns, Answers,
       AnswersTooLate, Accepts, Rejects, Overspends, Heartbeat, Extend, Interrupts, Delivers,
       DriverFrame, queueVars, jobVars
  <2>6. QED BY <2>4, <2>5
<1>4. CASE (PoolNext /\ ~\E t \in Slots : SlotStep(t)) \/ UNCHANGED poolVars
  <2>1. CASE UNCHANGED state
    BY <2>1 DEF Running
  <2>2. CASE \E r \in Runs, k \in Kinds : Enqueue(r, k)
    BY <1>1, <2>2 DEF Enqueue, Running, QueueTypeOK
  <2>3. CASE \E r \in Runs : RequestCancel(r)
    BY <1>1, <2>3 DEF RequestCancel, Running, QueueTypeOK
  <2>4. QED
    BY <1>4, <2>1, <2>2, <2>3 DEF poolVars, PoolNext, Crash, Restart, ProcessFrame, TimePasses,
       JobLeaseLapses, StartsBuild, ContinuesRun, StopsRun, DecidesApproval, ContinuesDecided, FindsIdle,
       Abandons, RetriesDelivery, AcquiresForDelivery, AcquireProject, ReleaseProject, queueVars, jobVars, Kinds
<1>5. QED BY <1>1, <1>2, <1>3, <1>4 DEF Running

\* A run loses its job to a crash and to nothing else.
LEMMA NoOtherLoss ==
    ASSUME WhileLeased, DownTogether, [PoolNext]_poolVars, ~\E w \in Workers : Crash(w),
           NEW r \in Runs, NEW N, Adds(N), IsLost(r)'
    PROVE  IsLost(r)
<1>1. PICK j \in Running' : runOf'[j] = r /\ ~Executed(j)'
  BY DEF IsLost
<1>2. j \in Running
  BY <1>1, ClaimedIsExecuted DEF WhileLeased
<1>3. ~Executed(j)
  <2>1. CASE UNCHANGED poolVars
    BY <1>1, <2>1 DEF poolVars, slotVars, Executed
  <2>2. QED BY <1>1, <1>2, <2>1, SlotStaysOn, OthersStayOn DEF WhileLeased
<1>4. runOf[j] = r
  BY <1>1, <1>2 DEF Adds, Running, Created
<1>5. QED BY <1>2, <1>3, <1>4 DEF IsLost

LEMMA CrashesGrow ==
    ASSUME [PoolNext]_poolVars
    PROVE  crashes' = IF \E w \in Workers : Crash(w) THEN crashes + 1 ELSE crashes
<1>1. CASE \E w \in Workers : Crash(w)
  BY <1>1 DEF Crash
<1>2. ASSUME NEW t \in Slots, SlotStep(t)
      PROVE  crashes' = crashes
  BY <1>2 DEF SlotStep, Reaps, Claims, Loads, RecoversRun, FailsToStart, Starts, SetsCriteria,
     AddsTasks, PlanFails, RecoversFailure, AsksHuman, AppliesDecision, Delegates, Completes, Returns,
     Answers, AnswersTooLate, Accepts, Rejects, Overspends, Heartbeat, Interrupts, Finishes, Delivers,
     DriverFrame
<1>3. CASE ~(\E t \in Slots : SlotStep(t)) /\ ~(\E w \in Workers : Crash(w))
  BY <1>3 DEF PoolNext, Restart, ProcessFrame, TimePasses, StartsBuild, ContinuesRun, StopsRun,
     DecidesApproval, ContinuesDecided, FindsIdle, Abandons, RetriesDelivery, AcquiresForDelivery,
     ApiFrame, poolVars
<1>4. QED BY <1>1, <1>2, <1>3

LEMMA CountStep ==
    ASSUME WhileLeased, QueueInv', DownTogether, crashes' \in Nat, LossesAreCounted, [PoolNext]_poolVars
    PROVE  LossesAreCounted'
<1> SUFFICES ASSUME NEW r \in Runs
             PROVE  /\ Cardinality(Recoveries(r)') <= crashes'
                    /\ IsLost(r)' => Cardinality(Recoveries(r)') < crashes'
  BY DEF LossesAreCounted
<1>1. PICK N : Adds(N)
  BY StepIsQueueStep, StepAdds DEF WhileLeased, PoolInv, QueueInv
<1> DEFINE A == {n \in N : runOf'[n] = r /\ kind'[n] = "recover"}
<1>2. Recoveries(r)' = Recoveries(r) \cup A
  BY <1>1 DEF Adds, Recoveries
<1>3. /\ IsFiniteSet(Recoveries(r)) /\ crashes \in Nat
      /\ Cardinality(Recoveries(r)) <= crashes
      /\ IsLost(r) => Cardinality(Recoveries(r)) < crashes
  BY DEF LossesAreCounted, WhileLeased, PoolInv, PoolTypeOK, QueueInv, RecoveriesAreFinite
<1>4. Cardinality(Recoveries(r)) \in Nat
  BY <1>3, FS_CardinalityType
<1>5. crashes' = IF \E w \in Workers : Crash(w) THEN crashes + 1 ELSE crashes
  BY CrashesGrow
<1>6. CASE A = {}
  <2>1. Recoveries(r)' = Recoveries(r)
    BY <1>2, <1>6
  <2>2. CASE \E w \in Workers : Crash(w)
    BY <1>3, <1>4, <1>5, <2>1, <2>2
  <2>3. CASE ~\E w \in Workers : Crash(w)
    BY <1>1, <1>3, <1>5, <2>1, <2>3, NoOtherLoss
  <2>4. QED BY <2>2, <2>3
<1>7. CASE A # {}
  <2>1. PICK n \in N : runOf'[n] = r /\ kind'[n] = "recover"
    BY <1>7
  <2>2. n \in Active' /\ n \notin Running' /\ N \subseteq Active'
    BY <1>1, <2>1 DEF Adds, Active, Running
  <2>3. \A i \in Active' : runOf'[i] = r => i = n
    BY <2>1, <2>2 DEF QueueInv, OneActiveJobPerRun
  <2>4. A = {n}
    BY <2>1, <2>2, <2>3
  <2>5. n \notin Recoveries(r)
    BY <1>1, <2>1 DEF Adds, Recoveries
  <2>6. Cardinality(Recoveries(r) \cup {n}) = Cardinality(Recoveries(r)) + 1
    BY <1>3, <2>5, FS_AddElement
  <2>7. Cardinality(Recoveries(r)') = Cardinality(Recoveries(r)) + 1
    BY <1>2, <2>4, <2>6
  <2>8. IsLost(r)
    <3>1. PICK m \in Running : runOf[m] = r /\ lapsed[m]
      BY <1>1, <2>1 DEF Adds
    <3>2. ~Executed(m)
      BY <3>1 DEF Executed, WhileLeased, Leased
    <3>3. QED BY <3>1, <3>2 DEF IsLost
  <2>9. ~IsLost(r)'
    BY <2>2, <2>3 DEF IsLost, Running, Active
  <2>10. crashes' \in Nat /\ crashes <= crashes'
    BY <1>3, <1>5
  <2>11. QED BY <1>3, <1>4, <2>7, <2>8, <2>9, <2>10
<1>8. QED BY <1>6, <1>7

\* reap_expired's cap: if processes crash no more often than a run may be
\* recovered, every job that a crash leaves behind is replaced.
THEOREM CrashesAreRecovered ==
    ~Stalls /\ MaxCrashes <= MaxRecoveries /\ PoolSpec => []RecoveriesSuffice
<1> DEFINE Counted == DownTogether /\ LossesAreCounted
<1>1. PoolInit => Counted
  <2> SUFFICES ASSUME PoolInit PROVE Counted
    OBVIOUS
  <2>1. DownTogether /\ crashes = 0 /\ Running = {}
    BY DEF PoolInit, QueueInit, DownTogether, Running
  <2>2. \A r \in Runs : Recoveries(r) = {}
    BY DEF PoolInit, QueueInit, Recoveries, Created
  <2>3. \A r \in Runs : Cardinality(Recoveries(r)) = 0 /\ ~IsLost(r)
    BY <2>1, <2>2, FS_EmptySet DEF IsLost
  <2>4. QED BY <2>1, <2>3 DEF LossesAreCounted
<1>2. WhileLeased /\ WhileLeased' /\ Counted /\ [PoolNext]_poolVars => Counted'
  <2> SUFFICES ASSUME WhileLeased, WhileLeased', Counted, [PoolNext]_poolVars PROVE Counted'
    OBVIOUS
  <2>1. PoolInv /\ QueueInv' /\ crashes' \in Nat
    BY DEF WhileLeased, PoolInv, PoolTypeOK
  <2>2. QED BY <2>1, DownTogetherStep, CountStep
<1>3. MaxCrashes <= MaxRecoveries /\ WhileLeased /\ Counted => RecoveriesSuffice
  <2> SUFFICES ASSUME MaxCrashes <= MaxRecoveries, WhileLeased, Counted,
                      NEW j \in Running, lapsed[j]
               PROVE  Cardinality(Recoveries(runOf[j])) < MaxRecoveries
    BY DEF RecoveriesSuffice
  <2> DEFINE r == runOf[j]
  <2>1. r \in Runs /\ IsFiniteSet(Recoveries(r)) /\ crashes \in 0..MaxCrashes
    BY DEF WhileLeased, PoolInv, PoolTypeOK, QueueInv, QueueTypeOK, RecoveriesAreFinite, Running
  <2>2. ~Executed(j)
    BY DEF Executed, WhileLeased, Leased
  <2>3. IsLost(r)
    BY <2>2 DEF IsLost
  <2>4. Cardinality(Recoveries(r)) < crashes
    BY <2>1, <2>3 DEF LossesAreCounted
  <2>5. Cardinality(Recoveries(r)) \in Nat
    BY <2>1, FS_CardinalityType
  <2> HIDE DEF r
  <2>6. QED BY <2>1, <2>4, <2>5 DEF r
<1> HIDE DEF Counted
<1>4. CASE ~Stalls /\ MaxCrashes <= MaxRecoveries
  <2>1. WhileLeased /\ Counted => RecoveriesSuffice
    BY <1>3, <1>4
  <2>2. QED BY <1>1, <1>2, <1>4, <2>1, LeasedInvariant, PTL DEF PoolSpec
<1>5. QED BY <1>4

\* Hence, with no more crashes than recoveries and no stop, no orphan.
THEOREM CrashesOrphanNothing ==
    ~Stalls /\ "stop" \notin Requests /\ MaxCrashes <= MaxRecoveries /\ PoolSpec => []NoOrphanAssignment
BY CrashesAreRecovered, NoAssignmentIsOrphaned, PTL
==============================================================================
