-------------------------- MODULE IntegrationProofs --------------------------
(***************************************************************************)
(* The invariants of Integration, for any number of tasks, processes,      *)
(* candidates and faults.  What they rest on comes in two layers: what     *)
(* holds whatever stalls, crashes or fails, and what a single process      *)
(* keeps.                                                                  *)
(***************************************************************************)
EXTENDS Integration, SequenceTheorems, FiniteSetTheorems, TLAPS

USE EditsAssumption, PlansAssumption, IntegrationBounds, NoneAssumption
-----------------------------------------------------------------------------
(* What holds whatever stalls, crashes or fails.                           *)

Stages == Sync \cup Awaiting \cup Resting
Judging == {"validating", "reviewing", "accepting", "deciding"}
Final == {"integrating", "committing", "recording"}
Bound == {"discarding", "starting", "marking", "working", "submitting"} \cup Judging \cup Final

Statuses == {"PLANNED", "READY", "RUNNING", "SUBMITTED", "ACCEPTED", "BLOCKED"}
Worktree == [state : {"unused", "present", "removed"}, task : Tasks \cup {None}, base : Commit,
             edit : Edits \cup {0}, sealed : Edits \cup {0}, writer : Nat]
Held == [new : Cands \cup {None}, old : Cands \cup {None}]

KernelType ==
    /\ deps \in Plans /\ status \in [Tasks -> Statuses]
    /\ by \in [Tasks -> Procs \cup {None}] /\ attempts \in [Tasks -> 0..MaxAttempts]
    /\ ws \in [Tasks -> Cands \cup {None}] /\ art \in [Tasks -> Artifact]
GitType == worktree \in [Cands -> Worktree] /\ head \in Commit
GrantType == disk \in [Cands -> Grants] /\ mem \in [Procs -> [Cands -> Grants]]
ProcType == pc \in [Procs -> [Tasks -> Stages]] /\ hold \in [Procs -> [Tasks -> Held]]
FaultType ==
    /\ live \subseteq Procs /\ closed \in {"no", "complete", "retired"}
    /\ faults \in Nat /\ stalls \in Nat

\* IntegrationTypeOK, and what it leaves out of the worktrees and of the processes.
TypeInv == KernelType /\ GitType /\ GrantType /\ ProcType /\ FaultType

\* A process that is gone does nothing and holds nothing.
DeadRest ==
    \A p \in Procs \ live, t \in Tasks : pc[p][t] = "idle" /\ hold[p][t] = NoHold

\* One process judges a task, and one coroutine of a process is between two awaits.
StagesAgree ==
    /\ \A p \in Procs, t \in Tasks :
        /\ pc[p][t] \in Judging =>
               status[t] = "SUBMITTED" /\ \A q \in Procs \ {p} : pc[q][t] \notin Judging
        /\ pc[p][t] \in Final => status[t] = "ACCEPTED"
        /\ pc[p][t] \in Bound => ws[t] # None
        /\ pc[p][t] \in Sync => \A u \in Tasks \ {t} : pc[p][u] \notin Sync
    /\ \A t \in Tasks :
        /\ status[t] \in {"RUNNING", "SUBMITTED", "ACCEPTED"} => ws[t] # None
        /\ Recorded(t) => status[t] = "ACCEPTED"

Refers(p, t, c) == c \in {hold[p][t].new, hold[p][t].old}

\* A candidate is one task's, one that is not bound yet is in one process's hand,
\* and one that is about to be removed is bound to no task.
CandidatesAreApart ==
    /\ \A t \in Tasks, u \in Tasks : ws[t] = ws[u] /\ ws[t] # None => t = u
    /\ \A c \in Cands : worktree[c].state = "unused" =>
        /\ \A t \in Tasks : ws[t] # c
        /\ \A p \in Procs, t \in Tasks : ~Refers(p, t, c)
    /\ \A p \in Procs, t \in Tasks :
        /\ pc[p][t] \in {"granting", "binding"} =>
            /\ hold[p][t].new # None /\ hold[p][t].new # hold[p][t].old
            /\ worktree[hold[p][t].new].state = "present"
            /\ \A u \in Tasks : ws[u] # hold[p][t].new
            /\ \A q \in Procs, u \in Tasks :
                   <<q, u>> # <<p, t>> => ~Refers(q, u, hold[p][t].new)
        /\ pc[p][t] = "discarding" => \A u \in Tasks : ws[u] # hold[p][t].old

\* The run's job is not over.
Goes_on == closed = "no" \/ live # {}

WorkspacesArePresent ==
    Goes_on => \A t \in Tasks : ws[t] # None => worktree[ws[t]].state = "present"

\* The commit that is about to be recorded.
CommitIsMade(t) ==
    /\ worktree[ws[t]].sealed # 0
    /\ IsPrefix(CommitOf(t, worktree[ws[t]].base, worktree[ws[t]].sealed), head)

\* What a task depends on was accepted on an earlier head than its candidate's base.
Follows(t, c) ==
    \A u \in deps[t] :
        status[u] = "ACCEPTED" /\ Len(worktree[ws[u]].base) <= Len(worktree[c].base)

BasesAreInOrder ==
    /\ \A c \in Cands : Len(worktree[c].base) <= Len(head)
    /\ Goes_on =>
        /\ \A t \in Tasks :
            /\ ws[t] # None => Follows(t, ws[t])
            /\ Recorded(t) => Len(art[t].commit) = Len(worktree[ws[t]].base) + 1
        /\ \A p \in Procs, t \in Tasks :
            pc[p][t] \in {"granting", "binding"} => Follows(t, hold[p][t].new)

CommitsAreMade ==
    \A p \in Procs, t \in Tasks : pc[p][t] = "recording" /\ ~Recorded(t) => CommitIsMade(t)

Protocol ==
    /\ TypeInv /\ DeadRest /\ StagesAgree /\ CandidatesAreApart
    /\ WorkspacesArePresent /\ CommitsAreMade /\ RecordedIsOnBranch
    /\ BasesAreInOrder /\ RecordedInOrder
-----------------------------------------------------------------------------
(* What a single process keeps.                                            *)

OneProcess ==
    /\ \A p \in live, q \in live : p = q
    /\ live # {} => closed = "no"
    /\ \A p \in live : mem[p] = disk

\* A grant is active as long as its worktree is there, or a cleanup begins; a
\* worktree without one is new.
GrantsAgree ==
    /\ \A c \in Cands : worktree[c].state = "unused" => disk[c] = "absent"
    /\ closed = "no" =>
        /\ \A c \in Cands :
            /\ disk[c] \in Usable => worktree[c].state = "present"
            /\ worktree[c].state = "present" => disk[c] \in Usable \cup {"absent"}
        /\ \A t \in Tasks : ws[t] # None => disk[ws[t]] # "absent"

\* The worktrees that no grant names: for each but the one being granted, a fault.
Granting(c) == \E p \in live, t \in Tasks : pc[p][t] = "granting" /\ hold[p][t].new = c
Orphans == {c \in Cands : worktree[c].state = "present" /\ disk[c] = "absent" /\ ~Granting(c)}

OrphansAreFew ==
    /\ Cardinality(Orphans) <= faults
    /\ closed = "retired" => \A c \in Left : disk[c] = "absent"

GrantOf(p, t) == disk[hold[p][t].new]

\* What an attempt finds in its workspace: at each stage of the attempt.
AttemptsAgree ==
    \A p \in live, t \in Tasks :
        /\ pc[p][t] = "granting" =>
               /\ hold[p][t].new # None /\ GrantOf(p, t) = "absent"
               /\ worktree[hold[p][t].new].writer = 0 /\ worktree[hold[p][t].new].sealed = 0
               /\ hold[p][t].old = ws[t] /\ (ws[t] # None => disk[ws[t]] # "open")
        /\ pc[p][t] \in {"binding", "discarding", "starting", "marking"} =>
               hold[p][t].new # None /\ GrantOf(p, t) = "open"
        /\ pc[p][t] \in {"discarding", "starting", "marking", "working"} =>
               hold[p][t].new = ws[t]
        /\ pc[p][t] = "working" =>
               /\ GrantOf(p, t) = "used" /\ worktree[ws[t]].sealed = 0
               /\ worktree[ws[t]].writer \in {0, attempts[t]}
        /\ pc[p][t] = "submitting" => disk[ws[t]] = "frozen" /\ Changed(ws[t])
        /\ pc[p][t] \in {"marking", "working", "submitting"} => attempts[t] > 0

CandidatesAgree ==
    /\ \A c \in Cands : disk[c] = "open" =>
           worktree[c].writer = 0 /\ worktree[c].sealed = 0
    /\ \A c \in Cands : worktree[c].sealed \in {0, worktree[c].edit}
    /\ \A t \in Tasks : ws[t] # None =>
           status[t] # "PLANNED" /\ (disk[ws[t]] \in {"used", "frozen"} => attempts[t] > 0)

\* Work under judgement or accepted is there as it was submitted.
SubmittedStays ==
    closed = "no" => \A t \in Tasks : status[t] \in {"SUBMITTED", "ACCEPTED"} =>
        /\ disk[ws[t]] = "frozen" /\ Changed(ws[t])
        /\ Fingerprint(ws[t]) = <<art[t].base, art[t].edit>>

Alone ==
    /\ OneProcess /\ GrantsAgree /\ AttemptsAgree /\ CandidatesAgree
    /\ SubmittedStays /\ HeadIsAccepted /\ OrphansAreFew

Single == stalls = 0 => Alone
-----------------------------------------------------------------------------
(* A step of a task.                                                       *)

Prepares(p, t) ==
    \/ Delegates(p, t) \/ Registers(p, t) \/ Binds(p, t)
    \/ Discards(p, t) \/ Begins(p, t) \/ Marks(p, t)
Attempts(p, t) == Writes(p, t) \/ GivesUp(p, t) \/ Returns(p, t) \/ Submits(p, t)
Judges(p, t) == Validates(p, t) \/ Reviews(p, t) \/ ChecksBase(p, t) \/ Accepts(p, t)
Integrates(p, t) == StartsIntegration(p, t) \/ AdvancesHead(p, t) \/ Records(p, t)
TaskStep(p, t) ==
    Prepares(p, t) \/ Attempts(p, t) \/ Judges(p, t) \/ Integrates(p, t) \/ Fails(p, t)

\* It is of one task in one process.
Frame(p, t) ==
    /\ p \in live /\ \A u \in Tasks \ {t} : pc[p][u] \notin Sync
    /\ UNCHANGED <<deps, live, stalls, closed>> /\ faults' \in {faults, faults + 1}
    /\ \A q \in Procs, u \in Tasks : q # p \/ u # t =>
           pc'[q][u] = pc[q][u] /\ hold'[q][u] = hold[q][u]
    /\ \A u \in Tasks \ {t} :
           /\ status'[u] = status[u] /\ attempts'[u] = attempts[u]
           /\ ws'[u] = ws[u] /\ art'[u] = art[u]
    /\ \A q \in Procs \ {p} : mem'[q] = mem[q]

LEMMA StepsAreLocal ==
    ASSUME TypeInv, NEW p \in Procs, NEW t \in Tasks, TaskStep(p, t) PROVE Frame(p, t)
<1> USE DEF TypeInv, KernelType, GrantType, ProcType, FaultType, Frame, kernelVars, gitVars, grantVars, procVars, faultVars,
            At, Turn, Goes, Ends, Refused
<1>1. CASE Delegates(p, t)
  BY <1>1 DEF Delegates, Reuses, Builds
<1>r. CASE Registers(p, t)
  BY <1>r DEF Registers, SaveGrant, SavesAs
<1>f. CASE Fails(p, t)
  BY <1>f DEF Fails
<1>2. CASE Binds(p, t)
  BY <1>2 DEF Binds, Removes, SaveGrant, SavesAs
<1>3. CASE Discards(p, t)
  BY <1>3 DEF Discards, Removes, SaveGrant, SavesAs
<1>4. CASE Begins(p, t)
  BY <1>4 DEF Begins
<1>5. CASE Marks(p, t)
  BY <1>5 DEF Marks, SaveGrant, SavesAs
<1>6. CASE Writes(p, t)
  BY <1>6 DEF Writes, CanWrite
<1>7. CASE GivesUp(p, t)
  BY <1>7 DEF GivesUp, FailsMine, Recovers
<1>8. CASE Returns(p, t)
  BY <1>8 DEF Returns, FailsMine, Recovers, SaveGrant, SavesAs
<1>9. CASE Submits(p, t)
  BY <1>9 DEF Submits, FailsMine, Recovers
<1>10. CASE Validates(p, t)
  BY <1>10 DEF Validates, Lends, SavesAs, Verdict, Recovers, Escalates
<1>11. CASE Reviews(p, t)
  BY <1>11 DEF Reviews, Lends, SavesAs, Verdict, Recovers
<1>12. CASE ChecksBase(p, t)
  BY <1>12 DEF ChecksBase, Recovers
<1>13. CASE Accepts(p, t)
  BY <1>13 DEF Accepts
<1>14. CASE StartsIntegration(p, t)
  BY <1>14 DEF StartsIntegration
<1>15. CASE AdvancesHead(p, t)
  BY <1>15 DEF AdvancesHead
<1>16. CASE Records(p, t)
  BY <1>16 DEF Records
<1>17. QED
  BY <1>1, <1>r, <1>f, <1>2, <1>3, <1>4, <1>5, <1>6, <1>7, <1>8, <1>9, <1>10, <1>11, <1>12,
     <1>13, <1>14, <1>15, <1>16 DEF TaskStep, Prepares, Attempts, Judges, Integrates

LEMMA MovesAreTyped ==
    ASSUME ProcType, NEW p \in Procs, NEW t \in Tasks
    PROVE  /\ Ends(p, t) => ProcType'
           /\ Refused(p, t) => ProcType'
           /\ \A step \in Stages : Goes(p, t, step) => ProcType'
           /\ \A step \in Stages : \A new \in Cands \cup {None} : \A old \in Cands \cup {None} :
                /\ pc' = [pc EXCEPT ![p][t] = step]
                /\ hold' = [hold EXCEPT ![p][t] = [new |-> new, old |-> old]]
                => ProcType'
<1>1. "idle" \in Stages /\ "stuck" \in Stages /\ NoHold \in Held
  BY DEF Stages, Resting, NoHold, Held
<1>2. (IF status[t] = "READY" THEN "stuck" ELSE "idle") \in Stages
  BY <1>1
<1>3. Ends(p, t) => ProcType'
  BY <1>1 DEF Ends, ProcType
<1>4. Refused(p, t) => ProcType'
  BY <1>1, <1>2 DEF Refused, ProcType
<1>5. ASSUME NEW step \in Stages, Goes(p, t, step) PROVE ProcType'
  BY <1>5 DEF Goes, ProcType
<1>6. ASSUME NEW step \in Stages, NEW new \in Cands \cup {None}, NEW old \in Cands \cup {None},
             pc' = [pc EXCEPT ![p][t] = step],
             hold' = [hold EXCEPT ![p][t] = [new |-> new, old |-> old]]
      PROVE  ProcType'
  <2>1. [new |-> new, old |-> old] \in Held
    BY DEF Held
  <2>2. QED BY <1>6, <2>1 DEF ProcType
<1>7. QED BY <1>3, <1>4, <1>5, <1>6

LEMMA StagesAreStages ==
    {"granting", "binding", "discarding", "starting", "marking", "submitting", "accepting",
     "deciding", "integrating", "committing", "recording", "delegating", "working",
     "validating", "reviewing"} \subseteq Stages
  BY DEF Stages, Sync, Awaiting, Resting

LEMMA ProcTypeIsKept ==
    ASSUME TypeInv, NEW p \in Procs, NEW t \in Tasks, TaskStep(p, t) PROVE ProcType'
<1> ProcType
  BY DEF TypeInv
<1> USE MovesAreTyped, StagesAreStages
<1>1. CASE Delegates(p, t)
  <2>1. CASE Reuses(p, t)
    BY <2>1 DEF Reuses, TypeInv, KernelType
  <2>2. CASE Builds(p, t)
    BY <2>2 DEF Builds, TypeInv, KernelType
  <2>3. QED BY <1>1, <2>1, <2>2 DEF Delegates
<1>r. CASE Registers(p, t)
  BY <1>r DEF Registers
<1>f. CASE Fails(p, t)
  BY <1>f DEF Fails
<1>2. CASE Binds(p, t)
  BY <1>2 DEF Binds
<1>3. CASE Discards(p, t)
  BY <1>3 DEF Discards
<1>4. CASE Begins(p, t)
  BY <1>4 DEF Begins
<1>5. CASE Marks(p, t)
  BY <1>5 DEF Marks
<1>6. CASE Writes(p, t)
  BY <1>6 DEF Writes, procVars, ProcType
<1>7. CASE GivesUp(p, t)
  BY <1>7 DEF GivesUp
<1>8. CASE Returns(p, t)
  BY <1>8 DEF Returns
<1>9. CASE Submits(p, t)
  BY <1>9 DEF Submits
<1>10. CASE Validates(p, t)
  BY <1>10 DEF Validates, Verdict
<1>11. CASE Reviews(p, t)
  BY <1>11 DEF Reviews, Verdict
<1>12. CASE ChecksBase(p, t)
  BY <1>12 DEF ChecksBase
<1>13. CASE Accepts(p, t)
  BY <1>13 DEF Accepts
<1>14. CASE StartsIntegration(p, t)
  BY <1>14 DEF StartsIntegration
<1>15. CASE AdvancesHead(p, t)
  BY <1>15 DEF AdvancesHead
<1>16. CASE Records(p, t)
  BY <1>16 DEF Records
<1>17. QED
  BY <1>1, <1>r, <1>f, <1>2, <1>3, <1>4, <1>5, <1>6, <1>7, <1>8, <1>9, <1>10, <1>11, <1>12,
     <1>13, <1>14, <1>15, <1>16 DEF TaskStep, Prepares, Attempts, Judges, Integrates

LEMMA GrantTypeIsKept ==
    ASSUME TypeInv, NEW p \in Procs, NEW t \in Tasks, TaskStep(p, t) PROVE GrantType'
<1> TypeInv
  OBVIOUS
<1> USE DEF TypeInv, GrantType, grantVars, Grants, SaveGrant, SavesAs
<1>1. CASE Delegates(p, t)
  <2>1. CASE Reuses(p, t)
    BY <2>1 DEF Reuses
  <2>2. CASE Builds(p, t)
    BY <2>2 DEF Builds
  <2>3. QED BY <1>1, <2>1, <2>2 DEF Delegates
<1>r. CASE Registers(p, t)
  BY <1>r DEF Registers
<1>f. CASE Fails(p, t)
  BY <1>f DEF Fails
<1>2. CASE Binds(p, t)
  BY <1>2 DEF Binds, Removes
<1>3. CASE Discards(p, t)
  BY <1>3, SMTT(20) DEF Discards, Removes
<1>4. CASE Begins(p, t)
  BY <1>4 DEF Begins
<1>5. CASE Marks(p, t)
  BY <1>5, SMTT(20) DEF Marks
<1>6. CASE Writes(p, t)
  BY <1>6 DEF Writes
<1>7. CASE GivesUp(p, t)
  BY <1>7 DEF GivesUp
<1>8. CASE Returns(p, t)
  BY <1>8 DEF Returns, Frozen
<1>9. CASE Submits(p, t)
  BY <1>9 DEF Submits
<1>10. CASE Validates(p, t)
  BY <1>10 DEF Validates, Lends
<1>11. CASE Reviews(p, t)
  BY <1>11 DEF Reviews, Lends
<1>12. CASE ChecksBase(p, t)
  BY <1>12 DEF ChecksBase
<1>13. CASE Accepts(p, t)
  BY <1>13 DEF Accepts
<1>14. CASE StartsIntegration(p, t)
  BY <1>14 DEF StartsIntegration
<1>15. CASE AdvancesHead(p, t)
  BY <1>15 DEF AdvancesHead
<1>16. CASE Records(p, t)
  BY <1>16 DEF Records
<1>17. QED
  BY <1>1, <1>r, <1>f, <1>2, <1>3, <1>4, <1>5, <1>6, <1>7, <1>8, <1>9, <1>10, <1>11, <1>12,
     <1>13, <1>14, <1>15, <1>16 DEF TaskStep, Prepares, Attempts, Judges, Integrates

LEMMA KernelTypeIsKept ==
    ASSUME Protocol, NEW p \in Procs, NEW t \in Tasks, TaskStep(p, t) PROVE KernelType'
<1> TypeInv /\ StagesAgree /\ CommitsAreMade
  BY DEF Protocol
<1> USE DEF TypeInv, KernelType, Statuses, kernelVars, FailsMine, Recovers, Escalates
<1>1. CASE Delegates(p, t)
  BY <1>1 DEF Delegates
<1>r. CASE Registers(p, t)
  BY <1>r DEF Registers
<1>f. CASE Fails(p, t)
  BY <1>f DEF Fails
<1>2. CASE Binds(p, t)
  <2>1. hold[p][t].new \in Cands \cup {None}
    BY DEF ProcType, Held
  <2>2. QED BY <1>2, <2>1 DEF Binds
<1>3. CASE Discards(p, t)
  BY <1>3 DEF Discards
<1>4. CASE Begins(p, t)
  BY <1>4 DEF Begins
<1>5. CASE Marks(p, t)
  BY <1>5 DEF Marks
<1>6. CASE Writes(p, t)
  BY <1>6 DEF Writes
<1>7. CASE GivesUp(p, t)
  BY <1>7 DEF GivesUp
<1>8. CASE Returns(p, t)
  BY <1>8 DEF Returns
<1>9. CASE Submits(p, t)
  <2> DEFINE tree == worktree[ws[t]]
             submitted == [base |-> tree.base, edit |-> tree.edit, commit |-> None]
  <2>1. CASE Mine(p, t) /\ Holds(p, ws[t])
    <3>1. ws[t] \in Cands
      BY <2>1 DEF Holds
    <3>2. tree \in Worktree
      BY <3>1 DEF GitType
    <3>3. submitted \in Artifact
      BY <3>2 DEF Worktree, Artifact
    <3>4. art' = [art EXCEPT ![t] = submitted]
      BY <1>9, <2>1 DEF Submits
    <3> HIDE DEF submitted
    <3>5. art' \in [Tasks -> Artifact]
      BY <3>3, <3>4
    <3>6. QED BY <1>9, <2>1, <3>5 DEF Submits
  <2>2. CASE ~(Mine(p, t) /\ Holds(p, ws[t]))
    BY <1>9, <2>2 DEF Submits
  <2>3. QED BY <2>1, <2>2
<1>10. CASE Validates(p, t)
  BY <1>10 DEF Validates, Verdict
<1>11. CASE Reviews(p, t)
  BY <1>11 DEF Reviews, Verdict
<1>12. CASE ChecksBase(p, t)
  BY <1>12 DEF ChecksBase
<1>13. CASE Accepts(p, t)
  BY <1>13 DEF Accepts
<1>14. CASE StartsIntegration(p, t)
  BY <1>14 DEF StartsIntegration
<1>15. CASE AdvancesHead(p, t)
  BY <1>15 DEF AdvancesHead
<1>16. CASE Records(p, t)
  <2> DEFINE tree == worktree[ws[t]]
             commit == CommitOf(t, tree.base, tree.sealed)
             recorded == [art[t] EXCEPT !.commit = commit]
  <2>1. UNCHANGED <<deps, status, by, attempts, ws>> /\ pc[p][t] = "recording"
    BY <1>16 DEF Records, At
  <2>2. CASE status[t] = "ACCEPTED" /\ ~Recorded(t)
    <3>1. ws[t] \in Cands /\ tree.sealed # 0
      BY <2>1, <2>2 DEF StagesAgree, CommitsAreMade, CommitIsMade
    <3>2. tree \in Worktree
      BY <3>1 DEF GitType
    <3>3. tree.base \in Commit /\ tree.sealed \in Edits
      BY <3>1, <3>2 DEF Worktree
    <3> HIDE DEF tree
    <3>4. commit \in Commit
      BY <3>3 DEF Commit, CommitOf
    <3> HIDE DEF commit
    <3>5. recorded \in Artifact
      BY <3>4 DEF Artifact
    <3>6. art' = [art EXCEPT ![t] = recorded]
      BY <1>16, <2>2 DEF Records, recorded, commit, tree
    <3> HIDE DEF recorded
    <3>7. QED BY <2>1, <3>5, <3>6
  <2>3. CASE ~(status[t] = "ACCEPTED" /\ ~Recorded(t))
    BY <1>16, <2>1, <2>3 DEF Records
  <2>4. QED BY <2>2, <2>3
<1>17. QED
  BY <1>1, <1>r, <1>f, <1>2, <1>3, <1>4, <1>5, <1>6, <1>7, <1>8, <1>9, <1>10, <1>11, <1>12,
     <1>13, <1>14, <1>15, <1>16 DEF TaskStep, Prepares, Attempts, Judges, Integrates
-----------------------------------------------------------------------------
(* What a step does to the worktrees, field by field.                      *)

LEMMA RecordsAreRecords ==
    ASSUME NEW tree \in Worktree
    PROVE  /\ tree.state \in {"unused", "present", "removed"} /\ tree.task \in Tasks \cup {None}
           /\ tree.base \in Commit /\ tree.edit \in Edits \cup {0}
           /\ tree.sealed \in Edits \cup {0} /\ tree.writer \in Nat
           /\ tree.edit \in Nat /\ tree.sealed \in Nat
<1>1. /\ tree.state \in {"unused", "present", "removed"} /\ tree.task \in Tasks \cup {None}
      /\ tree.base \in Commit /\ tree.edit \in Edits \cup {0}
      /\ tree.sealed \in Edits \cup {0} /\ tree.writer \in Nat
  BY DEF Worktree
<1>2. Edits \cup {0} \subseteq Nat
  OBVIOUS
<1>3. QED BY <1>1, <1>2

\* The other candidates are as they were.
OnlyTree(c) == \A d \in Cands \ {c} : worktree'[d] = worktree[d]

LEMMA TreeIsReplaced ==
    ASSUME GitType, NEW c \in Cands, NEW tree \in Worktree,
           worktree' = [worktree EXCEPT ![c] = tree], head' \in Commit
    PROVE  GitType' /\ OnlyTree(c) /\ worktree'[c] = tree
  BY DEF GitType, OnlyTree

LEMMA WritesInTree ==
    ASSUME TypeInv, NEW p \in Procs, NEW t \in Tasks, Writes(p, t)
    PROVE  LET c == hold[p][t].new
           IN  /\ c \in Cands /\ OnlyTree(c) /\ GitType' /\ UNCHANGED head
               /\ worktree'[c].state = worktree[c].state /\ worktree'[c].base = worktree[c].base
               /\ worktree'[c].sealed = worktree[c].sealed /\ worktree'[c].writer = attempts[t]
<1> DEFINE c == hold[p][t].new
<1>1. c \in Cands /\ worktree[c] \in Worktree
  <2>1. c \in Cands \cup {None} /\ c # None
    BY DEF TypeInv, ProcType, Held, Writes, CanWrite, Holds
  <2>2. QED BY <2>1 DEF TypeInv, GitType
<1>2. PICK edit \in Edits \cup {0} :
          worktree' = [worktree EXCEPT ![c].edit = edit, ![c].writer = attempts[t]]
  BY DEF Writes
<1> DEFINE tree == [worktree[c] EXCEPT !.edit = edit, !.writer = attempts[t]]
<1>3. UNCHANGED head /\ head \in Commit /\ attempts[t] \in Nat
  BY DEF Writes, TypeInv, GitType, KernelType
<1>4. worktree' = [worktree EXCEPT ![c] = tree]
  BY <1>1, <1>2 DEF TypeInv, GitType
<1> HIDE DEF c
<1>5. /\ tree \in Worktree /\ tree.state = worktree[c].state /\ tree.base = worktree[c].base
      /\ tree.sealed = worktree[c].sealed /\ tree.writer = attempts[t]
  BY <1>1, <1>3 DEF Worktree
<1> HIDE DEF tree
<1>6. GitType' /\ OnlyTree(c) /\ worktree'[c] = tree
  BY <1>1, <1>3, <1>4, <1>5, TreeIsReplaced DEF TypeInv
<1>7. QED BY <1>1, <1>3, <1>5, <1>6 DEF c

LEMMA AdvancesInTree ==
    ASSUME TypeInv, NEW p \in Procs, NEW t \in Tasks, AdvancesHead(p, t)
    PROVE  LET c == ws[t]
           IN  \/ UNCHANGED <<worktree, head>> /\ Ends(p, t)
               \/ /\ c \in Cands /\ OnlyTree(c) /\ GitType' /\ Commits(c)
                  /\ worktree'[c].state = worktree[c].state
                  /\ worktree'[c].base = worktree[c].base /\ worktree'[c].edit = worktree[c].edit
                  /\ worktree'[c].sealed = worktree[c].edit
                  /\ worktree'[c].writer = worktree[c].writer
                  /\ \/ UNCHANGED head /\ Ends(p, t)
                     \/ /\ head = worktree[c].base /\ Goes(p, t, "recording")
                        /\ head' = CommitOf(t, worktree[c].base, worktree[c].edit)
<1> DEFINE c == ws[t]
           tree == [worktree[c] EXCEPT !.sealed = worktree[c].edit]
<1>1. CASE Holds(p, c) /\ Commits(c)
  <2>1. c \in Cands /\ worktree[c] \in Worktree
    BY <1>1 DEF TypeInv, KernelType, GitType, Holds
  <2>2. worktree' = [worktree EXCEPT ![c] = tree]
    BY <1>1, <2>1 DEF AdvancesHead, TypeInv, GitType
  <2>3. \/ UNCHANGED head /\ Ends(p, t)
        \/ /\ head = worktree[c].base /\ Goes(p, t, "recording")
           /\ head' = CommitOf(t, worktree[c].base, worktree[c].edit)
    BY <1>1 DEF AdvancesHead, HeadUnmoved
  <2> HIDE DEF c
  <2>4. /\ tree \in Worktree /\ tree.state = worktree[c].state /\ tree.base = worktree[c].base
        /\ tree.edit = worktree[c].edit /\ tree.sealed = worktree[c].edit
        /\ tree.writer = worktree[c].writer
    BY <2>1 DEF Worktree
  <2>5. worktree[c].edit \in Edits /\ worktree[c].base \in Commit
    BY <1>1, <2>1, RecordsAreRecords DEF Commits, Changed
  <2>6. head' \in Commit
    <3>1. head \in Commit
      BY DEF TypeInv, GitType
    <3>2. CommitOf(t, worktree[c].base, worktree[c].edit) \in Commit
      BY <2>5 DEF CommitOf, Commit
    <3>3. QED BY <2>3, <3>1, <3>2
  <2> HIDE DEF tree
  <2>7. GitType' /\ OnlyTree(c) /\ worktree'[c] = tree
    BY <2>1, <2>2, <2>4, <2>6, TreeIsReplaced DEF TypeInv
  <2>8. QED BY <1>1, <2>1, <2>3, <2>4, <2>7 DEF c
<1>2. CASE ~(Holds(p, c) /\ Commits(c))
  BY <1>2 DEF AdvancesHead, gitVars
<1>3. QED BY <1>1, <1>2

LEMMA RemovesTree ==
    ASSUME TypeInv, NEW p \in Procs, NEW c \in Cands, Removes(p, c)
    PROVE  /\ OnlyTree(c) /\ GitType' /\ UNCHANGED head
           /\ worktree'[c] = NoWorktree("removed") /\ worktree'[c].state = "removed"
           /\ worktree'[c].sealed = 0 /\ worktree'[c].edit = 0 /\ worktree'[c].writer = 0
<1>1. NoWorktree("removed") \in Worktree
  BY DEF NoWorktree, Worktree, Commit
<1>2. worktree' = [worktree EXCEPT ![c] = NoWorktree("removed")] /\ UNCHANGED head
  BY DEF Removes
<1>3. head' \in Commit
  BY <1>2 DEF TypeInv, GitType
<1>4. GitType' /\ OnlyTree(c) /\ worktree'[c] = NoWorktree("removed")
  BY <1>1, <1>2, <1>3, TreeIsReplaced DEF TypeInv
<1>5. QED BY <1>2, <1>4 DEF NoWorktree

\* A new candidate.
NewTree(p, t, c) ==
    /\ c \in Cands /\ Fresh(c) /\ GitType' /\ OnlyTree(c) /\ UNCHANGED <<head, grantVars>>
    /\ hold' = [hold EXCEPT ![p][t] = [new |-> c, old |-> ws[t]]]
    /\ pc' = [pc EXCEPT ![p][t] = "granting"]
    /\ worktree'[c].state = "present" /\ worktree'[c].base = head
    /\ worktree'[c].edit = 0 /\ worktree'[c].sealed = 0 /\ worktree'[c].writer = 0

LEMMA BuildsTree ==
    ASSUME TypeInv, NEW p \in Procs, NEW t \in Tasks, Builds(p, t)
    PROVE  \E c \in Cands : NewTree(p, t, c)
<1> DEFINE new == [state |-> "present", task |-> t, base |-> NewBase,
                   edit |-> 0, sealed |-> 0, writer |-> 0]
<1>1. PICK c \in Cands :
        /\ Fresh(c)
        /\ worktree' = [worktree EXCEPT ![c] = new]
        /\ hold' = [hold EXCEPT ![p][t] = [new |-> c, old |-> ws[t]]]
  BY DEF Builds
<1>2. head \in Commit /\ UNCHANGED <<head, grantVars>> /\ pc' = [pc EXCEPT ![p][t] = "granting"]
  BY DEF TypeInv, GitType, Builds
<1>3. /\ new \in Worktree /\ new.state = "present" /\ new.base = head
      /\ new.edit = 0 /\ new.sealed = 0 /\ new.writer = 0
  BY <1>2 DEF Worktree, NewBase
<1> HIDE DEF new
<1>4. GitType' /\ OnlyTree(c) /\ worktree'[c] = new
  BY <1>1, <1>2, <1>3, TreeIsReplaced DEF TypeInv
<1>5. QED BY <1>1, <1>2, <1>3, <1>4 DEF NewTree

\* The last attempt is replayed in it, and committed where it was made.
GrantedTree(p, t) ==
    LET new == hold[p][t].new  old == hold[p][t].old
    IN  /\ GitType' /\ UNCHANGED head /\ Goes(p, t, "binding") /\ SaveGrant(p, new, "open")
        /\ \A c \in Cands :
            /\ worktree'[c].state = worktree[c].state /\ worktree'[c].base = worktree[c].base
            /\ worktree'[c].writer = worktree[c].writer
            /\ c # new => worktree'[c].edit = worktree[c].edit
            /\ \/ worktree'[c].sealed = worktree[c].sealed
               \/ /\ worktree'[c].sealed = worktree[c].edit
                  /\ worktree[c].sealed \in {0, worktree[c].edit} /\ c = old /\ c # new

LEMMA RegistersTree ==
    ASSUME TypeInv, NEW p \in Procs, NEW t \in Tasks, Registers(p, t)
    PROVE  GrantedTree(p, t)
<1> DEFINE new == hold[p][t].new
           old == hold[p][t].old
<1>1. /\ UNCHANGED head /\ Goes(p, t, "binding") /\ SaveGrant(p, new, "open")
      /\ head \in Commit
  BY DEF Registers, TypeInv, GitType
<1>2. PICK edit \in IF Replays(p, old) THEN {0, worktree[old].edit} ELSE {0} :
        worktree' = [c \in Cands |->
            IF c = new THEN [worktree[c] EXCEPT !.edit = edit]
            ELSE IF c = old /\ Replays(p, c)
                 THEN [worktree[c] EXCEPT !.sealed = worktree[c].edit]
                 ELSE worktree[c]]
  BY DEF Registers
<1>3. edit \in Edits \cup {0}
  <2>1. old = None \/ worktree[old] \in Worktree
    BY DEF TypeInv, ProcType, Held, GitType
  <2>2. QED BY <1>2, <2>1, RecordsAreRecords DEF Replays, Holds
<1> DEFINE Edited(c) == [worktree[c] EXCEPT !.edit = edit]
           Sealed(c) == [worktree[c] EXCEPT !.sealed = worktree[c].edit]
<1>4. ASSUME NEW c \in Cands
      PROVE  /\ worktree[c] \in Worktree /\ Sealed(c) \in Worktree /\ Edited(c) \in Worktree
             /\ Sealed(c).state = worktree[c].state /\ Sealed(c).base = worktree[c].base
             /\ Sealed(c).edit = worktree[c].edit /\ Sealed(c).writer = worktree[c].writer
             /\ Sealed(c).sealed = worktree[c].edit
             /\ Edited(c).state = worktree[c].state /\ Edited(c).base = worktree[c].base
             /\ Edited(c).sealed = worktree[c].sealed /\ Edited(c).writer = worktree[c].writer
  <2>1. worktree[c] \in Worktree
    BY DEF TypeInv, GitType
  <2>2. QED BY <1>3, <2>1 DEF Worktree
<1>5. worktree' = [c \in Cands |-> IF c = new THEN Edited(c)
                                   ELSE IF c = old /\ Replays(p, c) THEN Sealed(c) ELSE worktree[c]]
  BY <1>2
<1> HIDE DEF Sealed, Edited
<1>6. GitType'
  BY <1>1, <1>4, <1>5 DEF GitType
<1>7. ASSUME NEW c \in Cands
      PROVE  /\ worktree'[c].state = worktree[c].state /\ worktree'[c].base = worktree[c].base
             /\ worktree'[c].writer = worktree[c].writer
             /\ c # new => worktree'[c].edit = worktree[c].edit
             /\ \/ worktree'[c].sealed = worktree[c].sealed
                \/ /\ worktree'[c].sealed = worktree[c].edit
                   /\ worktree[c].sealed \in {0, worktree[c].edit} /\ c = old /\ c # new
  <2>1. CASE c = new
    <3>1. worktree'[c] = Edited(c)
      BY <1>5, <2>1
    <3>2. QED BY <1>4, <2>1, <3>1
  <2>2. CASE c # new /\ c = old /\ Replays(p, c)
    <3>1. worktree'[c] = Sealed(c)
      BY <1>5, <2>2
    <3>2. QED BY <1>4, <2>2, <3>1 DEF Replays, Commits
  <2>3. CASE c # new /\ ~(c = old /\ Replays(p, c))
    BY <1>5, <2>3
  <2>4. QED BY <2>1, <2>2, <2>3
<1>8. QED BY <1>1, <1>6, <1>7 DEF GrantedTree

LEMMA TaskStepsAreTyped ==
    ASSUME Protocol, NEW p \in Procs, NEW t \in Tasks, TaskStep(p, t) PROVE TypeInv'
<1>1. TypeInv
  BY DEF Protocol
<1>2. GitType'
  <2>1. CASE UNCHANGED gitVars
    BY <1>1, <2>1 DEF TypeInv, GitType, gitVars
  <2>2. CASE Delegates(p, t)
    <3>1. CASE Builds(p, t)
      BY <1>1, <3>1, BuildsTree DEF NewTree
    <3>2. CASE ~Builds(p, t)
      BY <2>1, <2>2, <3>2 DEF Delegates, Reuses
    <3>3. QED BY <3>1, <3>2
  <2>r. CASE Registers(p, t)
    BY <1>1, <2>r, RegistersTree DEF GrantedTree
  <2>f. CASE Fails(p, t)
    BY <2>1, <2>f DEF Fails
  <2>3. CASE Binds(p, t)
    <3>1. CASE Holds(p, hold[p][t].new) /\ Removes(p, hold[p][t].new)
      BY <1>1, <3>1, RemovesTree DEF TypeInv, ProcType, Held, Holds
    <3>2. QED BY <2>1, <2>3, <3>1 DEF Binds
  <2>4. CASE Discards(p, t)
    <3>1. CASE Holds(p, hold[p][t].old) /\ Removes(p, hold[p][t].old)
      BY <1>1, <3>1, RemovesTree DEF TypeInv, ProcType, Held, Holds
    <3>2. QED BY <2>1, <2>4, <3>1 DEF Discards
  <2>5. CASE Writes(p, t)
    BY <1>1, <2>5, WritesInTree
  <2>6. CASE AdvancesHead(p, t)
    BY <1>1, <2>1, <2>6, AdvancesInTree DEF gitVars
  <2>7. CASE Begins(p, t) \/ Marks(p, t) \/ GivesUp(p, t) \/ Returns(p, t) \/ Submits(p, t)
    BY <2>1, <2>7 DEF Begins, Marks, GivesUp, Returns, Submits
  <2>8. CASE Judges(p, t) \/ StartsIntegration(p, t) \/ Records(p, t)
    BY <2>1, <2>8
    DEF Judges, Validates, Reviews, ChecksBase, Accepts, StartsIntegration, Records
  <2>9. QED
    BY <2>2, <2>r, <2>f, <2>3, <2>4, <2>5, <2>6, <2>7, <2>8 DEF TaskStep, Prepares, Attempts, Integrates
<1>3. FaultType'
  BY <1>1, StepsAreLocal DEF TypeInv, FaultType, Frame
<1>4. QED
  BY <1>1, <1>2, <1>3, KernelTypeIsKept, GrantTypeIsKept, ProcTypeIsKept DEF TypeInv
-----------------------------------------------------------------------------
(* The protocol, step of a task by step.                                   *)

LEMMA MovesThere ==
    ASSUME ProcType, NEW p \in Procs, NEW t \in Tasks
    PROVE  /\ Ends(p, t) => pc'[p][t] = "idle" /\ hold'[p][t] = NoHold
           /\ Refused(p, t) => pc'[p][t] \in {"idle", "stuck"} /\ hold'[p][t] = NoHold
           /\ \A step : Goes(p, t, step) => pc'[p][t] = step /\ hold'[p][t] = hold[p][t]
  BY DEF ProcType, Ends, Refused, Goes

\* What a step does to its own stage, and to the task's.
StageStep(p, t) ==
    /\ pc'[p][t] \in Judging =>
           status'[t] = "SUBMITTED" /\ (pc[p][t] \in Judging \/ status[t] = "RUNNING")
    /\ pc'[p][t] \in Final => status'[t] = "ACCEPTED"
    /\ pc'[p][t] \in Bound => ws'[t] # None
    /\ status[t] = "ACCEPTED" => status'[t] = "ACCEPTED"
    /\ status[t] = "SUBMITTED" =>
           status'[t] = "SUBMITTED" \/ (pc[p][t] \in Judging /\ pc'[p][t] \notin Judging)
    /\ ws[t] # None => ws'[t] # None
    /\ status'[t] \in {"RUNNING", "SUBMITTED", "ACCEPTED"} => ws'[t] # None
    /\ art'[t].commit # None => status'[t] = "ACCEPTED"

Same(t) == status'[t] = status[t] /\ ws'[t] = ws[t] /\ art'[t] = art[t]

\* fail, recover and fail_assignment.
LEMMA Recovering ==
    ASSUME KernelType, NEW p \in Procs, NEW t \in Tasks
    PROVE  /\ Recovers(t) => status'[t] \in {"READY", "BLOCKED"} /\ UNCHANGED <<attempts, ws, art>>
           /\ Escalates(t) => status'[t] = "BLOCKED" /\ UNCHANGED <<attempts, ws, art>>
           /\ FailsMine(p, t) =>
                  /\ UNCHANGED <<attempts, ws, art>>
                  /\ \/ status[t] = "RUNNING" /\ status'[t] \in {"READY", "BLOCKED"}
                     \/ status'[t] = status[t]
  BY DEF KernelType, Recovers, Escalates, FailsMine, Mine, kernelVars

LEMMA StagesStep ==
    ASSUME Protocol, NEW p \in Procs, NEW t \in Tasks, TaskStep(p, t) PROVE StageStep(p, t)
<1>t. /\ KernelType /\ ProcType
      /\ pc[p][t] \in Judging => status[t] = "SUBMITTED"
      /\ pc[p][t] \in Final => status[t] = "ACCEPTED"
      /\ pc[p][t] \in Bound => ws[t] # None
      /\ status[t] \in {"RUNNING", "SUBMITTED", "ACCEPTED"} => ws[t] # None
      /\ art[t].commit # None => status[t] = "ACCEPTED"
      /\ status \in [Tasks -> Statuses] /\ ws \in [Tasks -> Cands \cup {None}]
      /\ art \in [Tasks -> Artifact]
      /\ pc[p][t] = "binding" => hold[p][t].new # None
  BY DEF Protocol, TypeInv, KernelType, StagesAgree, CandidatesAreApart, Recorded
<1> USE DEF StageStep, At, Judging, Final, Bound, kernelVars, procVars
<1>1. CASE Delegates(p, t)
  <2>1. UNCHANGED kernelVars /\ pc[p][t] = "delegating"
    BY <1>1 DEF Delegates
  <2>2. CASE Reuses(p, t)
    <3>1. pc'[p][t] = "starting" /\ ws[t] # None
      BY <1>t, <2>2 DEF Reuses, Holds, ProcType
    <3>2. QED BY <1>t, <2>1, <3>1
  <2>3. CASE Builds(p, t)
    <3>1. pc'[p][t] = "granting"
      BY <1>t, <2>3 DEF Builds, ProcType
    <3>2. QED BY <1>t, <2>1, <3>1
  <2>4. CASE Ends(p, t)
    BY <1>t, <2>1, <2>4, MovesThere
  <2>5. QED BY <1>1, <2>2, <2>3, <2>4 DEF Delegates
<1>r. CASE Registers(p, t)
  BY <1>r, <1>t, MovesThere DEF Registers
<1>f. CASE Fails(p, t)
  BY <1>f, <1>t, MovesThere DEF Fails
<1>2. CASE Binds(p, t)
  BY <1>2, <1>t, MovesThere, Recovering DEF Binds, Agreed, Delegatable
<1>3. CASE Discards(p, t)
  BY <1>3, <1>t, MovesThere, Recovering DEF Discards
<1>4. CASE Begins(p, t)
  BY <1>4, <1>t, MovesThere, Recovering DEF Begins, Delegatable
<1>5. CASE Marks(p, t)
  BY <1>5, <1>t, MovesThere, Recovering DEF Marks
<1>6. CASE Writes(p, t)
  BY <1>6, <1>t, MovesThere, Recovering DEF Writes
<1>7. CASE GivesUp(p, t)
  BY <1>7, <1>t, MovesThere, Recovering DEF GivesUp
<1>8. CASE Returns(p, t)
  BY <1>8, <1>t, MovesThere, Recovering DEF Returns
<1>9. CASE Submits(p, t)
  <2>1. pc[p][t] = "submitting"
    BY <1>9 DEF Submits
  <2>2. CASE Mine(p, t) /\ Holds(p, ws[t])
    <3>1. /\ status'[t] = "SUBMITTED" /\ status[t] = "RUNNING" /\ UNCHANGED ws
          /\ art' = [art EXCEPT ![t] = [base |-> worktree[ws[t]].base,
                                        edit |-> worktree[ws[t]].edit, commit |-> None]]
          /\ pc'[p][t] = "validating"
      BY <1>9, <1>t, <2>2, MovesThere DEF Submits, Mine
    <3>2. art'[t].commit = None
      BY <1>t, <3>1
    <3>3. QED BY <1>t, <3>1, <3>2
  <2>3. CASE ~(Mine(p, t) /\ Holds(p, ws[t]))
    <3>1. pc'[p][t] = "idle" /\ FailsMine(p, t)
      BY <1>9, <1>t, <2>3, MovesThere DEF Submits
    <3>2. QED BY <1>t, <2>1, <3>1, Recovering
  <2>4. QED BY <2>2, <2>3
<1>10. CASE Validates(p, t)
  BY <1>10, <1>t, MovesThere, Recovering DEF Validates, Verdict
<1>11. CASE Reviews(p, t)
  BY <1>11, <1>t, MovesThere, Recovering DEF Reviews, Verdict
<1>12. CASE ChecksBase(p, t)
  BY <1>12, <1>t, MovesThere, Recovering DEF ChecksBase
<1>13. CASE Accepts(p, t)
  BY <1>13, <1>t, MovesThere, Recovering DEF Accepts
<1>14. CASE StartsIntegration(p, t)
  BY <1>14, <1>t, MovesThere, Recovering DEF StartsIntegration
<1>15. CASE AdvancesHead(p, t)
  BY <1>15, <1>t, MovesThere, Recovering DEF AdvancesHead
<1>16. CASE Records(p, t)
  BY <1>16, <1>t, MovesThere, Recovering DEF Records
<1>17. QED
  BY <1>1, <1>r, <1>f, <1>2, <1>3, <1>4, <1>5, <1>6, <1>7, <1>8, <1>9, <1>10, <1>11, <1>12,
     <1>13, <1>14, <1>15, <1>16 DEF TaskStep, Prepares, Attempts, Judges, Integrates

LEMMA StagesAreKept ==
    ASSUME Protocol, NEW p \in Procs, NEW t \in Tasks, TaskStep(p, t) PROVE StagesAgree'
<1>1. Frame(p, t) /\ StageStep(p, t) /\ StagesAgree
  BY StepsAreLocal, StagesStep DEF Protocol
<1> USE DEF Frame, StageStep, StagesAgree
<1>2. ASSUME NEW q \in Procs, NEW u \in Tasks
      PROVE  /\ pc'[q][u] \in Judging =>
                    status'[u] = "SUBMITTED" /\ \A x \in Procs \ {q} : pc'[x][u] \notin Judging
             /\ pc'[q][u] \in Final => status'[u] = "ACCEPTED"
             /\ pc'[q][u] \in Bound => ws'[u] # None
             /\ pc'[q][u] \in Sync => \A v \in Tasks \ {u} : pc'[q][v] \notin Sync
  <2>1. CASE q = p /\ u = t
    BY <1>1, <2>1 DEF Judging
  <2>2. CASE u # t
    BY <1>1, <2>2
  <2>3. CASE q # p /\ u = t
    BY <1>1, <2>3 DEF Judging
  <2>4. QED BY <2>1, <2>2, <2>3
<1>3. ASSUME NEW u \in Tasks
      PROVE  /\ status'[u] \in {"RUNNING", "SUBMITTED", "ACCEPTED"} => ws'[u] # None
             /\ art'[u].commit # None => status'[u] = "ACCEPTED"
  BY <1>1 DEF Recorded
<1>4. QED BY <1>2, <1>3 DEF Recorded

\* A step that hands out no candidate: it may drop those it holds, take the task's
\* own, and remove one that is bound to no task.
Quiet(p, t) ==
    /\ ws' = ws /\ pc'[p][t] \notin {"granting", "binding", "discarding"}
    /\ \A c \in Cands : Refers(p, t, c)' => Refers(p, t, c) \/ c = ws[t]
    /\ \A c \in Cands :
        \/ worktree'[c].state = worktree[c].state
        \/ worktree'[c].state = "removed" /\ Refers(p, t, c) /\ \A u \in Tasks : ws[u] # c

Hands(p, t) ==
    \/ Delegates(p, t) /\ Builds(p, t)
    \/ Registers(p, t)
    \/ Binds(p, t) /\ Agreed(t, hold[p][t].old)

LEMMA QuietSteps ==
    ASSUME Protocol, NEW p \in Procs, NEW t \in Tasks, TaskStep(p, t) PROVE Hands(p, t) \/ Quiet(p, t)
<1>t. /\ TypeInv /\ ProcType /\ KernelType /\ CandidatesAreApart
      /\ hold[p][t].new \in Cands \cup {None} /\ hold[p][t].old \in Cands \cup {None}
  BY DEF Protocol, TypeInv, ProcType, Held
<1>d. ASSUME NEW c \in Cands PROVE NoHold.new # c /\ NoHold.old # c
  BY DEF NoHold, Cands
<1>k. ASSUME ws' = ws, pc'[p][t] \notin {"granting", "binding", "discarding"},
             hold'[p][t] \in {hold[p][t], NoHold},
             \A c \in Cands : worktree'[c].state = worktree[c].state
      PROVE  Quiet(p, t)
  BY <1>d, <1>k DEF Quiet, Refers
<1> USE DEF At, kernelVars, gitVars, procVars
<1>1. CASE Delegates(p, t)
  <2>1. UNCHANGED ws
    BY <1>1 DEF Delegates
  <2>2. CASE Reuses(p, t)
    <3>1. /\ pc'[p][t] = "starting" /\ hold'[p][t] = [new |-> ws[t], old |-> None]
          /\ UNCHANGED worktree
      BY <1>t, <2>2 DEF Reuses, ProcType
    <3>2. QED BY <1>t, <2>1, <3>1 DEF Quiet, Refers, Cands
  <2>3. CASE Ends(p, t) /\ UNCHANGED gitVars
    BY <1>t, <1>k, <2>1, <2>3, MovesThere
  <2>4. QED BY <1>1, <2>2, <2>3 DEF Delegates, Hands
<1>r. CASE Registers(p, t)
  BY <1>r DEF Hands
<1>f. CASE Fails(p, t)
  BY <1>f, <1>t, <1>k, MovesThere DEF Fails
<1>2. CASE Binds(p, t)
  <2>1. pc[p][t] = "binding"
    BY <1>2 DEF Binds, At
  <2>2. CASE ~Agreed(t, hold[p][t].old) /\ Holds(p, hold[p][t].new) /\ Removes(p, hold[p][t].new)
    <3>1. hold[p][t].new \in Cands /\ pc'[p][t] \notin {"granting", "binding", "discarding"} /\ ws' = ws
      BY <1>2, <1>t, <2>2, MovesThere DEF Binds, Holds, kernelVars
    <3>2. hold'[p][t] \in {hold[p][t], NoHold}
      BY <1>2, <1>t, <2>2, MovesThere DEF Binds, kernelVars
    <3>3. OnlyTree(hold[p][t].new) /\ worktree'[hold[p][t].new].state = "removed"
      BY <1>t, <2>2, <3>1, RemovesTree
    <3>4. \A u \in Tasks : ws[u] # hold[p][t].new
      BY <1>t, <2>1 DEF CandidatesAreApart
    <3>5. Refers(p, t, hold[p][t].new)
      BY DEF Refers
    <3>6. \A c \in Cands : Refers(p, t, c)' => Refers(p, t, c)
      BY <1>d, <3>2 DEF Refers
    <3>7. QED BY <3>1, <3>3, <3>4, <3>5, <3>6 DEF Quiet, OnlyTree
  <2>3. QED BY <1>2, <2>2 DEF Binds, Hands
<1>3. CASE Discards(p, t)
  <2>1. pc[p][t] = "discarding"
    BY <1>3 DEF Discards, At
  <2>2. CASE Holds(p, hold[p][t].old) /\ Removes(p, hold[p][t].old) /\ Goes(p, t, "starting")
    <3>1. hold[p][t].old \in Cands /\ pc'[p][t] \notin {"granting", "binding", "discarding"} /\ ws' = ws
      BY <1>3, <1>t, <2>2, MovesThere DEF Discards, Holds, kernelVars
    <3>2. hold'[p][t] \in {hold[p][t], NoHold}
      BY <1>3, <1>t, <2>2, MovesThere DEF Discards, kernelVars
    <3>3. OnlyTree(hold[p][t].old) /\ worktree'[hold[p][t].old].state = "removed"
      BY <1>t, <2>2, <3>1, RemovesTree
    <3>4. \A u \in Tasks : ws[u] # hold[p][t].old
      BY <1>t, <2>1 DEF CandidatesAreApart
    <3>5. Refers(p, t, hold[p][t].old)
      BY DEF Refers
    <3>6. \A c \in Cands : Refers(p, t, c)' => Refers(p, t, c)
      BY <1>d, <3>2 DEF Refers
    <3>7. QED BY <3>1, <3>3, <3>4, <3>5, <3>6 DEF Quiet, OnlyTree
  <2>3. CASE Ends(p, t) /\ UNCHANGED gitVars
    BY <1>3, <1>t, <1>k, <2>3, MovesThere DEF Discards
  <2>4. QED BY <1>3, <2>2, <2>3 DEF Discards
<1>4. CASE Begins(p, t)
  BY <1>4, <1>t, <1>k, MovesThere, Recovering DEF Begins
<1>5. CASE Marks(p, t)
  BY <1>5, <1>t, <1>k, MovesThere, Recovering DEF Marks
<1>6. CASE Writes(p, t)
  <2>1. hold[p][t].new \in Cands /\ OnlyTree(hold[p][t].new)
        /\ worktree'[hold[p][t].new].state = worktree[hold[p][t].new].state
    BY <1>6, <1>t, WritesInTree
  <2>2. UNCHANGED procVars /\ UNCHANGED ws /\ pc[p][t] = "working"
    BY <1>6 DEF Writes, CanWrite
  <2>3. QED BY <1>k, <2>1, <2>2 DEF OnlyTree
<1>7. CASE GivesUp(p, t)
  BY <1>7, <1>t, <1>k, MovesThere, Recovering DEF GivesUp
<1>8. CASE Returns(p, t)
  BY <1>8, <1>t, <1>k, MovesThere, Recovering DEF Returns
<1>9. CASE Submits(p, t)
  BY <1>9, <1>t, <1>k, MovesThere, Recovering DEF Submits
<1>10. CASE Validates(p, t)
  BY <1>10, <1>t, <1>k, MovesThere, Recovering DEF Validates, Verdict
<1>11. CASE Reviews(p, t)
  BY <1>11, <1>t, <1>k, MovesThere, Recovering DEF Reviews, Verdict
<1>12. CASE ChecksBase(p, t)
  BY <1>12, <1>t, <1>k, MovesThere, Recovering DEF ChecksBase
<1>13. CASE Accepts(p, t)
  BY <1>13, <1>t, <1>k, MovesThere, Recovering DEF Accepts
<1>14. CASE StartsIntegration(p, t)
  BY <1>14, <1>t, <1>k, MovesThere, Recovering DEF StartsIntegration
<1>15. CASE AdvancesHead(p, t)
  <2>1. \A c \in Cands : worktree'[c].state = worktree[c].state
    BY <1>15, <1>t, AdvancesInTree DEF OnlyTree
  <2>2. UNCHANGED ws /\ (Ends(p, t) \/ Goes(p, t, "recording"))
    BY <1>15 DEF AdvancesHead
  <2>3. QED BY <1>t, <1>k, <2>1, <2>2, MovesThere
<1>16. CASE Records(p, t)
  BY <1>16, <1>t, <1>k, MovesThere, Recovering DEF Records
<1>17. QED
  BY <1>1, <1>r, <1>f, <1>2, <1>3, <1>4, <1>5, <1>6, <1>7, <1>8, <1>9, <1>10, <1>11, <1>12,
     <1>13, <1>14, <1>15, <1>16 DEF TaskStep, Prepares, Attempts, Judges, Integrates

LEMMA CandidatesStayApart ==
    ASSUME Protocol, NEW p \in Procs, NEW t \in Tasks, TaskStep(p, t) PROVE CandidatesAreApart'
<1>1. /\ TypeInv /\ ProcType /\ KernelType /\ CandidatesAreApart /\ Frame(p, t)
      /\ hold[p][t].new \in Cands \cup {None} /\ hold[p][t].old \in Cands \cup {None}
  BY StepsAreLocal DEF Protocol, TypeInv, ProcType, Held
<1> DEFINE Apart ==
    /\ \A v \in Tasks, u \in Tasks : ws'[v] = ws'[u] /\ ws'[v] # None => v = u
    /\ \A c \in Cands : worktree'[c].state = "unused" =>
        /\ \A u \in Tasks : ws'[u] # c
        /\ \A q \in Procs, u \in Tasks : ~Refers(q, u, c)'
    /\ \A q \in Procs, u \in Tasks :
        /\ pc'[q][u] \in {"granting", "binding"} =>
            /\ hold'[q][u].new # None /\ hold'[q][u].new # hold'[q][u].old
            /\ worktree'[hold'[q][u].new].state = "present"
            /\ \A v \in Tasks : ws'[v] # hold'[q][u].new
            /\ \A x \in Procs, v \in Tasks :
                   <<x, v>> # <<q, u>> => ~Refers(x, v, hold[q][u].new)'
        /\ pc'[q][u] = "discarding" => \A v \in Tasks : ws'[v] # hold'[q][u].old
<1> SUFFICES Apart
  BY DEF CandidatesAreApart
<1>2. ASSUME NEW q \in Procs, NEW u \in Tasks, q # p \/ u # t
      PROVE  /\ pc'[q][u] = pc[q][u] /\ hold'[q][u] = hold[q][u]
             /\ \A c : Refers(q, u, c)' <=> Refers(q, u, c)
  BY <1>1, <1>2 DEF Frame, Refers
<1>3. CASE Quiet(p, t)
  <2>1. \A v \in Tasks, u \in Tasks : ws'[v] = ws'[u] /\ ws'[v] # None => v = u
    BY <1>1, <1>3 DEF Quiet, CandidatesAreApart
  <2>2. ASSUME NEW c \in Cands, worktree'[c].state = "unused"
        PROVE  /\ \A u \in Tasks : ws'[u] # c
               /\ \A q \in Procs, u \in Tasks : ~Refers(q, u, c)'
    <3>1. worktree[c].state = "unused"
      BY <1>3, <2>2 DEF Quiet
    <3>2. \A u \in Tasks : ws'[u] # c
      BY <1>1, <1>3, <3>1 DEF Quiet, CandidatesAreApart
    <3>3. \A q \in Procs, u \in Tasks : ~Refers(q, u, c)
      BY <1>1, <3>1 DEF CandidatesAreApart
    <3>4. ~Refers(p, t, c)'
      BY <1>3, <3>2, <3>3 DEF Quiet
    <3>5. QED BY <1>2, <3>2, <3>3, <3>4
  <2>3. ASSUME NEW q \in Procs, NEW u \in Tasks, pc'[q][u] \in {"granting", "binding"}
        PROVE  /\ hold'[q][u].new # None /\ hold'[q][u].new # hold'[q][u].old
               /\ worktree'[hold'[q][u].new].state = "present"
               /\ \A v \in Tasks : ws'[v] # hold'[q][u].new
               /\ \A x \in Procs, v \in Tasks :
                      <<x, v>> # <<q, u>> => ~Refers(x, v, hold[q][u].new)'
    <3>1. q # p \/ u # t
      BY <1>3, <2>3 DEF Quiet
    <3>2. pc[q][u] \in {"granting", "binding"} /\ hold'[q][u] = hold[q][u]
      BY <1>2, <2>3, <3>1
    <3>3. PICK c \in Cands :
            /\ c = hold[q][u].new /\ c # hold[q][u].old /\ worktree[c].state = "present"
            /\ \A v \in Tasks : ws[v] # c
            /\ \A x \in Procs, v \in Tasks : <<x, v>> # <<q, u>> => ~Refers(x, v, c)
      BY <1>1, <3>2 DEF CandidatesAreApart, ProcType, Held
    <3>4. ~Refers(p, t, c) /\ ~Refers(p, t, c)'
      BY <1>3, <3>1, <3>3 DEF Quiet
    <3>5. worktree'[c].state = "present" /\ \A v \in Tasks : ws'[v] # c
      BY <1>3, <3>3, <3>4 DEF Quiet
    <3>6. \A x \in Procs, v \in Tasks : <<x, v>> # <<q, u>> => ~Refers(x, v, c)'
      BY <1>2, <3>3, <3>4
    <3>7. c = hold'[q][u].new /\ c # None
      BY <3>2, <3>3 DEF Cands
    <3>8. \A x \in Procs, v \in Tasks : <<x, v>> # <<q, u>> => ~Refers(x, v, hold[q][u].new)'
      BY <3>6, <3>7 DEF Refers
    <3>9. QED BY <3>2, <3>3, <3>5, <3>7, <3>8
  <2>4. ASSUME NEW q \in Procs, NEW u \in Tasks, pc'[q][u] = "discarding"
        PROVE  \A v \in Tasks : ws'[v] # hold'[q][u].old
    BY <1>1, <1>2, <1>3, <2>4 DEF Quiet, CandidatesAreApart
  <2>5. QED BY <2>1, <2>2, <2>3, <2>4
<1>4. CASE Delegates(p, t) /\ Builds(p, t)
  <2>1. PICK c \in Cands : NewTree(p, t, c)
    BY <1>1, <1>4, BuildsTree
  <2>2. /\ worktree[c].state = "unused" /\ ws' = ws
        /\ pc'[p][t] = "granting" /\ hold'[p][t] = [new |-> c, old |-> ws[t]]
        /\ worktree'[c].state = "present"
        /\ \A d \in Cands \ {c} : worktree'[d].state = worktree[d].state
    BY <1>1, <1>4, <2>1 DEF Delegates, kernelVars, NewTree, OnlyTree, Fresh, ProcType
  <2>3. /\ c # None /\ \A u \in Tasks : ws[u] # c
        /\ \A q \in Procs, u \in Tasks : ~Refers(q, u, c)
    BY <1>1, <2>2 DEF CandidatesAreApart, Cands
  <2>4. \A d \in Cands \ {c} : Refers(p, t, d)' => d = ws[t]
    BY <2>2 DEF Refers
  <2>5. \A v \in Tasks, u \in Tasks : ws'[v] = ws'[u] /\ ws'[v] # None => v = u
    BY <1>1, <2>2 DEF CandidatesAreApart
  <2>6. ASSUME NEW d \in Cands, worktree'[d].state = "unused"
        PROVE  /\ \A u \in Tasks : ws'[u] # d
               /\ \A q \in Procs, u \in Tasks : ~Refers(q, u, d)'
    <3>1. d # c /\ worktree[d].state = "unused"
      BY <2>2, <2>6
    <3>2. /\ \A u \in Tasks : ws[u] # d
          /\ \A q \in Procs, u \in Tasks : ~Refers(q, u, d)
      BY <1>1, <3>1 DEF CandidatesAreApart
    <3>3. ~Refers(p, t, d)'
      BY <2>4, <3>1, <3>2
    <3>4. QED BY <1>2, <2>2, <3>2, <3>3
  <2>7. ASSUME NEW q \in Procs, NEW u \in Tasks, pc'[q][u] \in {"granting", "binding"}
        PROVE  /\ hold'[q][u].new # None /\ hold'[q][u].new # hold'[q][u].old
               /\ worktree'[hold'[q][u].new].state = "present"
               /\ \A v \in Tasks : ws'[v] # hold'[q][u].new
               /\ \A x \in Procs, v \in Tasks :
                      <<x, v>> # <<q, u>> => ~Refers(x, v, hold[q][u].new)'
    <3>1. CASE q = p /\ u = t
      <4>1. \A x \in Procs, v \in Tasks : <<x, v>> # <<p, t>> => ~Refers(x, v, c)'
        BY <1>2, <2>3
      <4>2. QED BY <2>2, <2>3, <3>1, <4>1 DEF Refers
    <3>2. CASE q # p \/ u # t
      <4>1. pc[q][u] \in {"granting", "binding"} /\ hold'[q][u] = hold[q][u]
        BY <1>2, <2>7, <3>2
      <4>2. PICK d \in Cands :
              /\ d = hold[q][u].new /\ d # hold[q][u].old /\ worktree[d].state = "present"
              /\ \A v \in Tasks : ws[v] # d
              /\ \A x \in Procs, v \in Tasks : <<x, v>> # <<q, u>> => ~Refers(x, v, d)
        BY <1>1, <4>1 DEF CandidatesAreApart, ProcType, Held
      <4>3. d # c /\ d # ws[t]
        BY <2>2, <4>2
      <4>4. ~Refers(p, t, d)'
        BY <2>4, <4>3
      <4>5. \A x \in Procs, v \in Tasks : <<x, v>> # <<q, u>> => ~Refers(x, v, d)'
        BY <1>2, <4>2, <4>4
      <4>6. d = hold'[q][u].new /\ d # None
        BY <4>1, <4>2 DEF Cands
      <4>7. \A x \in Procs, v \in Tasks : <<x, v>> # <<q, u>> => ~Refers(x, v, hold[q][u].new)'
        BY <4>5, <4>6 DEF Refers
      <4>8. QED BY <2>2, <4>1, <4>2, <4>3, <4>6, <4>7
    <3>3. QED BY <3>1, <3>2
  <2>8. ASSUME NEW q \in Procs, NEW u \in Tasks, pc'[q][u] = "discarding"
        PROVE  \A v \in Tasks : ws'[v] # hold'[q][u].old
    BY <1>1, <1>2, <2>2, <2>8 DEF CandidatesAreApart
  <2>9. QED BY <2>5, <2>6, <2>7, <2>8
<1>5. CASE Binds(p, t) /\ Agreed(t, hold[p][t].old)
  <2>1. PICK c \in Cands :
          /\ c = hold[p][t].new /\ c # hold[p][t].old /\ worktree[c].state = "present"
          /\ \A v \in Tasks : ws[v] # c
          /\ \A x \in Procs, v \in Tasks : <<x, v>> # <<p, t>> => ~Refers(x, v, c)
    BY <1>1, <1>5 DEF Binds, At, CandidatesAreApart
  <2>2. /\ ws' = [ws EXCEPT ![t] = c] /\ UNCHANGED <<hold, worktree>> /\ ws[t] = hold[p][t].old
        /\ pc'[p][t] = IF hold[p][t].old = None THEN "starting" ELSE "discarding"
    <3>1. /\ ws' = [ws EXCEPT ![t] = hold[p][t].new] /\ UNCHANGED worktree
          /\ Goes(p, t, IF hold[p][t].old = None THEN "starting" ELSE "discarding")
          /\ ws[t] = hold[p][t].old
      BY <1>5, Zenon DEF Binds, Agreed, gitVars
    <3>2. pc'[p][t] = IF hold[p][t].old = None THEN "starting" ELSE "discarding"
      BY <1>1, <3>1, MovesThere
    <3>3. QED BY <2>1, <3>1, <3>2 DEF Goes
  <2>3. /\ ws'[t] = c /\ \A u \in Tasks \ {t} : ws'[u] = ws[u]
        /\ \A q \in Procs, u \in Tasks, d \in Cands : Refers(q, u, d)' <=> Refers(q, u, d)
    BY <1>1, <2>2 DEF KernelType, Refers
  <2>4. \A v \in Tasks, u \in Tasks : ws'[v] = ws'[u] /\ ws'[v] # None => v = u
    BY <1>1, <2>1, <2>3 DEF CandidatesAreApart
  <2>5. ASSUME NEW d \in Cands, worktree'[d].state = "unused"
        PROVE  /\ \A u \in Tasks : ws'[u] # d
               /\ \A q \in Procs, u \in Tasks : ~Refers(q, u, d)'
    BY <1>1, <2>1, <2>2, <2>3, <2>5 DEF CandidatesAreApart
  <2>6. ASSUME NEW q \in Procs, NEW u \in Tasks, pc'[q][u] \in {"granting", "binding"}
        PROVE  /\ hold'[q][u].new # None /\ hold'[q][u].new # hold'[q][u].old
               /\ worktree'[hold'[q][u].new].state = "present"
               /\ \A v \in Tasks : ws'[v] # hold'[q][u].new
               /\ \A x \in Procs, v \in Tasks :
                      <<x, v>> # <<q, u>> => ~Refers(x, v, hold[q][u].new)'
    <3>1. q # p \/ u # t
      BY <2>2, <2>6
    <3>2. pc[q][u] \in {"granting", "binding"}
      BY <1>2, <2>6, <3>1
    <3>3. PICK d \in Cands :
            /\ d = hold[q][u].new /\ d # hold[q][u].old /\ worktree[d].state = "present"
            /\ \A v \in Tasks : ws[v] # d
            /\ \A x \in Procs, v \in Tasks : <<x, v>> # <<q, u>> => ~Refers(x, v, d)
      BY <1>1, <3>2 DEF CandidatesAreApart, ProcType, Held
    <3>4. d # c
      BY <2>1, <3>1, <3>3 DEF Refers
    <3>5. d = hold'[q][u].new /\ d # None
      BY <2>2, <3>3 DEF Cands
    <3>6. \A x \in Procs, v \in Tasks : <<x, v>> # <<q, u>> => ~Refers(x, v, hold[q][u].new)'
      BY <2>3, <3>3, <3>5 DEF Refers
    <3>7. QED BY <2>2, <2>3, <3>3, <3>4, <3>5, <3>6
  <2>7. ASSUME NEW q \in Procs, NEW u \in Tasks, pc'[q][u] = "discarding"
        PROVE  \A v \in Tasks : ws'[v] # hold'[q][u].old
    <3>1. CASE q = p /\ u = t
      <4>1. ws[t] # None
        BY <2>2, <2>7, <3>1
      <4>2. QED BY <1>1, <2>1, <2>2, <2>3, <3>1, <4>1 DEF CandidatesAreApart
    <3>2. CASE q # p \/ u # t
      <4>1. c # hold[q][u].old
        BY <2>1, <3>2 DEF Refers
      <4>2. \A v \in Tasks : ws[v] # hold[q][u].old
        BY <1>1, <1>2, <2>7, <3>2 DEF CandidatesAreApart
      <4>3. QED BY <2>2, <2>3, <4>1, <4>2
    <3>3. QED BY <3>1, <3>2
  <2>8. QED BY <2>4, <2>5, <2>6, <2>7
<1>6. CASE Registers(p, t)
  <2>1. /\ pc[p][t] = "granting" /\ pc'[p][t] = "binding" /\ hold' = hold /\ ws' = ws
        /\ \A c \in Cands : worktree'[c].state = worktree[c].state
    <3>1. GrantedTree(p, t)
      BY <1>1, <1>6, RegistersTree
    <3>2. pc[p][t] = "granting" /\ ws' = ws
      BY <1>6 DEF Registers, At, kernelVars
    <3>3. pc'[p][t] = "binding" /\ hold' = hold
      <4>1. Goes(p, t, "binding") /\ ProcType
        BY <1>1, <3>1 DEF GrantedTree, TypeInv
      <4>2. pc'[p][t] = "binding"
        BY <4>1, MovesThere
      <4>3. QED BY <4>1, <4>2 DEF Goes
    <3>4. QED BY <3>1, <3>2, <3>3 DEF GrantedTree
  <2>2. ASSUME NEW q \in Procs, NEW u \in Tasks
        PROVE  /\ pc'[q][u] \in {"granting", "binding"} =>
                      pc[q][u] \in {"granting", "binding"} /\ hold[q][u].new \in Cands
               /\ pc'[q][u] = "discarding" => pc[q][u] = "discarding"
               /\ \A c : Refers(q, u, c)' <=> Refers(q, u, c)
    BY <1>1, <1>2, <2>1 DEF CandidatesAreApart, ProcType, Held, Refers
  <2>3. QED BY <1>1, <2>1, <2>2 DEF CandidatesAreApart, Refers
<1>7. QED BY <1>3, <1>4, <1>5, <1>6, QuietSteps DEF Hands

LEMMA DeadStayAtRest ==
    ASSUME Protocol, NEW p \in Procs, NEW t \in Tasks, TaskStep(p, t) PROVE DeadRest'
<1>1. Frame(p, t) /\ DeadRest
  BY StepsAreLocal DEF Protocol
<1>2. QED BY <1>1 DEF Frame, DeadRest

\* The worktree of a task keeps its base, and the commit that was made of it.
LEMMA WorkspacesStand ==
    ASSUME Protocol, NEW p \in Procs, NEW t \in Tasks, TaskStep(p, t),
           NEW u \in Tasks, ws[u] # None
    PROVE  /\ worktree[ws[u]].state = "present" /\ worktree'[ws[u]].state = "present"
           /\ worktree'[ws[u]].base = worktree[ws[u]].base
           /\ worktree[ws[u]].sealed # 0 => worktree'[ws[u]].sealed = worktree[ws[u]].sealed
<1> DEFINE Stands == /\ worktree'[ws[u]].state = "present"
                     /\ worktree'[ws[u]].base = worktree[ws[u]].base
                     /\ worktree[ws[u]].sealed # 0 => worktree'[ws[u]].sealed = worktree[ws[u]].sealed
<1>1. TypeInv /\ ProcType /\ ws[u] \in Cands /\ CandidatesAreApart
  BY DEF Protocol, TypeInv, KernelType
<1>2. worktree[ws[u]].state = "present"
  BY StepsAreLocal DEF Protocol, WorkspacesArePresent, Frame, Goes_on
<1>3. CASE UNCHANGED worktree
  BY <1>2, <1>3
<1>4. CASE Delegates(p, t)
  <2>1. CASE Builds(p, t)
    <3>1. PICK c \in Cands : NewTree(p, t, c)
      BY <1>1, <2>1, BuildsTree
    <3>2. ws[u] # c
      BY <1>2, <3>1 DEF NewTree, Fresh
    <3>3. QED BY <1>1, <1>2, <3>1, <3>2 DEF NewTree, OnlyTree
  <2>2. CASE ~Builds(p, t)
    BY <1>3, <1>4, <2>2 DEF Delegates, Reuses, gitVars
  <2>3. QED BY <2>1, <2>2
<1>r. CASE Registers(p, t)
  BY <1>1, <1>2, <1>r, RegistersTree DEF GrantedTree
<1>f. CASE Fails(p, t)
  BY <1>3, <1>f DEF Fails, gitVars
<1>5. CASE Binds(p, t)
  <2>1. CASE Holds(p, hold[p][t].new) /\ Removes(p, hold[p][t].new)
    <3>1. hold[p][t].new \in Cands /\ ws[u] # hold[p][t].new
      BY <1>1, <1>5, <2>1 DEF Binds, At, CandidatesAreApart, Holds, ProcType, Held
    <3>2. QED BY <1>1, <1>2, <2>1, <3>1, RemovesTree DEF OnlyTree
  <2>2. QED BY <1>3, <1>5, <2>1 DEF Binds, gitVars
<1>6. CASE Discards(p, t)
  <2>1. CASE Holds(p, hold[p][t].old) /\ Removes(p, hold[p][t].old)
    <3>1. hold[p][t].old \in Cands /\ ws[u] # hold[p][t].old
      BY <1>1, <1>6, <2>1 DEF Discards, At, CandidatesAreApart, Holds, ProcType, Held
    <3>2. QED BY <1>1, <1>2, <2>1, <3>1, RemovesTree DEF OnlyTree
  <2>2. QED BY <1>3, <1>6, <2>1 DEF Discards, gitVars
<1>7. CASE Writes(p, t)
  BY <1>1, <1>2, <1>7, WritesInTree DEF OnlyTree
<1>8. CASE AdvancesHead(p, t)
  <2>1. CASE UNCHANGED worktree
    BY <1>3, <2>1
  <2>2. CASE /\ ws[t] \in Cands /\ OnlyTree(ws[t]) /\ Commits(ws[t])
             /\ worktree'[ws[t]].state = worktree[ws[t]].state
             /\ worktree'[ws[t]].base = worktree[ws[t]].base
             /\ worktree'[ws[t]].sealed = worktree[ws[t]].edit
    BY <1>1, <1>2, <2>2 DEF OnlyTree, Commits
  <2>3. QED BY <1>1, <1>8, <2>1, <2>2, AdvancesInTree
<1>9. CASE Begins(p, t) \/ Marks(p, t) \/ GivesUp(p, t) \/ Returns(p, t) \/ Submits(p, t)
  BY <1>3, <1>9 DEF Begins, Marks, GivesUp, Returns, Submits, gitVars
<1>10. CASE Judges(p, t) \/ StartsIntegration(p, t) \/ Records(p, t)
  BY <1>3, <1>10
  DEF Judges, Validates, Reviews, ChecksBase, Accepts, StartsIntegration, Records, gitVars
<1>11. QED
  BY <1>2, <1>4, <1>r, <1>f, <1>5, <1>6, <1>7, <1>8, <1>9, <1>10
  DEF TaskStep, Prepares, Attempts, Integrates

\* A worktree is made on the head, and keeps its base while it is there.
LEMMA BaseSteps ==
    ASSUME TypeInv, NEW p \in Procs, NEW t \in Tasks, TaskStep(p, t), NEW c \in Cands
    PROVE  \/ worktree'[c].base = worktree[c].base
           \/ worktree[c].state = "unused" /\ worktree'[c].base = head
           \/ worktree'[c].state = "removed" /\ worktree'[c].base = <<>>
<1>1. CASE UNCHANGED worktree
  BY <1>1
<1>2. CASE Delegates(p, t)
  <2>1. CASE Builds(p, t)
    BY <2>1, BuildsTree DEF NewTree, OnlyTree, Fresh
  <2>2. QED BY <1>1, <1>2, <2>1 DEF Delegates, Reuses, gitVars
<1>3. CASE Registers(p, t)
  BY <1>3, RegistersTree DEF GrantedTree
<1>4. ASSUME NEW d \in Cands, Removes(p, d)
      PROVE  \/ worktree'[c].base = worktree[c].base
             \/ worktree'[c].state = "removed" /\ worktree'[c].base = <<>>
  BY <1>4, RemovesTree DEF OnlyTree, NoWorktree
<1>5. CASE Binds(p, t)
  <2>1. CASE Holds(p, hold[p][t].new) /\ Removes(p, hold[p][t].new)
    BY <1>4, <2>1 DEF Holds, TypeInv, ProcType, Held
  <2>2. QED BY <1>1, <1>5, <2>1 DEF Binds, gitVars
<1>6. CASE Discards(p, t)
  <2>1. CASE Holds(p, hold[p][t].old) /\ Removes(p, hold[p][t].old)
    BY <1>4, <2>1 DEF Holds, TypeInv, ProcType, Held
  <2>2. QED BY <1>1, <1>6, <2>1 DEF Discards, gitVars
<1>7. CASE Writes(p, t)
  BY <1>7, WritesInTree DEF OnlyTree
<1>8. CASE AdvancesHead(p, t)
  BY <1>8, AdvancesInTree DEF OnlyTree
<1>9. CASE Begins(p, t) \/ Marks(p, t) \/ GivesUp(p, t) \/ Returns(p, t) \/ Submits(p, t)
  BY <1>1, <1>9 DEF Begins, Marks, GivesUp, Returns, Submits, gitVars
<1>10. CASE Judges(p, t) \/ StartsIntegration(p, t) \/ Records(p, t) \/ Fails(p, t)
  BY <1>1, <1>10
  DEF Judges, Validates, Reviews, ChecksBase, Accepts, StartsIntegration, Records, Fails, gitVars
<1>11. QED
  BY <1>2, <1>3, <1>5, <1>6, <1>7, <1>8, <1>9, <1>10 DEF TaskStep, Prepares, Attempts, Integrates

\* The branch only grows, by a commit at a time.
LEMMA HeadGrows ==
    ASSUME TypeInv, NEW p \in Procs, NEW t \in Tasks, TaskStep(p, t)
    PROVE  \/ UNCHANGED head
           \/ /\ AdvancesHead(p, t) /\ head = worktree[ws[t]].base
              /\ worktree[ws[t]].edit \in Edits /\ ws[t] \in Cands /\ Goes(p, t, "recording")
              /\ worktree'[ws[t]].sealed = worktree[ws[t]].edit
              /\ worktree'[ws[t]].base = worktree[ws[t]].base
              /\ head' = Append(head, <<t, worktree[ws[t]].edit>>)
<1>1. CASE Delegates(p, t)
  BY <1>1, BuildsTree DEF Delegates, Reuses, gitVars, NewTree
<1>2. CASE Registers(p, t) \/ Binds(p, t) \/ Discards(p, t) \/ Writes(p, t) \/ Fails(p, t)
  BY <1>2 DEF Registers, Binds, Discards, Writes, Removes, Fails, gitVars
<1>3. CASE AdvancesHead(p, t)
  <2>1. CASE UNCHANGED head
    BY <2>1
  <2>2. CASE /\ ws[t] \in Cands /\ Commits(ws[t]) /\ head = worktree[ws[t]].base
             /\ Goes(p, t, "recording")
             /\ worktree'[ws[t]].sealed = worktree[ws[t]].edit
             /\ worktree'[ws[t]].base = worktree[ws[t]].base
             /\ head' = CommitOf(t, worktree[ws[t]].base, worktree[ws[t]].edit)
    <3>1. worktree[ws[t]] \in Worktree
      BY <2>2 DEF TypeInv, GitType
    <3>2. worktree[ws[t]].edit \in Edits
      BY <2>2, <3>1, RecordsAreRecords DEF Commits, Changed
    <3>3. QED BY <1>3, <2>2, <3>2 DEF CommitOf
  <2>3. QED BY <1>3, <2>1, <2>2, AdvancesInTree
<1>4. CASE Begins(p, t) \/ Marks(p, t) \/ GivesUp(p, t) \/ Returns(p, t) \/ Submits(p, t)
  BY <1>4 DEF Begins, Marks, GivesUp, Returns, Submits, gitVars
<1>5. CASE Judges(p, t) \/ StartsIntegration(p, t) \/ Records(p, t)
  BY <1>5
  DEF Judges, Validates, Reviews, ChecksBase, Accepts, StartsIntegration, Records, gitVars
<1>6. QED
  BY <1>1, <1>2, <1>3, <1>4, <1>5 DEF TaskStep, Prepares, Attempts, Integrates

LEMMA PrefixOfItself == ASSUME NEW h \in Commit PROVE IsPrefix(h, h)
<1>1. Len(h) \in Nat
  BY DEF Commit
<1>2. QED BY <1>1 DEF IsPrefix

LEMMA PrefixIsKept ==
    ASSUME NEW s \in Commit, NEW h \in Commit, NEW e \in Tasks \X Edits, IsPrefix(s, h)
    PROVE  IsPrefix(s, Append(h, e))
<1>1. Append(h, e) \in Commit /\ Len(Append(h, e)) = Len(h) + 1 /\ Len(h) \in Nat /\ Len(s) \in Nat
  BY DEF Commit
<1>2. ASSUME NEW n \in Nat, n <= Len(h) PROVE SubSeq(Append(h, e), 1, n) = SubSeq(h, 1, n)
  BY <1>1, <1>2 DEF Commit
<1>3. Len(s) <= Len(h) /\ SubSeq(s, 1, Len(s)) = SubSeq(h, 1, Len(s))
  BY DEF IsPrefix
<1>4. SubSeq(Append(h, e), 1, Len(s)) = SubSeq(h, 1, Len(s))
  BY <1>1, <1>2, <1>3
<1>5. Len(s) <= Len(Append(h, e))
  BY <1>1, <1>3
<1>6. SubSeq(s, 1, Len(s)) = SubSeq(Append(h, e), 1, Len(s))
  BY <1>3, <1>4, Zenon
<1>7. QED BY <1>5, <1>6, Zenon DEF IsPrefix

\* What a step does to the artifact of its task.
ArtStep(p, t) ==
    \/ art'[t] = art[t]
    \/ /\ Submits(p, t) /\ status[t] = "RUNNING" /\ ws[t] \in Cands /\ art'[t].commit = None
       /\ art'[t].base = worktree[ws[t]].base /\ art'[t].edit = worktree[ws[t]].edit
    \/ /\ Records(p, t) /\ pc[p][t] = "recording" /\ ~Recorded(t)
       /\ art'[t].base = art[t].base /\ art'[t].edit = art[t].edit
       /\ art'[t].commit = CommitOf(t, worktree[ws[t]].base, worktree[ws[t]].sealed)

LEMMA ArtSteps ==
    ASSUME TypeInv, NEW p \in Procs, NEW t \in Tasks, TaskStep(p, t) PROVE ArtStep(p, t)
<1>1. KernelType /\ art \in [Tasks -> Artifact]
  BY DEF TypeInv, KernelType
<1>2. CASE UNCHANGED art
  BY <1>2 DEF ArtStep
<1>3. CASE Submits(p, t)
  <2>1. CASE Mine(p, t) /\ Holds(p, ws[t])
    <3>1. /\ ws[t] \in Cands /\ status[t] = "RUNNING"
          /\ art' = [art EXCEPT ![t] = [base |-> worktree[ws[t]].base,
                                        edit |-> worktree[ws[t]].edit, commit |-> None]]
      BY <1>1, <1>3, <2>1 DEF Submits, Mine, Holds, KernelType
    <3>2. art'[t] = [base |-> worktree[ws[t]].base, edit |-> worktree[ws[t]].edit, commit |-> None]
      BY <1>1, <3>1
    <3>3. QED BY <1>3, <3>1, <3>2 DEF ArtStep
  <2>2. CASE ~(Mine(p, t) /\ Holds(p, ws[t]))
    BY <1>1, <1>2, <1>3, <2>2, Recovering DEF Submits
  <2>3. QED BY <2>1, <2>2
<1>4. CASE Records(p, t)
  <2> DEFINE commit == CommitOf(t, worktree[ws[t]].base, worktree[ws[t]].sealed)
  <2>1. CASE status[t] = "ACCEPTED" /\ ~Recorded(t)
    <3>1. pc[p][t] = "recording" /\ art' = [art EXCEPT ![t].commit = commit]
      BY <1>4, <2>1 DEF Records, At
    <3>2. art[t] \in Artifact
      BY <1>1
    <3> HIDE DEF commit
    <3>3. art'[t] = [art[t] EXCEPT !.commit = commit]
      BY <1>1, <3>1
    <3>4. art'[t].base = art[t].base /\ art'[t].edit = art[t].edit /\ art'[t].commit = commit
      BY <3>2, <3>3 DEF Artifact
    <3>5. QED BY <1>4, <2>1, <3>1, <3>4 DEF ArtStep, commit
  <2>2. CASE ~(status[t] = "ACCEPTED" /\ ~Recorded(t))
    BY <1>2, <1>4, <2>2 DEF Records
  <2>3. QED BY <2>1, <2>2
<1>5. CASE Prepares(p, t) \/ StartsIntegration(p, t) \/ AdvancesHead(p, t) \/ Fails(p, t)
  BY <1>2, <1>5 DEF Fails, Prepares, Delegates, Registers, Binds, Discards, Begins, Marks, StartsIntegration,
                    AdvancesHead, kernelVars
<1>6. CASE Writes(p, t) \/ GivesUp(p, t) \/ Returns(p, t)
  BY <1>1, <1>2, <1>6, Recovering DEF Writes, GivesUp, Returns, kernelVars
<1>7. CASE Judges(p, t)
  BY <1>1, <1>2, <1>7, Recovering
  DEF Judges, Validates, Reviews, ChecksBase, Accepts, Verdict, kernelVars
<1>8. QED BY <1>3, <1>4, <1>5, <1>6, <1>7 DEF TaskStep, Attempts, Integrates

\* What leads to a stage.
Leads(p, t) ==
    /\ pc'[p][t] = "granting" => Delegates(p, t) /\ Builds(p, t)
    /\ pc'[p][t] = "binding" => Registers(p, t)
    /\ pc'[p][t] = "discarding" => Binds(p, t) /\ hold[p][t].old # None
    /\ pc'[p][t] = "starting" =>
           (Delegates(p, t) /\ Reuses(p, t)) \/ (Binds(p, t) /\ hold[p][t].old = None) \/ Discards(p, t)
    /\ pc'[p][t] = "marking" => Begins(p, t)
    /\ pc'[p][t] = "working" => Marks(p, t) \/ Writes(p, t)
    /\ pc'[p][t] = "submitting" => Returns(p, t)
    /\ pc'[p][t] = "validating" => Submits(p, t)
    /\ pc'[p][t] = "reviewing" => Validates(p, t)
    /\ pc'[p][t] = "accepting" => Reviews(p, t)
    /\ pc'[p][t] = "deciding" => ChecksBase(p, t)
    /\ pc'[p][t] = "integrating" => Accepts(p, t)
    /\ pc'[p][t] = "committing" => StartsIntegration(p, t)
    /\ pc'[p][t] = "recording" => AdvancesHead(p, t)

LEMMA StagesAreLed ==
    ASSUME TypeInv, NEW p \in Procs, NEW t \in Tasks, TaskStep(p, t) PROVE Leads(p, t)
<1> ProcType
  BY DEF TypeInv
<1> USE MovesThere DEF Leads
<1>1. CASE Delegates(p, t)
  <2>1. CASE Reuses(p, t)
    BY <1>1, <2>1 DEF Reuses, ProcType
  <2>2. CASE Builds(p, t)
    <3>1. pc'[p][t] = "granting"
      BY <2>2 DEF Builds, ProcType
    <3>2. QED BY <1>1, <2>2, <3>1
  <2>3. QED BY <1>1, <2>1, <2>2 DEF Delegates
<1>r. CASE Registers(p, t)
  <2>1. Goes(p, t, "binding")
    BY <1>r DEF Registers
  <2>2. QED BY <1>r, <2>1
<1>f. CASE Fails(p, t)
  BY <1>f DEF Fails
<1>2. CASE Binds(p, t)
  BY <1>2 DEF Binds
<1>3. CASE Discards(p, t)
  BY <1>3 DEF Discards
<1>4. CASE Begins(p, t)
  BY <1>4 DEF Begins
<1>5. CASE Marks(p, t)
  BY <1>5 DEF Marks
<1>6. CASE Writes(p, t)
  BY <1>6 DEF Writes, CanWrite, procVars
<1>7. CASE GivesUp(p, t)
  BY <1>7 DEF GivesUp
<1>8. CASE Returns(p, t)
  BY <1>8 DEF Returns
<1>9. CASE Submits(p, t)
  BY <1>9 DEF Submits
<1>10. CASE Validates(p, t)
  BY <1>10 DEF Validates, Verdict
<1>11. CASE Reviews(p, t)
  BY <1>11 DEF Reviews, Verdict
<1>12. CASE ChecksBase(p, t)
  BY <1>12 DEF ChecksBase
<1>13. CASE Accepts(p, t)
  BY <1>13 DEF Accepts
<1>14. CASE StartsIntegration(p, t)
  BY <1>14 DEF StartsIntegration
<1>15. CASE AdvancesHead(p, t)
  BY <1>15 DEF AdvancesHead
<1>16. CASE Records(p, t)
  BY <1>16 DEF Records
<1>17. QED
  BY <1>1, <1>r, <1>f, <1>2, <1>3, <1>4, <1>5, <1>6, <1>7, <1>8, <1>9, <1>10, <1>11, <1>12,
     <1>13, <1>14, <1>15, <1>16 DEF TaskStep, Prepares, Attempts, Judges, Integrates

\* A task under judgement or accepted keeps its workspace.
LEMMA WorkspaceIsKept ==
    ASSUME Protocol, NEW p \in Procs, NEW t \in Tasks, TaskStep(p, t),
           NEW u \in Tasks, ~(Binds(p, t) /\ u = t /\ Delegatable(t))
    PROVE  ws'[u] = ws[u]
<1>1. CASE ws' = ws
  BY <1>1
<1>2. CASE Delegates(p, t) \/ Registers(p, t)
  BY <1>1, <1>2 DEF Delegates, Registers, kernelVars
<1>3. CASE Binds(p, t) /\ Agreed(t, hold[p][t].old)
  BY <1>3, StepsAreLocal DEF Agreed, Frame, Protocol
<1>4. QED BY <1>1, <1>2, <1>3, QuietSteps DEF Hands, Quiet

\* A recorded commit stays where it is, and one made since the step is recorded by it.
LEMMA BranchStep ==
    ASSUME Protocol, NEW p \in Procs, NEW t \in Tasks, TaskStep(p, t),
           NEW s \in Commit, IsPrefix(s, head)
    PROVE  IsPrefix(s, head')
<1>1. TypeInv /\ head \in Commit
  BY DEF Protocol, TypeInv, GitType
<1>2. CASE UNCHANGED head
  BY <1>2
<1>3. CASE worktree[ws[t]].edit \in Edits /\ head' = Append(head, <<t, worktree[ws[t]].edit>>)
  BY <1>1, <1>3, PrefixIsKept
<1>4. QED BY <1>1, <1>2, <1>3, HeadGrows

LEMMA WorkspacesStayPresent ==
    ASSUME Protocol, NEW p \in Procs, NEW t \in Tasks, TaskStep(p, t) PROVE WorkspacesArePresent'
<1>1. TypeInv /\ KernelType /\ ProcType /\ CandidatesAreApart
  BY DEF Protocol, TypeInv
<1>2. ASSUME NEW u \in Tasks, ws'[u] # None PROVE worktree'[ws'[u]].state = "present"
  <2>1. CASE ws'[u] = ws[u]
    BY <1>2, <2>1, WorkspacesStand
  <2>2. CASE ws'[u] # ws[u]
    <3>1. Binds(p, t) /\ Agreed(t, hold[p][t].old)
      BY <2>2, QuietSteps DEF Hands, Quiet, Delegates, Registers, kernelVars
    <3>2. ws' = [ws EXCEPT ![t] = hold[p][t].new] /\ UNCHANGED worktree /\ pc[p][t] = "binding"
      BY <3>1 DEF Binds, At, gitVars
    <3>3. u = t /\ ws'[t] = hold[p][t].new
      BY <1>1, <2>2, <3>2 DEF KernelType
    <3>4. worktree[hold[p][t].new].state = "present"
      BY <1>1, <3>2 DEF CandidatesAreApart
    <3>5. QED BY <3>2, <3>3, <3>4
  <2>3. QED BY <2>1, <2>2
<1>3. QED BY <1>2 DEF WorkspacesArePresent

\* A step on the way to the record: the commit is made, and waits for it.
LEMMA CommitsStayMade ==
    ASSUME Protocol, NEW p \in Procs, NEW t \in Tasks, TaskStep(p, t) PROVE CommitsAreMade'
<1>1. /\ TypeInv /\ KernelType /\ ProcType /\ GitType /\ StagesAgree /\ CommitsAreMade
      /\ Frame(p, t) /\ StagesAgree'
  BY StepsAreLocal, StagesAreKept DEF Protocol, TypeInv
<1>2. ASSUME NEW q \in Procs, NEW u \in Tasks, pc'[q][u] = "recording", art'[u].commit = None
      PROVE  CommitIsMade(u)'
  <2>1. ws'[u] # None /\ status'[u] = "ACCEPTED"
    BY <1>1, <1>2 DEF StagesAgree, Bound, Final
  <2>2. CASE pc[q][u] = "recording" /\ art[u].commit = None /\ ws'[u] = ws[u]
    <3>1. CommitIsMade(u) /\ ws[u] \in Cands /\ worktree[ws[u]] \in Worktree
      BY <1>1, <2>1, <2>2 DEF CommitsAreMade, Recorded, KernelType, GitType
    <3>2. PICK b \in Commit, e \in Edits :
            b = worktree[ws[u]].base /\ e = worktree[ws[u]].sealed /\ IsPrefix(CommitOf(u, b, e), head)
      BY <3>1, RecordsAreRecords DEF CommitIsMade
    <3>3. CommitOf(u, b, e) \in Commit
      BY <3>2 DEF CommitOf, Commit
    <3>4. IsPrefix(CommitOf(u, b, e), head')
      BY <3>2, <3>3, BranchStep
    <3>5. worktree'[ws[u]].base = b /\ worktree'[ws[u]].sealed = e /\ e # 0
      BY <2>1, <2>2, <3>1, <3>2, WorkspacesStand DEF CommitIsMade
    <3>6. QED BY <2>2, <3>4, <3>5 DEF CommitIsMade
  <2>3. CASE ~(pc[q][u] = "recording" /\ art[u].commit = None /\ ws'[u] = ws[u])
    <3>1. ASSUME q # p \/ u # t PROVE FALSE
      <4>1. pc[q][u] = "recording" /\ status[u] = "ACCEPTED"
        BY <1>1, <1>2, <3>1 DEF Frame, StagesAgree, Final
      <4>2. ws'[u] = ws[u]
        BY <4>1, WorkspaceIsKept DEF Delegatable
      <4>3. art[u].commit = None
        BY <1>1, <1>2, <4>1, ArtSteps DEF ArtStep, Frame, Recorded
      <4>4. QED BY <2>3, <4>1, <4>2, <4>3
    <3>2. AdvancesHead(p, t) /\ q = p /\ u = t
      BY <1>1, <1>2, <3>1, StagesAreLed DEF Leads
    <3>3. /\ head = worktree[ws[t]].base /\ worktree[ws[t]].edit \in Edits /\ ws[t] \in Cands
          /\ worktree'[ws[t]].sealed = worktree[ws[t]].edit
          /\ worktree'[ws[t]].base = worktree[ws[t]].base
          /\ head' = Append(head, <<t, worktree[ws[t]].edit>>) /\ ws' = ws
      <4>1. \/ UNCHANGED <<worktree, head>> /\ Ends(p, t)
            \/ UNCHANGED head /\ Ends(p, t)
            \/ head' = CommitOf(t, worktree[ws[t]].base, worktree[ws[t]].edit)
               /\ Goes(p, t, "recording") /\ head = worktree[ws[t]].base
               /\ ws[t] \in Cands /\ Commits(ws[t])
               /\ worktree'[ws[t]].sealed = worktree[ws[t]].edit
               /\ worktree'[ws[t]].base = worktree[ws[t]].base
        BY <1>1, <3>2, AdvancesInTree
      <4>2. ~Ends(p, t)
        BY <1>1, <1>2, <3>2, MovesThere
      <4>3. worktree[ws[t]].edit \in Edits
        BY <1>1, <4>1, <4>2, RecordsAreRecords DEF Commits, Changed, GitType
      <4>4. QED BY <3>2, <4>1, <4>2, <4>3 DEF CommitOf, AdvancesHead, kernelVars
    <3>4. head' \in Commit
      BY <1>1, <3>3 DEF GitType, Commit
    <3>5. QED BY <3>2, <3>3, <3>4, PrefixOfItself DEF CommitIsMade, CommitOf
  <2>4. QED BY <2>2, <2>3
<1>3. QED BY <1>2 DEF CommitsAreMade, Recorded

LEMMA RecordedStay ==
    ASSUME Protocol, NEW p \in Procs, NEW t \in Tasks, TaskStep(p, t) PROVE RecordedIsOnBranch'
<1>1. /\ TypeInv /\ KernelType /\ GitType /\ StagesAgree /\ CommitsAreMade /\ RecordedIsOnBranch
      /\ Frame(p, t)
  BY StepsAreLocal DEF Protocol, TypeInv
<1>2. ASSUME NEW u \in Tasks, art'[u].commit # None PROVE IsPrefix(art'[u].commit, head')
  <2>1. CASE art'[u].commit = art[u].commit
    <3>1. art[u].commit \in Commit /\ IsPrefix(art[u].commit, head)
      BY <1>1, <1>2, <2>1 DEF RecordedIsOnBranch, Recorded, KernelType, Artifact
    <3>2. QED BY <2>1, <3>1, BranchStep
  <2>2. CASE art'[u].commit # art[u].commit
    <3>1. u = t /\ Records(p, t) /\ pc[p][t] = "recording" /\ ~Recorded(t)
          /\ art'[t].commit = CommitOf(t, worktree[ws[t]].base, worktree[ws[t]].sealed)
      BY <1>1, <1>2, <2>2, ArtSteps DEF ArtStep, Frame
    <3>2. CommitIsMade(t) /\ ws[t] \in Cands
      BY <1>1, <3>1 DEF CommitsAreMade, StagesAgree, KernelType, Bound, Final
    <3>3. worktree[ws[t]].sealed \in Edits /\ worktree[ws[t]].base \in Commit
      BY <1>1, <3>2, RecordsAreRecords DEF CommitIsMade, GitType
    <3>4. CommitOf(t, worktree[ws[t]].base, worktree[ws[t]].sealed) \in Commit
      BY <3>3 DEF CommitOf, Commit
    <3>5. QED BY <3>1, <3>2, <3>4, BranchStep DEF CommitIsMade
  <2>3. QED BY <2>1, <2>2
<1>3. QED BY <1>2 DEF RecordedIsOnBranch, Recorded

\* Accepted work stays accepted, where it was made.
LEMMA AcceptedStands ==
    ASSUME Protocol, NEW p \in Procs, NEW t \in Tasks, TaskStep(p, t),
           NEW u \in Tasks, status[u] = "ACCEPTED"
    PROVE  /\ status'[u] = "ACCEPTED" /\ ws'[u] = ws[u] /\ ws[u] # None
           /\ worktree'[ws[u]].base = worktree[ws[u]].base
<1>1. Frame(p, t) /\ StageStep(p, t)
  BY StepsAreLocal, StagesStep DEF Protocol
<1>2. ws'[u] = ws[u] /\ ws[u] # None
  BY WorkspaceIsKept DEF Protocol, StagesAgree, Delegatable
<1>3. QED BY <1>1, <1>2, WorkspacesStand DEF Frame, StageStep

LEMMA BasesStayInOrder ==
    ASSUME Protocol, NEW p \in Procs, NEW t \in Tasks, TaskStep(p, t) PROVE BasesAreInOrder'
<1>1. /\ TypeInv /\ KernelType /\ GitType /\ ProcType /\ StagesAgree /\ CandidatesAreApart
      /\ BasesAreInOrder /\ Frame(p, t) /\ CandidatesAreApart' /\ WorkspacesArePresent' /\ TypeInv'
  BY StepsAreLocal, CandidatesStayApart, WorkspacesStayPresent, TaskStepsAreTyped
  DEF Protocol, TypeInv
<1>2. Goes_on /\ Goes_on' /\ deps' = deps /\ deps \in [Tasks -> SUBSET Tasks]
  BY <1>1 DEF Frame, Goes_on, KernelType
<1>3. Len(head) \in Nat /\ Len(head') \in Nat /\ Len(head) <= Len(head')
  <2>1. head \in Seq(Tasks \X Edits)
    BY <1>1 DEF GitType, Commit
  <2>2. CASE worktree[ws[t]].edit \in Edits /\ head' = Append(head, <<t, worktree[ws[t]].edit>>)
    <3>1. PICK e \in Tasks \X Edits : head' = Append(head, e)
      BY <2>2
    <3>2. QED BY <2>1, <3>1
  <2>3. QED BY <1>1, <2>1, <2>2, HeadGrows
<1>4. ASSUME NEW c \in Cands PROVE Len(worktree'[c].base) <= Len(head')
  <2>1. worktree[c].base \in Commit /\ Len(worktree[c].base) <= Len(head)
    BY <1>1, RecordsAreRecords DEF GitType, BasesAreInOrder
  <2>2. CASE worktree'[c].base = worktree[c].base \/ worktree'[c].base = head
    BY <1>3, <2>1, <2>2 DEF Commit
  <2>3. CASE worktree'[c].base = <<>>
    BY <1>3, <2>3
  <2>4. QED BY <1>1, <2>2, <2>3, BaseSteps
<1>5. ASSUME NEW u \in Tasks, NEW c \in Cands, Follows(u, c), worktree'[c].base = worktree[c].base
      PROVE  Follows(u, c)'
  BY <1>2, <1>5, AcceptedStands DEF Follows
<1>6. ASSUME NEW c \in Cands, worktree[c].state = "present", worktree'[c].state = "present"
      PROVE  worktree'[c].base = worktree[c].base
  BY <1>1, <1>6, BaseSteps
<1>7. ASSUME NEW q \in Procs, NEW u \in Tasks, pc[q][u] \in {"granting", "binding"}
      PROVE  /\ hold[q][u].new \in Cands /\ worktree[hold[q][u].new].state = "present"
             /\ Follows(u, hold[q][u].new)
  BY <1>1, <1>2, <1>7 DEF CandidatesAreApart, BasesAreInOrder, ProcType, Held
<1>8. ASSUME NEW u \in Tasks, ws'[u] # None PROVE Follows(u, ws[u])'
  <2>1. ws'[u] \in Cands /\ worktree'[ws'[u]].state = "present"
    BY <1>1, <1>2, <1>8 DEF TypeInv, KernelType, WorkspacesArePresent
  <2>2. CASE ws'[u] = ws[u]
    <3>1. Follows(u, ws[u]) /\ worktree[ws[u]].state = "present"
      BY <1>1, <1>2, <1>8, <2>2, WorkspacesStand DEF BasesAreInOrder
    <3>2. Follows(u, ws'[u]) /\ worktree'[ws'[u]].base = worktree[ws'[u]].base
      BY <1>6, <2>1, <2>2, <3>1
    <3>3. QED BY <1>2, <2>1, <3>2, AcceptedStands DEF Follows
  <2>3. CASE ws'[u] # ws[u]
    <3>1. Binds(p, t) /\ Agreed(t, hold[p][t].old)
      BY <2>3, QuietSteps DEF Hands, Quiet, Delegates, Registers, kernelVars
    <3>2. ws' = [ws EXCEPT ![t] = hold[p][t].new] /\ pc[p][t] = "binding"
      BY <3>1 DEF Binds, At
    <3>3. u = t /\ ws'[u] = hold[p][t].new
      BY <1>1, <2>3, <3>2 DEF KernelType
    <3>4. Follows(u, ws'[u]) /\ worktree'[ws'[u]].base = worktree[ws'[u]].base
      BY <1>6, <1>7, <2>1, <3>2, <3>3
    <3>5. QED BY <1>2, <2>1, <3>4, AcceptedStands DEF Follows
  <2>4. QED BY <2>2, <2>3
<1>9. ASSUME NEW u \in Tasks, art'[u].commit # None
      PROVE  Len(art'[u].commit) = Len(worktree'[ws'[u]].base) + 1
  <2>1. CASE art'[u].commit = art[u].commit
    <3>1. status[u] = "ACCEPTED" /\ Len(art[u].commit) = Len(worktree[ws[u]].base) + 1
      BY <1>1, <1>2, <1>9, <2>1 DEF StagesAgree, Recorded, BasesAreInOrder
    <3>2. QED BY <2>1, <3>1, AcceptedStands
  <2>2. CASE art'[u].commit # art[u].commit
    <3>1. u = t /\ pc[p][t] = "recording"
          /\ art'[t].commit = CommitOf(t, worktree[ws[t]].base, worktree[ws[t]].sealed)
      BY <1>1, <1>9, <2>2, ArtSteps DEF ArtStep, Frame
    <3>2. status[t] = "ACCEPTED"
      BY <1>1, <3>1 DEF StagesAgree, Final
    <3>3. ws'[t] = ws[t] /\ ws[t] \in Cands /\ worktree'[ws[t]].base = worktree[ws[t]].base
      BY <1>1, <3>2, AcceptedStands DEF KernelType
    <3>4. worktree[ws[t]].base \in Commit
      BY <1>1, <3>3, RecordsAreRecords DEF GitType
    <3>5. QED BY <3>1, <3>3, <3>4 DEF CommitOf, Commit
  <2>3. QED BY <2>1, <2>2
<1>10. ASSUME NEW q \in Procs, NEW u \in Tasks, pc'[q][u] \in {"granting", "binding"}
       PROVE  Follows(u, hold[q][u].new)'
  <2>1. hold'[q][u].new \in Cands /\ worktree'[hold'[q][u].new].state = "present"
    BY <1>1, <1>10 DEF CandidatesAreApart, TypeInv, ProcType, Held
  <2>2. CASE pc[q][u] \in {"granting", "binding"} /\ hold'[q][u] = hold[q][u]
    <3>1. worktree'[hold'[q][u].new].base = worktree[hold'[q][u].new].base
          /\ Follows(u, hold'[q][u].new)
      BY <1>6, <1>7, <2>1, <2>2
    <3>2. QED BY <1>2, <2>1, <3>1, AcceptedStands DEF Follows
  <2>3. CASE ~(pc[q][u] \in {"granting", "binding"} /\ hold'[q][u] = hold[q][u])
    <3>1. q = p /\ u = t
      BY <1>1, <1>10, <2>3 DEF Frame
    <3>2. ~Registers(p, t)
      BY <2>3, <3>1 DEF Registers, At, Goes
    <3>3. Delegates(p, t) /\ Builds(p, t)
      BY <1>1, <1>10, <3>1, <3>2, StagesAreLed DEF Leads
    <3>4. PICK c \in Cands : NewTree(p, t, c)
      BY <1>1, <3>3, BuildsTree
    <3>5. hold'[p][t].new = c /\ worktree'[c].base = head /\ DepsAccepted(t)
      BY <1>1, <3>3, <3>4 DEF NewTree, ProcType, Delegates, Builds, Delegatable, Ends
    <3>6. ASSUME NEW v \in deps[t]
          PROVE  status'[v] = "ACCEPTED" /\ Len(worktree'[ws'[v]].base) <= Len(worktree'[c].base)
      <4>1. v \in Tasks /\ status[v] = "ACCEPTED"
        BY <1>1, <1>2, <3>5 DEF DepsAccepted
      <4>2. ws[v] \in Cands
        BY <1>1, <4>1 DEF StagesAgree, KernelType
      <4>3. Len(worktree[ws[v]].base) <= Len(head)
        BY <1>1, <4>2 DEF BasesAreInOrder
      <4>4. QED BY <3>5, <4>1, <4>3, AcceptedStands
    <3>7. QED BY <1>2, <3>1, <3>5, <3>6 DEF Follows
  <2>4. QED BY <2>2, <2>3
<1>11. QED BY <1>4, <1>8, <1>9, <1>10 DEF BasesAreInOrder, Recorded

LEMMA PrefixesCompare ==
    ASSUME NEW s \in Commit, NEW r \in Commit, NEW h \in Commit,
           IsPrefix(s, h), IsPrefix(r, h), Len(s) <= Len(r)
    PROVE  IsPrefix(s, r)
<1>1. Len(s) \in Nat /\ Len(r) \in Nat /\ Len(h) \in Nat /\ Len(r) <= Len(h)
  BY DEF Commit, IsPrefix
<1>2. SubSeq(s, 1, Len(s)) = SubSeq(h, 1, Len(s)) /\ SubSeq(r, 1, Len(r)) = SubSeq(h, 1, Len(r))
  BY DEF IsPrefix
<1>3. ASSUME NEW i \in 1..Len(r) PROVE r[i] = h[i]
  <2>1. SubSeq(r, 1, Len(r))[i] = r[i] /\ SubSeq(h, 1, Len(r))[i] = h[i]
    BY <1>1, <1>3 DEF Commit
  <2>2. QED BY <1>2, <2>1
<1>4. SubSeq(r, 1, Len(s)) = SubSeq(h, 1, Len(s))
  <2>1. SubSeq(r, 1, Len(s)) = [i \in 1..Len(s) |-> r[i]]
    BY <1>1 DEF Commit
  <2>2. SubSeq(h, 1, Len(s)) = [i \in 1..Len(s) |-> h[i]]
    BY <1>1 DEF Commit
  <2>3. 1..Len(s) \subseteq 1..Len(r)
    BY <1>1
  <2>4. QED BY <1>3, <2>1, <2>2, <2>3
<1>5. QED BY <1>2, <1>4 DEF IsPrefix

\* Two recorded commits are on the branch, the one of the earlier base first.
LEMMA OrderFromBases ==
    TypeInv /\ StagesAgree /\ RecordedIsOnBranch /\ BasesAreInOrder /\ Goes_on => RecordedInOrder
<1> SUFFICES ASSUME TypeInv, StagesAgree, RecordedIsOnBranch, BasesAreInOrder, Goes_on, NEW t \in Tasks, NEW u \in deps[t], Recorded(t), Recorded(u)
             PROVE  IsPrefix(art[u].commit, art[t].commit)
  BY DEF RecordedInOrder
<1>1. u \in Tasks /\ ws[t] \in Cands /\ ws[u] \in Cands /\ ws[t] # None
  BY DEF TypeInv, KernelType, StagesAgree
<1>2. /\ art[u].commit \in Commit /\ art[t].commit \in Commit /\ head \in Commit
      /\ IsPrefix(art[u].commit, head) /\ IsPrefix(art[t].commit, head)
  BY <1>1 DEF TypeInv, KernelType, GitType, Artifact, Recorded, RecordedIsOnBranch
<1>3. /\ Len(art[u].commit) = Len(worktree[ws[u]].base) + 1
      /\ Len(art[t].commit) = Len(worktree[ws[t]].base) + 1
      /\ Len(worktree[ws[u]].base) <= Len(worktree[ws[t]].base)
  <2>1. Follows(t, ws[t])
    BY <1>1 DEF BasesAreInOrder
  <2>2. QED BY <1>1, <2>1 DEF BasesAreInOrder, Follows
<1>4. Len(worktree[ws[u]].base) \in Nat /\ Len(worktree[ws[t]].base) \in Nat
  BY <1>1, RecordsAreRecords DEF TypeInv, GitType, Commit
<1>5. Len(art[u].commit) <= Len(art[t].commit)
  BY <1>3, <1>4
<1>6. QED BY <1>2, <1>5, PrefixesCompare

LEMMA TaskStepsKeepProtocol ==
    ASSUME Protocol, NEW p \in Procs, NEW t \in Tasks, TaskStep(p, t) PROVE Protocol'
<1>1. Goes_on'
  BY StepsAreLocal DEF Protocol, Frame, Goes_on
<1>2. TypeInv' /\ StagesAgree' /\ RecordedIsOnBranch' /\ BasesAreInOrder'
  BY TaskStepsAreTyped, StagesAreKept, RecordedStay, BasesStayInOrder
<1>3. RecordedInOrder'
  BY <1>1, <1>2, OrderFromBases, PTL
<1>4. QED
  BY <1>2, <1>3, DeadStayAtRest, CandidatesStayApart, WorkspacesStayPresent, CommitsStayMade
  DEF Protocol
-----------------------------------------------------------------------------
(* The steps of a process, and of the retirement.                          *)

LEMMA ProtocolAtFirst == ASSUME Init PROVE Protocol
<1> USE DEF Init
<1>1. TypeInv
  <2>1. <<>> \in Commit /\ NoArtifact \in Artifact /\ NoWorktree("unused") \in Worktree
        /\ NoHold \in Held
    BY DEF Commit, NoArtifact, Artifact, NoWorktree, Worktree, NoHold, Held
  <2>2. "idle" \in Stages /\ "PLANNED" \in Statuses /\ "absent" \in Grants /\ 0 \in 0..MaxAttempts
    BY DEF Stages, Resting, Statuses, Grants
  <2>3. KernelType /\ GitType
    BY <2>1, <2>2 DEF KernelType, GitType
  <2>4. GrantType /\ ProcType /\ FaultType
    BY <2>1, <2>2 DEF GrantType, ProcType, FaultType
  <2>5. QED BY <2>3, <2>4 DEF TypeInv
<1>2. \A p \in Procs, t \in Tasks : pc[p][t] = "idle" /\ hold[p][t] = NoHold
  OBVIOUS
<1>3. \A t \in Tasks : status[t] = "PLANNED" /\ ws[t] = None /\ ~Recorded(t)
  BY DEF NoArtifact, Recorded
<1>4. DeadRest /\ StagesAgree
  BY <1>2, <1>3 DEF DeadRest, StagesAgree, Judging, Final, Bound, Sync
<1>5. CandidatesAreApart
  BY <1>2, <1>3 DEF CandidatesAreApart, Refers, NoHold, Cands
<1>6. WorkspacesArePresent /\ CommitsAreMade /\ RecordedIsOnBranch
  BY <1>2, <1>3 DEF WorkspacesArePresent, CommitsAreMade, RecordedIsOnBranch
<1>7. BasesAreInOrder /\ RecordedInOrder
  BY <1>2, <1>3 DEF BasesAreInOrder, NoWorktree, RecordedInOrder
<1>8. QED BY <1>1, <1>4, <1>5, <1>6, <1>7 DEF Protocol

\* A step that may end processes or fail assignments, and moves no task but
\* to a round's first stage or to its integration.
Settles(p) ==
    /\ \A q \in Procs, t \in Tasks :
        \/ pc'[q][t] = pc[q][t] /\ hold'[q][t] = hold[q][t]
        \/ q = p /\ pc'[q][t] = "idle" /\ hold'[q][t] = NoHold
        \/ q = p /\ pc'[q][t] = "delegating" /\ hold'[q][t] = hold[q][t]
        \/ q = p /\ pc'[q][t] = "integrating" /\ hold'[q][t] = hold[q][t]
           /\ status[t] = "ACCEPTED" /\ (\A v \in Tasks : pc[q][v] \in Resting)
           /\ \A u \in Tasks \ {t} : pc'[q][u] = pc[q][u]
    /\ \A t \in Tasks :
        \/ status'[t] = status[t]
        \/ status[t] = "RUNNING" /\ status'[t] \in {"READY", "BLOCKED"}
    /\ UNCHANGED <<deps, ws, art, worktree, head>>

LEMMA SettledProtocol ==
    ASSUME Protocol, NEW p \in Procs, Settles(p), TypeInv', DeadRest', Goes_on' => Goes_on
    PROVE  Protocol'
<1>1. /\ TypeInv /\ KernelType /\ ProcType /\ StagesAgree /\ CandidatesAreApart
      /\ WorkspacesArePresent /\ CommitsAreMade /\ RecordedIsOnBranch /\ BasesAreInOrder
      /\ RecordedInOrder
  BY DEF Protocol, TypeInv
<1>2. StagesAgree'
  <2>1. ASSUME NEW q \in Procs, NEW t \in Tasks
        PROVE  /\ pc'[q][t] \in Judging => pc[q][t] \in Judging
               /\ pc'[q][t] \in Final => status[t] = "ACCEPTED"
               /\ pc'[q][t] \in Bound => pc[q][t] \in Bound \/ status[t] = "ACCEPTED"
    BY <1>1 DEF Settles, StagesAgree, Judging, Final, Bound
  <2>2. ASSUME NEW q \in Procs, NEW t \in Tasks, pc'[q][t] \in Sync, NEW u \in Tasks \ {t}
        PROVE  pc'[q][u] \notin Sync
    BY <1>1, <2>2 DEF Settles, StagesAgree, Sync, Resting
  <2>3. ASSUME NEW t \in Tasks
        PROVE  /\ status[t] \in {"SUBMITTED", "ACCEPTED"} => status'[t] = status[t]
               /\ status'[t] \in {"RUNNING", "SUBMITTED", "ACCEPTED"} => ws'[t] # None
               /\ art'[t].commit # None => status'[t] = "ACCEPTED"
    BY <1>1 DEF Settles, StagesAgree, Recorded
  <2>4. QED BY <1>1, <2>1, <2>2, <2>3 DEF Settles, StagesAgree, Recorded
<1>3. CandidatesAreApart'
  <2>1. ASSUME NEW q \in Procs, NEW t \in Tasks
        PROVE  /\ pc'[q][t] \in {"granting", "binding", "discarding"} =>
                      pc'[q][t] = pc[q][t] /\ hold'[q][t] = hold[q][t]
               /\ \A c \in Cands : Refers(q, t, c)' => Refers(q, t, c)
    BY DEF Settles, Refers, NoHold, Cands
  <2>2. \A q \in Procs, t \in Tasks :
            pc[q][t] \in {"granting", "binding"} => hold[q][t].new \in Cands
    BY <1>1 DEF CandidatesAreApart, ProcType, Held
  <2>3. QED BY <1>1, <2>1, <2>2 DEF CandidatesAreApart, Settles
<1>4. WorkspacesArePresent'
  BY <1>1 DEF WorkspacesArePresent, Settles
<1>5. CommitsAreMade'
  BY <1>1 DEF CommitsAreMade, CommitIsMade, Recorded, Settles
<1>6. RecordedIsOnBranch'
  BY <1>1 DEF RecordedIsOnBranch, Recorded, Settles
<1>7. RecordedInOrder'
  BY <1>1 DEF RecordedInOrder, Recorded, Settles
<1>8. BasesAreInOrder'
  <2>1. ASSUME NEW t \in Tasks, NEW c, Follows(t, c) PROVE Follows(t, c)'
    BY <1>1, <2>1 DEF Follows, Settles, KernelType
  <2>2. ASSUME NEW q \in Procs, NEW t \in Tasks, pc'[q][t] \in {"granting", "binding"}
        PROVE  pc[q][t] \in {"granting", "binding"} /\ hold'[q][t] = hold[q][t]
    BY <2>2 DEF Settles
  <2>3. QED BY <1>1, <2>1, <2>2 DEF BasesAreInOrder, Recorded, Settles, Follows
<1>9. QED BY <1>2, <1>3, <1>4, <1>5, <1>6, <1>7, <1>8 DEF Protocol

LEMMA StartsKeepsProtocol ==
    ASSUME Protocol, NEW p \in Procs, Starts(p) PROVE Protocol'
<1>1. TypeInv /\ DeadRest
  BY DEF Protocol
<1>2. Settles(p)
  BY <1>1 DEF Starts, Settles, TypeInv, KernelType, gitVars, procVars
<1>3. KernelType' /\ GitType' /\ ProcType' /\ FaultType'
  BY <1>1 DEF Starts, TypeInv, KernelType, Statuses, GitType, ProcType, FaultType, gitVars, procVars
<1>4. GrantType'
  BY <1>1 DEF Starts, TypeInv, GrantType, Loaded, Grants
<1>5. DeadRest'
  BY <1>1 DEF Starts, DeadRest, procVars
<1>6. Goes_on
  BY DEF Starts, Goes_on
<1>7. QED BY <1>2, <1>3, <1>4, <1>5, <1>6, SettledProtocol DEF TypeInv

LEMMA RoundKeepsProtocol ==
    ASSUME Protocol, NEW p \in Procs, Round(p) PROVE Protocol'
<1>1. TypeInv /\ DeadRest
  BY DEF Protocol
<1> USE DEF kernelVars, gitVars, grantVars, faultVars
<1>2. Settles(p)
  BY <1>1 DEF Round, Settles, TypeInv, ProcType
<1>3. KernelType' /\ GitType' /\ GrantType' /\ FaultType'
  BY <1>1 DEF Round, TypeInv, KernelType, GitType, GrantType, FaultType
<1>4. ProcType'
  BY <1>1, StagesAreStages DEF Round, TypeInv, ProcType
<1>5. DeadRest' /\ (Goes_on' => Goes_on)
  BY <1>1 DEF Round, DeadRest, Goes_on
<1>6. QED BY <1>2, <1>3, <1>4, <1>5, SettledProtocol DEF TypeInv

LEMMA GoneKeepsProtocol ==
    ASSUME Protocol, NEW p \in Procs, Leaves(p) \/ Crashes(p) PROVE Protocol'
<1>1. TypeInv /\ DeadRest
  BY DEF Protocol
<1> USE DEF kernelVars, gitVars
<1>2. /\ Forgets(p) /\ live' = live \ {p} /\ p \in live
      /\ UNCHANGED <<deps, kernelVars, gitVars, disk>>
      /\ closed' \in {closed, "complete"} /\ faults' \in {faults, faults + 1} /\ UNCHANGED stalls
  BY DEF Leaves, Crashes
<1>3. Settles(p)
  BY <1>1, <1>2 DEF Forgets, Settles, TypeInv, ProcType
<1>4. KernelType' /\ GitType' /\ FaultType'
  BY <1>1, <1>2 DEF TypeInv, KernelType, GitType, FaultType
<1>5. ProcType' /\ GrantType'
  <2>1. "idle" \in Stages /\ NoHold \in Held /\ "absent" \in Grants
    BY DEF Stages, Resting, NoHold, Held, Grants
  <2>2. QED BY <1>1, <1>2, <2>1 DEF Forgets, TypeInv, ProcType, GrantType
<1>6. DeadRest'
  BY <1>1, <1>2 DEF Forgets, DeadRest, TypeInv, ProcType
<1>7. Goes_on' => Goes_on
  BY <1>2 DEF Goes_on
<1>8. QED BY <1>3, <1>4, <1>5, <1>6, <1>7, SettledProtocol DEF TypeInv

LEMMA FinishesKeepsProtocol ==
    ASSUME Protocol, NEW p \in Procs, Finishes(p) PROVE Protocol'
<1>1. TypeInv /\ DeadRest /\ ProcType
  BY DEF Protocol, TypeInv
<1> USE DEF kernelVars, gitVars, grantVars, faultVars
<1>2. PICK t \in Tasks : Goes(p, t, "integrating")
  BY DEF Finishes
<1>3. Settles(p)
  BY <1>1, <1>2 DEF Finishes, Settles, AllAccepted, Goes, ProcType
<1>4. KernelType' /\ GitType' /\ GrantType' /\ FaultType'
  BY <1>1 DEF Finishes, TypeInv, KernelType, GitType, GrantType, FaultType
<1>5. ProcType'
  BY <1>1, <1>2, StagesAreStages, MovesAreTyped
<1>6. DeadRest' /\ (Goes_on' => Goes_on)
  BY <1>1, <1>2 DEF Finishes, Goes, DeadRest, Goes_on, ProcType
<1>7. QED BY <1>3, <1>4, <1>5, <1>6, SettledProtocol DEF TypeInv

LEMMA RetiresKeepsProtocol == ASSUME Protocol, Retires PROVE Protocol'
<1>1. /\ TypeInv /\ DeadRest /\ StagesAgree /\ CandidatesAreApart /\ CommitsAreMade
      /\ RecordedIsOnBranch
  BY DEF Protocol
<1> USE DEF kernelVars, procVars, faultVars
<1>2. /\ UNCHANGED <<deps, status, by, attempts, ws, art, head, mem, pc, hold, live, faults, stalls>>
      /\ live = {} /\ closed = "complete" /\ closed' \in {"complete", "retired"}
      /\ \/ UNCHANGED worktree
         \/ \E c \in Cands : worktree' = [worktree EXCEPT ![c] = NoWorktree("removed")]
  BY DEF Retires
<1>3. \A p \in Procs, t \in Tasks : pc[p][t] = "idle" /\ hold[p][t] = NoHold
  BY <1>1, <1>2 DEF DeadRest
<1>4. GitType' /\ \A c \in Cands : worktree'[c].state = "unused" => worktree[c].state = "unused"
  <2>1. NoWorktree("removed") \in Worktree /\ NoWorktree("removed").state = "removed"
    BY DEF NoWorktree, Worktree, Commit
  <2>2. QED BY <1>1, <1>2, <2>1 DEF TypeInv, GitType
<1>5. KernelType' /\ ProcType' /\ FaultType'
  BY <1>1, <1>2 DEF TypeInv, KernelType, ProcType, FaultType
<1>6. GrantType'
  BY <1>1, <1>2 DEF Retires, TypeInv, GrantType, Grants
<1>7. DeadRest'
  BY <1>1, <1>2 DEF DeadRest
<1>8. StagesAgree'
  BY <1>1, <1>2 DEF StagesAgree, Recorded
<1>9. CandidatesAreApart'
  BY <1>1, <1>2, <1>3, <1>4 DEF CandidatesAreApart, Refers
<1>10. WorkspacesArePresent'
  BY <1>2 DEF WorkspacesArePresent, Goes_on
<1>11. CommitsAreMade' /\ RecordedIsOnBranch'
  BY <1>1, <1>2, <1>3 DEF CommitsAreMade, RecordedIsOnBranch, Recorded
<1>12. BasesAreInOrder' /\ RecordedInOrder'
  <2>1. ASSUME NEW c \in Cands PROVE Len(worktree'[c].base) <= Len(head')
    <3>1. worktree'[c].base \in {worktree[c].base, <<>>} /\ Len(head) \in Nat
      BY <1>1, <1>2 DEF TypeInv, GitType, NoWorktree, Commit
    <3>2. QED BY <1>2, <3>1 DEF Protocol, BasesAreInOrder
  <2>2. QED BY <1>2, <2>1 DEF Protocol, BasesAreInOrder, Goes_on, RecordedInOrder, Recorded
<1>13. QED
  BY <1>4, <1>5, <1>6, <1>7, <1>8, <1>9, <1>10, <1>11, <1>12 DEF Protocol, TypeInv

LEMMA NextIsOneOf ==
    ASSUME Next
    PROVE  \/ Retires
           \/ \E p \in Procs : Starts(p) \/ Round(p) \/ Leaves(p) \/ Crashes(p) \/ Finishes(p)
           \/ \E p \in Procs, t \in Tasks : TaskStep(p, t)
  BY DEF Next, TaskStep, Prepares, Attempts, Judges, Integrates

LEMMA ProtocolIsKept == ASSUME Protocol, [Next]_vars PROVE Protocol'
<1>1. CASE Next
  BY <1>1, NextIsOneOf, TaskStepsKeepProtocol, StartsKeepsProtocol, RoundKeepsProtocol,
     GoneKeepsProtocol, FinishesKeepsProtocol, RetiresKeepsProtocol
<1>2. CASE UNCHANGED vars
  BY <1>2 DEF vars, kernelVars, gitVars, grantVars, procVars, faultVars, Protocol, TypeInv,
    KernelType, GitType, GrantType, ProcType, FaultType, DeadRest, StagesAgree,
    CandidatesAreApart, Refers, WorkspacesArePresent, Goes_on, CommitsAreMade, CommitIsMade,
    Recorded, RecordedIsOnBranch, BasesAreInOrder, Follows, RecordedInOrder
<1>3. QED BY <1>1, <1>2
-----------------------------------------------------------------------------
(* A single process: what a step of a task does to worktrees and grants.   *)

OnlyGrant(c, state) == disk'[c] = state /\ \A d \in Cands \ {c} : disk'[d] = disk[d]

Makes(p, t, c) ==
    /\ Delegates(p, t) /\ pc[p][t] = "delegating" /\ Delegatable(t)
    /\ NewTree(p, t, c) /\ UNCHANGED disk

Gives(p, t) ==
    /\ Registers(p, t) /\ pc[p][t] = "granting" /\ hold[p][t].new \in Cands
    /\ GrantedTree(p, t) /\ OnlyGrant(hold[p][t].new, "open")

Takes(p, t, c) ==
    /\ (Binds(p, t) /\ ~Agreed(t, hold[p][t].old)) \/ Discards(p, t)
    /\ pc[p][t] \in {"binding", "discarding"}
    /\ OnlyTree(c) /\ worktree'[c].state = "removed" /\ OnlyGrant(c, "closed")
    /\ worktree'[c].sealed = 0 /\ worktree'[c].edit = 0 /\ worktree'[c].writer = 0
    /\ \A u \in Tasks : ws[u] # c

Uses(p, t) ==
    /\ Marks(p, t) /\ pc[p][t] = "marking" /\ UNCHANGED worktree
    /\ disk[ws[t]] = "open" /\ OnlyGrant(ws[t], "used")

Freezes(p, t) ==
    /\ Returns(p, t) /\ pc[p][t] = "working" /\ UNCHANGED worktree
    /\ disk[ws[t]] = "used" /\ OnlyGrant(ws[t], "frozen") /\ Changed(ws[t])

EditsTree(p, t) ==
    /\ Writes(p, t) /\ pc[p][t] = "working" /\ UNCHANGED disk
    /\ disk[ws[t]] = "used" /\ OnlyTree(ws[t])
    /\ worktree'[ws[t]].state = worktree[ws[t]].state /\ worktree'[ws[t]].base = worktree[ws[t]].base
    /\ worktree[ws[t]].sealed = 0 /\ worktree'[ws[t]].sealed = 0
    /\ worktree'[ws[t]].writer = attempts[t]

SealsTree(p, t) ==
    /\ AdvancesHead(p, t) /\ pc[p][t] = "committing" /\ UNCHANGED disk
    /\ disk[ws[t]] = "frozen" /\ OnlyTree(ws[t])
    /\ worktree'[ws[t]].state = worktree[ws[t]].state /\ worktree'[ws[t]].base = worktree[ws[t]].base
    /\ worktree'[ws[t]].edit = worktree[ws[t]].edit /\ worktree'[ws[t]].sealed = worktree[ws[t]].edit
    /\ worktree'[ws[t]].writer = worktree[ws[t]].writer

StoreStep(p, t) ==
    \/ UNCHANGED <<worktree, disk>>
    \/ \E c \in Cands : Makes(p, t, c) \/ Takes(p, t, c)
    \/ Gives(p, t)
    \/ ws[t] \in Cands /\ (Uses(p, t) \/ Freezes(p, t) \/ EditsTree(p, t) \/ SealsTree(p, t))

\* The memory of the one process is the file.
LEMMA MemoryIsDisk ==
    ASSUME TypeInv, OneProcess, NEW p \in Procs, NEW t \in Tasks, TaskStep(p, t)
    PROVE  mem[p] = disk /\ mem'[p] = disk'
<1>1. mem[p] = disk /\ GrantType
  BY StepsAreLocal DEF Frame, OneProcess, TypeInv
<1>2. CASE UNCHANGED grantVars
  BY <1>1, <1>2 DEF grantVars
<1>3. CASE \E g : SavesAs(p, g)
  BY <1>1, <1>3 DEF SavesAs, GrantType
<1> USE DEF SaveGrant
<1>4. CASE Prepares(p, t)
  <2>1. CASE Delegates(p, t) \/ Registers(p, t)
    BY <1>2, <1>3, <2>1 DEF Delegates, Reuses, Builds, Registers
  <2>2. CASE Binds(p, t) \/ Discards(p, t)
    BY <1>2, <1>3, <2>2 DEF Binds, Discards, Removes
  <2>3. QED BY <1>2, <1>3, <1>4, <2>1, <2>2 DEF Prepares, Begins, Marks
<1>5. CASE Attempts(p, t)
  BY <1>2, <1>3, <1>5 DEF Attempts, Writes, GivesUp, Returns, Submits
<1>6. CASE Judges(p, t)
  BY <1>2, <1>3, <1>6 DEF Judges, Validates, Reviews, ChecksBase, Accepts, Lends
<1>7. CASE Integrates(p, t)
  BY <1>2, <1>7 DEF Integrates, StartsIntegration, AdvancesHead, Records
<1>8. CASE Fails(p, t)
  BY <1>2, <1>8 DEF Fails
<1>9. QED BY <1>4, <1>5, <1>6, <1>7, <1>8 DEF TaskStep

LEMMA Saves ==
    ASSUME TypeInv, NEW p \in Procs, mem[p] = disk, NEW c \in Cands, NEW state, SaveGrant(p, c, state)
    PROVE  OnlyGrant(c, state)
  BY DEF SaveGrant, SavesAs, OnlyGrant, TypeInv, GrantType

LEMMA StoreSteps ==
    ASSUME Protocol, Alone, NEW p \in Procs, NEW t \in Tasks, TaskStep(p, t) PROVE StoreStep(p, t)
<1>1. /\ TypeInv /\ ProcType /\ KernelType /\ CandidatesAreApart /\ StagesAgree
      /\ p \in live /\ closed = "no" /\ mem[p] = disk
      /\ hold[p][t].new \in Cands \cup {None} /\ hold[p][t].old \in Cands \cup {None}
      /\ ws[t] \in Cands \cup {None}
  BY StepsAreLocal, MemoryIsDisk
  DEF Protocol, Alone, OneProcess, Frame, TypeInv, ProcType, KernelType, Held
<1>2. /\ pc[p][t] = "marking" => GrantOf(p, t) = "open" /\ hold[p][t].new = ws[t]
      /\ pc[p][t] = "working" =>
             GrantOf(p, t) = "used" /\ hold[p][t].new = ws[t] /\ worktree[ws[t]].sealed = 0
      /\ status[t] = "ACCEPTED" => disk[ws[t]] = "frozen"
  BY <1>1 DEF Alone, AttemptsAgree, SubmittedStays
<1>3. CASE UNCHANGED <<worktree, disk>>
  BY <1>3 DEF StoreStep
<1> USE DEF StoreStep, At
<1>4. CASE Delegates(p, t)
  <2>1. CASE Builds(p, t) /\ Delegatable(t)
    <3>1. PICK c \in Cands : NewTree(p, t, c)
      BY <1>1, <2>1, BuildsTree
    <3>2. QED BY <1>4, <2>1, <3>1 DEF Makes, NewTree, Delegates, grantVars
  <2>2. QED BY <1>3, <1>4, <2>1 DEF Delegates, Reuses, gitVars, grantVars
<1>r. CASE Registers(p, t)
  <2>1. GrantedTree(p, t) /\ pc[p][t] = "granting"
    BY <1>1, <1>r, RegistersTree DEF Registers
  <2>2. hold[p][t].new \in Cands
    BY <1>1, <2>1 DEF CandidatesAreApart
  <2>3. OnlyGrant(hold[p][t].new, "open")
    BY <1>1, <2>1, <2>2, Saves DEF GrantedTree
  <2>4. QED BY <1>r, <2>1, <2>2, <2>3 DEF Gives
<1>5. CASE Binds(p, t)
  <2>1. CASE /\ ~Agreed(t, hold[p][t].old)
             /\ Holds(p, hold[p][t].new) /\ Removes(p, hold[p][t].new)
    <3>1. hold[p][t].new \in Cands /\ \A u \in Tasks : ws[u] # hold[p][t].new
      BY <1>1, <1>5, <2>1 DEF Binds, CandidatesAreApart, Holds
    <3>2. OnlyGrant(hold[p][t].new, "closed")
      BY <1>1, <2>1, <3>1, Saves DEF Removes
    <3>3. QED BY <1>1, <1>5, <2>1, <3>1, <3>2, RemovesTree DEF Takes, Binds
  <2>2. QED BY <1>3, <1>5, <2>1 DEF Binds, gitVars, grantVars
<1>6. CASE Discards(p, t)
  <2>1. CASE Holds(p, hold[p][t].old) /\ Removes(p, hold[p][t].old)
    <3>1. hold[p][t].old \in Cands /\ \A u \in Tasks : ws[u] # hold[p][t].old
      BY <1>1, <1>6, <2>1 DEF Discards, CandidatesAreApart, Holds
    <3>2. OnlyGrant(hold[p][t].old, "closed")
      BY <1>1, <2>1, <3>1, Saves DEF Removes
    <3>3. QED BY <1>1, <1>6, <2>1, <3>1, <3>2, RemovesTree DEF Takes, Discards
  <2>2. QED BY <1>3, <1>6, <2>1 DEF Discards, gitVars, grantVars
<1>7. CASE Marks(p, t)
  <2>1. CASE Holds(p, ws[t]) /\ SaveGrant(p, ws[t], "used")
    <3>1. ws[t] \in Cands
      BY <1>1, <2>1 DEF Holds
    <3>2. OnlyGrant(ws[t], "used")
      BY <1>1, <2>1, <3>1, Saves
    <3>3. QED BY <1>2, <1>7, <3>1, <3>2 DEF Marks, Uses, GrantOf, gitVars
  <2>2. QED BY <1>2, <1>3, <1>7, <2>1 DEF Marks, gitVars, grantVars
<1>8. CASE Writes(p, t)
  <2>1. pc[p][t] = "working" /\ UNCHANGED disk
    BY <1>8 DEF Writes, CanWrite, grantVars
  <2>2. QED BY <1>1, <1>2, <1>8, <2>1, WritesInTree DEF EditsTree, GrantOf
<1>9. CASE Returns(p, t)
  <2>1. CASE Holds(p, ws[t]) /\ Changed(ws[t])
    <3>1. ws[t] \in Cands /\ SaveGrant(p, ws[t], "frozen") /\ UNCHANGED worktree
      BY <1>1, <1>9, <2>1 DEF Holds, Returns, Frozen, gitVars
    <3>2. OnlyGrant(ws[t], "frozen")
      BY <1>1, <3>1, Saves
    <3>3. QED BY <1>2, <1>9, <2>1, <3>1, <3>2 DEF Returns, Freezes, GrantOf
  <2>2. QED BY <1>3, <1>9, <2>1 DEF Returns, gitVars, grantVars
<1>10. CASE AdvancesHead(p, t)
  <2>1. CASE UNCHANGED worktree
    BY <1>3, <1>10, <2>1 DEF AdvancesHead, grantVars
  <2>2. CASE ~UNCHANGED worktree
    <3>1. pc[p][t] = "committing" /\ status[t] = "ACCEPTED" /\ UNCHANGED disk
      BY <1>1, <1>10 DEF AdvancesHead, StagesAgree, Final, grantVars
    <3>2. QED BY <1>1, <1>2, <1>10, <2>2, <3>1, AdvancesInTree DEF SealsTree
  <2>3. QED BY <2>1, <2>2
<1>11. CASE Begins(p, t) \/ GivesUp(p, t) \/ Submits(p, t)
  BY <1>3, <1>11 DEF Begins, GivesUp, Submits, gitVars, grantVars
<1>12. CASE Judges(p, t)
  BY <1>1, <1>3, <1>12 DEF Judges, Validates, Reviews, ChecksBase, Accepts, Lends, SavesAs,
    gitVars, grantVars
<1>13. CASE StartsIntegration(p, t) \/ Records(p, t) \/ Fails(p, t)
  BY <1>3, <1>13 DEF StartsIntegration, Records, Fails, gitVars, grantVars
<1>14. QED
  BY <1>4, <1>r, <1>5, <1>6, <1>7, <1>8, <1>9, <1>10, <1>11, <1>12, <1>13
  DEF TaskStep, Prepares, Attempts, Integrates

\* The workspace of another task, or of work that is submitted, is left as it is.
LEMMA OthersStand ==
    ASSUME Protocol, Alone, NEW p \in Procs, NEW t \in Tasks, TaskStep(p, t),
           NEW u \in Tasks, ws[u] # None, u # t \/ status[u] \in {"SUBMITTED", "ACCEPTED"}
    PROVE  /\ ws'[u] = ws[u] /\ ws[u] \in Cands /\ disk'[ws[u]] = disk[ws[u]]
           /\ worktree'[ws[u]].base = worktree[ws[u]].base
           /\ worktree'[ws[u]].edit = worktree[ws[u]].edit
           /\ worktree'[ws[u]].writer = worktree[ws[u]].writer
           /\ u # t => worktree'[ws[u]].sealed = worktree[ws[u]].sealed
<1>1. /\ TypeInv /\ KernelType /\ CandidatesAreApart /\ ws[u] \in Cands /\ closed = "no"
      /\ \A v \in Tasks \ {u} : ws[v] # ws[u]
      /\ status[u] \in {"SUBMITTED", "ACCEPTED"} => disk[ws[u]] = "frozen"
  BY StepsAreLocal
  DEF Protocol, TypeInv, KernelType, CandidatesAreApart, Alone, SubmittedStays, OneProcess, Frame
<1>2. ws'[u] = ws[u]
  BY WorkspaceIsKept DEF Delegatable
<1>3. CASE UNCHANGED <<worktree, disk>>
  BY <1>1, <1>2, <1>3
<1>4. CASE \E c \in Cands : Makes(p, t, c)
  <2>1. PICK c \in Cands : Makes(p, t, c)
    BY <1>4
  <2>2. worktree[c].state = "unused" /\ OnlyTree(c) /\ UNCHANGED disk
    BY <2>1 DEF Makes, NewTree, Fresh
  <2>3. ws[u] # c
    BY <1>1, <2>2 DEF CandidatesAreApart
  <2>4. QED BY <1>1, <1>2, <2>2, <2>3 DEF OnlyTree
<1>5. CASE Gives(p, t)
  <2>1. /\ hold[p][t].new # ws[u] /\ hold[p][t].old = ws[t] /\ p \in live
        /\ u # t => ws[u] # ws[t]
    BY <1>1, <1>5, StepsAreLocal
    DEF Gives, CandidatesAreApart, Alone, AttemptsAgree, Frame
  <2>2. QED BY <1>1, <1>2, <1>5, <2>1 DEF Gives, GrantedTree, OnlyGrant
<1>6. CASE \E c \in Cands : Takes(p, t, c)
  BY <1>1, <1>2, <1>6 DEF Takes, OnlyTree, OnlyGrant
<1>7. CASE Uses(p, t) \/ Freezes(p, t)
  BY <1>1, <1>2, <1>7 DEF Uses, Freezes, OnlyGrant
<1>8. CASE ws[t] \in Cands /\ EditsTree(p, t)
  BY <1>1, <1>2, <1>8 DEF EditsTree, OnlyTree
<1>9. CASE ws[t] \in Cands /\ SealsTree(p, t)
  BY <1>1, <1>2, <1>9 DEF SealsTree, OnlyTree
<1>10. QED
  BY <1>3, <1>4, <1>5, <1>6, <1>7, <1>8, <1>9, StoreSteps DEF StoreStep

LEMMA GrantsStayAgreed ==
    ASSUME Protocol, Alone, NEW p \in Procs, NEW t \in Tasks, TaskStep(p, t)
    PROVE  GrantsAgree'
<1>1. /\ closed = "no" /\ closed' = "no" /\ p \in live /\ GrantsAgree /\ TypeInv /\ KernelType
      /\ ProcType /\ CandidatesAreApart /\ AttemptsAgree /\ Frame(p, t)
  BY StepsAreLocal DEF Protocol, Alone, OneProcess, Frame, TypeInv
<1>2. ASSUME NEW d \in Cands
      PROVE  /\ worktree'[d].state = "unused" => disk'[d] = "absent"
             /\ disk'[d] \in Usable => worktree'[d].state = "present"
             /\ worktree'[d].state = "present" => disk'[d] \in Usable \cup {"absent"}
             /\ disk[d] # "absent" => disk'[d] # "absent"
  <2> USE DEF Usable, OnlyTree, OnlyGrant
  <2>0. /\ worktree[d].state = "unused" => disk[d] = "absent"
        /\ disk[d] \in Usable => worktree[d].state = "present"
        /\ worktree[d].state = "present" => disk[d] \in Usable \cup {"absent"}
    BY <1>1 DEF GrantsAgree
  <2>1. CASE UNCHANGED <<worktree, disk>>
    BY <2>0, <2>1
  <2>2. CASE \E c \in Cands : Makes(p, t, c)
    BY <2>0, <2>2 DEF Makes, NewTree, Fresh
  <2>g. CASE Gives(p, t)
    <3>1. worktree[hold[p][t].new].state = "present"
      BY <1>1, <2>g DEF Gives, CandidatesAreApart
    <3>2. QED BY <2>0, <2>g, <3>1 DEF Gives, GrantedTree
  <2>3. CASE \E c \in Cands : Takes(p, t, c)
    BY <2>0, <2>3 DEF Takes
  <2>4. CASE ws[t] \in Cands /\ (Uses(p, t) \/ Freezes(p, t))
    BY <2>0, <2>4 DEF Uses, Freezes
  <2>5. CASE ws[t] \in Cands /\ (EditsTree(p, t) \/ SealsTree(p, t))
    BY <2>0, <2>5 DEF EditsTree, SealsTree
  <2>6. QED BY <2>1, <2>2, <2>g, <2>3, <2>4, <2>5, StoreSteps DEF StoreStep
<1>3. ASSUME NEW u \in Tasks, ws'[u] # None PROVE disk'[ws'[u]] # "absent"
  <2>1. CASE ws'[u] = ws[u]
    <3>1. ws[u] \in Cands /\ disk[ws[u]] # "absent"
      BY <1>1, <1>3, <2>1 DEF KernelType, GrantsAgree
    <3>2. QED BY <1>2, <2>1, <3>1
  <2>2. CASE ws'[u] # ws[u]
    <3>1. Binds(p, t) /\ Agreed(t, hold[p][t].old)
      BY <2>2, QuietSteps DEF Hands, Quiet, Delegates, Registers, kernelVars
    <3>2. ws' = [ws EXCEPT ![t] = hold[p][t].new] /\ UNCHANGED disk /\ pc[p][t] = "binding"
      BY <3>1 DEF Binds, At, grantVars
    <3>3. ws'[u] = hold[p][t].new /\ disk[hold[p][t].new] = "open"
      BY <1>1, <2>2, <3>2 DEF KernelType, AttemptsAgree, GrantOf
    <3>4. QED BY <3>2, <3>3
  <2>3. QED BY <2>1, <2>2
<1>4. QED BY <1>1, <1>2, <1>3 DEF GrantsAgree, Usable

LEMMA FewOrphans ==
    ASSUME TypeInv, Cardinality(Orphans) <= faults,
           \/ Orphans' \subseteq Orphans /\ faults' \in {faults, faults + 1}
           \/ \E c : Orphans' \subseteq Orphans \cup {c} /\ faults' = faults + 1
    PROVE  Cardinality(Orphans') <= faults'
<1>1. faults \in Nat /\ IsFiniteSet(Cands)
  BY FS_Interval DEF TypeInv, FaultType, Cands
<1>2. IsFiniteSet(Orphans) /\ Cardinality(Orphans) \in Nat
  BY <1>1, FS_Subset, FS_CardinalityType DEF Orphans
<1>3. CASE Orphans' \subseteq Orphans /\ faults' \in {faults, faults + 1}
  <2>1. Cardinality(Orphans') \in Nat /\ Cardinality(Orphans') <= Cardinality(Orphans)
    BY <1>2, <1>3, FS_Subset, FS_CardinalityType
  <2>2. QED BY <1>1, <1>2, <1>3, <2>1
<1>4. ASSUME NEW c, Orphans' \subseteq Orphans \cup {c}, faults' = faults + 1
      PROVE  Cardinality(Orphans') <= faults'
  <2>1. /\ IsFiniteSet(Orphans \cup {c}) /\ Cardinality(Orphans \cup {c}) \in Nat
        /\ Cardinality(Orphans \cup {c}) <= Cardinality(Orphans) + 1
    <3>1. /\ IsFiniteSet(Orphans \cup {c})
          /\ Cardinality(Orphans \cup {c}) =
                 IF c \in Orphans THEN Cardinality(Orphans) ELSE Cardinality(Orphans) + 1
      BY <1>2, FS_AddElement, Zenon
    <3>2. QED BY <1>2, <3>1
  <2>2. Cardinality(Orphans') \in Nat /\ Cardinality(Orphans') <= Cardinality(Orphans \cup {c})
    BY <1>4, <2>1, FS_Subset, FS_CardinalityType
  <2>3. QED BY <1>1, <1>2, <1>4, <2>1, <2>2
<1>5. QED BY <1>3, <1>4

LEMMA GrantingSteps ==
    ASSUME NEW p \in Procs, NEW t \in Tasks, TaskStep(p, t), pc[p][t] = "granting"
    PROVE  Registers(p, t) \/ Fails(p, t)
  BY DEF TaskStep, Prepares, Attempts, Judges, Integrates, At, Delegates, Binds, Discards,
    Begins, Marks, Writes, CanWrite, GivesUp, Returns, Submits, Validates, Reviews, ChecksBase,
    Accepts, StartsIntegration, AdvancesHead, Records

\* Only a worktree in the making loses its process.
LEMMA OrphansStayFew ==
    ASSUME Protocol, Alone, NEW p \in Procs, NEW t \in Tasks, TaskStep(p, t)
    PROVE  OrphansAreFew'
<1>1. /\ TypeInv /\ ProcType /\ Frame(p, t) /\ p \in live /\ closed' = "no" /\ live' = live
      /\ Cardinality(Orphans) <= faults /\ live \subseteq Procs /\ AttemptsAgree
      /\ faults' \in {faults, faults + 1}
  BY StepsAreLocal DEF Protocol, TypeInv, Alone, OneProcess, Frame, OrphansAreFew, FaultType
<1>2. ASSUME NEW c \in Cands, Granting(c), ~Granting(c)'
      PROVE  pc[p][t] = "granting" /\ hold[p][t].new = c
  <2>1. PICK q \in live, u \in Tasks : pc[q][u] = "granting" /\ hold[q][u].new = c
    BY <1>2 DEF Granting
  <2>2. ~(pc'[q][u] = "granting" /\ hold'[q][u].new = c)
    BY <1>1, <1>2, <2>1 DEF Granting
  <2>3. q = p /\ u = t
    BY <1>1, <2>1, <2>2 DEF Frame
  <2>4. QED BY <2>1, <2>3
<1>3. CASE Fails(p, t)
  <2>1. UNCHANGED <<worktree, disk>> /\ faults' = faults + 1
    BY <1>3 DEF Fails, gitVars, grantVars
  <2>2. Orphans' \subseteq Orphans \cup {hold[p][t].new}
    BY <1>2, <2>1 DEF Orphans
  <2>3. QED BY <1>1, <2>1, <2>2, FewOrphans DEF OrphansAreFew
<1>4. CASE ~Fails(p, t)
  <2>1. ASSUME NEW c \in Orphans' PROVE c \in Orphans
    <3> USE DEF OnlyTree, OnlyGrant
    <3>0. c \in Cands /\ worktree'[c].state = "present" /\ disk'[c] = "absent" /\ ~Granting(c)'
      BY <2>1 DEF Orphans
    <3>1. CASE Gives(p, t)
      <4>1. c # hold[p][t].new
        BY <3>0, <3>1 DEF Gives
      <4>2. worktree[c].state = "present" /\ disk[c] = "absent"
        BY <3>0, <3>1, <4>1 DEF Gives, GrantedTree
      <4>3. ~Granting(c)
        BY <1>2, <3>0, <4>1
      <4>4. QED BY <3>0, <4>2, <4>3 DEF Orphans
    <3>2. CASE ~Gives(p, t)
      <4>1. ~Registers(p, t)
        <5>1. ASSUME Registers(p, t) PROVE FALSE
          <6>1. GrantedTree(p, t) /\ pc[p][t] = "granting" /\ mem[p] = disk
            BY <1>1, <5>1, RegistersTree, MemoryIsDisk DEF Registers, At, Alone
          <6>2. hold[p][t].new \in Cands
            BY <1>1, <6>1 DEF AttemptsAgree, ProcType, Held
          <6>3. OnlyGrant(hold[p][t].new, "open")
            BY <1>1, <6>1, <6>2, Saves DEF GrantedTree
          <6>4. QED BY <3>2, <5>1, <6>1, <6>2, <6>3 DEF Gives
        <5>2. QED BY <5>1
      <4>2. ~Granting(c)
        BY <1>2, <1>4, <3>0, <4>1, GrantingSteps
      <4>3. CASE UNCHANGED <<worktree, disk>>
        BY <3>0, <4>2, <4>3 DEF Orphans
      <4>4. CASE \E d \in Cands : Makes(p, t, d)
        <5>1. PICK d \in Cands : Makes(p, t, d)
          BY <4>4
        <5>2. pc'[p][t] = "granting" /\ hold'[p][t].new = d
          BY <1>1, <5>1 DEF Makes, NewTree, ProcType
        <5>3. c # d
          BY <1>1, <3>0, <5>2 DEF Granting
        <5>4. QED BY <3>0, <4>2, <5>1, <5>3 DEF Makes, NewTree, Orphans
      <4>5. CASE \E d \in Cands : Takes(p, t, d)
        BY <3>0, <4>2, <4>5 DEF Takes, Orphans
      <4>6. CASE ws[t] \in Cands /\ (Uses(p, t) \/ Freezes(p, t))
        BY <3>0, <4>2, <4>6 DEF Uses, Freezes, Orphans
      <4>7. CASE ws[t] \in Cands /\ (EditsTree(p, t) \/ SealsTree(p, t))
        BY <3>0, <4>2, <4>7 DEF EditsTree, SealsTree, Orphans
      <4>8. QED BY <3>2, <4>3, <4>4, <4>5, <4>6, <4>7, StoreSteps DEF StoreStep
    <3>3. QED BY <3>1, <3>2
  <2>2. QED BY <1>1, <2>1, FewOrphans DEF OrphansAreFew
<1>5. QED BY <1>3, <1>4

\* How the status and the attempts of a task move.
StatusStep(p, t) ==
    /\ status'[t] = "PLANNED" => status[t] = "PLANNED" /\ ws'[t] = ws[t]
    /\ status'[t] \in {"SUBMITTED", "ACCEPTED"} =>
           status[t] \in {"SUBMITTED", "ACCEPTED"} \/ (Submits(p, t) /\ Mine(p, t) /\ Holds(p, ws[t]))
    /\ status'[t] = "RUNNING" => status[t] = "RUNNING" \/ (Begins(p, t) /\ Delegatable(t))
    /\ attempts'[t] = attempts[t] \/ (Begins(p, t) /\ attempts'[t] = attempts[t] + 1)
    /\ pc'[p][t] = "marking" => attempts'[t] = attempts[t] + 1
    /\ status'[t] = "ACCEPTED" =>
           status[t] = "ACCEPTED" \/ (Accepts(p, t) /\ pc'[p][t] = "integrating")

LEMMA StatusSteps ==
    ASSUME Protocol, NEW p \in Procs, NEW t \in Tasks, TaskStep(p, t) PROVE StatusStep(p, t)
<1>1. KernelType /\ ProcType /\ TypeInv
      /\ (pc[p][t] \in Judging => status[t] = "SUBMITTED")
  BY DEF Protocol, TypeInv, StagesAgree
<1>2. Leads(p, t)
  BY <1>1, StagesAreLed
<1> USE DEF StatusStep, kernelVars, Leads
<1>3. CASE UNCHANGED kernelVars /\ ~Begins(p, t)
  BY <1>2, <1>3
<1>4. CASE Recovers(t) /\ ~Begins(p, t)
  BY <1>1, <1>2, <1>4, Recovering
<1>5. CASE FailsMine(p, t) /\ ~Begins(p, t)
  BY <1>1, <1>2, <1>3, <1>4, <1>5 DEF FailsMine
<1>6. CASE Escalates(t) /\ ~Begins(p, t)
  BY <1>1, <1>2, <1>6, Recovering
<1>7. CASE Begins(p, t)
  BY <1>1, <1>2, <1>7, MovesThere DEF Begins, KernelType
<1>8. CASE Binds(p, t) /\ ~Begins(p, t)
  BY <1>1, <1>2, <1>3, <1>8 DEF Binds, KernelType
<1>9. CASE Submits(p, t) /\ ~Begins(p, t)
  BY <1>1, <1>2, <1>5, <1>9 DEF Submits, KernelType
<1>10. CASE Accepts(p, t) /\ ~Begins(p, t)
  BY <1>1, <1>2, <1>3, <1>10, MovesThere DEF Accepts, At, Judging, KernelType
<1>11. CASE Records(p, t) /\ ~Begins(p, t)
  BY <1>1, <1>2, <1>11 DEF Records
<1>12. QED
  BY <1>3, <1>4, <1>5, <1>6, <1>7, <1>8, <1>9, <1>10, <1>11
  DEF TaskStep, Fails, Prepares, Delegates, Registers, Discards, Marks, Attempts, Writes, GivesUp, Returns,
    Judges, Validates, Reviews, Verdict, ChecksBase, Integrates, StartsIntegration, AdvancesHead

LEMMA CandidatesStayAgreed ==
    ASSUME Protocol, Alone, NEW p \in Procs, NEW t \in Tasks, TaskStep(p, t)
    PROVE  CandidatesAgree'
<1>1. /\ TypeInv /\ KernelType /\ CandidatesAgree /\ CandidatesAreApart /\ Frame(p, t)
      /\ p \in live /\ StatusStep(p, t) /\ AttemptsAgree
  BY StepsAreLocal, StatusSteps DEF Protocol, TypeInv, Alone, Frame
<1>2. ASSUME NEW d \in Cands
      PROVE  /\ disk'[d] = "open" => worktree'[d].writer = 0 /\ worktree'[d].sealed = 0
             /\ worktree'[d].sealed \in {0, worktree'[d].edit}
  <2>0. /\ disk[d] = "open" => worktree[d].writer = 0 /\ worktree[d].sealed = 0
        /\ worktree[d].sealed \in {0, worktree[d].edit}
    BY <1>1 DEF CandidatesAgree
  <2> USE DEF OnlyTree, OnlyGrant
  <2>1. CASE UNCHANGED <<worktree, disk>>
    BY <2>0, <2>1
  <2>2. CASE \E c \in Cands : Makes(p, t, c)
    BY <2>0, <2>2 DEF Makes, NewTree
  <2>g. CASE Gives(p, t)
    <3>1. /\ hold[p][t].old = ws[t] /\ (ws[t] # None => disk[ws[t]] # "open")
          /\ worktree[hold[p][t].new].writer = 0 /\ worktree[hold[p][t].new].sealed = 0
      BY <1>1, <2>g DEF Gives, AttemptsAgree
    <3>2. CASE d = hold[p][t].new
      BY <2>g, <3>1, <3>2 DEF Gives, GrantedTree
    <3>3. CASE d # hold[p][t].new
      <4>1. /\ disk'[d] = disk[d] /\ worktree'[d].edit = worktree[d].edit
            /\ worktree'[d].writer = worktree[d].writer
            /\ worktree'[d].sealed # worktree[d].sealed =>
                   worktree'[d].sealed = worktree[d].edit /\ disk[d] # "open"
        BY <2>g, <3>1, <3>3 DEF Gives, GrantedTree, Cands
      <4>2. QED BY <2>0, <4>1
    <3>4. QED BY <3>2, <3>3
  <2>3. CASE \E c \in Cands : Takes(p, t, c)
    BY <2>0, <2>3 DEF Takes
  <2>4. CASE ws[t] \in Cands /\ (Uses(p, t) \/ Freezes(p, t))
    BY <2>0, <2>4 DEF Uses, Freezes
  <2>5. CASE ws[t] \in Cands /\ (EditsTree(p, t) \/ SealsTree(p, t))
    BY <2>0, <2>5 DEF EditsTree, SealsTree
  <2>6. QED BY <2>1, <2>2, <2>g, <2>3, <2>4, <2>5, StoreSteps DEF StoreStep
<1>3. ASSUME NEW u \in Tasks, ws'[u] # None
      PROVE  status'[u] # "PLANNED" /\ (disk'[ws'[u]] \in {"used", "frozen"} => attempts'[u] > 0)
  <2>1. CASE u # t
    <3>1. ws[u] # None /\ status'[u] = status[u] /\ attempts'[u] = attempts[u]
      BY <1>1, <1>3, <2>1 DEF Frame
    <3>2. QED BY <1>1, <2>1, <3>1, OthersStand DEF CandidatesAgree
  <2>2. CASE u = t
    <3>0. /\ attempts[t] \in Nat /\ ws[t] \in Cands \cup {None}
          /\ attempts'[t] \in {attempts[t], attempts[t] + 1}
      BY <1>1 DEF KernelType, StatusStep
    <3>1. CASE ws'[t] = ws[t]
      <4>1. ws[t] \in Cands /\ status'[t] # "PLANNED"
        BY <1>1, <1>3, <2>2, <3>0, <3>1 DEF CandidatesAgree, StatusStep
      <4>2. CASE disk'[ws[t]] = disk[ws[t]]
        <5>1. disk[ws[t]] \in {"used", "frozen"} => attempts[t] > 0
          BY <1>1, <1>3, <2>2, <3>1 DEF CandidatesAgree
        <5>2. disk'[ws'[t]] \in {"used", "frozen"} => attempts'[t] > 0
          BY <3>0, <3>1, <4>2, <5>1
        <5>3. QED BY <2>2, <4>1, <5>2
      <4>3. CASE disk'[ws[t]] # disk[ws[t]]
        <5>1. disk'[ws[t]] \notin {"used", "frozen"} \/ pc[p][t] \in {"marking", "working"}
          BY <4>1, <4>3, StoreSteps
          DEF StoreStep, Makes, Gives, Takes, Uses, Freezes, EditsTree, SealsTree, OnlyGrant
        <5>2. pc[p][t] \in {"marking", "working"} => attempts[t] > 0
          BY <1>1 DEF AttemptsAgree
        <5>3. disk'[ws'[t]] \in {"used", "frozen"} => attempts'[t] > 0
          BY <3>0, <3>1, <5>1, <5>2
        <5>4. QED BY <2>2, <4>1, <5>3
      <4>4. QED BY <4>2, <4>3
    <3>2. CASE ws'[t] # ws[t]
      <4>1. Binds(p, t) /\ Agreed(t, hold[p][t].old)
        BY <3>2, QuietSteps DEF Hands, Quiet, Delegates, Registers, kernelVars
      <4>2. /\ ws' = [ws EXCEPT ![t] = hold[p][t].new] /\ UNCHANGED disk
            /\ status' = [status EXCEPT ![t] = "READY"] /\ pc[p][t] = "binding"
        BY <4>1 DEF Binds, At, grantVars
      <4>3. GrantOf(p, t) = "open" /\ ws'[t] = hold[p][t].new /\ status'[t] = "READY"
        BY <1>1, <4>2 DEF AttemptsAgree, KernelType
      <4>4. QED BY <2>2, <4>2, <4>3 DEF GrantOf
    <3>3. QED BY <3>1, <3>2
  <2>3. QED BY <2>1, <2>2
<1>4. QED BY <1>2, <1>3 DEF CandidatesAgree

LEMMA AttemptsStayAgreed ==
    ASSUME Protocol, Alone, NEW p \in Procs, NEW t \in Tasks, TaskStep(p, t)
    PROVE  AttemptsAgree'
<1>1. /\ TypeInv /\ KernelType /\ ProcType /\ CandidatesAreApart /\ Frame(p, t)
      /\ CandidatesAgree /\ StatusStep(p, t) /\ AttemptsAgree /\ Leads(p, t)
      /\ live' = live /\ p \in live /\ live \subseteq Procs /\ mem[p] = disk
      /\ \A q \in live : q = p
  BY StepsAreLocal, StatusSteps, StagesAreLed, MemoryIsDisk
  DEF Protocol, TypeInv, Alone, OneProcess, Frame, FaultType
<1>2. ASSUME NEW u \in Tasks \ {t}
      PROVE  /\ pc'[p][u] \notin {"granting", "binding", "discarding", "starting", "marking",
                                   "submitting"}
             /\ pc'[p][u] = "working" =>
                    /\ hold'[p][u].new # None /\ hold'[p][u].new = ws'[u]
                    /\ disk'[hold'[p][u].new] = "used" /\ worktree'[ws'[u]].sealed = 0
                    /\ worktree'[ws'[u]].writer \in {0, attempts'[u]} /\ attempts'[u] > 0
  <2>1. /\ pc'[p][u] = pc[p][u] /\ hold'[p][u] = hold[p][u] /\ pc[p][u] \notin Sync
        /\ attempts'[u] = attempts[u]
    BY <1>1 DEF Frame
  <2>2. ASSUME pc[p][u] = "working"
        PROVE  /\ hold[p][u].new = ws[u] /\ disk[hold[p][u].new] = "used" /\ ws[u] # None
               /\ worktree[ws[u]].sealed = 0
               /\ worktree[ws[u]].writer \in {0, attempts[u]} /\ attempts[u] > 0
    <3>1. ws[u] # None
      BY <2>2 DEF Protocol, StagesAgree, Bound
    <3>2. QED BY <1>1, <2>2, <3>1 DEF AttemptsAgree, GrantOf
  <2>3. QED BY <2>1, <2>2, OthersStand DEF Sync
<1>g. ASSUME pc'[p][t] = "granting"
      PROVE  /\ hold'[p][t].new # None /\ disk'[hold'[p][t].new] = "absent"
             /\ worktree'[hold'[p][t].new].writer = 0 /\ worktree'[hold'[p][t].new].sealed = 0
             /\ hold'[p][t].old = ws'[t] /\ (ws'[t] # None => disk'[ws'[t]] # "open")
  <2>1. /\ Builds(p, t) /\ UNCHANGED <<ws, disk>>
        /\ ws[t] = None \/ disk[ws[t]] # "open"
    BY <1>1, <1>g DEF Leads, Delegates, Builds, kernelVars, grantVars
  <2>2. PICK c \in Cands : NewTree(p, t, c)
    BY <1>1, <2>1, BuildsTree
  <2>3. hold'[p][t].new = c /\ hold'[p][t].old = ws[t] /\ disk[c] = "absent"
    BY <1>1, <2>2 DEF NewTree, ProcType, Fresh, Alone, GrantsAgree
  <2>4. QED BY <2>1, <2>2, <2>3 DEF Cands, NewTree
<1>3. ASSUME pc'[p][t] = "binding" PROVE hold'[p][t].new # None /\ disk'[hold'[p][t].new] = "open"
  <2>1. GrantedTree(p, t) /\ pc[p][t] = "granting"
    BY <1>1, <1>3, RegistersTree DEF Leads, Registers, At
  <2>2. hold'[p][t].new = hold[p][t].new /\ hold[p][t].new # None /\ hold[p][t].new \in Cands
    BY <1>1, <2>1 DEF GrantedTree, Goes, AttemptsAgree, ProcType, Held
  <2>3. QED BY <1>1, <2>1, <2>2, Saves DEF GrantedTree, OnlyGrant
<1>4. ASSUME pc'[p][t] \in {"discarding", "starting"}
      PROVE  /\ hold'[p][t].new # None /\ disk'[hold'[p][t].new] = "open"
             /\ hold'[p][t].new = ws'[t]
  <2>1. CASE Delegates(p, t) /\ Reuses(p, t)
    BY <1>1, <2>1 DEF Delegates, Reuses, Holds, ProcType, kernelVars, grantVars
  <2>2. CASE Binds(p, t)
    <3>1. /\ hold[p][t].new # None /\ GrantOf(p, t) = "open" /\ hold'[p][t] = hold[p][t]
          /\ ws'[t] = hold[p][t].new /\ UNCHANGED disk
      BY <1>1, <1>4, <2>2, MovesThere
      DEF Binds, At, Goes, AttemptsAgree, KernelType, grantVars
    <3>2. QED BY <3>1 DEF GrantOf
  <2>3. CASE Discards(p, t)
    <3>1. pc[p][t] = "discarding" /\ Goes(p, t, "starting") /\ UNCHANGED ws
          /\ Holds(p, hold[p][t].old) /\ Removes(p, hold[p][t].old)
      BY <1>1, <1>4, <2>3, MovesThere DEF Discards, At, kernelVars
    <3>2. /\ hold[p][t].new = ws[t] /\ GrantOf(p, t) = "open" /\ hold'[p][t] = hold[p][t]
          /\ hold[p][t].new # None /\ hold[p][t].old # ws[t]
      BY <1>1, <3>1 DEF AttemptsAgree, CandidatesAreApart, Goes
    <3>3. hold[p][t].old \in Cands /\ ws[t] \in Cands
      BY <1>1, <3>1, <3>2 DEF ProcType, Held, Holds, KernelType
    <3>4. OnlyGrant(hold[p][t].old, "closed")
      BY <1>1, <3>1, <3>3, Saves DEF Removes
    <3>5. QED BY <3>1, <3>2, <3>3, <3>4 DEF OnlyGrant, GrantOf
  <2>4. QED BY <1>1, <1>4, <2>1, <2>2, <2>3 DEF Leads
<1>5. ASSUME pc'[p][t] = "marking"
      PROVE  /\ hold'[p][t].new # None /\ disk'[hold'[p][t].new] = "open"
             /\ hold'[p][t].new = ws'[t] /\ attempts'[t] > 0
  <2>1. Begins(p, t) /\ attempts'[t] = attempts[t] + 1 /\ attempts[t] \in Nat
    BY <1>1, <1>5 DEF Leads, StatusStep, KernelType
  <2>2. pc[p][t] = "starting" /\ hold'[p][t] = hold[p][t] /\ UNCHANGED <<ws, disk>>
    BY <1>1, <1>5, <2>1, MovesThere DEF Begins, At, grantVars, Goes
  <2>3. QED BY <1>1, <2>1, <2>2 DEF AttemptsAgree, GrantOf
<1>6. ASSUME pc'[p][t] = "working"
      PROVE  /\ hold'[p][t].new = ws'[t] /\ disk'[hold'[p][t].new] = "used"
             /\ worktree'[ws'[t]].sealed = 0
             /\ worktree'[ws'[t]].writer \in {0, attempts'[t]} /\ attempts'[t] > 0
  <2>1. CASE Marks(p, t)
    <3>1. /\ pc[p][t] = "marking" /\ hold'[p][t] = hold[p][t] /\ UNCHANGED <<ws, attempts, worktree>>
          /\ SaveGrant(p, hold[p][t].new, "used") /\ hold[p][t].new = ws[t]
          /\ disk[ws[t]] = "open" /\ attempts[t] > 0 /\ ws[t] \in Cands
      BY <1>1, <1>6, <2>1, MovesThere
      DEF Marks, At, Goes, AttemptsAgree, GrantOf, kernelVars, gitVars, KernelType
    <3>2. OnlyGrant(ws[t], "used")
      BY <1>1, <3>1, Saves
    <3>3. QED BY <1>1, <3>1, <3>2 DEF OnlyGrant, CandidatesAgree
  <2>2. CASE Writes(p, t)
    <3>1. /\ pc[p][t] = "working" /\ hold' = hold /\ UNCHANGED <<ws, attempts, disk>>
      BY <2>2 DEF Writes, CanWrite, procVars, kernelVars, grantVars
    <3>2. /\ hold[p][t].new = ws[t] /\ GrantOf(p, t) = "used" /\ worktree[ws[t]].sealed = 0
          /\ attempts[t] > 0
      BY <1>1, <3>1 DEF AttemptsAgree
    <3>3. worktree'[ws[t]].sealed = 0 /\ worktree'[ws[t]].writer = attempts[t]
      BY <1>1, <2>2, <3>2, WritesInTree
    <3>4. QED BY <3>1, <3>2, <3>3 DEF GrantOf
  <2>3. QED BY <1>1, <1>6, <2>1, <2>2 DEF Leads
<1>7. ASSUME pc'[p][t] = "submitting"
      PROVE  disk'[ws'[t]] = "frozen" /\ worktree'[ws'[t]].edit # 0 /\ attempts'[t] > 0
  <2>1. /\ pc[p][t] = "working" /\ Holds(p, ws[t]) /\ Changed(ws[t])
        /\ SaveGrant(p, ws[t], "frozen") /\ UNCHANGED <<ws, attempts, worktree>>
    BY <1>1, <1>7, MovesThere DEF Leads, Returns, At, Frozen, kernelVars, gitVars
  <2>2. ws[t] \in Cands /\ attempts[t] > 0
    BY <1>1, <2>1 DEF Holds, KernelType, AttemptsAgree
  <2>3. OnlyGrant(ws[t], "frozen")
    BY <1>1, <2>1, <2>2, Saves
  <2>4. QED BY <2>1, <2>2, <2>3 DEF OnlyGrant, Changed
<1>8. QED
  BY <1>1, <1>2, <1>g, <1>3, <1>4, <1>5, <1>6, <1>7 DEF AttemptsAgree, GrantOf, Changed

LEMMA SubmittedStand ==
    ASSUME Protocol, Alone, NEW p \in Procs, NEW t \in Tasks, TaskStep(p, t)
    PROVE  SubmittedStays'
<1>1. /\ TypeInv /\ KernelType /\ ProcType /\ Frame(p, t) /\ StagesAgree /\ AttemptsAgree
      /\ StatusStep(p, t) /\ ArtStep(p, t) /\ p \in live
      /\ \A u \in Tasks : status[u] \in {"SUBMITTED", "ACCEPTED"} =>
             /\ disk[ws[u]] = "frozen" /\ Changed(ws[u]) /\ ws[u] # None
             /\ Fingerprint(ws[u]) = <<art[u].base, art[u].edit>>
  BY StepsAreLocal, StatusSteps, ArtSteps
  DEF Protocol, TypeInv, Alone, SubmittedStays, OneProcess, Frame, StagesAgree
<1>2. ASSUME NEW u \in Tasks, status'[u] \in {"SUBMITTED", "ACCEPTED"}
      PROVE  /\ disk'[ws'[u]] = "frozen" /\ worktree'[ws'[u]].edit # 0
             /\ worktree'[ws'[u]].base = art'[u].base /\ worktree'[ws'[u]].edit = art'[u].edit
  <2>1. CASE status[u] \in {"SUBMITTED", "ACCEPTED"}
    <3>1. art'[u].base = art[u].base /\ art'[u].edit = art[u].edit
      BY <1>1, <2>1 DEF Frame, ArtStep
    <3>2. /\ disk[ws[u]] = "frozen" /\ worktree[ws[u]].edit # 0 /\ ws[u] # None
          /\ worktree[ws[u]].base = art[u].base /\ worktree[ws[u]].edit = art[u].edit
      BY <1>1, <2>1 DEF Changed, Fingerprint
    <3>3. /\ ws'[u] = ws[u] /\ disk'[ws[u]] = disk[ws[u]]
          /\ worktree'[ws[u]].base = worktree[ws[u]].base
          /\ worktree'[ws[u]].edit = worktree[ws[u]].edit
      BY <2>1, <3>2, OthersStand
    <3>4. QED BY <3>1, <3>2, <3>3
  <2>2. CASE ~(status[u] \in {"SUBMITTED", "ACCEPTED"})
    <3>1. u = t /\ Submits(p, t) /\ Mine(p, t) /\ Holds(p, ws[t])
      BY <1>1, <1>2, <2>2 DEF Frame, StatusStep
    <3>2. /\ pc[p][t] = "submitting" /\ UNCHANGED <<ws, disk, worktree>>
          /\ art' = [art EXCEPT ![t] = [base |-> worktree[ws[t]].base,
                                        edit |-> worktree[ws[t]].edit, commit |-> None]]
      BY <3>1 DEF Submits, At, gitVars, grantVars
    <3>3. art'[t].base = worktree[ws[t]].base /\ art'[t].edit = worktree[ws[t]].edit
      BY <1>1, <3>2 DEF KernelType
    <3>4. disk[ws[t]] = "frozen" /\ Changed(ws[t])
      BY <1>1, <3>2 DEF AttemptsAgree
    <3>5. QED BY <3>1, <3>2, <3>3, <3>4 DEF Changed
  <2>3. QED BY <2>1, <2>2
<1>3. QED BY <1>2 DEF SubmittedStays, Changed, Fingerprint

\* A commit is the one before it and a change.
LEMMA HeadStaysAccepted ==
    ASSUME Protocol, Alone, NEW p \in Procs, NEW t \in Tasks, TaskStep(p, t)
    PROVE  HeadIsAccepted'
<1>1. /\ TypeInv /\ KernelType /\ ProcType /\ GitType /\ Frame(p, t) /\ StagesAgree
      /\ ArtStep(p, t) /\ StageStep(p, t) /\ HeadIsAccepted /\ SubmittedStays /\ closed = "no"
  BY StepsAreLocal, ArtSteps, StagesStep
  DEF Protocol, TypeInv, Alone, OneProcess, Frame
<1>2. ASSUME NEW u \in Tasks, status[u] = "ACCEPTED"
      PROVE  /\ status'[u] = "ACCEPTED" /\ art'[u].base = art[u].base /\ art'[u].edit = art[u].edit
  BY <1>1, <1>2 DEF Frame, ArtStep, StageStep
<1>3. ASSUME NEW i \in DOMAIN head
      PROVE  \E u \in Tasks : status'[u] = "ACCEPTED"
                 /\ Append(art'[u].base, <<u, art'[u].edit>>) = SubSeq(head, 1, i)
  BY <1>1, <1>2 DEF HeadIsAccepted, CommitOf
<1>4. CASE UNCHANGED head
  BY <1>3, <1>4 DEF HeadIsAccepted, CommitOf
<1>5. CASE /\ AdvancesHead(p, t) /\ head = worktree[ws[t]].base
           /\ worktree[ws[t]].edit \in Edits
           /\ head' = Append(head, <<t, worktree[ws[t]].edit>>)
  <2>1. PICK e \in Tasks \X Edits : e = <<t, worktree[ws[t]].edit>> /\ head' = Append(head, e)
    BY <1>5
  <2>2. head \in Seq(Tasks \X Edits) /\ head' \in Seq(Tasks \X Edits) /\ Len(head') = Len(head) + 1
    BY <1>1, <2>1 DEF GitType, Commit
  <2>3. status[t] = "ACCEPTED"
    BY <1>1, <1>5 DEF AdvancesHead, At, StagesAgree, Final
  <2>4. art'[t].base = head /\ art'[t].edit = worktree[ws[t]].edit /\ status'[t] = "ACCEPTED"
    BY <1>1, <1>2, <1>5, <2>3 DEF SubmittedStays, Fingerprint
  <2>5. ASSUME NEW i \in DOMAIN head'
        PROVE  \E u \in Tasks : status'[u] = "ACCEPTED"
                   /\ Append(art'[u].base, <<u, art'[u].edit>>) = SubSeq(head', 1, i)
    <3>1. i \in 1..Len(head')
      BY <2>2
    <3>2. CASE i <= Len(head)
      <4>1. i \in DOMAIN head /\ SubSeq(head', 1, i) = SubSeq(head, 1, i)
        BY <2>1, <2>2, <3>1, <3>2
      <4>2. QED BY <1>3, <4>1
    <3>3. CASE i = Len(head')
      <4>1. SubSeq(head', 1, i) = head'
        BY <2>2, <3>3
      <4>2. QED BY <2>1, <2>4, <4>1
    <3>4. i <= Len(head) \/ i = Len(head')
      <4>1. Len(head) \in Nat
        BY <2>2
      <4>2. QED BY <2>2, <3>1, <4>1
    <3>5. QED BY <3>2, <3>3, <3>4
  <2>6. QED BY <2>5 DEF HeadIsAccepted, CommitOf
<1>6. QED BY <1>1, <1>4, <1>5, HeadGrows

LEMMA TaskStepsKeepAlone ==
    ASSUME Protocol, Single, NEW p \in Procs, NEW t \in Tasks, TaskStep(p, t)
    PROVE  Single'
<1> SUFFICES ASSUME stalls' = 0 PROVE Alone'
  BY DEF Single
<1>1. Frame(p, t) /\ TypeInv
  BY StepsAreLocal DEF Protocol
<1>2. Alone
  BY <1>1 DEF Single, Frame
<1>3. OneProcess'
  BY <1>1, <1>2, MemoryIsDisk DEF Alone, OneProcess, Frame
<1>4. QED
  BY <1>2, <1>3, GrantsStayAgreed, OrphansStayFew, AttemptsStayAgreed, CandidatesStayAgreed,
     SubmittedStand, HeadStaysAccepted DEF Alone
-----------------------------------------------------------------------------
(* A single process: the steps of the process, and of the retirement.      *)

LEMMA SingleAtFirst == ASSUME Init PROVE Single
<1>1. OneProcess /\ AttemptsAgree
  BY DEF Init, OneProcess, AttemptsAgree
<1>2. GrantsAgree /\ CandidatesAgree /\ SubmittedStays
  BY DEF Init, GrantsAgree, CandidatesAgree, SubmittedStays, NoWorktree, Usable
<1>3. HeadIsAccepted
  BY DEF Init, HeadIsAccepted
<1>4. OrphansAreFew
  <2>1. Orphans = {} /\ faults = 0 /\ closed = "no"
    BY DEF Init, Orphans, NoWorktree
  <2>2. QED BY <2>1, FS_EmptySet DEF OrphansAreFew
<1>5. QED BY <1>1, <1>2, <1>3, <1>4 DEF Single, Alone

LEMMA StartsKeepsAlone ==
    ASSUME Protocol, Single, NEW p \in Procs, Starts(p) PROVE Single'
<1> SUFFICES ASSUME stalls' = 0 PROVE Alone'
  BY DEF Single
<1>1. /\ TypeInv /\ KernelType /\ GrantType /\ DeadRest /\ p \notin live /\ closed = "no"
  BY DEF Protocol, TypeInv, Starts
<1>2. live = {} /\ stalls = 0
  BY <1>1 DEF Starts, TypeInv, FaultType
<1>3. Alone
  BY <1>2 DEF Single
<1>4. Loaded = disk
  BY <1>1, <1>3 DEF Loaded, Stale, Alone, GrantsAgree, GrantType
<1>5. /\ live' = {p} /\ mem'[p] = disk /\ disk' = disk
      /\ UNCHANGED <<deps, attempts, ws, art, worktree, head, pc, hold, closed>>
      /\ \A t \in Tasks : /\ status'[t] = status[t] \/ (status[t] = "RUNNING" /\ status'[t] \in {"READY", "BLOCKED"})
  BY <1>1, <1>2, <1>4 DEF Starts, gitVars, procVars, TypeInv, GrantType
<1>6. OneProcess'
  BY <1>1, <1>5 DEF OneProcess
<1>7. AttemptsAgree'
  BY <1>1, <1>2, <1>5 DEF AttemptsAgree, DeadRest
<1>8. GrantsAgree' /\ SubmittedStays'
  BY <1>3, <1>5 DEF Alone, GrantsAgree, SubmittedStays, Changed, Fingerprint
<1>9. CandidatesAgree' /\ HeadIsAccepted'
  BY <1>3, <1>5 DEF Alone, CandidatesAgree, HeadIsAccepted
<1>10. OrphansAreFew'
  <2>1. Orphans' \subseteq Orphans /\ faults' = faults
    BY <1>2, <1>5 DEF Orphans, Granting, Starts
  <2>2. QED BY <1>1, <1>3, <1>5, <2>1, FewOrphans DEF Alone, OrphansAreFew
<1>11. QED BY <1>6, <1>7, <1>8, <1>9, <1>10 DEF Alone

LEMMA MovesKeepAlone ==
    ASSUME Protocol, Single, NEW p \in Procs, Round(p) \/ Finishes(p) PROVE Single'
<1> SUFFICES ASSUME stalls' = 0 PROVE Alone'
  BY DEF Single
<1> USE DEF kernelVars, gitVars, grantVars, faultVars
<1>1. UNCHANGED <<deps, kernelVars, gitVars, grantVars, hold, faultVars, closed>>
  BY DEF Round, Finishes, Goes
<1>2. Alone /\ ProcType
  BY <1>1 DEF Single, Protocol, TypeInv
<1>3. \A q \in Procs, t \in Tasks :
        \/ pc'[q][t] = pc[q][t]
        \/ pc'[q][t] \in {"delegating", "integrating"} /\ pc[q][t] \in Resting
  <2>1. CASE Round(p)
    BY <1>2, <2>1 DEF Round, ProcType
  <2>2. CASE Finishes(p)
    <3>1. PICK u \in Tasks : Goes(p, u, "integrating") /\ pc[p][u] \in Resting
      BY <2>2 DEF Finishes
    <3>2. QED BY <1>2, <3>1 DEF Goes, ProcType
  <2>3. QED BY <2>1, <2>2
<1>4. AttemptsAgree'
  BY <1>1, <1>2, <1>3 DEF Alone, AttemptsAgree, GrantOf, Changed, Protocol, TypeInv, FaultType
<1>5. OneProcess' /\ GrantsAgree' /\ CandidatesAgree'
  BY <1>1, <1>2 DEF Alone, OneProcess, GrantsAgree, CandidatesAgree
<1>6. SubmittedStays' /\ HeadIsAccepted'
  BY <1>1, <1>2 DEF Alone, SubmittedStays, HeadIsAccepted, Changed, Fingerprint
<1>7. OrphansAreFew'
  <2>1. ASSUME NEW c, Granting(c) PROVE Granting(c)'
    <3>1. PICK q \in live, t \in Tasks : pc[q][t] = "granting" /\ hold[q][t].new = c
      BY <2>1 DEF Granting
    <3>2. pc'[q][t] = "granting"
      BY <1>2, <1>3, <3>1 DEF Resting, Protocol, TypeInv, FaultType
    <3>3. QED BY <1>1, <3>1, <3>2 DEF Granting
  <2>2. Orphans' \subseteq Orphans /\ faults' = faults
    BY <1>1, <2>1 DEF Orphans
  <2>3. QED BY <1>1, <1>2, <2>2, FewOrphans DEF Alone, OrphansAreFew, Left, Protocol
<1>8. QED BY <1>4, <1>5, <1>6, <1>7 DEF Alone

LEMMA GoneKeepsAlone ==
    ASSUME Protocol, Single, NEW p \in Procs, Leaves(p) \/ Crashes(p) PROVE Single'
<1> SUFFICES ASSUME stalls' = 0 PROVE Alone'
  BY DEF Single
<1> USE DEF kernelVars, gitVars
<1>1. /\ live' = live \ {p} /\ p \in live /\ UNCHANGED <<deps, kernelVars, gitVars, disk, stalls>>
      /\ closed' \in {closed, "complete"}
  BY DEF Leaves, Crashes
<1>2. Alone
  BY <1>1 DEF Single
<1>3. live' = {} /\ closed = "no"
  BY <1>1, <1>2 DEF Alone, OneProcess
<1>4. OneProcess' /\ AttemptsAgree'
  BY <1>1, <1>3 DEF OneProcess, AttemptsAgree
<1>5. GrantsAgree' /\ CandidatesAgree'
  BY <1>1, <1>2, <1>3 DEF Alone, GrantsAgree, CandidatesAgree
<1>6. SubmittedStays' /\ HeadIsAccepted'
  BY <1>1, <1>2, <1>3 DEF Alone, SubmittedStays, HeadIsAccepted, Changed, Fingerprint
<1>7. OrphansAreFew'
  <2>1. TypeInv /\ Cardinality(Orphans) <= faults /\ closed' # "retired" /\ live = {p}
    BY <1>1, <1>2, <1>3 DEF Protocol, Alone, OrphansAreFew, OneProcess
  <2>2. CASE Leaves(p)
    <3>1. \A c : ~Granting(c)
      BY <2>1, <2>2 DEF Leaves, Granting, Resting
    <3>2. Orphans' \subseteq Orphans /\ faults' = faults
      BY <1>1, <2>2, <3>1 DEF Orphans, Leaves
    <3>3. QED BY <2>1, <3>2, FewOrphans DEF OrphansAreFew
  <2>3. CASE Crashes(p)
    <3>1. faults' = faults + 1
      BY <2>3 DEF Crashes
    <3>2. CASE \A c : ~Granting(c)
      <4>1. Orphans' \subseteq Orphans
        BY <1>1, <3>2 DEF Orphans
      <4>2. QED BY <2>1, <3>1, <4>1, FewOrphans DEF OrphansAreFew
    <3>3. ASSUME NEW c, Granting(c) PROVE OrphansAreFew'
      <4>1. PICK t \in Tasks : pc[p][t] = "granting" /\ hold[p][t].new = c
        BY <2>1, <3>3 DEF Granting
      <4>2. ASSUME NEW d, Granting(d) PROVE d = c
        <5>1. PICK u \in Tasks : pc[p][u] = "granting" /\ hold[p][u].new = d
          BY <2>1, <4>2 DEF Granting
        <5>2. u = t
          BY <4>1, <5>1 DEF Protocol, StagesAgree, Sync
        <5>3. QED BY <4>1, <5>1, <5>2
      <4>3. Orphans' \subseteq Orphans \cup {c}
        BY <1>1, <4>2 DEF Orphans
      <4>4. QED BY <2>1, <3>1, <4>3, FewOrphans DEF OrphansAreFew
    <3>4. QED BY <3>2, <3>3
  <2>4. QED BY <2>2, <2>3
<1>8. QED BY <1>4, <1>5, <1>6, <1>7 DEF Alone

\* A candidate that is retired is one the file names.
LEMMA RetiresKeepsAlone == ASSUME Protocol, Single, Retires PROVE Single'
<1> SUFFICES ASSUME stalls' = 0 PROVE Alone'
  BY DEF Single
<1> USE DEF kernelVars, procVars, faultVars
<1>1. /\ UNCHANGED <<deps, kernelVars, head, mem, pc, hold, live, faults, stalls>>
      /\ live = {} /\ closed = "complete" /\ closed' \in {"complete", "retired"}
  BY DEF Retires
<1>2. Alone /\ TypeInv /\ GitType /\ GrantType
  BY <1>1 DEF Single, Protocol, TypeInv
<1>3. OneProcess' /\ AttemptsAgree' /\ SubmittedStays'
  BY <1>1 DEF OneProcess, AttemptsAgree, SubmittedStays
<1>4. HeadIsAccepted'
  BY <1>1, <1>2 DEF Alone, HeadIsAccepted
<1>5. CASE \E c \in Cands :
             /\ worktree' = [worktree EXCEPT ![c] = NoWorktree("removed")]
             /\ UNCHANGED <<disk, closed>>
  <2>1. ASSUME NEW d \in Cands
        PROVE  \/ worktree'[d] = worktree[d]
               \/ /\ worktree'[d].state = "removed" /\ worktree'[d].writer = 0
                  /\ worktree'[d].edit = 0 /\ worktree'[d].sealed = 0
    BY <1>2, <1>5 DEF NoWorktree, GitType
  <2>2. GrantsAgree' /\ CandidatesAgree'
    BY <1>1, <1>2, <1>5, <2>1 DEF Alone, GrantsAgree, CandidatesAgree
  <2>3. Orphans' \subseteq Orphans /\ faults' = faults /\ closed' = "complete"
    BY <1>1, <1>5, <2>1 DEF Orphans, Granting
  <2>4. OrphansAreFew'
    BY <1>2, <2>3, FewOrphans DEF Alone, OrphansAreFew
  <2>5. QED BY <1>3, <1>4, <2>2, <2>4 DEF Alone
<1>6. CASE /\ \A c \in Cands : Retirable(c) => worktree[c].state # "present"
           /\ disk' = [c \in Cands |-> IF disk[c] = "absent" THEN "absent" ELSE "closed"]
           /\ closed' = "retired" /\ UNCHANGED worktree
  <2>1. GrantsAgree' /\ CandidatesAgree'
    <3>1. ASSUME NEW t \in Tasks, ws[t] # None PROVE disk'[ws[t]] \notin {"used", "frozen"}
      BY <1>2, <1>6, <3>1 DEF TypeInv, KernelType
    <3>2. QED BY <1>1, <1>2, <1>6, <3>1 DEF Alone, GrantsAgree, CandidatesAgree
  <2>2. ASSUME NEW c \in Left PROVE disk[c] = "absent"
    <3>1. c \in Cands /\ worktree[c].state = "present"
      BY <2>2 DEF Left
    <3>2. Loaded[c] = "absent"
      BY <1>6, <3>1 DEF Retirable
    <3>3. QED BY <3>1, <3>2 DEF Loaded, Stale
  <2>3. Left' = Left /\ (\A c \in Left : c \in Cands /\ disk'[c] = "absent")
    BY <1>6, <2>2 DEF Left
  <2>4. Orphans' \subseteq Orphans /\ faults' = faults
    <3>1. ASSUME NEW c \in Orphans' PROVE c \in Orphans
      <4>1. c \in Left
        BY <1>6, <3>1 DEF Orphans, Left
      <4>2. QED BY <1>1, <2>2, <4>1 DEF Orphans, Left, Granting
    <3>2. QED BY <1>1, <3>1
  <2>5. OrphansAreFew'
    BY <1>2, <2>3, <2>4, FewOrphans DEF Alone, OrphansAreFew
  <2>6. QED BY <1>3, <1>4, <2>1, <2>5 DEF Alone
<1>7. QED BY <1>5, <1>6 DEF Retires

LEMMA SingleIsKept == ASSUME Protocol, Single, [Next]_vars PROVE Single'
<1>1. CASE Next
  BY <1>1, NextIsOneOf, TaskStepsKeepAlone, StartsKeepsAlone, MovesKeepAlone, GoneKeepsAlone,
     RetiresKeepsAlone
<1>2. CASE UNCHANGED vars
  BY <1>2 DEF vars, kernelVars, gitVars, grantVars, procVars, faultVars, Single, Alone,
    OneProcess, GrantsAgree, AttemptsAgree, GrantOf, CandidatesAgree, SubmittedStays, Changed,
    Fingerprint, HeadIsAccepted, OrphansAreFew, Orphans, Granting, Left
<1>3. QED BY <1>1, <1>2
-----------------------------------------------------------------------------
(* The theorems.                                                           *)

IntegrationInv == Protocol /\ Single

LEMMA Invariant == Spec => []IntegrationInv
<1>1. Init => IntegrationInv
  BY ProtocolAtFirst, SingleAtFirst DEF IntegrationInv
<1>2. IntegrationInv /\ [Next]_vars => IntegrationInv'
  BY ProtocolIsKept, SingleIsKept DEF IntegrationInv
<1>3. QED BY <1>1, <1>2, PTL DEF Spec

\* Run, git, grants and processes are in states the code knows: a step of any
\* process leaves every store readable for the next one.
THEOREM Typed == Spec => []IntegrationTypeOK
<1>1. ASSUME Protocol PROVE IntegrationTypeOK
  <2>1. TypeInv
    BY <1>1 DEF Protocol
  <2>2. \A c \in Cands : /\ worktree[c].state \in {"unused", "present", "removed"}
                         /\ worktree[c].base \in Commit
    BY <2>1, RecordsAreRecords DEF TypeInv, GitType
  <2>3. QED
    BY <2>1, <2>2 DEF IntegrationTypeOK, TypeInv, KernelType, Statuses, GitType, GrantType, ProcType,
      Stages, FaultType
<1>2. IntegrationInv => IntegrationTypeOK
  BY <1>1 DEF IntegrationInv
<1>3. QED BY <1>2, Invariant, PTL

\* integrate and record_integration: whatever crashes, fails or stalls, a commit the kernel
\* recorded is on the branch; and unless a process outlived its lease every commit
\* of the branch is an accepted candidate, byte for byte, on the base it was judged on.
THEOREM BranchAccepted == Spec => []BranchIsAccepted
<1>1. IntegrationInv => BranchIsAccepted
  BY DEF IntegrationInv, Protocol, Single, Alone, BranchIsAccepted
<1>2. QED BY <1>1, Invariant, PTL

\* mark_used, replace_workspace and the sessions of the specialist: an attempt finds
\* in its workspace what it wrote itself, or a replay of the last one.
THEOREM AttemptsIsolated == Spec => []AttemptsAreIsolated
<1>1. ASSUME IntegrationInv PROVE AttemptsAreIsolated
  <2>1. ASSUME NEW p \in Procs, NEW t \in Tasks, CanWrite(p, t), stalls = 0
        PROVE  worktree[hold[p][t].new].writer \in {0, attempts[t]}
    <3>1. p \in live /\ pc[p][t] = "working"
      BY <1>1, <2>1 DEF IntegrationInv, Protocol, DeadRest, CanWrite
    <3>2. QED BY <1>1, <2>1, <3>1 DEF IntegrationInv, Single, Alone, AttemptsAgree
  <2>2. QED BY <2>1 DEF AttemptsAreIsolated
<1>2. IntegrationInv => AttemptsAreIsolated
  BY <1>1
<1>3. QED BY <1>2, Invariant, PTL

\* cleanup and _retire_candidate: the workspace the kernel names is there with its
\* grant, and frozen as it was submitted while it is judged or accepted.
THEOREM WorkspaceKept == Spec => []WorkspaceStays
<1>1. ASSUME IntegrationInv PROVE WorkspaceStays
  <2>1. ASSUME NEW t \in Tasks, ws[t] # None, closed = "no", stalls = 0
        PROVE  /\ worktree[ws[t]].state = "present" /\ disk[ws[t]] \in Usable
               /\ status[t] \in {"SUBMITTED", "ACCEPTED"} =>
                      /\ disk[ws[t]] = "frozen"
                      /\ Fingerprint(ws[t]) = <<art[t].base, art[t].edit>>
    <3>1. Alone /\ ws[t] \in Cands /\ worktree[ws[t]].state = "present"
      BY <1>1, <2>1 DEF IntegrationInv, Single, Protocol, TypeInv, KernelType,
        WorkspacesArePresent, Goes_on
    <3>2. QED BY <2>1, <3>1 DEF Alone, GrantsAgree, SubmittedStays, Usable
  <2>2. QED BY <2>1 DEF WorkspaceStays
<1>2. IntegrationInv => WorkspaceStays
  BY <1>1
<1>3. QED BY <1>2, Invariant, PTL

\* delegate, accept_and_integrate and record_integration: whatever crashes, fails or
\* stalls, a recorded commit contains the recorded commits of what its task depends on.
THEOREM RecordedWorkIsInOrder == Spec => []RecordedInOrder
<1>1. IntegrationInv => RecordedInOrder
  BY DEF IntegrationInv, Protocol
<1>2. QED BY <1>1, Invariant, PTL

\* retire_run: of a retired run there are at most as many worktrees left as there were
\* crashes and errors, and none of them has a grant.
THEOREM RetiredClean == Spec => []RetiredIsClean
<1>1. ASSUME IntegrationInv, closed = "retired", stalls = 0
      PROVE  (\A c \in Left : disk[c] = "absent") /\ Cardinality(Left) <= faults
  <2>1. OrphansAreFew /\ live = {}
    BY <1>1 DEF IntegrationInv, Single, Alone, OneProcess
  <2>2. Left = Orphans
    BY <1>1, <2>1 DEF OrphansAreFew, Left, Orphans, Granting
  <2>3. QED BY <1>1, <2>1, <2>2 DEF OrphansAreFew
<1>2. IntegrationInv => RetiredIsClean
  BY <1>1 DEF RetiredIsClean
<1>3. QED BY <1>2, Invariant, PTL
==============================================================================
