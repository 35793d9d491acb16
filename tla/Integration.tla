----------------------------- MODULE Integration -----------------------------
(***************************************************************************)
(* Candidates and the integration branch of one project: the worktrees and *)
(* signed grants of walter/sandbox.py, the controller of walter/adapter.py *)
(* that builds, judges, accepts and integrates a candidate, and the rounds *)
(* of cavman/workflow.py that call it, for one run of code tasks.          *)
(*                                                                         *)
(* Three stores are involved and no transaction spans them: the kernel's   *)
(* run (status, workspace, artifact), git (worktrees and the branch), and  *)
(* grants.json. An action is one effect on one store; a process may crash  *)
(* between two, an operation may raise, and a process may stall past its   *)
(* lease so that another takes the run over while it goes on. Inside a     *)
(* process the coroutines of different tasks interleave only where they    *)
(* await a model or a thread.                                              *)
(*                                                                         *)
(* A commit is the sequence of changes since the project's first commit, a *)
(* change is <<task, edit>>, and edit 0 leaves a worktree as its base.     *)
(***************************************************************************)
EXTENDS Naturals, SequencesExt, FiniteSets

CONSTANTS
    Procs,          \* worker processes
    Tasks,          \* the code tasks of the run
    Plans,          \* functions from a task to the tasks it depends on
    Edits,          \* distinct contents a specialist can give a workspace
    Candidates,     \* bound: number of candidates ever created
    MaxAttempts,    \* task.max_attempts
    MaxFaults,      \* bound: crashes, errors and lapsed leases of a behaviour
    None

ASSUME EditsAssumption == Edits \subseteq Nat \ {0} /\ Edits # {}
ASSUME PlansAssumption == Plans \subseteq [Tasks -> SUBSET Tasks]
ASSUME IntegrationBounds ==
    /\ Candidates \in Nat \ {0} /\ MaxAttempts \in Nat \ {0}
    /\ MaxFaults \in Nat
ASSUME NoneAssumption == None \notin 1..Candidates \cup Procs
ASSUME CommitAssumption == None \notin Seq(Tasks \X Edits)

Cands == 1..Candidates

VARIABLES
    deps,           \* the plan: what each task builds on
    status,         \* task.status
    by,             \* the process that holds the task's assignment
    attempts,       \* task.attempts
    ws,             \* task.workspace_id
    art,            \* the task's last artifact
    worktree,       \* the candidates' worktrees
    head,           \* the integration branch
    disk,           \* grants.json
    mem,            \* what each process holds of it
    pc,             \* where each process is with each task
    hold,           \* the candidate that step is about, and the one it replaces
    live,           \* running processes
    closed,         \* has the run completed, and are its candidates retired?
    faults,         \* processes that died and operations that failed
    stalls          \* processes that outlived their lease

kernelVars == <<status, by, attempts, ws, art>>
gitVars == <<worktree, head>>
grantVars == <<disk, mem>>
procVars == <<pc, hold>>
faultVars == <<live, faults, stalls>>
vars == <<deps, kernelVars, gitVars, grantVars, procVars, faultVars, closed>>

NoArtifact == [base |-> <<>>, edit |-> 0, commit |-> None]
NoWorktree(state) ==
    [state |-> state, task |-> None, base |-> <<>>, edit |-> 0, sealed |-> 0, writer |-> 0]
NoHold == [new |-> None, old |-> None]

\* Steps between two awaits: the event loop runs no other coroutine there.
Sync == {"granting", "binding", "discarding", "starting", "marking", "submitting",
         "accepting", "deciding", "integrating", "committing", "recording"}
Awaiting == {"delegating", "working", "validating", "reviewing"}
Resting == {"idle", "stuck"}
-----------------------------------------------------------------------------
(* Grants: the states are absent, open (writable, never used), used        *)
(* (writable), frozen (read-only) and closed.                              *)

Grants == {"absent", "open", "used", "frozen", "closed"}
Usable == {"open", "used", "frozen"}

\* _get: an active grant of this process whose worktree is there.
Holds(p, c) == c # None /\ mem[p][c] \in Usable /\ worktree[c].state = "present"

SavesAs_InMemory(p, grants) ==  \* slip
    /\ mem' = [mem EXCEPT ![p] = grants]
    /\ UNCHANGED disk

\* _save writes the whole of the process's memory over the file.
SavesAs(p, grants) ==
    /\ mem' = [mem EXCEPT ![p] = grants]
    /\ disk' = grants

SaveGrant(p, c, state) == SavesAs(p, [mem[p] EXCEPT ![c] = state])

\* A judge's read-only grant is saved with the others.
Lends(p) == SavesAs(p, mem[p])

\* _load_manifest closes the active grants whose worktree is gone.
Stale(c) == disk[c] \in Usable /\ worktree[c].state # "present"
Loaded == [c \in Cands |-> IF Stale(c) THEN "closed" ELSE disk[c]]

\* diff: does the candidate change its base?
Changed(c) == worktree[c].edit # 0

\* fingerprint: the base and every byte.
Fingerprint(c) == <<worktree[c].base, worktree[c].edit>>

\* _fingerprint: the candidate is what was submitted.
Matches(p, t) ==
    Holds(p, ws[t]) /\ Fingerprint(ws[t]) = <<art[t].base, art[t].edit>>

Commits_Empty(c) == worktree[c].sealed \in {0, worktree[c].edit}  \* slip

\* _commit_candidate: there is a change, and a commit made earlier is all of it.
Commits(c) == Changed(c) /\ worktree[c].sealed \in {0, worktree[c].edit}

CommitOf(t, base, edit) == Append(base, <<t, edit>>)

Fresh(c) ==
    /\ worktree[c].state = "unused"
    /\ \A d \in Cands : worktree[d].state = "unused" => c <= d
-----------------------------------------------------------------------------
Turn(p, t) == p \in live /\ \A u \in Tasks \ {t} : pc[p][u] \notin Sync

At(p, t, step) == pc[p][t] = step /\ Turn(p, t)

Goes(p, t, step) == pc' = [pc EXCEPT ![p][t] = step] /\ UNCHANGED hold

Ends(p, t) ==
    /\ pc' = [pc EXCEPT ![p][t] = "idle"]
    /\ hold' = [hold EXCEPT ![p][t] = NoHold]

\* A refusal by the kernel that leaves the task delegatable ends it for the session.
Refused(p, t) ==
    /\ pc' = [pc EXCEPT ![p][t] = IF status[t] = "READY" THEN "stuck" ELSE "idle"]
    /\ hold' = [hold EXCEPT ![p][t] = NoHold]

DepsAccepted_Submitted(t) ==  \* slip
    \A u \in deps[t] : status[u] \in {"SUBMITTED", "ACCEPTED"}
DepsAccepted(t) == \A u \in deps[t] : status[u] = "ACCEPTED"
Delegatable(t) == status[t] \in {"PLANNED", "READY"} /\ DepsAccepted(t)
Mine(p, t) == status[t] = "RUNNING" /\ by[t] = p
Recorded(t) == art[t].commit # None
AllAccepted == \A t \in Tasks : status[t] = "ACCEPTED"

\* fail and recover: a retry or a revision while attempts last, else a human decides.
Recovers(t) ==
    /\ status' = [status EXCEPT ![t] =
           IF attempts[t] < MaxAttempts THEN "READY" ELSE "BLOCKED"]
    /\ by' = [by EXCEPT ![t] = None]
    /\ UNCHANGED <<attempts, ws, art>>

Escalates(t) ==
    /\ status' = [status EXCEPT ![t] = "BLOCKED"]
    /\ UNCHANGED <<by, attempts, ws, art>>

\* fail_assignment: of the current assignment only; otherwise refused and ignored.
FailsMine(p, t) == IF Mine(p, t) THEN Recovers(t) ELSE UNCHANGED kernelVars

Init ==
    /\ deps \in Plans
    /\ status = [t \in Tasks |-> "PLANNED"]
    /\ by = [t \in Tasks |-> None]
    /\ attempts = [t \in Tasks |-> 0]
    /\ ws = [t \in Tasks |-> None]
    /\ art = [t \in Tasks |-> NoArtifact]
    /\ worktree = [c \in Cands |-> NoWorktree("unused")]
    /\ head = <<>>
    /\ disk = [c \in Cands |-> "absent"]
    /\ mem = [p \in Procs |-> disk]
    /\ pc = [p \in Procs |-> [t \in Tasks |-> "idle"]]
    /\ hold = [p \in Procs |-> [t \in Tasks |-> NoHold]]
    /\ live = {} /\ closed = "no" /\ faults = 0 /\ stalls = 0
-----------------------------------------------------------------------------
(* A process takes the run, in the place of one that crashed or stalled:   *)
(* resume fails the assignments in flight, the manager loads its grants.   *)

Starts(p) ==
    /\ p \notin live /\ closed = "no"
    /\ \/ live = {} /\ UNCHANGED stalls
       \/ live # {} /\ faults + stalls < MaxFaults /\ stalls' = stalls + 1
    /\ live' = live \cup {p}
    /\ status' = [t \in Tasks |->
           IF status[t] # "RUNNING" THEN status[t]
           ELSE IF attempts[t] < MaxAttempts THEN "READY" ELSE "BLOCKED"]
    /\ by' = [t \in Tasks |-> None]
    /\ mem' = [mem EXCEPT ![p] = Loaded] /\ disk' = Loaded
    /\ UNCHANGED <<deps, attempts, ws, art, gitVars, procVars, faults, closed>>

\* A coroutine per ready task; the next round waits for all of them.
Round(p) ==
    /\ p \in live /\ \A t \in Tasks : pc[p][t] \in Resting
    /\ LET ready == {t \in Tasks : Delegatable(t) /\ pc[p][t] = "idle"}
       IN  /\ ready # {}
           /\ pc' = [pc EXCEPT ![p] = [t \in Tasks |->
                  IF t \in ready THEN "delegating" ELSE pc[p][t]]]
    /\ UNCHANGED <<deps, kernelVars, gitVars, grantVars, hold, faultVars, closed>>

\* The memory of a process ends with it.
Forgets(p) ==
    /\ pc' = [pc EXCEPT ![p] = [t \in Tasks |-> "idle"]]
    /\ hold' = [hold EXCEPT ![p] = [t \in Tasks |-> NoHold]]
    /\ mem' = [mem EXCEPT ![p] = [c \in Cands |-> "absent"]]

\* Nothing is ready: the job ends, complete or blocked.
Leaves(p) ==
    /\ p \in live /\ \A t \in Tasks : pc[p][t] \in Resting
    /\ ~\E t \in Tasks : Delegatable(t) /\ pc[p][t] = "idle"
    /\ live' = live \ {p}
    /\ Forgets(p)
    /\ closed' = IF closed = "no" /\ AllAccepted /\ \A t \in Tasks : Recorded(t)
                 THEN "complete" ELSE closed
    /\ UNCHANGED <<deps, kernelVars, gitVars, disk, faults, stalls>>

Crashes(p) ==
    /\ p \in live /\ faults + stalls < MaxFaults
    /\ faults' = faults + 1
    /\ live' = live \ {p}
    /\ Forgets(p)
    /\ UNCHANGED <<deps, kernelVars, gitVars, disk, stalls, closed>>

\* An operation raises (git fails or times out, a save meets another one): the
\* coroutine ends where it is, the round logs it and goes on.
Fails(p, t) ==
    /\ pc[p][t] \notin Resting /\ Turn(p, t)
    /\ faults + stalls < MaxFaults
    /\ faults' = faults + 1
    /\ Ends(p, t)
    /\ UNCHANGED <<deps, kernelVars, gitVars, grantVars, live, stalls, closed>>
-----------------------------------------------------------------------------
(* delegate: a workspace on the current integration head, its binding, the *)
(* assignment.                                                             *)

\* A workspace the kernel bound but no attempt used is taken as it is.
Reuses(p, t) ==
    /\ Holds(p, ws[t]) /\ mem[p][ws[t]] = "open"
    /\ hold' = [hold EXCEPT ![p][t] = [new |-> ws[t], old |-> None]]
    /\ pc' = [pc EXCEPT ![p][t] = "starting"]
    /\ UNCHANGED <<gitVars, grantVars>>

\* integration_head(create=True).
NewBase == head

\* git worktree add: no grant names the candidate yet.
Builds(p, t) ==
    /\ ws[t] = None \/ (Holds(p, ws[t]) /\ mem[p][ws[t]] # "open")
    /\ \E c \in Cands :
        /\ Fresh(c)
        /\ worktree' = [worktree EXCEPT ![c] =
               [state |-> "present", task |-> t, base |-> NewBase, edit |-> 0, sealed |-> 0,
                writer |-> 0]]
        /\ hold' = [hold EXCEPT ![p][t] = [new |-> c, old |-> ws[t]]]
    /\ pc' = [pc EXCEPT ![p][t] = "granting"]
    /\ UNCHANGED <<head, grantVars>>

Delegates(p, t) ==
    /\ At(p, t, "delegating")
    /\ IF Delegatable(t) /\ (ws[t] = None \/ Holds(p, ws[t]))
       THEN Reuses(p, t) \/ Builds(p, t)
       ELSE Ends(p, t) /\ UNCHANGED <<gitVars, grantVars>>
    /\ UNCHANGED <<deps, kernelVars, faultVars, closed>>

Replays(p, old) == Holds(p, old) /\ Commits(old)

\* The grant is saved; carry_over commits the last attempt on its base and replays
\* it, and a conflict or an error leaves the new candidate as its base.
Registers(p, t) ==
    LET new == hold[p][t].new  old == hold[p][t].old
    IN  /\ At(p, t, "granting")
        /\ \E edit \in IF Replays(p, old) THEN {0, worktree[old].edit} ELSE {0} :
               worktree' = [c \in Cands |->
                   IF c = new THEN [worktree[c] EXCEPT !.edit = edit]
                   ELSE IF c = old /\ Replays(p, c)
                        THEN [worktree[c] EXCEPT !.sealed = worktree[c].edit]
                        ELSE worktree[c]]
        /\ SaveGrant(p, new, "open")
        /\ Goes(p, t, "binding")
        /\ UNCHANGED <<deps, kernelVars, head, faultVars, closed>>

\* _retire_candidate: the worktree and its branch go, its grants close.
Removes(p, c) ==
    /\ worktree' = [worktree EXCEPT ![c] = NoWorktree("removed")]
    /\ SaveGrant(p, c, "closed")
    /\ UNCHANGED head

\* bind_workspace, of a task without one, or replace_workspace, of a retry.
Agreed(t, old) ==
    /\ ws[t] = old /\ Delegatable(t)
    /\ old # None => status[t] = "READY" /\ attempts[t] > 0

\* Refused by the kernel, the new candidate is removed.
Binds(p, t) ==
    LET new == hold[p][t].new  old == hold[p][t].old
    IN  /\ At(p, t, "binding")
        /\ IF Agreed(t, old)
           THEN /\ ws' = [ws EXCEPT ![t] = new]
                /\ status' = [status EXCEPT ![t] = "READY"]
                /\ Goes(p, t, IF old = None THEN "starting" ELSE "discarding")
                /\ UNCHANGED <<by, attempts, art, gitVars, grantVars>>
           ELSE /\ Holds(p, new) /\ Removes(p, new)
                /\ Refused(p, t) /\ UNCHANGED kernelVars
        /\ UNCHANGED <<deps, faultVars, closed>>

\* cleanup of the workspace the kernel no longer names.
Discards(p, t) ==
    /\ At(p, t, "discarding")
    /\ IF Holds(p, hold[p][t].old)
       THEN Removes(p, hold[p][t].old) /\ Goes(p, t, "starting")
       ELSE Ends(p, t) /\ UNCHANGED <<gitVars, grantVars>>
    /\ UNCHANGED <<deps, kernelVars, faultVars, closed>>

\* core.delegate and core.start.
Begins(p, t) ==
    /\ At(p, t, "starting")
    /\ IF Delegatable(t) /\ attempts[t] < MaxAttempts
       THEN /\ status' = [status EXCEPT ![t] = "RUNNING"]
            /\ by' = [by EXCEPT ![t] = p]
            /\ attempts' = [attempts EXCEPT ![t] = @ + 1]
            /\ Goes(p, t, "marking")
            /\ UNCHANGED <<ws, art>>
       ELSE Refused(p, t) /\ UNCHANGED kernelVars
    /\ UNCHANGED <<deps, gitVars, grantVars, faultVars, closed>>

Marks_Forgotten(p, t) ==  \* slip
    /\ At(p, t, "marking") /\ Goes(p, t, "working")
    /\ UNCHANGED <<deps, kernelVars, gitVars, grantVars, faultVars, closed>>

\* mark_used, before the specialist is invoked.
Marks(p, t) ==
    LET c == hold[p][t].new
    IN  /\ At(p, t, "marking")
        /\ IF Holds(p, c)
           THEN /\ Goes(p, t, "working")
                /\ IF mem[p][c] = "open" THEN SaveGrant(p, c, "used") ELSE UNCHANGED grantVars
           ELSE Ends(p, t) /\ UNCHANGED grantVars
        /\ UNCHANGED <<deps, kernelVars, gitVars, faultVars, closed>>
-----------------------------------------------------------------------------
(* The specialist, and what becomes of its answer.                         *)

CanWrite(p, t) ==
    /\ pc[p][t] = "working"
    /\ Holds(p, hold[p][t].new) /\ mem[p][hold[p][t].new] # "frozen"

Writes(p, t) ==
    /\ CanWrite(p, t) /\ Turn(p, t)
    /\ \E edit \in Edits \cup {0} :
        /\ edit # worktree[hold[p][t].new].edit
        /\ worktree' = [worktree EXCEPT ![hold[p][t].new].edit = edit,
                                        ![hold[p][t].new].writer = attempts[t]]
    /\ UNCHANGED <<deps, kernelVars, head, grantVars, procVars, faultVars, closed>>

\* It reports a blocker, fails, or runs out of steps with nothing to salvage.
GivesUp(p, t) ==
    /\ At(p, t, "working")
    /\ FailsMine(p, t) /\ Ends(p, t)
    /\ UNCHANGED <<deps, gitVars, grantVars, faultVars, closed>>

Frozen(c) == "frozen"

\* It completes, or _salvage does so for it: an unchanged workspace is bad
\* output, a changed one is frozen.
Returns(p, t) ==
    /\ At(p, t, "working")
    /\ IF Holds(p, ws[t]) /\ Changed(ws[t])
       THEN /\ SaveGrant(p, ws[t], Frozen(ws[t])) /\ Goes(p, t, "submitting")
            /\ UNCHANGED kernelVars
       ELSE FailsMine(p, t) /\ Ends(p, t) /\ UNCHANGED grantVars
    /\ UNCHANGED <<deps, gitVars, faultVars, closed>>

\* The fingerprint of the frozen workspace and core.submit.
Submits(p, t) ==
    /\ At(p, t, "submitting")
    /\ IF Mine(p, t) /\ Holds(p, ws[t])
       THEN /\ status' = [status EXCEPT ![t] = "SUBMITTED"]
            /\ by' = [by EXCEPT ![t] = None]
            /\ art' = [art EXCEPT ![t] = [base |-> worktree[ws[t]].base,
                                          edit |-> worktree[ws[t]].edit, commit |-> None]]
            /\ Goes(p, t, "validating")
            /\ UNCHANGED <<attempts, ws>>
       ELSE FailsMine(p, t) /\ Ends(p, t)
    /\ UNCHANGED <<deps, gitVars, grantVars, faultVars, closed>>
-----------------------------------------------------------------------------
(* Trusted validation, independent review, acceptance and integration.     *)

\* A judge passes the candidate on, or it is recovered as bad output.
Verdict(p, t, next) ==
    \/ Goes(p, t, next) /\ UNCHANGED kernelVars
    \/ Recovers(t) /\ Ends(p, t)

\* The record needs the submitted bytes.
Validates(p, t) ==
    /\ At(p, t, "validating")
    /\ IF Matches(p, t)
       THEN Lends(p) /\ Verdict(p, t, "reviewing")
       ELSE Escalates(t) /\ Ends(p, t) /\ UNCHANGED grantVars
    /\ UNCHANGED <<deps, gitVars, faultVars, closed>>

Reviews(p, t) ==
    /\ At(p, t, "reviewing")
    /\ IF Matches(p, t)
       THEN Lends(p) /\ Verdict(p, t, "accepting")
       ELSE Recovers(t) /\ Ends(p, t) /\ UNCHANGED grantVars
    /\ UNCHANGED <<deps, gitVars, faultVars, closed>>

\* accept_and_integrate: a candidate on an outdated base is retried (STALE_BASE).
ChecksBase(p, t) ==
    /\ At(p, t, "accepting")
    /\ IF worktree[ws[t]].base = head
       THEN Goes(p, t, "deciding") /\ UNCHANGED kernelVars
       ELSE Recovers(t) /\ Ends(p, t)
    /\ UNCHANGED <<deps, gitVars, grantVars, faultVars, closed>>

Accepts(p, t) ==
    /\ At(p, t, "deciding")
    /\ IF Matches(p, t)
       THEN /\ status' = [status EXCEPT ![t] = "ACCEPTED"]
            /\ Goes(p, t, "integrating")
            /\ UNCHANGED <<by, attempts, ws, art>>
       ELSE Ends(p, t) /\ UNCHANGED kernelVars
    /\ UNCHANGED <<deps, gitVars, grantVars, faultVars, closed>>

\* _finish: accepted work that is not integrated, before the run completes.
Finishes(p) ==
    /\ p \in live /\ closed = "no" /\ AllAccepted
    /\ \A t \in Tasks : pc[p][t] \in Resting
    /\ \E t \in Tasks :
        /\ ~Recorded(t)
        /\ Goes(p, t, "integrating")
    /\ UNCHANGED <<deps, kernelVars, gitVars, grantVars, faultVars, closed>>

\* integrate: the accepted bytes, on the current head.
IntegrateGuard(p, t) == Matches(p, t) /\ worktree[ws[t]].base = head

StartsIntegration(p, t) ==
    /\ At(p, t, "integrating")
    /\ IF ~Recorded(t) /\ IntegrateGuard(p, t)
       THEN Goes(p, t, "committing") ELSE Ends(p, t)
    /\ UNCHANGED <<deps, kernelVars, gitVars, grantVars, faultVars, closed>>

HeadUnmoved_Blind(c) == TRUE  \* slip

\* update-ref compares the branch with the head the candidate was built on.
HeadUnmoved(c) == head = worktree[c].base

AdvancesHead(p, t) ==
    LET c == ws[t]  tree == worktree[c]
    IN  /\ At(p, t, "committing")
        /\ IF Holds(p, c) /\ Commits(c)
           THEN /\ worktree' = [worktree EXCEPT ![c].sealed = tree.edit]
                /\ IF HeadUnmoved(c)
                   THEN head' = CommitOf(t, tree.base, tree.edit) /\ Goes(p, t, "recording")
                   ELSE Ends(p, t) /\ UNCHANGED head
           ELSE Ends(p, t) /\ UNCHANGED gitVars
        /\ UNCHANGED <<deps, kernelVars, grantVars, faultVars, closed>>

\* record_integration: of an accepted artifact, once.
Records(p, t) ==
    LET c == ws[t]
    IN  /\ At(p, t, "recording")
        /\ art' = IF status[t] = "ACCEPTED" /\ ~Recorded(t)
                  THEN [art EXCEPT ![t].commit =
                           CommitOf(t, worktree[c].base, worktree[c].sealed)]
                  ELSE art
        /\ Ends(p, t)
        /\ UNCHANGED <<deps, status, by, attempts, ws, gitVars, grantVars, faultVars, closed>>

Retirable_Writable(c) == Loaded[c] \in {"open", "used"}  \* slip

Retirable(c) == Loaded[c] # "absent"

\* retire_run, under the project's lease: candidate by candidate.
Retires ==
    /\ closed = "complete" /\ live = {}
    /\ \/ \E c \in Cands :
            /\ Retirable(c) /\ worktree[c].state = "present"
            /\ worktree' = [worktree EXCEPT ![c] = NoWorktree("removed")]
            /\ UNCHANGED <<disk, closed>>
       \/ /\ \A c \in Cands : Retirable(c) => worktree[c].state # "present"
          /\ disk' = [c \in Cands |-> IF disk[c] = "absent" THEN "absent" ELSE "closed"]
          /\ closed' = "retired"
          /\ UNCHANGED worktree
    /\ UNCHANGED <<deps, kernelVars, head, mem, procVars, faultVars>>

Next ==
    \/ \E p \in Procs :
        \/ Starts(p) \/ Round(p) \/ Leaves(p) \/ Crashes(p) \/ Finishes(p)
        \/ \E t \in Tasks :
            \/ Fails(p, t)
            \/ Delegates(p, t) \/ Registers(p, t) \/ Binds(p, t) \/ Discards(p, t) \/ Begins(p, t)
            \/ Marks(p, t) \/ Writes(p, t) \/ GivesUp(p, t) \/ Returns(p, t) \/ Submits(p, t)
            \/ Validates(p, t) \/ Reviews(p, t) \/ ChecksBase(p, t) \/ Accepts(p, t)
            \/ StartsIntegration(p, t) \/ AdvancesHead(p, t) \/ Records(p, t)
    \/ Retires

Spec == Init /\ [][Next]_vars
-----------------------------------------------------------------------------
Commit == Seq(Tasks \X Edits)
Artifact == [base : Commit, edit : Edits \cup {0}, commit : Commit \cup {None}]

\* What the variables hold.
IntegrationTypeOK ==
    /\ deps \in Plans
    /\ status \in [Tasks -> {"PLANNED", "READY", "RUNNING", "SUBMITTED", "ACCEPTED", "BLOCKED"}]
    /\ by \in [Tasks -> Procs \cup {None}]
    /\ attempts \in [Tasks -> 0..MaxAttempts]
    /\ ws \in [Tasks -> Cands \cup {None}]
    /\ art \in [Tasks -> Artifact]
    /\ \A c \in Cands : /\ worktree[c].state \in {"unused", "present", "removed"}
                        /\ worktree[c].base \in Commit
    /\ head \in Commit
    /\ disk \in [Cands -> Grants] /\ mem \in [Procs -> [Cands -> Grants]]
    /\ pc \in [Procs -> [Tasks -> Sync \cup Awaiting \cup Resting]]
    /\ live \subseteq Procs /\ closed \in {"no", "complete", "retired"}

HeadIsAccepted ==
    \A i \in DOMAIN head : \E t \in Tasks :
        /\ status[t] = "ACCEPTED"
        /\ CommitOf(t, art[t].base, art[t].edit) = SubSeq(head, 1, i)

RecordedIsOnBranch ==
    \A t \in Tasks : Recorded(t) => IsPrefix(art[t].commit, head)

\* A commit the kernel recorded is on the branch for good, where delivery finds
\* it, and every commit of the branch is, byte for byte, an accepted candidate on
\* the base it was judged against: the promise of integrate.  (A process that
\* outlives its lease can break the second part between the fingerprint and the
\* commit of integrate.)
BranchIsAccepted == RecordedIsOnBranch /\ (stalls = 0 => HeadIsAccepted)

\* A specialist only finds in its workspace what its own attempt wrote, or a
\* replay of the last one made by trusted code: an interrupted or failed
\* attempt never goes on in the workspace of its retry.
AttemptsAreIsolated ==
    \A p \in Procs, t \in Tasks : CanWrite(p, t) /\ stalls = 0 =>
        worktree[hold[p][t].new].writer \in {0, attempts[t]}

\* Cleanup never destroys the workspace the kernel names nor loses its grant, so
\* that after any crash the next process can use or replace it; and the candidate
\* of work under judgement or accepted stays frozen as it was submitted.
WorkspaceStays ==
    \A t \in Tasks : ws[t] # None /\ closed = "no" /\ stalls = 0 =>
        /\ worktree[ws[t]].state = "present" /\ disk[ws[t]] \in Usable
        /\ status[t] \in {"SUBMITTED", "ACCEPTED"} =>
               /\ disk[ws[t]] = "frozen"
               /\ Fingerprint(ws[t]) = <<art[t].base, art[t].edit>>

\* Whatever crashes, fails or stalls, the commit recorded for a task contains the
\* commits recorded for the tasks it depends on.
RecordedInOrder ==
    \A t \in Tasks : \A u \in deps[t] :
        Recorded(t) /\ Recorded(u) => IsPrefix(art[u].commit, art[t].commit)

Left == {c \in Cands : worktree[c].state = "present"}

\* Of a run whose candidates were retired nothing is left, except for each crash or
\* error at most one worktree: one that was made and no grant names.
RetiredIsClean ==
    closed = "retired" /\ stalls = 0 =>
        /\ \A c \in Left : disk[c] = "absent"
        /\ Cardinality(Left) <= faults

\* "Trusted integration of the task's accepted candidate; idempotent."
\* (_integrate): accepted work that is not recorded can still be integrated.
InterruptedIntegrationCompletes ==
    \A t \in Tasks :
        status[t] = "ACCEPTED" /\ ~Recorded(t) /\ (\A p \in Procs : pc[p][t] # "recording")
            /\ stalls = 0
        => worktree[ws[t]].base = head
==============================================================================
