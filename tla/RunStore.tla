------------------------------ MODULE RunStore ------------------------------
(***************************************************************************)
(* The run store of walter/store.py (SQLite, or PostgreSQL through         *)
(* walter/pg.py) under the kernel's read-modify-write of walter/           *)
(* orchestration.py, for one run: actors in several processes and threads  *)
(* that open the store, load the snapshot, verify it against its events    *)
(* and save, and clients that follow the events through cavman/api.py.     *)
(*                                                                         *)
(* BEGIN IMMEDIATE, or the advisory lock, makes a transaction that writes  *)
(* one action.  A snapshot is reduced to the operations folded into it, an *)
(* event to the operation it reports.  A process that dies holds nothing   *)
(* here: what it had not committed is gone with its connection.            *)
(***************************************************************************)
EXTENDS Naturals, Sequences, FiniteSets

CONSTANTS
    Actors, ProcessOf,  \* who operates, and the process whose lock it takes
    Kind,               \* the operation of each: one of Kinds, or "erase"
    Attempts,           \* how often each kind is tried when the run changed
    Operations,         \* bound: operations of each actor
    Schemas,            \* user_version of the file when the processes start
    LegacyTasks,        \* the task a version 1 snapshot may hold
    Streams, Pages,     \* clients: of the event stream, and of the event list
    Free

Kinds == {"mutate", "decide", "close", "account"}
Clients == Streams \cup Pages
Processes == {ProcessOf[a] : a \in Actors}

ASSUME ActorsAssumption == ProcessOf \in [Actors -> Processes] /\ Free \notin Actors
ASSUME KindAssumption == Kind \in [Actors -> Kinds \cup {"erase"}]
ASSUME AttemptsAssumption ==
    Attempts \in [Kinds \cup {"erase"} -> Nat \ {0}] /\ Operations \in [Actors -> Nat]
ASSUME SchemasAssumption == Schemas \subseteq {0, 1, 2}
ASSUME ClientsAssumption == Streams \cap Pages = {}

VARIABLES
    schema,         \* PRAGMA user_version
    alive,          \* is there a row?
    row,            \* the row of runs: version, snapshot (history and event_cursor)
    log,            \* the rows of events
    task,           \* a task of the snapshot with the approvals it needs
    backup,         \* the schema_migration_backups of the run
    pc, ops,        \* where each actor is, and the operations it has done
    local,          \* the row it loaded
    view,           \* the events its read transaction sees
    tries, start,   \* attempts of its operation, and the events before the first
    lock,           \* the actor in each process's transaction()
    step, got,      \* where each client is, and the last event it was sent
    cursor, latest  \* the event it will ask for next, and the cursor it read

fileVars == <<schema, task, backup>>
runVars == <<alive, row, log>>
memoryVars == <<local, view, tries, start>>
actorVars == <<pc, ops, memoryVars>>
clientVars == <<step, got, cursor, latest>>
vars == <<fileVars, runVars, actorVars, lock, clientVars>>

Closed(history) == \E i \in DOMAIN history : history[i].kind = "close"
Decided(history) == \E i \in DOMAIN history : history[i].kind = "decide"

\* _mutate: the run is active; decide_approval: the request is pending;
\* record_usage: neither.
Allowed(history, kind) ==
    kind = "account" \/ (~Closed(history) /\ (kind = "decide" => ~Decided(history)))

Operation(a) == [kind |-> Kind[a], by |-> a]

NewRow == [version |-> 1, cursor |-> 0, history |-> <<>>]
NoTask == [status |-> "PLANNED", gates |-> {}, format |-> 2]

Init ==
    /\ schema \in Schemas
    /\ task \in (IF schema = 1 THEN LegacyTasks ELSE {NoTask})
    /\ backup = NoTask
    /\ alive = TRUE /\ row = NewRow /\ log = <<>>
    /\ pc = [a \in Actors |-> "off"]
    /\ ops = [a \in Actors |-> 0]
    /\ local = [a \in Actors |-> NewRow]
    /\ view = [a \in Actors |-> <<>>]
    /\ tries = [a \in Actors |-> 0]
    /\ start = [a \in Actors |-> 0]
    /\ lock = [p \in Processes |-> Free]
    /\ step = [c \in Clients |-> "idle"]
    /\ got = [c \in Clients |-> 0]
    /\ cursor = [c \in Clients |-> 0]
    /\ latest = [c \in Clients |-> 0]
-----------------------------------------------------------------------------
(* Opening the file: the version is read without the lock.                 *)

Goes(a, to) == pc' = [pc EXCEPT ![a] = to]

Opens(a) ==
    /\ pc[a] = "off"
    /\ Goes(a, CASE schema = 0 -> "creating" [] schema = 1 -> "migrating" [] OTHER -> "ready")
    /\ UNCHANGED <<fileVars, runVars, ops, memoryVars, lock, clientVars>>

\* What a migrated task waits for: malformed requests need a new gate.
Unresolved(t) == "malformed" \in t.gates
Unsatisfied(t) == t.gates \ {"approved"} # {}

\* _v2_snapshot: an unresolved approval stops work in flight too, a known one
\* that is not approved stops only work not begun.
Migrated(t) ==
    [t EXCEPT !.format = 2,
              !.status = IF \/ Unresolved(t) /\ @ \in {"READY", "RUNNING", "SUBMITTED"}
                            \/ Unsatisfied(t) /\ @ = "READY"
                         THEN "BLOCKED" ELSE @]

\* _create_schema: under the lock the version is read again, for a second CREATE
\* TABLE would fail the whole open.
Creates(a) ==
    /\ pc[a] = "creating" /\ Goes(a, "ready")
    /\ schema' = IF schema = 0 THEN 2 ELSE schema
    /\ UNCHANGED <<task, backup, runVars, ops, memoryVars, lock, clientVars>>

Upgrades_Blindly(a) ==  \* slip
    /\ pc[a] = "migrating"
    /\ IF schema = 1
       THEN Goes(a, "ready") /\ schema' = 2 /\ backup' = task /\ task' = Migrated(task)
       ELSE Goes(a, "failed") /\ UNCHANGED fileVars
    /\ UNCHANGED <<runVars, ops, memoryVars, lock, clientVars>>

\* _migrate_v1_to_v2: read again as well, for a second backup row would fail it.
Upgrades(a) ==
    /\ pc[a] = "migrating" /\ Goes(a, "ready")
    /\ IF schema = 1
       THEN schema' = 2 /\ backup' = task /\ task' = Migrated(task)
       ELSE UNCHANGED fileVars
    /\ UNCHANGED <<runVars, ops, memoryVars, lock, clientVars>>
-----------------------------------------------------------------------------
(* One operation: transaction(), load, the operation, save.                *)

LockIsFree_Never(a) == TRUE  \* slip

LockIsFree(a) == lock[ProcessOf[a]] = Free

Takes(a) == lock' = [lock EXCEPT ![ProcessOf[a]] = a]
Leaves(a) == lock' = [lock EXCEPT ![ProcessOf[a]] = Free]

\* The operation is over, whatever came of it.
Ends(a) ==
    /\ Goes(a, "ready") /\ Leaves(a)
    /\ ops' = [ops EXCEPT ![a] = @ + 1]
    /\ local' = [local EXCEPT ![a] = NewRow]
    /\ view' = [view EXCEPT ![a] = <<>>]
    /\ tries' = [tries EXCEPT ![a] = 0]
    /\ start' = [start EXCEPT ![a] = 0]

Begins(a) ==
    /\ Kind[a] \in Kinds
    /\ LockIsFree(a)
    /\ \/ /\ pc[a] = "ready" /\ ops[a] < Operations[a]
          /\ tries' = [tries EXCEPT ![a] = 1]
          /\ start' = [start EXCEPT ![a] = Len(log)]
       \/ /\ pc[a] = "again"
          /\ tries' = [tries EXCEPT ![a] = @ + 1]
          /\ UNCHANGED start
    /\ Takes(a) /\ Goes(a, "loading")
    /\ UNCHANGED <<fileVars, runVars, ops, local, view, clientVars>>

\* load: the read transaction sees one state of the database from here on.
LoadsRow(a) ==
    /\ pc[a] = "loading"
    /\ IF alive
       THEN /\ local' = [local EXCEPT ![a] = row]
            /\ view' = [view EXCEPT ![a] = log]
            /\ Goes(a, "verifying")
            /\ UNCHANGED <<ops, lock, tries, start>>
       ELSE Ends(a)
    /\ UNCHANGED <<fileVars, runVars, clientVars>>

EventsRead(a) == view[a]

\* The events must be as many as the snapshot's cursor says; then the operation
\* is applied to the copy, or refused.
Verifies(a) ==
    /\ pc[a] = "verifying"
    /\ IF Len(EventsRead(a)) # local[a].cursor
       THEN Goes(a, "corrupt") /\ Leaves(a) /\ UNCHANGED <<ops, memoryVars>>
       ELSE IF Allowed(local[a].history, Kind[a])
       THEN Goes(a, "saving") /\ UNCHANGED <<ops, lock, memoryVars>>
       ELSE Ends(a)
    /\ UNCHANGED <<fileVars, runVars, clientVars>>

Unchanged_Always(a) == alive  \* slip

Unchanged(a) == alive /\ row.version = local[a].version

\* save: the row and its events, if the run is still what was loaded; else
\* ConcurrentUpdate, and another attempt if the caller makes one.
Saves(a) ==
    /\ pc[a] = "saving"
    /\ IF Unchanged(a)
       THEN /\ row' = [version |-> local[a].version + 1, cursor |-> row.cursor + 1,
                       history |-> Append(local[a].history, Operation(a))]
            /\ log' = Append(log, Operation(a))
            /\ Ends(a)
       ELSE /\ UNCHANGED <<row, log>>
            /\ IF tries[a] < Attempts[Kind[a]]
               THEN Goes(a, "again") /\ Leaves(a) /\ UNCHANGED <<ops, memoryVars>>
               ELSE Ends(a)
    /\ UNCHANGED <<fileVars, alive, clientVars>>

\* delete_run: the row, its events and its backups together.
Erases(a) ==
    /\ Kind[a] = "erase" /\ pc[a] = "ready" /\ LockIsFree(a)
    /\ alive /\ alive' = FALSE
    /\ log' = <<>> /\ row' = NewRow /\ backup' = NoTask /\ task' = NoTask
    /\ UNCHANGED <<schema, actorVars, lock, clientVars>>
-----------------------------------------------------------------------------
(* Clients.  A stream asks version_info, then for the events after its     *)
(* cursor, which it moves event by event; a page loads the run, then the   *)
(* events, and its next request starts at the cursor of the run.           *)

Looks(c) ==
    /\ step[c] = "idle" /\ alive
    /\ c \in Pages \/ row.cursor > cursor[c]
    /\ latest' = [latest EXCEPT ![c] = row.cursor]
    /\ step' = [step EXCEPT ![c] = "fetching"]
    /\ UNCHANGED <<fileVars, runVars, actorVars, lock, got, cursor>>

Answer_EventsFirst(c) == [sent |-> latest[c], next |-> Len(log)]  \* slip

\* The events after the client's cursor, and the cursor it goes on with.
Answer(c) == [sent |-> Len(log), next |-> IF c \in Pages THEN latest[c] ELSE Len(log)]

Fetches(c) ==
    /\ step[c] = "fetching"
    /\ IF alive
       THEN /\ got' = [got EXCEPT ![c] = IF cursor[c] <= @ THEN Answer(c).sent ELSE @]
            /\ cursor' = [cursor EXCEPT ![c] = Answer(c).next]
       ELSE UNCHANGED <<got, cursor>>
    /\ step' = [step EXCEPT ![c] = "idle"] /\ latest' = [latest EXCEPT ![c] = 0]
    /\ UNCHANGED <<fileVars, runVars, actorVars, lock>>

Next ==
    \/ \E a \in Actors :
        \/ Opens(a) \/ Creates(a) \/ Upgrades(a) \/ Begins(a) \/ LoadsRow(a) \/ Verifies(a)
        \/ Saves(a) \/ Erases(a)
    \/ \E c \in Clients : Looks(c) \/ Fetches(c)

Spec == Init /\ [][Next]_vars
-----------------------------------------------------------------------------
Entry == [kind : Kinds, by : Actors]
Row == [version : Nat, cursor : Nat, history : Seq(Entry)]
Task == [status : {"PLANNED", "READY", "RUNNING", "SUBMITTED", "BLOCKED"},
         gates : SUBSET {"approved", "pending", "rejected", "malformed"}, format : {1, 2}]
Working == {"loading", "verifying", "saving"}

ASSUME LegacyAssumption == LegacyTasks \subseteq {t \in Task : t.format = 1}

\* What the variables hold, and who holds the locks: an actor between load and
\* save is in the transaction() of its process.
StoreTypeOK ==
    /\ schema \in {0, 1, 2} /\ task \in Task /\ backup \in Task
    /\ alive \in BOOLEAN /\ row \in Row /\ log \in Seq(Entry)
    /\ pc \in [Actors -> Working \cup {"off", "creating", "migrating", "ready", "again", "corrupt", "failed"}]
    /\ ops \in [Actors -> Nat]
    /\ local \in [Actors -> Row] /\ view \in [Actors -> Seq(Entry)]
    /\ tries \in [Actors -> Nat] /\ start \in [Actors -> Nat]
    /\ lock \in [Processes -> Actors \cup {Free}]
    /\ \A a \in Actors : pc[a] \in Working => lock[ProcessOf[a]] = a
    /\ step \in [Clients -> {"idle", "fetching"}]
    /\ got \in [Clients -> Nat] /\ cursor \in [Clients -> Nat] /\ latest \in [Clients -> Nat]

SnapshotIsLog == alive => row.history = log /\ row.cursor = Len(log)

\* The snapshot is the fold of the events, whoever wrote them;
\* a reader never meets a snapshot and events of two moments, so load never
\* reports a sound run as corrupt; and a client that asks for what follows its
\* cursor never skips an event, although each of its reads is of its own moment.
ReadersSeeOneState ==
    /\ SnapshotIsLog
    /\ \A a \in Actors : pc[a] # "corrupt"
    /\ \A c \in Clients : cursor[c] <= got[c]

\* Every attempt an operation lost was lost to another process's commit since it
\* began: threads of one process never conflict, and a call that gives up after
\* its attempts (a lost account of a billed call) met as many foreign commits.
ConflictsComeFromOutside ==
    \A a \in Actors : pc[a] \in Working \cup {"again"} /\ alive =>
        Cardinality({i \in start[a] + 1..Len(log) : ProcessOf[log[i].by] # ProcessOf[a]})
            >= tries[a] - (IF pc[a] = "again" THEN 0 ELSE 1)

\* Processes that open an old or empty file together all succeed; the row that
\* was migrated is kept as it was; and no migrated task goes on under an approval
\* it does not have.
MigrationIsSafe ==
    /\ \A a \in Actors : pc[a] # "failed"
    /\ schema = 2 /\ alive => task.format = 2
    /\ task.format = 2 =>
        /\ task.status = "READY" => ~Unsatisfied(task)
        /\ task.status \in {"RUNNING", "SUBMITTED"} => ~Unresolved(task)
        /\ task # NoTask => backup.format = 1 /\ backup.gates = task.gates

\* The store implements one log that every operation reads whole and extends.
L == INSTANCE RunLog WITH history <- log, erased <- ~alive
ImplementsRunLog == L!LogSpec
==============================================================================
