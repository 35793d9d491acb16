--------------------------- MODULE RunStoreProofs ---------------------------
(***************************************************************************)
(* What the run store keeps for any number of processes, threads, attempts *)
(* and clients: its snapshot is the fold of its events, readers meet one   *)
(* state, a migration advances no task past its approvals, and the store   *)
(* implements the log of RunLog.                                           *)
(***************************************************************************)
EXTENDS RunStore, FiniteSetTheorems, TLAPS

USE ActorsAssumption, KindAssumption, AttemptsAssumption, SchemasAssumption,
    ClientsAssumption, LegacyAssumption

\* Only an operation of the kernel is ever under way.
OnlyKindsWork == \A a \in Actors : pc[a] \in Working \cup {"again"} => Kind[a] \in Kinds

TypeInv == StoreTypeOK /\ OnlyKindsWork

LEMMA TypeInit == Init => TypeInv
<1> SUFFICES ASSUME Init PROVE TypeInv
    OBVIOUS
<1>1. NewRow \in Row
    BY DEF NewRow, Row
<1>2. NoTask \in Task
    BY DEF NoTask, Task
<1> QED
    BY <1>1, <1>2 DEF Init, TypeInv, StoreTypeOK, OnlyKindsWork, Working, Clients, Processes

\* What an actor that ends its operation leaves behind.
LEMMA EndsType ==
    ASSUME TypeInv, NEW a \in Actors, Ends(a), pc[a] \in Working
    PROVE /\ pc' \in [Actors -> Working \cup {"off", "creating", "migrating", "ready", "again", "corrupt", "failed"}]
          /\ ops' \in [Actors -> Nat]
          /\ local' \in [Actors -> Row] /\ view' \in [Actors -> Seq(Entry)]
          /\ tries' \in [Actors -> Nat] /\ start' \in [Actors -> Nat]
          /\ lock' \in [Processes -> Actors \cup {Free}]
          /\ \A b \in Actors : pc'[b] \in Working => lock'[ProcessOf[b]] = b
          /\ \A b \in Actors : pc'[b] \in Working \cup {"again"} => Kind[b] \in Kinds
<1>1. NewRow \in Row
    BY DEF NewRow, Row
<1>2. ProcessOf[a] \in Processes /\ lock[ProcessOf[a]] = a
    BY DEF TypeInv, StoreTypeOK, Processes
<1>3. \A b \in Actors : pc'[b] \in Working => lock'[ProcessOf[b]] = b
    <2> TAKE b \in Actors
    <2> HAVE pc'[b] \in Working
    <2>1. b # a /\ pc[b] \in Working
        BY DEF Ends, Goes, TypeInv, StoreTypeOK, Working
    <2>2. lock[ProcessOf[b]] = b
        BY <2>1 DEF TypeInv, StoreTypeOK
    <2>3. ProcessOf[b] # ProcessOf[a]
        BY <2>1, <2>2, <1>2
    <2> QED
        BY <2>2, <2>3, <1>2 DEF Ends, Leaves, TypeInv, StoreTypeOK
<1> QED
    BY <1>1, <1>2, <1>3 DEF Ends, Goes, Leaves, TypeInv, StoreTypeOK, OnlyKindsWork, Working

\* A step that leaves the lock of a working actor keeps the others' locks.
LEMMA LeavesType ==
    ASSUME TypeInv, NEW a \in Actors, pc[a] \in Working, Leaves(a),
           NEW to \in {"again", "corrupt"}, Goes(a, to)
    PROVE /\ lock' \in [Processes -> Actors \cup {Free}]
          /\ \A b \in Actors : pc'[b] \in Working => lock'[ProcessOf[b]] = b
<1>1. ProcessOf[a] \in Processes /\ lock[ProcessOf[a]] = a
    BY DEF TypeInv, StoreTypeOK, Processes
<1>2. \A b \in Actors : pc'[b] \in Working => lock'[ProcessOf[b]] = b
    <2> TAKE b \in Actors
    <2> HAVE pc'[b] \in Working
    <2>1. b # a /\ pc[b] \in Working
        BY DEF Goes, TypeInv, StoreTypeOK, Working
    <2>2. lock[ProcessOf[b]] = b
        BY <2>1 DEF TypeInv, StoreTypeOK
    <2> QED
        BY <2>1, <2>2, <1>1 DEF Leaves, TypeInv, StoreTypeOK
<1> QED
    BY <1>2, <1>1 DEF Leaves, TypeInv, StoreTypeOK

LEMMA OperationType ==
    ASSUME NEW a \in Actors, Kind[a] \in Kinds
    PROVE Operation(a) \in Entry
BY DEF Operation, Entry

LEMMA MigratedType ==
    ASSUME NEW t \in Task
    PROVE Migrated(t) \in Task /\ Migrated(t).gates = t.gates /\ Migrated(t).format = 2
BY DEF Migrated, Task

LEMMA TypeNext == TypeInv /\ [Next]_vars => TypeInv'
<1> SUFFICES ASSUME TypeInv, [Next]_vars PROVE TypeInv'
    OBVIOUS
<1>0. CASE UNCHANGED vars
    BY <1>0 DEF vars, fileVars, runVars, actorVars, memoryVars, clientVars, TypeInv, StoreTypeOK,
        OnlyKindsWork
<1>1. ASSUME NEW a \in Actors, Opens(a) PROVE TypeInv'
    BY <1>1 DEF Opens, Goes, fileVars, runVars, actorVars, memoryVars, clientVars, TypeInv,
        StoreTypeOK, OnlyKindsWork, Working
<1>2. ASSUME NEW a \in Actors, Creates(a) \/ Upgrades(a) PROVE TypeInv'
    <2>1. task' \in Task /\ backup' \in Task /\ schema' \in {0, 1, 2}
        BY <1>2, MigratedType DEF Creates, Upgrades, fileVars, TypeInv, StoreTypeOK
    <2> QED
        BY <1>2, <2>1 DEF Creates, Upgrades, fileVars, Goes, runVars, memoryVars, clientVars, TypeInv,
            StoreTypeOK, OnlyKindsWork, Working
<1>3. ASSUME NEW a \in Actors, Begins(a) PROVE TypeInv'
    <2>1. pc' \in [Actors -> Working \cup {"off", "creating", "migrating", "ready", "again", "corrupt", "failed"}]
        BY <1>3 DEF Begins, Goes, TypeInv, StoreTypeOK, Working
    <2>2. tries' \in [Actors -> Nat] /\ start' \in [Actors -> Nat]
        <3>1. tries \in [Actors -> Nat] /\ start \in [Actors -> Nat] /\ Len(log) \in Nat
            BY DEF TypeInv, StoreTypeOK
        <3>2. tries[a] + 1 \in Nat
            BY <3>1
        <3>3. \/ tries' = [tries EXCEPT ![a] = 1] /\ start' = [start EXCEPT ![a] = Len(log)]
              \/ tries' = [tries EXCEPT ![a] = tries[a] + 1] /\ start' = start
            BY <1>3 DEF Begins
        <3> HIDE DEF TypeInv
        <3>4. CASE tries' = [tries EXCEPT ![a] = 1] /\ start' = [start EXCEPT ![a] = Len(log)]
            BY <3>1, <3>4
        <3>5. CASE tries' = [tries EXCEPT ![a] = tries[a] + 1] /\ start' = start
            BY <3>1, <3>2, <3>5
        <3> QED
            BY <3>3, <3>4, <3>5
    <2>3. ProcessOf[a] \in Processes /\ lock[ProcessOf[a]] = Free /\ lock \in [Processes -> Actors \cup {Free}]
        BY <1>3 DEF Begins, LockIsFree, TypeInv, StoreTypeOK, Processes
    <2>4. lock' \in [Processes -> Actors \cup {Free}]
        BY <1>3, <2>3 DEF Begins, Takes
    <2>5. \A b \in Actors : pc'[b] \in Working => lock'[ProcessOf[b]] = b
        <3> TAKE b \in Actors
        <3> HAVE pc'[b] \in Working
        <3>1. CASE b = a
            BY <1>3, <2>3, <3>1 DEF Begins, Takes
        <3>2. CASE b # a
            <4>1. pc[b] \in Working
                BY <1>3, <3>2 DEF Begins, Goes, TypeInv, StoreTypeOK
            <4>2. lock[ProcessOf[b]] = b
                BY <4>1 DEF TypeInv, StoreTypeOK
            <4> QED
                BY <1>3, <2>3, <4>2 DEF Begins, Takes
        <3> QED
            BY <3>1, <3>2
    <2>6. OnlyKindsWork'
        BY <1>3 DEF Begins, Goes, TypeInv, OnlyKindsWork, StoreTypeOK
    <2> QED
        BY <1>3, <2>1, <2>2, <2>4, <2>5, <2>6
        DEF Begins, fileVars, runVars, clientVars, TypeInv, StoreTypeOK
<1>4. ASSUME NEW a \in Actors, LoadsRow(a) PROVE TypeInv'
    <2>0. pc[a] \in Working
        BY <1>4 DEF LoadsRow, Working
    <2>1. CASE alive
        <3>1. local' \in [Actors -> Row] /\ view' \in [Actors -> Seq(Entry)]
            BY <1>4, <2>1 DEF LoadsRow, TypeInv, StoreTypeOK
        <3>2. \A b \in Actors : pc'[b] \in Working => pc[b] \in Working
            BY <1>4, <2>0, <2>1 DEF LoadsRow, Goes, TypeInv, StoreTypeOK
        <3>3. /\ pc' \in [Actors -> Working \cup {"off", "creating", "migrating", "ready", "again", "corrupt", "failed"}]
              /\ OnlyKindsWork'
            BY <1>4, <2>0, <2>1 DEF LoadsRow, Goes, TypeInv, StoreTypeOK, OnlyKindsWork, Working
        <3> QED
            BY <1>4, <2>1, <3>1, <3>2, <3>3 DEF LoadsRow, fileVars, runVars, clientVars, TypeInv,
                StoreTypeOK
    <2>2. CASE ~alive
        BY <1>4, <2>2, <2>0, EndsType
        DEF LoadsRow, fileVars, runVars, clientVars, TypeInv, StoreTypeOK, OnlyKindsWork
    <2> QED
        BY <2>1, <2>2
<1>5. ASSUME NEW a \in Actors, Verifies(a) PROVE TypeInv'
    <2>0. pc[a] \in Working
        BY <1>5 DEF Verifies, Working
    <2>1. CASE Goes(a, "corrupt") /\ Leaves(a) /\ UNCHANGED <<ops, memoryVars>>
        <3>1. /\ lock' \in [Processes -> Actors \cup {Free}]
              /\ \A b \in Actors : pc'[b] \in Working => lock'[ProcessOf[b]] = b
            BY <2>0, <2>1, LeavesType
        <3> QED
            BY <1>5, <2>1, <3>1 DEF Verifies, Goes, fileVars, runVars, memoryVars, clientVars, TypeInv,
                StoreTypeOK, OnlyKindsWork, Working
    <2>2. CASE Goes(a, "saving") /\ UNCHANGED <<ops, lock, memoryVars>>
        BY <1>5, <2>2, <2>0 DEF Verifies, Goes, fileVars, runVars, memoryVars, clientVars, TypeInv,
            StoreTypeOK, OnlyKindsWork, Working
    <2>3. CASE Ends(a)
        BY <1>5, <2>3, <2>0, EndsType
        DEF Verifies, fileVars, runVars, clientVars, TypeInv, StoreTypeOK, OnlyKindsWork
    <2> QED
        BY <1>5, <2>1, <2>2, <2>3 DEF Verifies
<1>6. ASSUME NEW a \in Actors, Saves(a) PROVE TypeInv'
    <2>0. pc[a] \in Working /\ Kind[a] \in Kinds
        BY <1>6 DEF Saves, Working, TypeInv, OnlyKindsWork
    <2>1. row' \in Row /\ log' \in Seq(Entry)
        <3>1. CASE Unchanged(a)
            <4>1. log' = Append(log, Operation(a)) /\ Operation(a) \in Entry /\ log \in Seq(Entry)
                BY <1>6, <3>1, <2>0, OperationType DEF Saves, TypeInv, StoreTypeOK
            <4>2. row' = [version |-> local[a].version + 1, cursor |-> row.cursor + 1,
                          history |-> Append(local[a].history, Operation(a))]
                BY <1>6, <3>1 DEF Saves
            <4>3. local[a] \in Row /\ row \in Row
                BY DEF TypeInv, StoreTypeOK
            <4> HIDE DEF Operation, Entry
            <4>4. Append(local[a].history, Operation(a)) \in Seq(Entry)
                BY <4>1, <4>3 DEF Row
            <4>5. local[a].version + 1 \in Nat /\ row.cursor + 1 \in Nat
                BY <4>3 DEF Row
            <4>6. row' \in Row
                BY <4>2, <4>4, <4>5 DEF Row
            <4> QED
                BY <4>1, <4>6
        <3>2. CASE ~Unchanged(a)
            <4>1. UNCHANGED <<row, log>>
                BY <1>6, <3>2 DEF Saves
            <4> QED
                BY <4>1 DEF TypeInv, StoreTypeOK
        <3> QED
            BY <3>1, <3>2
    <2>2. CASE Ends(a)
        BY <1>6, <2>2, <2>0, <2>1, EndsType
        DEF Saves, fileVars, clientVars, TypeInv, StoreTypeOK, OnlyKindsWork
    <2>3. CASE Goes(a, "again") /\ Leaves(a) /\ UNCHANGED <<ops, memoryVars>>
        <3>1. /\ lock' \in [Processes -> Actors \cup {Free}]
              /\ \A b \in Actors : pc'[b] \in Working => lock'[ProcessOf[b]] = b
            BY <2>0, <2>3, LeavesType
        <3> QED
            BY <1>6, <2>0, <2>1, <2>3, <3>1 DEF Saves, Goes, fileVars, memoryVars, clientVars, TypeInv,
                StoreTypeOK, OnlyKindsWork, Working
    <2> QED
        BY <1>6, <2>2, <2>3 DEF Saves
<1>7. ASSUME NEW a \in Actors, Erases(a) PROVE TypeInv'
    <2>1. NewRow \in Row /\ NoTask \in Task /\ <<>> \in Seq(Entry)
        BY DEF NewRow, Row, NoTask, Task
    <2> QED
        BY <1>7, <2>1 DEF Erases, actorVars, memoryVars, clientVars, TypeInv, StoreTypeOK,
            OnlyKindsWork
<1>8. ASSUME NEW c \in Clients, Looks(c) PROVE TypeInv'
    <2>1. latest' \in [Clients -> Nat]
        BY <1>8 DEF Looks, TypeInv, StoreTypeOK, Row
    <2> QED
        BY <1>8, <2>1 DEF Looks, fileVars, runVars, actorVars, memoryVars, TypeInv,
            StoreTypeOK, OnlyKindsWork
<1>9. ASSUME NEW c \in Clients, Fetches(c) PROVE TypeInv'
    <2>1. Answer(c).sent \in Nat /\ Answer(c).next \in Nat
        BY <1>9 DEF Answer, TypeInv, StoreTypeOK
    <2>2. /\ got' \in [Clients -> Nat] /\ cursor' \in [Clients -> Nat]
          /\ latest' \in [Clients -> Nat] /\ step' \in [Clients -> {"idle", "fetching"}]
        BY <1>9, <2>1 DEF Fetches, TypeInv, StoreTypeOK
    <2> QED
        BY <1>9, <2>2 DEF Fetches, fileVars, runVars, actorVars, memoryVars, TypeInv,
            StoreTypeOK, OnlyKindsWork
<1> QED
    BY <1>0, <1>1, <1>2, <1>3, <1>4, <1>5, <1>6, <1>7, <1>8, <1>9 DEF Next

\* What the variables hold, and that an actor between load and save has the lock
\* of its process (transaction() of store.py).
THEOREM StoreTypeCorrect == Spec => []StoreTypeOK
<1>1. TypeInv => StoreTypeOK
    BY DEF TypeInv
<1> QED
    BY <1>1, TypeInit, TypeNext, PTL DEF Spec
-----------------------------------------------------------------------------
(* One log.  While an actor holds a snapshot, the row it came from is at   *)
(* least as new, and a row of the same version is the same snapshot.       *)

Holding(a) == pc[a] \in {"verifying", "saving"}

LogInv ==
    /\ SnapshotIsLog
    /\ \A a \in Actors : pc[a] # "corrupt"
    /\ \A a \in Actors : pc[a] = "verifying" => Len(view[a]) = local[a].cursor
    /\ \A a \in Actors : Holding(a) /\ alive =>
        /\ local[a].version <= row.version
        /\ local[a].version = row.version => local[a].history = row.history
    /\ \A a \in Actors : pc[a] = "saving" => Allowed(local[a].history, Kind[a])
    /\ \A c \in Clients : cursor[c] <= got[c] /\ (alive => latest[c] <= Len(log))

LEMMA LogInvInit == Init => LogInv
BY DEF Init, LogInv, SnapshotIsLog, Holding, NewRow

\* A step that leaves the run and the clients alone, and after which an actor
\* holds nothing it did not hold before, keeps the log.
LEMMA LogKept ==
    ASSUME TypeInv, LogInv, UNCHANGED runVars, UNCHANGED clientVars,
           \A b \in Actors : pc'[b] # "corrupt",
           \A b \in Actors : Holding(b)' =>
              pc'[b] = pc[b] /\ local'[b] = local[b] /\ view'[b] = view[b]
    PROVE LogInv'
<1>1. UNCHANGED <<alive, row, log>> /\ UNCHANGED <<got, cursor, latest>>
    BY DEF runVars, clientVars
<1>2. SnapshotIsLog'
    BY <1>1 DEF LogInv, SnapshotIsLog
<1>3. \A b \in Actors : pc'[b] = "verifying" => Len(view'[b]) = local'[b].cursor
    BY DEF LogInv, Holding
<1>4. \A b \in Actors : Holding(b)' /\ alive' =>
        /\ local'[b].version <= row'.version
        /\ local'[b].version = row'.version => local'[b].history = row'.history
    <2> TAKE b \in Actors
    <2>1. HAVE Holding(b)' /\ alive'
    <2>2. Holding(b) /\ local'[b] = local[b]
        BY <2>1 DEF Holding
    <2> QED
        BY <1>1, <2>1, <2>2 DEF LogInv
<1>5. (\A b \in Actors : pc[b] = "saving" => Allowed(local[b].history, Kind[b]))'
    <2>1. \A b \in Actors : pc'[b] = "saving" => Allowed(local'[b].history, Kind[b])
        BY DEF LogInv, Holding
    <2> QED
        BY <2>1 DEF Allowed, Closed, Decided
<1>6. \A c \in Clients : cursor'[c] <= got'[c] /\ (alive' => latest'[c] <= Len(log'))
    BY <1>1 DEF LogInv
<1> QED
    BY <1>2, <1>3, <1>4, <1>5, <1>6 DEF LogInv, Holding

LEMMA SavesLog ==
    ASSUME TypeInv, LogInv, NEW a \in Actors, Saves(a)
    PROVE LogInv'
<1>0. /\ pc[a] = "saving" /\ UNCHANGED <<alive, clientVars>>
      /\ pc'[a] \in {"ready", "again"} /\ \A b \in Actors : b # a => pc'[b] = pc[b]
      /\ \A b \in Actors : b # a => local'[b] = local[b] /\ view'[b] = view[b]
    BY DEF Saves, Ends, Goes, TypeInv, StoreTypeOK, memoryVars
<1>1. CASE Unchanged(a)
    <2>1. /\ alive
          /\ row' = [version |-> local[a].version + 1, cursor |-> row.cursor + 1,
                     history |-> Append(local[a].history, Operation(a))]
          /\ log' = Append(log, Operation(a))
          /\ local[a].version = row.version /\ local[a].history = row.history
        BY <1>0, <1>1 DEF Saves, Unchanged, LogInv, Holding
    <2>2. log \in Seq(Entry) /\ Operation(a) \in Entry /\ row.version \in Nat
        BY <1>0, OperationType DEF TypeInv, StoreTypeOK, OnlyKindsWork, Working, Row
    <2>3. Len(log') = Len(log) + 1
        BY <2>1, <2>2
    <2>4. SnapshotIsLog'
        BY <2>1, <2>3 DEF LogInv, SnapshotIsLog
    <2>5. row'.version = row.version + 1
        BY <2>1
    <2>6. \A b \in Actors : Holding(b)' =>
            /\ b # a /\ pc'[b] = pc[b] /\ local'[b] = local[b] /\ view'[b] = view[b]
            /\ local[b].version \in Nat /\ local[b].version <= row.version
        BY <1>0, <2>1 DEF Holding, LogInv, TypeInv, StoreTypeOK, Row
    <2>7. \A b \in Actors : Holding(b)' /\ alive' =>
            /\ local'[b].version <= row'.version
            /\ local'[b].version = row'.version => local'[b].history = row'.history
        BY <2>2, <2>5, <2>6
    <2>8. \A c \in Clients : cursor'[c] <= got'[c] /\ (alive' => latest'[c] <= Len(log'))
        <3> TAKE c \in Clients
        <3>1. cursor[c] <= got[c] /\ latest[c] <= Len(log) /\ latest[c] \in Nat
            BY <2>1 DEF LogInv, TypeInv, StoreTypeOK
        <3>2. Len(log) \in Nat
            BY <2>2
        <3> QED
            BY <1>0, <2>3, <3>1, <3>2 DEF clientVars
    <2>9. \A b \in Actors : pc'[b] # "corrupt"
        BY <1>0 DEF LogInv
    <2>10. \A b \in Actors : pc'[b] = "verifying" => Len(view'[b]) = local'[b].cursor
        BY <2>6 DEF Holding, LogInv
    <2>11. (\A b \in Actors : pc[b] = "saving" => Allowed(local[b].history, Kind[b]))'
        <3>1. \A b \in Actors : pc'[b] = "saving" => Allowed(local'[b].history, Kind[b])
            BY <2>6 DEF Holding, LogInv
        <3> QED
            BY <3>1 DEF Allowed, Closed, Decided
    <2> QED
        BY <2>4, <2>7, <2>8, <2>9, <2>10, <2>11 DEF LogInv
<1>2. CASE ~Unchanged(a)
    <2>1. UNCHANGED runVars /\ UNCHANGED clientVars
        BY <1>0, <1>2 DEF Saves, runVars, clientVars
    <2>2. \A b \in Actors : pc'[b] # "corrupt"
        BY <1>0 DEF LogInv
    <2>3. \A b \in Actors : Holding(b)' =>
            pc'[b] = pc[b] /\ local'[b] = local[b] /\ view'[b] = view[b]
        BY <1>0 DEF Holding
    <2> QED
        BY <2>1, <2>2, <2>3, LogKept
<1> QED
    BY <1>1, <1>2

LEMMA LogInvNext == TypeInv /\ LogInv /\ [Next]_vars => LogInv'
<1> SUFFICES ASSUME TypeInv, LogInv, [Next]_vars PROVE LogInv'
    OBVIOUS
<1>0. CASE UNCHANGED vars
    BY <1>0, LogKept DEF vars, fileVars, runVars, actorVars, memoryVars, clientVars, LogInv, Holding
<1>1. ASSUME NEW a \in Actors, Opens(a) PROVE LogInv'
    BY <1>1, LogKept DEF Opens, Goes, runVars, memoryVars, clientVars, LogInv, Holding, TypeInv,
        StoreTypeOK
<1>2. ASSUME NEW a \in Actors, Creates(a) \/ Upgrades(a) PROVE LogInv'
    <2>1. /\ UNCHANGED <<runVars, clientVars, local, view>>
          /\ \A b \in Actors : pc'[b] = pc[b] \/ pc'[b] \in {"ready", "failed"}
        BY <1>2 DEF Creates, Upgrades, Goes, memoryVars, TypeInv, StoreTypeOK
    <2>2. \A b \in Actors : pc[b] # "corrupt"
        BY DEF LogInv
    <2> QED
        BY <2>1, <2>2, LogKept DEF Holding
<1>3. ASSUME NEW a \in Actors, Begins(a) PROVE LogInv'
    BY <1>3, LogKept DEF Begins, Goes, runVars, clientVars, LogInv, Holding, TypeInv, StoreTypeOK
<1>4. ASSUME NEW a \in Actors, LoadsRow(a) PROVE LogInv'
    <2>1. CASE alive
        <3>1. /\ local'[a] = row /\ view'[a] = log /\ pc'[a] = "verifying"
              /\ \A b \in Actors : b # a => pc'[b] = pc[b] /\ local'[b] = local[b] /\ view'[b] = view[b]
              /\ UNCHANGED <<runVars, clientVars>>
            BY <1>4, <2>1 DEF LoadsRow, Goes, TypeInv, StoreTypeOK
        <3>2. row.history = log /\ row.cursor = Len(log) /\ row.version \in Nat
            BY <2>1 DEF LogInv, SnapshotIsLog, TypeInv, StoreTypeOK, Row
        <3>3. \A b \in Actors : Holding(b)' /\ alive' =>
                /\ local'[b].version <= row'.version
                /\ local'[b].version = row'.version => local'[b].history = row'.history
            BY <3>1, <3>2 DEF Holding, LogInv, runVars
        <3>4. \A b \in Actors : pc'[b] = "verifying" => Len(view'[b]) = local'[b].cursor
            BY <3>1, <3>2 DEF LogInv
        <3>5. \A b \in Actors : pc'[b] = "saving" => Allowed(local'[b].history, Kind[b])
            BY <3>1 DEF LogInv
        <3>6. \A b \in Actors : pc'[b] # "corrupt"
            BY <3>1 DEF LogInv
        <3>7. SnapshotIsLog' /\ \A c \in Clients : cursor'[c] <= got'[c] /\ (alive' => latest'[c] <= Len(log'))
            BY <3>1 DEF LogInv, SnapshotIsLog, runVars, clientVars
        <3> QED
            BY <3>3, <3>4, <3>5, <3>6, <3>7 DEF LogInv, Allowed, Closed, Decided
    <2>2. CASE ~alive
        <3>1. Ends(a) /\ UNCHANGED <<runVars, clientVars>>
            BY <1>4, <2>2 DEF LoadsRow
        <3>2. /\ pc'[a] = "ready"
              /\ \A b \in Actors : b # a => pc'[b] = pc[b] /\ local'[b] = local[b] /\ view'[b] = view[b]
            BY <3>1 DEF Ends, Goes, TypeInv, StoreTypeOK
        <3>3. \A b \in Actors : pc'[b] # "corrupt"
            BY <3>2 DEF LogInv
        <3>4. \A b \in Actors : Holding(b)' =>
                pc'[b] = pc[b] /\ local'[b] = local[b] /\ view'[b] = view[b]
            BY <3>2 DEF Holding
        <3> QED
            BY <3>1, <3>3, <3>4, LogKept
    <2> QED
        BY <2>1, <2>2
<1>5. ASSUME NEW a \in Actors, Verifies(a) PROVE LogInv'
    <2>1. Len(EventsRead(a)) = local[a].cursor
        BY <1>5 DEF Verifies, EventsRead, LogInv
    <2>2. CASE Allowed(local[a].history, Kind[a])
        <3>1. /\ pc[a] = "verifying" /\ pc'[a] = "saving"
              /\ \A b \in Actors : b # a => pc'[b] = pc[b]
              /\ UNCHANGED <<local, view, runVars, clientVars>>
            BY <1>5, <2>1, <2>2 DEF Verifies, Goes, memoryVars, TypeInv, StoreTypeOK
        <3>2. \A b \in Actors : Holding(b)' => Holding(b)
            BY <3>1 DEF Holding
        <3>3. \A b \in Actors : Holding(b)' /\ alive' =>
                /\ local'[b].version <= row'.version
                /\ local'[b].version = row'.version => local'[b].history = row'.history
            BY <3>1, <3>2 DEF LogInv, runVars
        <3>4. \A b \in Actors : pc'[b] = "saving" => Allowed(local'[b].history, Kind[b])
            BY <2>2, <3>1 DEF LogInv
        <3>5. \A b \in Actors : pc'[b] = "verifying" => Len(view'[b]) = local'[b].cursor
            BY <3>1 DEF LogInv
        <3>6. \A b \in Actors : pc'[b] # "corrupt"
            BY <3>1 DEF LogInv
        <3>7. SnapshotIsLog' /\ \A c \in Clients : cursor'[c] <= got'[c] /\ (alive' => latest'[c] <= Len(log'))
            BY <3>1 DEF LogInv, SnapshotIsLog, runVars, clientVars
        <3> QED
            BY <3>3, <3>4, <3>5, <3>6, <3>7 DEF LogInv, Allowed, Closed, Decided
    <2>3. CASE ~Allowed(local[a].history, Kind[a])
        <3>1. Ends(a) /\ UNCHANGED <<runVars, clientVars>>
            BY <1>5, <2>1, <2>3 DEF Verifies
        <3>2. /\ pc'[a] = "ready"
              /\ \A b \in Actors : b # a => pc'[b] = pc[b] /\ local'[b] = local[b] /\ view'[b] = view[b]
            BY <3>1 DEF Ends, Goes, TypeInv, StoreTypeOK
        <3>3. \A b \in Actors : pc'[b] # "corrupt"
            BY <3>2 DEF LogInv
        <3>4. \A b \in Actors : Holding(b)' =>
                pc'[b] = pc[b] /\ local'[b] = local[b] /\ view'[b] = view[b]
            BY <3>2 DEF Holding
        <3> QED
            BY <3>1, <3>3, <3>4, LogKept
    <2> QED
        BY <2>2, <2>3
<1>6. ASSUME NEW a \in Actors, Saves(a) PROVE LogInv'
    BY <1>6, SavesLog
<1>7. ASSUME NEW a \in Actors, Erases(a) PROVE LogInv'
    BY <1>7 DEF Erases, actorVars, memoryVars, clientVars, LogInv, SnapshotIsLog, Holding, Allowed,
        Closed, Decided
<1>8. ASSUME NEW c \in Clients, Looks(c) PROVE LogInv'
    <2>1. alive /\ row.cursor = Len(log) /\ latest' = [latest EXCEPT ![c] = row.cursor]
        BY <1>8 DEF Looks, LogInv, SnapshotIsLog
    <2>2. Len(log) \in Nat
        BY DEF TypeInv, StoreTypeOK
    <2>3. \A d \in Clients : latest'[d] <= Len(log)
        BY <2>1, <2>2 DEF LogInv, TypeInv, StoreTypeOK
    <2>4. UNCHANGED <<runVars, pc, local, view, got, cursor>>
        BY <1>8 DEF Looks, actorVars, memoryVars
    <2>5. \A d \in Clients : cursor'[d] <= got'[d] /\ (alive' => latest'[d] <= Len(log'))
        BY <2>3, <2>4 DEF LogInv, runVars
    <2> QED
        BY <2>4, <2>5 DEF runVars, LogInv, SnapshotIsLog, Holding, Allowed, Closed, Decided
<1>9. ASSUME NEW c \in Clients, Fetches(c) PROVE LogInv'
    <2>1. Len(log) \in Nat /\ cursor[c] <= got[c] /\ (alive => latest[c] <= Len(log))
        BY DEF LogInv, TypeInv, StoreTypeOK
    <2>2. \A d \in Clients : cursor'[d] <= got'[d]
        <3>1. CASE alive
            <4>1. Answer(c).sent = Len(log) /\ Answer(c).next <= Len(log)
                BY <2>1, <3>1 DEF Answer
            <4> QED
                BY <1>9, <2>1, <3>1, <4>1 DEF Fetches, LogInv, TypeInv, StoreTypeOK
        <3>2. CASE ~alive
            BY <1>9, <3>2 DEF Fetches, LogInv
        <3> QED
            BY <3>1, <3>2
    <2>3. \A d \in Clients : alive => latest'[d] <= Len(log)
        BY <1>9, <2>1 DEF Fetches, LogInv, TypeInv, StoreTypeOK
    <2> QED
        BY <1>9, <2>2, <2>3 DEF Fetches, runVars, actorVars, memoryVars, LogInv, SnapshotIsLog, Holding,
            Allowed, Closed, Decided
<1> QED
    BY <1>0, <1>1, <1>2, <1>3, <1>4, <1>5, <1>6, <1>7, <1>8, <1>9 DEF Next

\* The snapshot is the fold of the events, load never takes a sound run for a
\* corrupt one, and no client that follows the events skips one (save, load and
\* version_info of store.py; get_events and generate of api.py).
THEOREM ReadersMeetOneState == Spec => []ReadersSeeOneState
<1>1. LogInv => ReadersSeeOneState
    BY DEF LogInv, ReadersSeeOneState
<1> QED
    BY <1>1, TypeInit, TypeNext, LogInvInit, LogInvNext, PTL DEF Spec
-----------------------------------------------------------------------------
(* The refinement.                                                         *)

LEMMA StepIsOfLog ==
    ASSUME TypeInv, LogInv, [Next]_vars
    PROVE [L!LogNext]_<<log, ~alive>>
<1>0. CASE UNCHANGED vars
    BY <1>0 DEF vars, runVars
<1>1. ASSUME NEW a \in Actors, Saves(a), Unchanged(a) PROVE L!LogNext
    <2>1. /\ alive /\ UNCHANGED alive /\ log' = Append(log, Operation(a))
          /\ Kind[a] \in Kinds
          /\ Allowed(local[a].history, Kind[a])
          /\ local[a].history = row.history /\ row.history = log
        BY <1>1 DEF Saves, Unchanged, LogInv, Holding, SnapshotIsLog, TypeInv, OnlyKindsWork, Working
    <2>2. L!Allowed(log, Kind[a]) /\ Kind[a] \in L!Kinds
        BY <2>1 DEF L!Allowed, L!Closed, L!Decided, L!Kinds, Allowed, Closed, Decided, Kinds
    <2>3. L!Operate(a)
        BY <2>1, <2>2 DEF L!Operate, Operation
    <2> QED
        BY <2>3 DEF L!LogNext
<1>2. ASSUME NEW a \in Actors, Saves(a), ~Unchanged(a) PROVE UNCHANGED <<log, ~alive>>
    BY <1>2 DEF Saves
<1>3. ASSUME NEW a \in Actors, Erases(a) PROVE L!LogNext
    BY <1>3 DEF Erases, L!LogNext, L!Erase
<1>4. ASSUME NEW a \in Actors, Opens(a) \/ Creates(a) \/ Upgrades(a) \/ Begins(a) \/ LoadsRow(a) \/ Verifies(a)
      PROVE UNCHANGED <<log, ~alive>>
    BY <1>4 DEF Opens, Creates, Upgrades, Begins, LoadsRow, Verifies, runVars
<1>5. ASSUME NEW c \in Clients, Looks(c) \/ Fetches(c) PROVE UNCHANGED <<log, ~alive>>
    BY <1>5 DEF Looks, Fetches, runVars
<1> QED
    BY <1>0, <1>1, <1>2, <1>3, <1>4, <1>5 DEF Next

\* Optimistic versions over a database transaction make each operation of the
\* kernel one atomic step on the whole run, for any number of processes, threads
\* and attempts: what the other specifications take _mutate to be.
THEOREM StoreImplementsRunLog == Spec => ImplementsRunLog
<1>1. Init => L!LogInit
    BY DEF Init, L!LogInit
<1>2. TypeInv /\ LogInv /\ [Next]_vars => [L!LogNext]_<<log, ~alive>>
    BY StepIsOfLog
<1> QED
    BY <1>1, <1>2, TypeInit, TypeNext, LogInvInit, LogInvNext, PTL DEF Spec, ImplementsRunLog, L!LogSpec
-----------------------------------------------------------------------------
(* Migration.  Nobody works on the run before the file has the new schema. *)

MigrationInv ==
    /\ MigrationIsSafe
    /\ \A a \in Actors : pc[a] \notin {"off", "creating", "migrating"} => schema = 2
    /\ \A a \in Actors : pc[a] = "creating" => schema # 1
    /\ \A a \in Actors : pc[a] = "migrating" => schema # 0
    /\ schema = 0 => task = NoTask
    /\ schema = 1 => task.format = 1

\* A migrated task waits wherever the rule of _v2_snapshot says so.
LEMMA MigratedWaits ==
    ASSUME NEW t \in Task
    PROVE /\ Migrated(t).status = "READY" => ~Unsatisfied(Migrated(t))
          /\ Migrated(t).status \in {"RUNNING", "SUBMITTED"} => ~Unresolved(Migrated(t))
<1>1. /\ Unsatisfied(Migrated(t)) <=> Unsatisfied(t)
      /\ Unresolved(Migrated(t)) <=> Unresolved(t)
    BY MigratedType DEF Unsatisfied, Unresolved
<1>2. Migrated(t).status = IF \/ Unresolved(t) /\ t.status \in {"READY", "RUNNING", "SUBMITTED"}
                              \/ Unsatisfied(t) /\ t.status = "READY"
                           THEN "BLOCKED" ELSE t.status
    BY DEF Migrated, Task
<1> QED
    BY <1>1, <1>2

LEMMA MigrationNext == TypeInv /\ MigrationInv /\ [Next]_vars => MigrationInv'
<1> SUFFICES ASSUME TypeInv, MigrationInv, [Next]_vars PROVE MigrationInv'
    OBVIOUS
<1>0. ASSUME UNCHANGED fileVars, alive' => alive,
             \A a \in Actors : pc'[a] # "failed",
             \A a \in Actors : pc[a] \in {"off", "creating", "migrating"} =>
                                  pc'[a] \in {"off", "creating", "migrating"} \/ schema = 2,
             \A a \in Actors : /\ pc'[a] = "creating" => pc[a] = "creating" \/ schema # 1
                               /\ pc'[a] = "migrating" => pc[a] = "migrating" \/ schema # 0
      PROVE MigrationInv'
    <2>1. MigrationIsSafe'
        BY <1>0 DEF MigrationInv, MigrationIsSafe, fileVars, Unsatisfied, Unresolved
    <2>2. UNCHANGED <<schema, task, backup>>
        BY <1>0 DEF fileVars
    <2>5. (schema' = 0 => task' = NoTask') /\ (schema' = 1 => task'.format = 1)
        BY <2>2 DEF MigrationInv, NoTask
    <2>3. ASSUME NEW b \in Actors
          PROVE /\ pc'[b] \notin {"off", "creating", "migrating"} => schema' = 2
                /\ pc'[b] = "creating" => schema' # 1
                /\ pc'[b] = "migrating" => schema' # 0
        <3>1. schema' = schema
            BY <2>2
        <3>2. /\ pc[b] \notin {"off", "creating", "migrating"} => schema = 2
              /\ pc[b] = "creating" => schema # 1
              /\ pc[b] = "migrating" => schema # 0
            BY DEF MigrationInv
        <3>3. pc'[b] \notin {"off", "creating", "migrating"} => schema = 2
            BY <1>0, <3>2
        <3>4. (pc'[b] = "creating" => schema # 1) /\ (pc'[b] = "migrating" => schema # 0)
            BY <1>0, <3>2
        <3> QED
            BY <3>1, <3>3, <3>4
    <2> QED
        BY <2>1, <2>3, <2>5 DEF MigrationInv
<1>1. CASE UNCHANGED vars
    BY <1>0, <1>1 DEF vars, runVars, actorVars, MigrationInv, MigrationIsSafe
<1>2. ASSUME NEW a \in Actors, Opens(a) PROVE MigrationInv'
    BY <1>0, <1>2 DEF Opens, Goes, runVars, MigrationInv, MigrationIsSafe, TypeInv, StoreTypeOK
<1>3. ASSUME NEW a \in Actors, Creates(a) PROVE MigrationInv'
    <2>1. /\ schema' = 2 /\ schema # 1 /\ UNCHANGED <<task, backup, runVars>>
          /\ pc' = [pc EXCEPT ![a] = "ready"]
        BY <1>3 DEF Creates, Goes, MigrationInv, TypeInv, StoreTypeOK
    <2>2. task'.format = 2 => MigrationIsSafe'
        BY <2>1 DEF MigrationInv, MigrationIsSafe, TypeInv, StoreTypeOK, runVars, Unsatisfied,
            Unresolved
    <2>3. alive' => task'.format = 2
        BY <2>1 DEF MigrationInv, MigrationIsSafe, TypeInv, StoreTypeOK, runVars, NoTask
    <2>4. MigrationIsSafe'
        BY <2>1, <2>2, <2>3 DEF MigrationInv, MigrationIsSafe, TypeInv, StoreTypeOK
    <2> QED
        BY <2>1, <2>4 DEF MigrationInv, TypeInv, StoreTypeOK
<1>u. ASSUME NEW a \in Actors, Upgrades(a) PROVE MigrationInv'
    <2>1. /\ schema' = 2 /\ UNCHANGED runVars
          /\ \A b \in Actors : pc'[b] = (IF b = a THEN "ready" ELSE pc[b])
          /\ \A b \in Actors : pc'[b] # "failed"
        BY <1>u DEF Upgrades, Goes, fileVars, MigrationInv, MigrationIsSafe, TypeInv, StoreTypeOK,
            Working
    <2>2. CASE schema = 1
        <3>1. /\ task \in Task /\ task.format = 1 /\ task' = Migrated(task) /\ backup' = task
            BY <1>u, <2>2 DEF Upgrades, MigrationInv, TypeInv, StoreTypeOK
        <3>2. task'.format = 2 /\ task'.gates = task.gates
            BY <3>1, MigratedType
        <3>3. /\ task'.status = "READY" => ~Unsatisfied(task')
              /\ task'.status \in {"RUNNING", "SUBMITTED"} => ~Unresolved(task')
            BY <3>1, MigratedWaits DEF Unsatisfied, Unresolved
        <3>4. MigrationIsSafe'
            BY <2>1, <3>1, <3>2, <3>3 DEF MigrationIsSafe, Unsatisfied, Unresolved
        <3> QED
            BY <2>1, <2>2, <3>4 DEF MigrationInv
    <2>3. CASE schema = 2
        <3>1. task' = task /\ backup' = backup
            BY <1>u, <2>3 DEF Upgrades, fileVars
        <3> QED
            BY <2>1, <2>3, <3>1 DEF MigrationInv, MigrationIsSafe, runVars, Unsatisfied, Unresolved
    <2> QED
        BY <1>u, <2>2, <2>3 DEF TypeInv, StoreTypeOK, MigrationInv, Upgrades
\* A worker that has the file open.
<1>w. ASSUME UNCHANGED fileVars, alive' => alive, NEW a \in Actors, NEW to, Goes(a, to),
             pc[a] \notin {"off", "creating", "migrating"},
             to \notin {"off", "creating", "migrating", "failed"}
      PROVE MigrationInv'
    <2>1. \A b \in Actors : pc'[b] = IF b = a THEN to ELSE pc[b]
        BY <1>w DEF Goes, TypeInv, StoreTypeOK
    <2>2. \A b \in Actors : pc[b] # "failed"
        BY DEF MigrationInv, MigrationIsSafe
    <2> QED
        BY <1>0, <1>w, <2>1, <2>2
<1>4. ASSUME NEW a \in Actors, Begins(a) PROVE MigrationInv'
    BY <1>w, <1>4 DEF Begins, runVars
<1>5. ASSUME NEW a \in Actors, LoadsRow(a) PROVE MigrationInv'
    BY <1>w, <1>5 DEF LoadsRow, Ends, runVars
<1>6. ASSUME NEW a \in Actors, Verifies(a) PROVE MigrationInv'
    BY <1>w, <1>6 DEF Verifies, Ends, runVars
<1>7. ASSUME NEW a \in Actors, Saves(a) PROVE MigrationInv'
    BY <1>w, <1>7 DEF Saves, Ends
<1>8. ASSUME NEW a \in Actors, Erases(a) PROVE MigrationInv'
    <2>1. schema = 2 /\ schema' = 2 /\ task' = NoTask /\ UNCHANGED pc
        BY <1>8 DEF Erases, actorVars, MigrationInv
    <2> QED
        BY <2>1 DEF MigrationInv, MigrationIsSafe, NoTask
<1>9. ASSUME NEW c \in Clients, Looks(c) \/ Fetches(c) PROVE MigrationInv'
    BY <1>0, <1>9 DEF Looks, Fetches, runVars, actorVars, MigrationInv, MigrationIsSafe
<1> QED
    BY <1>1, <1>2, <1>3, <1>u, <1>4, <1>5, <1>6, <1>7, <1>8, <1>9 DEF Next

\* Processes that open one old file together all succeed, the old row is kept,
\* and no migrated task goes on under an approval it lacks (_create_schema,
\* _migrate_v1_to_v2 and _v2_snapshot of store.py).
THEOREM MigrationStaysSafe == Spec => []MigrationIsSafe
<1>1. Init => MigrationInv
    BY DEF Init, MigrationInv, MigrationIsSafe, NoTask
<1>2. MigrationInv => MigrationIsSafe
    BY DEF MigrationInv
<1> QED
    BY <1>1, <1>2, TypeInit, TypeNext, MigrationNext, PTL DEF Spec
-----------------------------------------------------------------------------
(* Conflicts.  The commits of other processes since an operation began,    *)
(* counted up to the snapshot it holds, are at least its lost attempts; and*)
(* since it took its process's lock only other processes committed.        *)

ForeignUpTo(a, k) == {i \in start[a] + 1..k : ProcessOf[log[i].by] # ProcessOf[a]}

Lost(a) == tries[a] - (IF pc[a] = "again" THEN 0 ELSE 1)

ConflictInv ==
    alive =>
        /\ row.version = Len(log) + 1
        /\ \A a \in Actors : pc[a] \in {"loading", "again"} =>
            /\ start[a] <= Len(log)
            /\ Cardinality(ForeignUpTo(a, Len(log))) >= Lost(a)
        /\ \A a \in Actors : Holding(a) =>
            /\ start[a] < local[a].version /\ local[a].version <= Len(log) + 1
            /\ Cardinality(ForeignUpTo(a, local[a].version - 1)) >= Lost(a)
            /\ \A i \in local[a].version..Len(log) : ProcessOf[log[i].by] # ProcessOf[a]

\* More of the log holds at least as many commits.
LEMMA MoreCommits ==
    \A lo, hi, S, T : lo \in Int /\ hi \in Int /\ S \subseteq lo..hi /\ T \subseteq S =>
        /\ IsFiniteSet(S) /\ IsFiniteSet(T)
        /\ Cardinality(S) \in Nat /\ Cardinality(T) \in Nat
        /\ Cardinality(T) <= Cardinality(S)
<1> TAKE lo, hi, S, T
<1> HAVE lo \in Int /\ hi \in Int /\ S \subseteq lo..hi /\ T \subseteq S
<1>1. IsFiniteSet(lo..hi)
    BY FS_Interval
<1>2. IsFiniteSet(S)
    BY <1>1, FS_Subset
<1>3. IsFiniteSet(T) /\ Cardinality(T) <= Cardinality(S)
    BY <1>2, FS_Subset
<1> QED
    BY <1>2, <1>3, FS_CardinalityType

\* A commit of another process after those counted counts as one more.
LEMMA OneMoreCommit ==
    \A lo, hi, S, T, x :
        lo \in Int /\ hi \in Int /\ S \subseteq lo..hi /\ T \subseteq S /\ x \in S \ T =>
        /\ Cardinality(S) \in Nat /\ Cardinality(T) \in Nat
        /\ Cardinality(T) + 1 <= Cardinality(S)
<1> TAKE lo, hi, S, T, x
<1> HAVE lo \in Int /\ hi \in Int /\ S \subseteq lo..hi /\ T \subseteq S /\ x \in S \ T
<1>1. IsFiniteSet(S) /\ IsFiniteSet(T) /\ Cardinality(T) \in Nat /\ Cardinality(S) \in Nat
    BY MoreCommits
<1>2. Cardinality(T \cup {x}) = Cardinality(T) + 1
    BY <1>1, FS_AddElement
<1>3. T \cup {x} \in SUBSET S
    OBVIOUS
<1>4. Cardinality(T \cup {x}) <= Cardinality(S)
    BY <1>1, <1>3, FS_Subset
<1> QED
    BY <1>1, <1>2, <1>4

\* A step that leaves the run alone, and under which an actor at work stays as
\* it was.
LEMMA ConflictsKept ==
    ASSUME TypeInv, ConflictInv, UNCHANGED runVars,
           \A b \in Actors : pc'[b] \in Working \cup {"again"} =>
              /\ pc'[b] = pc[b] /\ local'[b] = local[b]
              /\ tries'[b] = tries[b] /\ start'[b] = start[b]
    PROVE ConflictInv'
<1> SUFFICES ASSUME alive' PROVE ConflictInv'
    BY DEF ConflictInv
<1>1. alive /\ row' = row /\ log' = log
    BY DEF runVars
<1>2. \A b \in Actors : pc'[b] \in Working \cup {"again"} =>
        Lost(b)' = Lost(b) /\ \A k : ForeignUpTo(b, k)' = ForeignUpTo(b, k)
    BY <1>1 DEF Lost, ForeignUpTo
<1>3. \A b \in Actors : pc'[b] \in {"loading", "again"} =>
        start'[b] <= Len(log') /\ Cardinality(ForeignUpTo(b, Len(log)))' >= Lost(b)'
    BY <1>1 DEF ConflictInv, Lost, ForeignUpTo, Working
<1>4. \A b \in Actors : Holding(b)' =>
        /\ start'[b] < local'[b].version /\ local'[b].version <= Len(log') + 1
        /\ Cardinality(ForeignUpTo(b, local[b].version - 1))' >= Lost(b)'
        /\ \A i \in local'[b].version..Len(log') : ProcessOf[log'[i].by] # ProcessOf[b]
    BY <1>1 DEF ConflictInv, Lost, ForeignUpTo, Working, Holding
<1> QED
    BY <1>1, <1>3, <1>4 DEF ConflictInv

LEMMA ConflictNext == TypeInv /\ LogInv /\ ConflictInv /\ [Next]_vars => ConflictInv'
<1> SUFFICES ASSUME TypeInv, LogInv, ConflictInv, [Next]_vars PROVE ConflictInv'
    OBVIOUS
<1>t. /\ Len(log) \in Nat /\ log \in Seq(Entry)
      /\ \A a \in Actors : start[a] \in Nat /\ tries[a] \in Nat /\ local[a].version \in Nat
    BY DEF TypeInv, StoreTypeOK, Row
<1>0. CASE UNCHANGED vars
    BY <1>0, ConflictsKept DEF vars, actorVars, memoryVars
<1>1. ASSUME NEW a \in Actors, Opens(a) PROVE ConflictInv'
    BY <1>1, ConflictsKept DEF Opens, Goes, memoryVars, TypeInv, StoreTypeOK, Working
<1>2. ASSUME NEW a \in Actors, Creates(a) \/ Upgrades(a) PROVE ConflictInv'
    BY <1>2, ConflictsKept DEF Creates, Upgrades, fileVars, Goes, memoryVars, TypeInv, StoreTypeOK, Working
<1>3. ASSUME NEW a \in Actors, Begins(a) PROVE ConflictInv'
    <2> SUFFICES ASSUME alive' PROVE ConflictInv'
        BY DEF ConflictInv
    <2>1. /\ pc[a] \in {"ready", "again"} /\ pc' = [pc EXCEPT ![a] = "loading"]
          /\ UNCHANGED <<alive, row, log, local>>
          /\ \A b \in Actors : b # a => tries'[b] = tries[b] /\ start'[b] = start[b]
        BY <1>3 DEF Begins, Goes, runVars, TypeInv, StoreTypeOK
    <2>2. start'[a] <= Len(log) /\ Cardinality(ForeignUpTo(a, Len(log)))' >= tries'[a] - 1
        <3>1. CASE pc[a] = "ready"
            <4>1. tries'[a] = 1 /\ start'[a] = Len(log)
                BY <1>3, <3>1 DEF Begins, TypeInv, StoreTypeOK
            <4>2. ForeignUpTo(a, Len(log))' \subseteq start'[a] + 1..Len(log)
                BY <2>1 DEF ForeignUpTo
            <4>3. start'[a] + 1 \in Int /\ Len(log) \in Int
                BY <4>1, <1>t
            <4>4. Cardinality(ForeignUpTo(a, Len(log)))' \in Nat
                BY <4>2, <4>3, MoreCommits, Zenon
            <4> QED
                BY <4>1, <4>4, <1>t
        <3>2. CASE pc[a] = "again"
            <4>1. tries'[a] = tries[a] + 1 /\ start' = start
                BY <1>3, <3>2 DEF Begins, TypeInv, StoreTypeOK
            <4>2. start[a] <= Len(log) /\ Cardinality(ForeignUpTo(a, Len(log))) >= tries[a]
                BY <2>1, <3>2, <1>t DEF ConflictInv, Lost
            <4>3. ForeignUpTo(a, Len(log))' = ForeignUpTo(a, Len(log))
                BY <2>1, <4>1 DEF ForeignUpTo
            <4> QED
                BY <4>1, <4>2, <4>3, <1>t
        <3> QED
            BY <2>1, <3>1, <3>2
    <2>3. \A b \in Actors : b # a =>
            /\ pc'[b] = pc[b] /\ Lost(b)' = Lost(b) /\ start'[b] = start[b]
            /\ \A k : ForeignUpTo(b, k)' = ForeignUpTo(b, k)
        BY <2>1 DEF Lost, ForeignUpTo, TypeInv, StoreTypeOK
    <2>4. pc'[a] = "loading" /\ Lost(a)' = tries'[a] - 1
        BY <2>1 DEF Lost, TypeInv, StoreTypeOK
    <2>5. \A b \in Actors : pc'[b] \in {"loading", "again"} =>
            start'[b] <= Len(log') /\ Cardinality(ForeignUpTo(b, Len(log)))' >= Lost(b)'
        <3> TAKE b \in Actors
        <3> HAVE pc'[b] \in {"loading", "again"}
        <3>1. CASE b = a
            BY <2>1, <2>2, <2>4, <3>1
        <3>2. CASE b # a
            <4>1. start[b] <= Len(log) /\ Cardinality(ForeignUpTo(b, Len(log))) >= Lost(b)
                BY <2>1, <2>3, <3>2 DEF ConflictInv
            <4> QED
                BY <2>1, <2>3, <3>2, <4>1
        <3> QED
            BY <3>1, <3>2
    <2>6. \A b \in Actors : Holding(b)' =>
            /\ start'[b] < local'[b].version /\ local'[b].version <= Len(log') + 1
            /\ Cardinality(ForeignUpTo(b, local[b].version - 1))' >= Lost(b)'
            /\ \A i \in local'[b].version..Len(log') : ProcessOf[log'[i].by] # ProcessOf[b]
        <3> TAKE b \in Actors
        <3> HAVE Holding(b)'
        <3>1. b # a /\ Holding(b)
            BY <2>3, <2>4 DEF Holding
        <3>2. /\ start[b] < local[b].version /\ local[b].version <= Len(log) + 1
              /\ Cardinality(ForeignUpTo(b, local[b].version - 1)) >= Lost(b)
              /\ \A i \in local[b].version..Len(log) : ProcessOf[log[i].by] # ProcessOf[b]
            BY <2>1, <3>1 DEF ConflictInv
        <3> QED
            BY <2>1, <2>3, <3>1, <3>2
    <2> QED
        BY <2>1, <2>5, <2>6 DEF ConflictInv
<1>4. ASSUME NEW a \in Actors, LoadsRow(a) PROVE ConflictInv'
    <2>1. CASE alive
        <3>1. /\ pc[a] = "loading" /\ pc' = [pc EXCEPT ![a] = "verifying"]
              /\ local' = [local EXCEPT ![a] = row] /\ UNCHANGED <<alive, row, log, tries, start>>
            BY <1>4, <2>1 DEF LoadsRow, Goes, runVars
        <3>2. local'[a].version = Len(log) + 1 /\ pc'[a] = "verifying"
            BY <2>1, <3>1 DEF ConflictInv, TypeInv, StoreTypeOK
        <3>3. \A b \in Actors : Lost(b)' = Lost(b) /\ \A k : ForeignUpTo(b, k)' = ForeignUpTo(b, k)
            BY <3>1 DEF Lost, ForeignUpTo, TypeInv, StoreTypeOK
        <3>4. start[a] <= Len(log) /\ Cardinality(ForeignUpTo(a, Len(log))) >= Lost(a)
            BY <2>1, <3>1 DEF ConflictInv
        <3>5. \A b \in Actors : b # a => pc'[b] = pc[b] /\ local'[b] = local[b]
            BY <3>1 DEF TypeInv, StoreTypeOK
        <3>6. \A b \in Actors : pc'[b] \in {"loading", "again"} =>
                start'[b] <= Len(log') /\ Cardinality(ForeignUpTo(b, Len(log)))' >= Lost(b)'
            BY <2>1, <3>1, <3>2, <3>3, <3>5 DEF ConflictInv
        <3>7. \A b \in Actors : Holding(b)' =>
                /\ start'[b] < local'[b].version /\ local'[b].version <= Len(log') + 1
                /\ Cardinality(ForeignUpTo(b, local[b].version - 1))' >= Lost(b)'
                /\ \A i \in local'[b].version..Len(log') : ProcessOf[log'[i].by] # ProcessOf[b]
            <4> TAKE b \in Actors
            <4> HAVE Holding(b)'
            <4>1. CASE b = a
                <5>1. local'[a].version - 1 = Len(log)
                    BY <3>2, <1>t
                <5>2. Cardinality(ForeignUpTo(a, local[a].version - 1))' >= Lost(a)'
                    BY <3>1, <3>3, <3>4, <5>1 DEF ForeignUpTo
                <5> QED
                    BY <3>1, <3>2, <3>4, <4>1, <5>2, <1>t
            <4>2. CASE b # a
                <5>1. Holding(b)
                    BY <3>5, <4>2 DEF Holding
                <5>2. /\ start[b] < local[b].version /\ local[b].version <= Len(log) + 1
                      /\ Cardinality(ForeignUpTo(b, local[b].version - 1)) >= Lost(b)
                      /\ \A i \in local[b].version..Len(log) : ProcessOf[log[i].by] # ProcessOf[b]
                    BY <2>1, <5>1 DEF ConflictInv
                <5> QED
                    BY <3>1, <3>3, <3>5, <4>2, <5>2
            <4> QED
                BY <4>1, <4>2
        <3> QED
            BY <2>1, <3>1, <3>6, <3>7 DEF ConflictInv
    <2>2. CASE ~alive
        BY <1>4, <2>2 DEF LoadsRow, runVars, ConflictInv
    <2> QED
        BY <2>1, <2>2
<1>5. ASSUME NEW a \in Actors, Verifies(a) PROVE ConflictInv'
    <2>1. Len(EventsRead(a)) = local[a].cursor /\ pc[a] = "verifying"
        BY <1>5 DEF Verifies, EventsRead, LogInv
    <2>2. CASE Allowed(local[a].history, Kind[a])
        <3>1. /\ pc' = [pc EXCEPT ![a] = "saving"]
              /\ UNCHANGED <<alive, row, log, local, tries, start>>
            BY <1>5, <2>1, <2>2 DEF Verifies, Goes, runVars, memoryVars
        <3>2. \A b \in Actors : Lost(b)' = Lost(b) /\ \A k : ForeignUpTo(b, k)' = ForeignUpTo(b, k)
            BY <2>1, <3>1 DEF Lost, ForeignUpTo, TypeInv, StoreTypeOK
        <3>3. \A b \in Actors : /\ Holding(b)' => Holding(b)
                                /\ pc'[b] \in {"loading", "again"} => pc'[b] = pc[b]
            BY <2>1, <3>1 DEF Holding, TypeInv, StoreTypeOK
        <3>4. \A b \in Actors : alive /\ pc'[b] \in {"loading", "again"} =>
                start'[b] <= Len(log') /\ Cardinality(ForeignUpTo(b, Len(log)))' >= Lost(b)'
            BY <3>1, <3>2, <3>3 DEF ConflictInv
        <3>5. \A b \in Actors : alive /\ Holding(b)' =>
                /\ start'[b] < local'[b].version /\ local'[b].version <= Len(log') + 1
                /\ Cardinality(ForeignUpTo(b, local[b].version - 1))' >= Lost(b)'
                /\ \A i \in local'[b].version..Len(log') : ProcessOf[log'[i].by] # ProcessOf[b]
            BY <3>1, <3>2, <3>3 DEF ConflictInv
        <3> QED
            BY <3>1, <3>4, <3>5 DEF ConflictInv
    <2>3. CASE ~Allowed(local[a].history, Kind[a])
        <3>1. Ends(a) /\ UNCHANGED runVars
            BY <1>5, <2>1, <2>3 DEF Verifies
        <3> QED
            BY <3>1, ConflictsKept DEF Ends, Goes, TypeInv, StoreTypeOK, Working
    <2> QED
        BY <2>2, <2>3
<1>6. ASSUME NEW a \in Actors, Saves(a), Unchanged(a) PROVE ConflictInv'
    <2>1. /\ alive /\ pc[a] = "saving" /\ Ends(a) /\ UNCHANGED alive
          /\ row' = [version |-> local[a].version + 1, cursor |-> row.cursor + 1,
                     history |-> Append(local[a].history, Operation(a))]
          /\ log' = Append(log, Operation(a)) /\ local[a].version = row.version
        BY <1>6 DEF Saves, Unchanged
    <2>2. /\ row'.version = Len(log) + 2 /\ Len(log') = Len(log) + 1
          /\ log'[Len(log) + 1] = Operation(a) /\ \A i \in 1..Len(log) : log'[i] = log[i]
        BY <2>1, <1>t DEF ConflictInv
    <2>3. \A b \in Actors : pc'[b] \in Working \cup {"again"} =>
            /\ b # a /\ pc'[b] = pc[b] /\ local'[b] = local[b]
            /\ tries'[b] = tries[b] /\ start'[b] = start[b] /\ Lost(b)' = Lost(b)
        BY <2>1 DEF Ends, Goes, Lost, TypeInv, StoreTypeOK, Working
    <2>4. \A b \in Actors : pc'[b] \in {"loading", "again"} =>
            start'[b] <= Len(log') /\ Cardinality(ForeignUpTo(b, Len(log)))' >= Lost(b)'
        <3> TAKE b \in Actors
        <3> HAVE pc'[b] \in {"loading", "again"}
        <3>1. /\ start'[b] = start[b] /\ Lost(b)' = Lost(b)
              /\ start[b] <= Len(log) /\ Cardinality(ForeignUpTo(b, Len(log))) >= Lost(b)
            BY <2>1, <2>3 DEF ConflictInv, Working
        <3>2. ForeignUpTo(b, Len(log)) \subseteq ForeignUpTo(b, Len(log))'
            BY <2>2, <3>1, <1>t DEF ForeignUpTo
        <3>3. ForeignUpTo(b, Len(log))' \subseteq start[b] + 1..Len(log')
            BY <3>1 DEF ForeignUpTo
        <3>4. start[b] + 1 \in Int /\ Len(log') \in Int /\ Lost(b) \in Int
            BY <2>2, <1>t DEF Lost
        <3>5. /\ Cardinality(ForeignUpTo(b, Len(log)))' \in Nat
              /\ Cardinality(ForeignUpTo(b, Len(log))) \in Nat
              /\ Cardinality(ForeignUpTo(b, Len(log))) <= Cardinality(ForeignUpTo(b, Len(log)))'
            BY <3>2, <3>3, <3>4, MoreCommits, Zenon
        <3> QED
            BY <3>1, <3>4, <3>5, <2>2, <1>t
    <2>5. \A b \in Actors : Holding(b)' =>
            /\ start'[b] < local'[b].version /\ local'[b].version <= Len(log') + 1
            /\ Cardinality(ForeignUpTo(b, local[b].version - 1))' >= Lost(b)'
            /\ \A i \in local'[b].version..Len(log') : ProcessOf[log'[i].by] # ProcessOf[b]
        <3> TAKE b \in Actors
        <3> HAVE Holding(b)'
        <3>1. /\ b # a /\ Holding(b) /\ local'[b] = local[b] /\ start'[b] = start[b]
              /\ Lost(b)' = Lost(b)
            BY <2>3 DEF Holding, Working
        <3>2. /\ start[b] < local[b].version /\ local[b].version <= Len(log) + 1
              /\ Cardinality(ForeignUpTo(b, local[b].version - 1)) >= Lost(b)
              /\ \A i \in local[b].version..Len(log) : ProcessOf[log[i].by] # ProcessOf[b]
            BY <2>1, <3>1 DEF ConflictInv
        <3>3. ProcessOf[a] # ProcessOf[b]
            BY <2>1, <3>1 DEF TypeInv, StoreTypeOK, Working, Holding
        <3>4. \A i \in local[b].version..Len(log') : ProcessOf[log'[i].by] # ProcessOf[b]
            <4> TAKE i \in local[b].version..Len(log')
            <4>0. i \in Nat /\ i >= 1
                BY <3>2, <2>2, <1>t
            <4>1. CASE i <= Len(log)
                BY <4>0, <4>1, <2>2, <3>2, <1>t
            <4>2. CASE i = Len(log) + 1
                BY <4>2, <2>2, <3>3 DEF Operation
            <4> QED
                BY <4>0, <4>1, <4>2, <2>2, <1>t
        <3>5. ForeignUpTo(b, local[b].version - 1)' = ForeignUpTo(b, local[b].version - 1)
            <4>1. \A i \in start[b] + 1..local[b].version - 1 : i \in 1..Len(log)
                BY <3>2, <1>t
            <4>2. \A i \in start[b] + 1..local[b].version - 1 : log'[i] = log[i]
                BY <2>2, <4>1
            <4> QED
                BY <3>1, <4>2 DEF ForeignUpTo
        <3> QED
            BY <2>2, <3>1, <3>2, <3>4, <3>5, <1>t
    <2> QED
        BY <2>1, <2>2, <2>4, <2>5, <1>t DEF ConflictInv
<1>7. ASSUME NEW a \in Actors, Saves(a), ~Unchanged(a) PROVE ConflictInv'
    <2>0. UNCHANGED <<alive, row, log>> /\ pc[a] = "saving"
        BY <1>7 DEF Saves
    <2>1. CASE Ends(a)
        BY <2>0, <2>1, ConflictsKept DEF Ends, Goes, TypeInv, StoreTypeOK, Working, runVars
    <2>2. CASE Goes(a, "again") /\ UNCHANGED memoryVars
        <3> SUFFICES ASSUME alive PROVE ConflictInv'
            BY <2>0 DEF ConflictInv
        <3>1. \A b \in Actors : b # a =>
                pc'[b] = pc[b] /\ Lost(b)' = Lost(b)
            BY <2>2 DEF Goes, memoryVars, Lost, TypeInv, StoreTypeOK
        <3>2. pc'[a] = "again" /\ Lost(a)' = Lost(a) + 1
            BY <2>0, <2>2, <1>t DEF Goes, memoryVars, Lost, TypeInv, StoreTypeOK
        <3>3. \A b \in Actors : \A k : ForeignUpTo(b, k)' = ForeignUpTo(b, k)
            BY <2>0, <2>2 DEF ForeignUpTo, memoryVars
        <3>4. /\ start[a] < local[a].version /\ local[a].version <= Len(log) + 1
              /\ Cardinality(ForeignUpTo(a, local[a].version - 1)) >= Lost(a)
              /\ \A i \in local[a].version..Len(log) : ProcessOf[log[i].by] # ProcessOf[a]
            BY <2>0 DEF ConflictInv, Holding
        <3>5. local[a].version <= Len(log)
            BY <1>7, <2>0, <3>4, <1>t DEF Unchanged, ConflictInv
        <3>6. Cardinality(ForeignUpTo(a, Len(log))) >= Lost(a) + 1
            <4>1. Len(log) \in ForeignUpTo(a, Len(log))
                BY <3>4, <3>5, <1>t DEF ForeignUpTo
            <4>2. /\ Len(log) \notin ForeignUpTo(a, local[a].version - 1)
                  /\ ForeignUpTo(a, local[a].version - 1) \subseteq ForeignUpTo(a, Len(log))
                  /\ ForeignUpTo(a, Len(log)) \subseteq start[a] + 1..Len(log)
                BY <3>5, <1>t DEF ForeignUpTo
            <4>3. start[a] + 1 \in Int /\ Len(log) \in Int /\ Lost(a) \in Int
                BY <1>t DEF Lost
            <4>4. /\ Cardinality(ForeignUpTo(a, Len(log))) \in Nat
                  /\ Cardinality(ForeignUpTo(a, local[a].version - 1)) \in Nat
                  /\ Cardinality(ForeignUpTo(a, local[a].version - 1)) + 1
                        <= Cardinality(ForeignUpTo(a, Len(log)))
                BY <4>1, <4>2, <4>3, OneMoreCommit, Zenon
            <4> QED
                BY <3>4, <4>3, <4>4
        <3>7. \A b \in Actors : pc'[b] \in {"loading", "again"} =>
                start[b] <= Len(log) /\ Cardinality(ForeignUpTo(b, Len(log))) >= Lost(b)'
            <4> TAKE b \in Actors
            <4> HAVE pc'[b] \in {"loading", "again"}
            <4>1. CASE b = a
                BY <4>1, <3>2, <3>4, <3>5, <3>6, <1>t
            <4>2. CASE b # a
                BY <4>2, <3>1 DEF ConflictInv
            <4> QED
                BY <4>1, <4>2
        <3>8. \A b \in Actors : Holding(b)' =>
                /\ start[b] < local[b].version /\ local[b].version <= Len(log) + 1
                /\ Cardinality(ForeignUpTo(b, local[b].version - 1)) >= Lost(b)'
                /\ \A i \in local[b].version..Len(log) : ProcessOf[log[i].by] # ProcessOf[b]
            <4> TAKE b \in Actors
            <4> HAVE Holding(b)'
            <4>1. b # a /\ Holding(b)
                BY <3>1, <3>2 DEF Holding
            <4> QED
                BY <4>1, <3>1 DEF ConflictInv
        <3>9. start' = start /\ local' = local
            BY <2>2 DEF memoryVars
        <3>10. \A b \in Actors : /\ Cardinality(ForeignUpTo(b, Len(log)))' = Cardinality(ForeignUpTo(b, Len(log)))
                                 /\ Cardinality(ForeignUpTo(b, local[b].version - 1))' = Cardinality(ForeignUpTo(b, local[b].version - 1))
            BY <2>0, <3>3, <3>9 DEF ForeignUpTo
        <3> QED
            BY <2>0, <3>7, <3>8, <3>9, <3>10 DEF ConflictInv
    <2> QED
        BY <1>7, <2>1, <2>2 DEF Saves
<1>8. ASSUME NEW a \in Actors, Erases(a) PROVE ConflictInv'
    BY <1>8 DEF Erases, ConflictInv
<1>9. ASSUME NEW c \in Clients, Looks(c) \/ Fetches(c) PROVE ConflictInv'
    BY <1>9, ConflictsKept DEF Looks, Fetches, actorVars, memoryVars
<1> QED
    BY <1>0, <1>1, <1>2, <1>3, <1>4, <1>5, <1>6, <1>7, <1>8, <1>9 DEF Next

\* An operation that gives up after n attempts met n commits of other processes:
\* the lock of transaction() keeps the threads of one process from conflicting
\* (save raises ConcurrentUpdate; _mutation_result, decide_approval and
\* record_usage try again).
THEOREM ConflictsAreForeign == Spec => []ConflictsComeFromOutside
<1>1. Init => ConflictInv
    BY DEF Init, ConflictInv, NewRow, Holding
<1>2. TypeInv /\ ConflictInv => ConflictsComeFromOutside
    <2> SUFFICES ASSUME TypeInv, ConflictInv, NEW a \in Actors,
                        pc[a] \in Working \cup {"again"}, alive
                 PROVE Cardinality(ForeignUpTo(a, Len(log))) >= Lost(a)
        BY DEF ConflictsComeFromOutside, ForeignUpTo, Lost
    <2>0. /\ Len(log) \in Nat /\ start[a] \in Nat /\ tries[a] \in Nat /\ local[a].version \in Nat
          /\ Lost(a) \in Int
        BY DEF TypeInv, StoreTypeOK, Row, Lost
    <2>1. CASE pc[a] \in {"loading", "again"}
        BY <2>1 DEF ConflictInv
    <2>2. CASE Holding(a)
        <3>1. /\ local[a].version <= Len(log) + 1
              /\ Cardinality(ForeignUpTo(a, local[a].version - 1)) >= Lost(a)
            BY <2>2 DEF ConflictInv
        <3>2. /\ ForeignUpTo(a, local[a].version - 1) \subseteq ForeignUpTo(a, Len(log))
              /\ ForeignUpTo(a, Len(log)) \subseteq start[a] + 1..Len(log)
            BY <2>0, <3>1 DEF ForeignUpTo
        <3>3. /\ Cardinality(ForeignUpTo(a, Len(log))) \in Nat
              /\ Cardinality(ForeignUpTo(a, local[a].version - 1)) \in Nat
              /\ Cardinality(ForeignUpTo(a, local[a].version - 1)) <= Cardinality(ForeignUpTo(a, Len(log)))
            <4>1. start[a] + 1 \in Int /\ Len(log) \in Int
                BY <2>0
            <4> QED
                BY <4>1, <3>2, MoreCommits, Zenon
        <3> QED
            BY <2>0, <3>1, <3>3
    <2> QED
        BY <2>1, <2>2 DEF Holding, Working
<1> QED
    BY <1>1, <1>2, TypeInit, TypeNext, LogInvInit, LogInvNext, ConflictNext, PTL DEF Spec
=============================================================================
