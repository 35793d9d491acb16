------------------------------- MODULE Spending -------------------------------
(***************************************************************************)
(* What bounds the builds and the spending of one account: the checks of   *)
(* cavman/api.py before a build is queued, the ceilings a worker computes  *)
(* when it starts a job (cavman/worker.py, cavman/accounts.py), and the    *)
(* check of every model call (walter/usage_model.py, walter/usage.py).     *)
(* Each reads what others are changing, and none holds anything: a call is *)
(* checked against what was spent, and its price is known when it is over. *)
(*                                                                         *)
(* Cost is counted in whole units, up to MaxPrice of them a call; token    *)
(* ceilings are checked as the cost is.  A month does not end here.        *)
(***************************************************************************)
EXTENDS Naturals, FiniteSets

CONSTANTS
    Runs, Clients,      \* the account's runs, and its requests in progress
    Workers, Lanes,     \* worker slots; model calls a job makes at once
    MaxBuilds,          \* max_concurrent_builds
    RunCalls, Budgets,  \* max_model_calls, and the budgets a run may be given
    AccountCalls, AccountCost,  \* the monthly ceilings
    MaxPrice,           \* what the dearest call costs
    None

ASSUME LimitsAssumption ==
    /\ {Lanes, MaxBuilds, MaxPrice} \subseteq Nat \ {0}
    /\ {RunCalls, AccountCalls, AccountCost} \subseteq Nat
    /\ Budgets \subseteq Nat /\ Budgets # {}
ASSUME ActorsAssumption ==
    /\ IsFiniteSet(Runs) /\ IsFiniteSet(Clients)
    /\ IsFiniteSet(Workers) /\ Workers # {}
    /\ None \notin Runs \cup Workers

VARIABLES
    request, target,    \* where each request is, and the run it is about
    job, holder,        \* the active job of each run, and who holds its lease
    budget,             \* runs.budget_usd
    calls, cost,        \* usage_records: how many, and what they cost
    work, stage,        \* the run a worker is at, and how far it is
    seen,               \* what the account had left when it read it
    limit,              \* the UsageBudget of its job
    flying,             \* its calls that were checked and are not recorded
    stalled,            \* runs whose lease lapsed under a worker that went on
    uncounted           \* runs queued without being counted

requestVars == <<request, target>>
jobVars == <<job, holder, stalled, uncounted>>
usageVars == <<calls, cost, flying>>
workVars == <<work, stage, seen, limit>>
vars == <<requestVars, jobVars, budget, usageVars, workVars>>

Nothing == [calls |-> 0, cost |-> 0]
Least(a, b) == IF a <= b THEN a ELSE b
Left(ceiling, used) == IF used <= ceiling THEN ceiling - used ELSE 0
Slots == Cardinality(Workers)

\* The rows of a count kept by run, or by worker, and how many there are.
Rows(of) == UNION {{x} \X (1..of[x]) : x \in DOMAIN of}
Total(of) == Cardinality(Rows(of))

At(r) == {w \in Workers : work[w] = r}
InFlight(r) == Total([w \in Workers |-> IF work[w] = r THEN flying[w] ELSE 0])
Active == {r \in Runs : job[r] # "none"}
Exhausted == Total(calls) >= AccountCalls \/ Total(cost) >= AccountCost

Init ==
    /\ request = [c \in Clients |-> "idle"] /\ target = [c \in Clients |-> None]
    /\ job = [r \in Runs |-> "none"] /\ holder = [r \in Runs |-> None]
    /\ budget \in [Runs -> Budgets]
    /\ calls = [r \in Runs |-> 0] /\ cost = [r \in Runs |-> 0]
    /\ work = [w \in Workers |-> None] /\ stage = [w \in Workers |-> "idle"]
    /\ seen = [w \in Workers |-> Nothing] /\ limit = [w \in Workers |-> Nothing]
    /\ flying = [w \in Workers |-> 0]
    /\ stalled = {} /\ uncounted = {}
-----------------------------------------------------------------------------
(* create_build and continue_run.                                          *)

Goes(c, to) == request' = [request EXCEPT ![c] = to] /\ UNCHANGED target
Leaves(c) ==
    /\ request' = [request EXCEPT ![c] = "idle"]
    /\ target' = [target EXCEPT ![c] = None]

\* require_account_allowance.
Asks(c) ==
    /\ request[c] = "idle" /\ ~Exhausted
    /\ request' = [request EXCEPT ![c] = "counting"]
    /\ \E r \in Runs : target' = [target EXCEPT ![c] = r]
    /\ UNCHANGED <<jobVars, budget, usageVars, workVars>>

HasRoom_Running == Cardinality({r \in Runs : job[r] = "running"}) < MaxBuilds  \* slip

HasRoom == Cardinality(Active) < MaxBuilds

\* require_capacity, unless the run has an active job.
Counts(c) ==
    /\ request[c] = "counting"
    /\ IF target[c] \in Active THEN Goes(c, "passing")
       ELSE IF HasRoom THEN Goes(c, "queueing") ELSE Leaves(c)
    /\ UNCHANGED <<jobVars, budget, usageVars, workVars>>

\* enqueue: nothing for a run that has an active job.
Queue(r, counted) ==
    /\ job' = [job EXCEPT ![r] = "queued"]
    /\ uncounted' = IF counted THEN uncounted ELSE uncounted \cup {r}
    /\ UNCHANGED <<holder, stalled>>

\* The job that let a request pass uncounted may have ended.
Enqueues(c) ==
    /\ request[c] \in {"passing", "queueing"}
    /\ IF target[c] \in Active THEN UNCHANGED jobVars
       ELSE Queue(target[c], request[c] = "queueing")
    /\ Leaves(c)
    /\ UNCHANGED <<budget, usageVars, workVars>>

\* decide continues the run (which approval waited is the kernel's), and so does the
\* operator's requeue: neither counts, and neither asks what the account has left.
Decides(r) ==
    /\ r \notin Active /\ Queue(r, FALSE)
    /\ UNCHANGED <<requestVars, budget, usageVars, workVars>>

\* A job that is running keeps the ceiling it started with.
SetsBudget(r) ==
    /\ \E b \in Budgets \ {budget[r]} : budget' = [budget EXCEPT ![r] = b]
    /\ UNCHANGED <<requestVars, jobVars, usageVars, workVars>>
-----------------------------------------------------------------------------
(* The worker, and the model calls of a job.                               *)

\* The job starts: what the account has left, over all its runs.
Claims(w, r) ==
    /\ work[w] = None /\ job[r] = "queued"
    /\ job' = [job EXCEPT ![r] = "running"] /\ holder' = [holder EXCEPT ![r] = w]
    /\ work' = [work EXCEPT ![w] = r] /\ stage' = [stage EXCEPT ![w] = "starting"]
    /\ seen' = [seen EXCEPT ![w] = [calls |-> Left(AccountCalls, Total(calls)),
                                    cost |-> Left(AccountCost, Total(cost))]]
    /\ UNCHANGED <<requestVars, budget, usageVars, limit, stalled, uncounted>>

Ceilings_OfTheRun(w) == [calls |-> RunCalls, cost |-> budget[work[w]]]  \* slip

\* _limits: ceilings count the lifetime of the run, so what the account has
\* left is added to what the run has used.
Ceilings(w) ==
    [calls |-> Least(RunCalls, calls[work[w]] + seen[w].calls),
     cost |-> Least(budget[work[w]], cost[work[w]] + seen[w].cost)]

Starts(w) ==
    /\ stage[w] = "starting" /\ stage' = [stage EXCEPT ![w] = "running"]
    /\ limit' = [limit EXCEPT ![w] = Ceilings(w)]
    /\ seen' = [seen EXCEPT ![w] = Nothing]
    /\ UNCHANGED <<requestVars, jobVars, budget, usageVars, work>>

\* UsageBudget.check, on the records there are.
WithinBudget(w) ==
    /\ calls[work[w]] + 1 <= limit[w].calls
    /\ cost[work[w]] < limit[w].cost

Calls(w) ==
    /\ stage[w] = "running" /\ flying[w] < Lanes
    /\ WithinBudget(w)
    /\ flying' = [flying EXCEPT ![w] = @ + 1]
    /\ UNCHANGED <<requestVars, jobVars, budget, calls, cost, workVars>>

\* usage_cost: what the provider reports, which may be nothing.
Priced(r) == {cost[r] + price : price \in 0..MaxPrice}

\* The response, or the failure of the attempt, is recorded: the call counts,
\* whether it has a price or not.
Records(w) ==
    /\ flying[w] > 0 /\ flying' = [flying EXCEPT ![w] = @ - 1]
    /\ calls' = [calls EXCEPT ![work[w]] = @ + 1]
    /\ \E priced \in Priced(work[w]) : cost' = [cost EXCEPT ![work[w]] = priced]
    /\ UNCHANGED <<requestVars, jobVars, budget, workVars>>

\* The account of a call is lost with every attempt to record it.
Loses(w) ==
    /\ flying[w] > 0 /\ flying' = [flying EXCEPT ![w] = @ - 1]
    /\ UNCHANGED <<requestVars, jobVars, budget, calls, cost, workVars>>

Rests(w) ==
    /\ work' = [work EXCEPT ![w] = None] /\ stage' = [stage EXCEPT ![w] = "idle"]
    /\ seen' = [seen EXCEPT ![w] = Nothing] /\ limit' = [limit EXCEPT ![w] = Nothing]

\* The lease of r's job is given up, and the job goes to another state.
Frees(r, to) ==
    /\ job' = [job EXCEPT ![r] = to] /\ holder' = [holder EXCEPT ![r] = None]
    /\ uncounted' = IF to = "none" THEN uncounted \ {r} ELSE uncounted

\* A worker is done with a job, however it ended, when its calls are: a stopped call
\* is recorded like a failed one.  finish does nothing to a job that was reaped.
Ends(w) ==
    /\ stage[w] # "idle" /\ flying[w] = 0
    /\ IF holder[work[w]] = w THEN Frees(work[w], "none") ELSE UNCHANGED <<job, holder, uncounted>>
    /\ Rests(w)
    /\ UNCHANGED <<requestVars, stalled, budget, usageVars>>

\* The worker dies: its calls may have been billed, and its job waits for its lease.
Dies(w) ==
    /\ stage[w] # "idle" /\ Rests(w)
    /\ flying' = [flying EXCEPT ![w] = 0]
    /\ UNCHANGED <<requestVars, jobVars, budget, calls, cost>>

\* reap_expired: the worker need not be dead, and goes on if it is not.
Lapses(r) ==
    /\ job[r] = "running"
    /\ \E to \in {"queued", "none"} : Frees(r, to)
    /\ stalled' = IF At(r) = {} THEN stalled ELSE stalled \cup {r}
    /\ UNCHANGED <<requestVars, budget, usageVars, workVars>>

WorkerNext(w) ==
    \/ \E r \in Runs : Claims(w, r)
    \/ Starts(w) \/ Calls(w) \/ Records(w) \/ Loses(w) \/ Ends(w) \/ Dies(w)

Next ==
    \/ \E c \in Clients : Asks(c) \/ Counts(c) \/ Enqueues(c)
    \/ \E r \in Runs : Decides(r) \/ SetsBudget(r) \/ Lapses(r)
    \/ \E w \in Workers : WorkerNext(w)

Spec == Init /\ [][Next]_vars
-----------------------------------------------------------------------------
\* The calls made at once for a run: those of one job, unless a worker went on with
\* a job it had lost, as any of them may have.
AtOnce(r) == Lanes * IF r \in stalled THEN Slots ELSE 1

\* The checks overshoot, and by no more than the calls made at once, at the price of
\* the dearest.  So does a run, past its ceilings; the account passes its own as often
\* as there are workers, each of which may spend all that was left when it began.
SpendingIsBounded ==
    /\ \A r \in Runs :
        /\ calls[r] + InFlight(r) < RunCalls + AtOnce(r)
        /\ \E b \in Budgets : cost[r] < b + AtOnce(r) * MaxPrice
    /\ Total(calls) + Total(flying) <= Slots * (AccountCalls + Lanes - 1)
    /\ Total(cost) <= Slots * (AccountCost + Lanes * MaxPrice - 1)

\* Requests that count the builds at the same moment pass together: of the builds that
\* were counted there is one more than allowed for every other request in progress, and
\* never more.  Those a decision, the operator or a passing request queued come on top.
BuildsAreBounded ==
    Cardinality(Active \ uncounted) <= MaxBuilds + Cardinality(Clients) - 1

\* accounts.py:3-4 "A per-run budget alone does not bound what one account can
\* spend, so every account also has monthly ceilings": and they are kept, but for
\* the calls a job makes at once.
AccountKeepsItsCeiling == Total(calls) <= AccountCalls + Slots * (Lanes - 1)

\* api.py:365 "You already have {running} builds running, the most at once": the
\* builds of an account are, but for requests that count at the same moment.
ActiveBuildsAreCapped == Cardinality(Active) <= MaxBuilds + Cardinality(Clients) - 1
==============================================================================
