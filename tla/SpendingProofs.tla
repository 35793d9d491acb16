---------------------------- MODULE SpendingProofs ----------------------------
(***************************************************************************)
(* What the checks of Spending bound, for any number of runs, requests,    *)
(* worker slots and model calls at once, and any prices.                   *)
(*                                                                         *)
(* SpendingIsBounded counts what was recorded.  What is inductive counts   *)
(* what each worker may still record too (ToCome): a call moves its price  *)
(* from the second to the first, and only a claim adds to the second.      *)
(***************************************************************************)
EXTENDS Spending, FiniteSetTheorems, TLAPS

USE LimitsAssumption, ActorsAssumption
-----------------------------------------------------------------------------
(* Sums, as numbers of rows.                                               *)

LEMMA RowsAreFinite ==
    ASSUME NEW D, IsFiniteSet(D),
           NEW f \in [D -> Nat]
    PROVE  IsFiniteSet(Rows(f)) /\ Total(f) \in Nat
<1> DEFINE rows == [r \in D |-> {r} \X (1..f[r])]
           all == {{r} \X (1..f[r]) : r \in D}
<1>1. rows \in Surjection(D, all)
  BY DEF Surjection
<1>2. IsFiniteSet(all)
  BY <1>1, FS_Surjection
<1>3. ASSUME NEW S \in all PROVE IsFiniteSet(S)
  <2>1. PICK r \in D : S = {r} \X (1..f[r])
    OBVIOUS
  <2> HIDE DEF all, rows
  <2>2. IsFiniteSet({r})
    BY FS_Singleton
  <2>3. 1 \in Int /\ f[r] \in Int
    OBVIOUS
  <2>4. IsFiniteSet(1..f[r])
    BY <2>3, FS_Interval
  <2>5. QED BY <2>1, <2>2, <2>4, FS_Product
<1>4. IsFiniteSet(UNION all)
  BY <1>2, <1>3, FS_UNION
<1>5. QED BY <1>4, FS_CardinalityType DEF Rows, Total

LEMMA UpTo ==
    ASSUME NEW k \in Nat PROVE IsFiniteSet(1..k) /\ Cardinality(1..k) = k
<1>1. 1 \in Int /\ k \in Int
  OBVIOUS
<1>2. IsFiniteSet(1..k) /\ Cardinality(1..k) = IF 1 > k THEN 0 ELSE k - 1 + 1
  BY <1>1, FS_Interval
<1>3. (IF 1 > k THEN 0 ELSE k - 1 + 1) = k
  OBVIOUS
<1>4. QED BY <1>2, <1>3

LEMMA TotalExcept ==
    ASSUME NEW D, IsFiniteSet(D),
           NEW f \in [D -> Nat], NEW r \in D, NEW n \in Nat
    PROVE  Total([f EXCEPT ![r] = n]) = Total(f) - f[r] + n
<1> DEFINE Of(k) == {r} \X (1..k)
           Others == UNION {{s} \X (1..f[s]) : s \in D \ {r}}
           g == [f EXCEPT ![r] = n]
<1>1. g \in [D -> Nat] /\ g[r] = n
  OBVIOUS
<1>2. Rows(f) = Others \cup Of(f[r]) /\ Rows(g) = Others \cup Of(n)
  BY DEF Rows
<1>3. Others \cap Of(f[r]) = {} /\ Others \cap Of(n) = {}
  OBVIOUS
<1> HIDE DEF Others
<1>4. IsFiniteSet(Others)
  BY <1>2, RowsAreFinite, FS_Subset
<1>5. ASSUME NEW k \in Nat PROVE IsFiniteSet(Of(k)) /\ Cardinality(Of(k)) = k
  <2>1. IsFiniteSet({r}) /\ Cardinality({r}) = 1
    BY FS_Singleton
  <2>2. IsFiniteSet(1..k) /\ Cardinality(1..k) = k
    BY UpTo
  <2>3. Cardinality({r}) * Cardinality(1..k) = k
    BY <2>1, <2>2
  <2>4. QED BY <2>1, <2>2, <2>3, FS_Product
<1>6. f[r] \in Nat
  OBVIOUS
<1>7. Cardinality(Others) \in Nat /\ Cardinality({}) = 0
  BY <1>4, FS_CardinalityType, FS_EmptySet
<1> DEFINE More(k) == Others \cup Of(k)
<1>8. ASSUME NEW k \in Nat, Others \cap Of(k) = {}
      PROVE  Cardinality(More(k)) = Cardinality(Others) + k
  <2> HIDE DEF Of
  <2>1. /\ Cardinality(Others \cup Of(k))
             = Cardinality(Others) + Cardinality(Of(k)) - Cardinality(Others \cap Of(k))
    BY <1>4, <1>5, FS_Union
  <2>2. Cardinality(Others \cap Of(k)) = 0 /\ Cardinality(Of(k)) = k
    BY <1>5, <1>7, <1>8
  <2>3. QED BY <1>7, <2>1, <2>2
<1>9. Cardinality(More(f[r])) = Cardinality(Others) + f[r]
  BY <1>3, <1>6, <1>8
<1>10. Cardinality(More(n)) = Cardinality(Others) + n
  BY <1>3, <1>8
<1>11. Total(f) = Cardinality(More(f[r])) /\ Total(g) = Cardinality(More(n))
  BY <1>2 DEF Total
<1> HIDE DEF More, g
<1>12. Total(g) = Total(f) - f[r] + n
  BY <1>6, <1>7, <1>9, <1>10, <1>11
<1>13. QED BY <1>12 DEF g

LEMMA TotalIsMonotone ==
    ASSUME NEW D, IsFiniteSet(D),
           NEW f \in [D -> Nat], NEW g \in [D -> Nat], \A r \in D : f[r] <= g[r]
    PROVE  Total(f) <= Total(g)
<1>1. Rows(f) \subseteq Rows(g)
  <2> SUFFICES ASSUME NEW r \in D, NEW i \in 1..f[r] PROVE <<r, i>> \in Rows(g)
    BY DEF Rows
  <2>1. i \in 1..g[r]
    OBVIOUS
  <2>2. QED BY <2>1 DEF Rows
<1>2. QED BY <1>1, RowsAreFinite, FS_Subset DEF Total

\* Only what is in S counts, and each for n at most.
LEMMA TotalIsWithin ==
    ASSUME NEW D, IsFiniteSet(D),
           NEW f \in [D -> Nat], NEW S \in SUBSET D, NEW n \in Nat,
           \A r \in D : f[r] <= n /\ (r \notin S => f[r] = 0)
    PROVE  Total(f) <= Cardinality(S) * n
<1>1. Rows(f) \subseteq S \X (1..n)
  <2> SUFFICES ASSUME NEW r \in D, NEW i \in 1..f[r] PROVE r \in S /\ i \in 1..n
    BY DEF Rows
  <2>1. QED OBVIOUS
<1>2. IsFiniteSet(1..n) /\ Cardinality(1..n) = n
  BY UpTo
<1>3. IsFiniteSet(S)
  BY FS_Subset
<1>4. IsFiniteSet(S \X (1..n)) /\ Cardinality(S \X (1..n)) = Cardinality(S) * Cardinality(1..n)
  BY <1>2, <1>3, FS_Product
<1>5. Cardinality(S \X (1..n)) = Cardinality(S) * n
  BY <1>2, <1>4
<1>6. QED BY <1>1, <1>4, <1>5, FS_Subset DEF Total

\* Counts kept apart of the same things add up.
LEMMA TotalOfASum ==
    ASSUME NEW D, IsFiniteSet(D),
           NEW f \in [D -> Nat], NEW g \in [D -> Nat]
    PROVE  Total([r \in D |-> f[r] + g[r]]) = Total(f) + Total(g)
<1> DEFINE h == [r \in D |-> f[r] + g[r]]
           above == Rows(h) \ Rows(f)
           moved == [x \in above |-> <<x[1], x[2] - f[x[1]]>>]
<1>1. h \in [D -> Nat]
  OBVIOUS
<1>2. Rows(f) \subseteq Rows(h)
  BY DEF Rows
<1>3. ASSUME NEW r, NEW i
      PROVE  <<r, i>> \in above <=> r \in D /\ i \in Nat /\ f[r] < i /\ i <= f[r] + g[r]
  BY DEF Rows
<1>4. ASSUME NEW x \in above PROVE x = <<x[1], x[2]>>
  BY DEF Rows
<1>5. moved \in [above -> Rows(g)]
  <2> SUFFICES ASSUME NEW x \in above PROVE <<x[1], x[2] - f[x[1]]>> \in Rows(g)
    OBVIOUS
  <2> HIDE DEF above, moved, h
  <2>1. x[1] \in D /\ x[2] \in Nat /\ f[x[1]] < x[2] /\ x[2] <= f[x[1]] + g[x[1]]
    BY <1>3, <1>4
  <2>2. x[2] - f[x[1]] \in 1..g[x[1]]
    BY <2>1
  <2>3. QED BY <2>1, <2>2 DEF Rows
<1>6. ASSUME NEW x \in above, NEW y \in above, moved[x] = moved[y] PROVE x = y
  <2>0. moved[x] = <<x[1], x[2] - f[x[1]]>> /\ moved[y] = <<y[1], y[2] - f[y[1]]>>
    OBVIOUS
  <2> HIDE DEF above, moved, h
  <2> DEFINE a == x[2] - f[x[1]]
             b == y[2] - f[y[1]]
  <2> HIDE DEF a, b
  <2>1. x[1] = y[1] /\ a = b
    <3>1. <<x[1], a>> = <<y[1], b>>
      BY <1>6, <2>0 DEF a, b
    <3>2. QED BY <3>1
  <2>2. x[2] \in Nat /\ y[2] \in Nat /\ f[x[1]] \in Nat
    BY <1>3, <1>4
  <2>3. x[2] = y[2]
    BY <2>1, <2>2 DEF a, b
  <2>4. QED BY <1>4, <2>1, <2>3
<1>7. ASSUME NEW y \in Rows(g) PROVE \E x \in above : moved[x] = y
  <2>1. PICK r \in D : \E i \in 1..g[r] : y = <<r, i>>
    BY DEF Rows
  <2> PICK i \in 1..g[r] : y = <<r, i>>
    BY <2>1
  <2>2. i + f[r] \in Nat /\ f[r] < i + f[r] /\ i + f[r] <= f[r] + g[r] /\ (i + f[r]) - f[r] = i
    OBVIOUS
  <2>3. <<r, i + f[r]>> \in above
    BY <1>3, <2>2
  <2>4. moved[<<r, i + f[r]>>] = <<r, (i + f[r]) - f[r]>>
    BY <2>3
  <2>5. QED BY <2>2, <2>3, <2>4
<1>8. moved \in Surjection(above, Rows(g)) /\ moved \in Injection(above, Rows(g))
  <2> HIDE DEF above, moved, h
  <2>1. moved \in Surjection(above, Rows(g))
    BY <1>5, <1>7 DEF Surjection
  <2>2. moved \in Injection(above, Rows(g))
    BY <1>5, <1>6 DEF Injection, IsInjective
  <2>3. QED BY <2>1, <2>2
<1> HIDE DEF h, moved
<1>9. IsFiniteSet(Rows(h)) /\ IsFiniteSet(above)
  BY <1>1, RowsAreFinite, FS_Subset
<1>10. Cardinality(above) = Cardinality(Rows(g))
  BY <1>8, <1>9, FS_Surjection
<1>11. Cardinality(above) = Cardinality(Rows(h)) - Cardinality(Rows(h) \cap Rows(f))
  BY <1>9, FS_Difference
<1>12. Rows(h) \cap Rows(f) = Rows(f)
  BY <1>2
<1>13. Total(f) \in Nat /\ Total(g) \in Nat /\ Total(h) \in Nat
  BY <1>1, RowsAreFinite
<1>14. Cardinality(Rows(g)) = Cardinality(Rows(h)) - Cardinality(Rows(f))
  BY <1>10, <1>11, <1>12
<1>15. Total(h) = Total(f) + Total(g)
  BY <1>13, <1>14 DEF Total
<1>16. QED BY <1>15 DEF h
-----------------------------------------------------------------------------
(* Numbers.                                                                *)

LEMMA Numbers ==
    /\ Lanes \in Nat /\ MaxBuilds \in Nat /\ MaxPrice \in Nat
    /\ Lanes >= 1 /\ MaxBuilds >= 1 /\ MaxPrice >= 1
    /\ RunCalls \in Nat /\ AccountCalls \in Nat /\ AccountCost \in Nat
  OBVIOUS

LEMMA SlotsAreSome == Slots \in Nat /\ Slots >= 1
<1>1. Slots \in Nat /\ Cardinality({}) = 0 /\ Slots # 0
  BY FS_CardinalityType, FS_EmptySet DEF Slots
<1>2. QED BY <1>1

LEMMA WorkersExcept ==
    ASSUME NEW f \in [Workers -> Nat], NEW w \in Workers, NEW n \in Nat
    PROVE  Total([f EXCEPT ![w] = n]) = Total(f) - f[w] + n
<1>1. IsFiniteSet(Workers)
  OBVIOUS
<1>2. \A g \in [Workers -> Nat] : \A x \in Workers : \A k \in Nat :
        Total([g EXCEPT ![x] = k]) = Total(g) - g[x] + k
  BY <1>1, TotalExcept, Zenon
<1>3. QED BY <1>2, Zenon

LEMMA RunsExcept ==
    ASSUME NEW f \in [Runs -> Nat], NEW r \in Runs, NEW n \in Nat
    PROVE  Total([f EXCEPT ![r] = n]) = Total(f) - f[r] + n
<1>1. IsFiniteSet(Runs)
  OBVIOUS
<1>2. \A g \in [Runs -> Nat] : \A x \in Runs : \A k \in Nat :
        Total([g EXCEPT ![x] = k]) = Total(g) - g[x] + k
  BY <1>1, TotalExcept, Zenon
<1>3. QED BY <1>2, Zenon

\* What k calls cost, at the dearest.
LEMMA Times ==
    ASSUME NEW k \in Nat, NEW n \in Nat, k <= n, NEW p \in Nat
    PROVE  k * p \in Nat /\ k * p <= n * p /\ (k + 1) * p = k * p + p
  OBVIOUS
-----------------------------------------------------------------------------
(* What each worker and each run keeps.                                    *)

Ceiling == [calls : Nat, cost : Nat]

TypeOK ==
    /\ request \in [Clients -> {"idle", "counting", "passing", "queueing"}]
    /\ target \in [Clients -> Runs \cup {None}]
    /\ \A c \in Clients : request[c] # "idle" => target[c] \in Runs
    /\ job \in [Runs -> {"none", "queued", "running"}]
    /\ holder \in [Runs -> Workers \cup {None}]
    /\ budget \in [Runs -> Budgets]
    /\ calls \in [Runs -> Nat] /\ cost \in [Runs -> Nat]
    /\ work \in [Workers -> Runs \cup {None}]
    /\ stage \in [Workers -> {"idle", "starting", "running"}]
    /\ \A w \in Workers : stage[w] = "idle" <=> work[w] = None
    /\ seen \in [Workers -> Ceiling] /\ limit \in [Workers -> Ceiling]
    /\ flying \in [Workers -> Nat]
    /\ stalled \subseteq Runs /\ uncounted \subseteq Runs

\* Calls fly where there is a job, no more than its lanes, and only if the account
\* had any left.
LanesHold(w) ==
    /\ flying[w] <= Lanes
    /\ stage[w] # "running" => flying[w] = 0
    /\ flying[w] > 0 => AccountCalls >= 1 /\ AccountCost >= 1

\* A job's ceilings are those of its run, and within what the account had left.
CeilingsHold(w) ==
    /\ seen[w].calls <= AccountCalls /\ seen[w].cost <= AccountCost
    /\ stage[w] = "running" =>
        /\ limit[w].calls <= RunCalls /\ \E b \in Budgets : limit[w].cost <= b
        /\ limit[w].calls <= calls[work[w]] + AccountCalls
        /\ limit[w].cost <= cost[work[w]] + AccountCost

WorkerInv == \A w \in Workers : LanesHold(w) /\ CeilingsHold(w)

\* Whoever works on a run that never lost a worker holds its job.
LeaseHolds(r) ==
    r \notin stalled => \A w \in At(r) : holder[r] = w /\ job[r] = "running"
LeaseInv == \A r \in Runs : LeaseHolds(r)

RunHolds(r) ==
    /\ calls[r] + InFlight(r) < RunCalls + AtOnce(r)
    /\ \E b \in Budgets : cost[r] + InFlight(r) * MaxPrice < b + AtOnce(r) * MaxPrice
RunInv == \A r \in Runs : RunHolds(r)

Kept == TypeOK /\ WorkerInv /\ LeaseInv /\ RunInv

LEMMA TotalsAreNumbers ==
    ASSUME TypeOK
    PROVE  Total(calls) \in Nat /\ Total(cost) \in Nat /\ Total(flying) \in Nat
  BY RowsAreFinite DEF TypeOK

LEMMA TypeIsInductive ==
    ASSUME TypeOK, [Next]_vars PROVE TypeOK'
<1> USE DEF TypeOK, Ceiling, Nothing, Active, Queue, Frees
<1>1. ASSUME NEW c \in Clients, Asks(c) PROVE TypeOK'
  BY <1>1 DEF Asks, jobVars, usageVars, workVars
<1>2. ASSUME NEW c \in Clients, Counts(c) PROVE TypeOK'
  BY <1>2 DEF Counts, Goes, Leaves, jobVars, usageVars, workVars
<1>3. ASSUME NEW c \in Clients, Enqueues(c) PROVE TypeOK'
  <2>1. /\ target[c] \in Runs /\ UNCHANGED <<budget, calls, cost, flying, work, stage, seen, limit>>
        /\ request' = [request EXCEPT ![c] = "idle"] /\ target' = [target EXCEPT ![c] = None]
    BY <1>3 DEF Enqueues, Leaves, usageVars, workVars
  <2>2. CASE UNCHANGED jobVars
    BY <2>1, <2>2 DEF jobVars
  <2>3. CASE Queue(target[c], request[c] = "queueing")
    BY <2>1, <2>3
  <2>4. QED BY <1>3, <2>2, <2>3 DEF Enqueues
<1>4. ASSUME NEW r \in Runs, Decides(r) PROVE TypeOK'
  BY <1>4 DEF Decides, requestVars, usageVars, workVars
<1>5. ASSUME NEW r \in Runs, SetsBudget(r) PROVE TypeOK'
  BY <1>5 DEF SetsBudget, requestVars, jobVars, usageVars, workVars
<1>6. ASSUME NEW r \in Runs, Lapses(r) PROVE TypeOK'
  BY <1>6 DEF Lapses, requestVars, usageVars, workVars
<1>7. ASSUME NEW w \in Workers, NEW r \in Runs, Claims(w, r) PROVE TypeOK'
  BY <1>7, TotalsAreNumbers, Numbers DEF Claims, Left, requestVars, usageVars
<1>8. ASSUME NEW w \in Workers, Starts(w) PROVE TypeOK'
  <2>1. /\ stage[w] = "starting" /\ work[w] \in Runs
    BY <1>8 DEF Starts
  <2>2. /\ calls[work[w]] \in Nat /\ cost[work[w]] \in Nat /\ budget[work[w]] \in Nat
        /\ seen[w].calls \in Nat /\ seen[w].cost \in Nat
    BY <2>1
  <2>3. Ceilings(w) \in Ceiling
    BY <2>2, Numbers DEF Ceilings, Least
  <2>4. QED BY <1>8, <2>1, <2>3 DEF Starts, requestVars, jobVars, usageVars
<1>9. ASSUME NEW w \in Workers, Calls(w) PROVE TypeOK'
  BY <1>9 DEF Calls, requestVars, jobVars, workVars
<1>10. ASSUME NEW w \in Workers, Records(w) PROVE TypeOK'
  <2>1. /\ flying' = [flying EXCEPT ![w] = @ - 1] /\ flying[w] > 0
        /\ calls' = [calls EXCEPT ![work[w]] = @ + 1]
        /\ UNCHANGED <<request, target, job, holder, stalled, uncounted, budget>>
        /\ UNCHANGED <<work, stage, seen, limit>>
    BY <1>10 DEF Records, requestVars, jobVars, workVars
  <2>2. PICK priced \in Priced(work[w]) : cost' = [cost EXCEPT ![work[w]] = priced]
    BY <1>10 DEF Records
  <2>3. PICK price \in 0..MaxPrice : priced = cost[work[w]] + price
    BY DEF Priced
  <2>4. calls' \in [Runs -> Nat] /\ flying' \in [Workers -> Nat]
    <3>1. calls' \in [Runs -> Nat]
      <4>1. CASE work[w] \in Runs
        BY <2>1, <4>1
      <4>2. CASE work[w] \notin Runs
        BY <2>1, <4>2
      <4>3. QED BY <4>1, <4>2
    <3>2. flying' \in [Workers -> Nat]
      BY <2>1
    <3>3. QED BY <3>1, <3>2
  <2>5. cost' \in [Runs -> Nat]
    <3>1. price \in Nat
      BY Numbers
    <3>2. CASE work[w] \in Runs
      BY <2>2, <2>3, <3>1, <3>2
    <3>3. CASE work[w] \notin Runs
      BY <2>2, <3>3
    <3>4. QED BY <3>2, <3>3
  <2>6. QED BY <2>1, <2>4, <2>5
<1>11. ASSUME NEW w \in Workers, Loses(w) PROVE TypeOK'
  BY <1>11 DEF Loses, requestVars, jobVars, workVars
<1>12. ASSUME NEW w \in Workers, Ends(w) PROVE TypeOK'
  <2>1. work[w] \in Runs
    BY <1>12 DEF Ends
  <2>2. CASE Frees(work[w], "none")
    BY <1>12, <2>1, <2>2 DEF Ends, Rests, requestVars, usageVars
  <2>3. CASE UNCHANGED <<job, holder, uncounted>>
    BY <1>12, <2>1, <2>3 DEF Ends, Rests, requestVars, usageVars
  <2>4. QED BY <1>12, <2>2, <2>3 DEF Ends
<1>13. ASSUME NEW w \in Workers, Dies(w) PROVE TypeOK'
  BY <1>13 DEF Dies, Rests, requestVars, jobVars
<1>14. CASE UNCHANGED vars
  BY <1>14 DEF vars, requestVars, jobVars, usageVars, workVars
<1>15. QED
  BY <1>1, <1>2, <1>3, <1>4, <1>5, <1>6, <1>7, <1>8, <1>9, <1>10, <1>11, <1>12, <1>13, <1>14
  DEF Next, WorkerNext
-----------------------------------------------------------------------------
(* What each action does to the workers.                                   *)

\* Everyone but the workers: jobs and budgets change, and nobody's work does.
Outside ==
    \/ \E c \in Clients : Asks(c) \/ Counts(c) \/ Enqueues(c)
    \/ \E r \in Runs : Decides(r) \/ SetsBudget(r) \/ Lapses(r)
    \/ UNCHANGED vars

LEMMA OutsideLeavesWork == ASSUME Outside PROVE UNCHANGED <<usageVars, workVars>>
<1>1. ASSUME NEW c \in Clients, Asks(c) \/ Counts(c) \/ Enqueues(c)
      PROVE  UNCHANGED <<usageVars, workVars>>
  BY <1>1 DEF Asks, Counts, Enqueues
<1>2. ASSUME NEW r \in Runs, Decides(r) \/ SetsBudget(r) \/ Lapses(r)
      PROVE  UNCHANGED <<usageVars, workVars>>
  BY <1>2 DEF Decides, SetsBudget, Lapses
<1>3. QED BY <1>1, <1>2 DEF Outside, vars

\* A call is recorded, at a price.
RecordsAt(w, r, price) ==
    /\ work[w] = r /\ stage[w] = "running" /\ flying[w] > 0
    /\ flying' = [flying EXCEPT ![w] = flying[w] - 1]
    /\ calls' = [calls EXCEPT ![r] = calls[r] + 1]
    /\ cost' = [cost EXCEPT ![r] = cost[r] + price]
    /\ UNCHANGED <<jobVars, workVars>>

LEMMA RecordsIsAt ==
    ASSUME TypeOK, WorkerInv, NEW w \in Workers, Records(w)
    PROVE  \E r \in Runs, price \in 0..MaxPrice : RecordsAt(w, r, price)
<1>1. PICK priced \in Priced(work[w]) : cost' = [cost EXCEPT ![work[w]] = priced]
  BY DEF Records
<1>2. PICK price \in 0..MaxPrice : priced = cost[work[w]] + price
  BY DEF Priced
<1>3. stage[w] = "running" /\ work[w] \in Runs /\ flying[w] > 0
  BY DEF Records, WorkerInv, LanesHold, TypeOK
<1>4. RecordsAt(w, work[w], price)
  BY <1>1, <1>2, <1>3 DEF Records, RecordsAt
<1>5. QED BY <1>3, <1>4

\* A worker starts with what its claim saw, or has fewer calls in flight, or rests.
Calmer(w) ==
    /\ flying' = [flying EXCEPT ![w] = flying'[w]] /\ flying'[w] <= flying[w]
    /\ UNCHANGED <<calls, cost>>
    /\ \/ UNCHANGED workVars
       \/ flying'[w] = 0 /\ Rests(w)

LEMMA CalmsDown ==
    ASSUME TypeOK, NEW w \in Workers, Loses(w) \/ Ends(w) \/ Dies(w)
    PROVE  Calmer(w)
<1>1. flying \in [Workers -> Nat] /\ flying[w] \in Nat
  BY DEF TypeOK
<1>2. CASE Loses(w)
  BY <1>1, <1>2 DEF Loses, Calmer
<1>3. CASE Ends(w)
  BY <1>1, <1>3 DEF Ends, Calmer, usageVars
<1>4. CASE Dies(w)
  BY <1>1, <1>4 DEF Dies, Calmer
<1>5. QED BY <1>2, <1>3, <1>4

LEMMA Steps ==
    ASSUME [Next]_vars
    PROVE  \/ Outside
           \/ \E w \in Workers, r \in Runs : Claims(w, r)
           \/ \E w \in Workers : Starts(w) \/ Calls(w) \/ Records(w)
           \/ \E w \in Workers : Loses(w) \/ Ends(w) \/ Dies(w)
  BY DEF Next, WorkerNext, Outside

LEMMA WorkerInvIsInductive ==
    ASSUME TypeOK, TypeOK', WorkerInv, [Next]_vars PROVE WorkerInv'
<1> SUFFICES ASSUME NEW w \in Workers PROVE (LanesHold(w) /\ CeilingsHold(w))'
  BY DEF WorkerInv
<1>1. LanesHold(w) /\ CeilingsHold(w)
  BY DEF WorkerInv
<1>2. /\ flying[w] \in Nat /\ flying'[w] \in Nat
      /\ seen[w] \in Ceiling /\ limit[w] \in Ceiling
      /\ seen[w].calls \in Nat /\ seen[w].cost \in Nat
      /\ limit[w].calls \in Nat /\ limit[w].cost \in Nat
      /\ stage[w] # "idle" => /\ work[w] \in Runs
                              /\ calls[work[w]] \in Nat /\ cost[work[w]] \in Nat
                              /\ budget[work[w]] \in Budgets /\ budget[work[w]] \in Nat
  BY DEF TypeOK, Ceiling
<1> USE Numbers DEF LanesHold, CeilingsHold
<1>3. CASE /\ flying'[w] = flying[w] /\ seen'[w] = seen[w] /\ limit'[w] = limit[w]
           /\ stage'[w] = stage[w] /\ work'[w] = work[w]
           /\ stage[w] # "idle" => calls'[work[w]] = calls[work[w]] /\ cost'[work[w]] = cost[work[w]]
  BY <1>1, <1>2, <1>3
<1>4. CASE Outside
  BY <1>3, <1>4, OutsideLeavesWork DEF usageVars, workVars
<1>5. ASSUME NEW x \in Workers, NEW r \in Runs, Claims(x, r)
      PROVE  (LanesHold(w) /\ CeilingsHold(w))'
  <2>1. CASE x = w
    <3>1. /\ stage[w] = "idle" /\ stage'[w] = "starting"
          /\ seen'[w] = [calls |-> Left(AccountCalls, Total(calls)),
                         cost |-> Left(AccountCost, Total(cost))]
          /\ flying' = flying
      BY <1>5, <2>1 DEF Claims, TypeOK, usageVars
    <3>2. seen'[w].calls <= AccountCalls /\ seen'[w].cost <= AccountCost
      BY <3>1, TotalsAreNumbers DEF Left
    <3>3. QED BY <1>1, <3>1, <3>2
  <2>2. CASE x # w
    BY <1>3, <1>5, <2>2 DEF Claims, TypeOK, usageVars
  <2>3. QED BY <2>1, <2>2
<1>6. ASSUME NEW x \in Workers, Starts(x) PROVE (LanesHold(w) /\ CeilingsHold(w))'
  <2>1. CASE x = w
    <3>1. /\ stage[w] = "starting" /\ stage'[w] = "running" /\ seen'[w] = Nothing
          /\ limit'[w] = Ceilings(w) /\ UNCHANGED <<calls, cost, flying, work>>
      BY <1>6, <2>1 DEF Starts, TypeOK, usageVars
    <3>2. /\ Ceilings(w).calls <= RunCalls /\ Ceilings(w).cost <= budget[work[w]]
          /\ Ceilings(w).calls <= calls[work[w]] + AccountCalls
          /\ Ceilings(w).cost <= cost[work[w]] + AccountCost
      BY <1>1, <1>2, <3>1 DEF Ceilings, Least
    <3>3. budget[work[w]] \in Budgets
      BY <1>2, <3>1
    <3>4. flying'[w] = 0 /\ seen'[w].calls = 0 /\ seen'[w].cost = 0
      BY <1>1, <3>1 DEF Nothing
    <3>5. QED BY <3>1, <3>2, <3>3, <3>4
  <2>2. CASE x # w
    BY <1>3, <1>6, <2>2 DEF Starts, TypeOK, usageVars
  <2>3. QED BY <2>1, <2>2
<1>7. ASSUME NEW x \in Workers, Calls(x) PROVE (LanesHold(w) /\ CeilingsHold(w))'
  <2>1. CASE x = w
    <3>1. /\ stage[w] = "running" /\ flying[w] < Lanes /\ flying'[w] = flying[w] + 1
          /\ calls[work[w]] + 1 <= limit[w].calls /\ cost[work[w]] < limit[w].cost
          /\ UNCHANGED <<calls, cost, work, stage, seen, limit>>
      BY <1>7, <2>1 DEF Calls, WithinBudget, TypeOK, workVars
    <3>2. AccountCalls >= 1 /\ AccountCost >= 1
      BY <1>1, <1>2, <3>1
    <3>3. QED BY <1>1, <1>2, <3>1, <3>2
  <2>2. CASE x # w
    BY <1>3, <1>7, <2>2 DEF Calls, TypeOK, workVars
  <2>3. QED BY <2>1, <2>2
<1>8. ASSUME NEW x \in Workers, Records(x) PROVE (LanesHold(w) /\ CeilingsHold(w))'
  <2>1. PICK r \in Runs, price \in 0..MaxPrice : RecordsAt(x, r, price)
    BY <1>8, RecordsIsAt
  <2>2. UNCHANGED <<work, stage, seen, limit>> /\ flying'[w] <= flying[w]
    BY <1>2, <2>1 DEF RecordsAt, workVars, TypeOK
  <2>3. stage[w] # "idle" => /\ calls'[work[w]] \in Nat /\ calls'[work[w]] >= calls[work[w]]
                             /\ cost'[work[w]] \in Nat /\ cost'[work[w]] >= cost[work[w]]
    BY <1>2, <2>1 DEF RecordsAt, TypeOK
  <2>4. LanesHold(w)'
    BY <1>1, <1>2, <2>2
  <2>5. CeilingsHold(w)'
    BY <1>1, <1>2, <2>2, <2>3
  <2>6. QED BY <2>4, <2>5
<1>9. ASSUME NEW x \in Workers, Loses(x) \/ Ends(x) \/ Dies(x)
      PROVE  (LanesHold(w) /\ CeilingsHold(w))'
  <2>1. Calmer(x)
    BY <1>9, CalmsDown
  <2>2. CASE x = w
    <3>1. CASE UNCHANGED workVars
      BY <1>1, <1>2, <2>1, <2>2, <3>1 DEF Calmer, workVars
    <3>2. CASE flying'[x] = 0 /\ Rests(x)
      BY <2>2, <3>2 DEF Rests, Nothing, TypeOK
    <3>3. QED BY <2>1, <3>1, <3>2 DEF Calmer
  <2>3. CASE x # w
    <3>1. flying'[w] = flying[w] /\ UNCHANGED <<calls, cost>>
      BY <2>1, <2>3 DEF Calmer, TypeOK
    <3>2. /\ seen'[w] = seen[w] /\ limit'[w] = limit[w]
          /\ stage'[w] = stage[w] /\ work'[w] = work[w]
      BY <2>1, <2>3 DEF Calmer, Rests, TypeOK, workVars
    <3>3. QED BY <1>3, <3>1, <3>2
  <2>4. QED BY <2>2, <2>3
<1>10. QED BY <1>4, <1>5, <1>6, <1>7, <1>8, <1>9, Steps
-----------------------------------------------------------------------------
(* The lease of a run, and the calls made for it at once.                  *)

LEMMA LeaseInvIsInductive ==
    ASSUME TypeOK, TypeOK', LeaseInv, [Next]_vars PROVE LeaseInv'
<1> SUFFICES ASSUME NEW r \in Runs, r \notin stalled', NEW w \in At(r)'
             PROVE  holder'[r] = w /\ job'[r] = "running"
  BY DEF LeaseInv, LeaseHolds
<1>1. w \in Workers /\ work'[w] = r /\ r # None
  BY DEF At
<1>2. CASE /\ work'[w] = work[w] /\ r \notin stalled
           /\ job[r] = "running" => holder'[r] = holder[r] /\ job'[r] = job[r]
  <2>1. holder[r] = w /\ job[r] = "running"
    BY <1>1, <1>2 DEF LeaseInv, LeaseHolds, At
  <2>2. QED BY <1>2, <2>1
<1>3. ASSUME NEW c \in Clients, Asks(c) \/ Counts(c) \/ Enqueues(c)
      PROVE  holder'[r] = w /\ job'[r] = "running"
  <2>1. CASE UNCHANGED <<jobVars, workVars>>
    BY <1>2, <2>1 DEF jobVars, workVars
  <2>2. CASE Enqueues(c) /\ target[c] \notin Active
    <3>1. Queue(target[c], request[c] = "queueing") /\ UNCHANGED workVars
      BY <2>2 DEF Enqueues
    <3>2. job[r] = "running" => r # target[c]
      BY <2>2 DEF Active
    <3>3. QED BY <1>2, <3>1, <3>2 DEF Queue, workVars, TypeOK
  <2>3. QED BY <1>3, <2>1, <2>2 DEF Asks, Counts, Enqueues
<1>4. ASSUME NEW s \in Runs, Decides(s) PROVE holder'[r] = w /\ job'[r] = "running"
  <2>1. Queue(s, FALSE) /\ UNCHANGED workVars /\ (job[r] = "running" => r # s)
    BY <1>4 DEF Decides, Active
  <2>2. QED BY <1>2, <2>1 DEF Queue, workVars, TypeOK
<1>5. ASSUME NEW s \in Runs, SetsBudget(s) PROVE holder'[r] = w /\ job'[r] = "running"
  BY <1>2, <1>5 DEF SetsBudget, jobVars, workVars
<1>6. ASSUME NEW s \in Runs, Lapses(s) PROVE holder'[r] = w /\ job'[r] = "running"
  <2>1. UNCHANGED workVars /\ stalled' = IF At(s) = {} THEN stalled ELSE stalled \cup {s}
    BY <1>6 DEF Lapses
  <2>2. w \in At(r)
    BY <1>1, <2>1 DEF At, workVars
  <2>3. s # r
    BY <2>1, <2>2
  <2>4. PICK to \in {"queued", "none"} : Frees(s, to)
    BY <1>6 DEF Lapses
  <2>5. QED BY <1>2, <2>1, <2>3, <2>4 DEF Frees, workVars, TypeOK
<1>7. ASSUME NEW x \in Workers, NEW s \in Runs, Claims(x, s)
      PROVE  holder'[r] = w /\ job'[r] = "running"
  <2>1. CASE s = r
    <3>1. job[r] = "queued" /\ stalled' = stalled
      BY <1>7, <2>1 DEF Claims
    <3>2. At(r) = {}
      BY <3>1 DEF LeaseInv, LeaseHolds
    <3>3. w = x
      BY <1>1, <1>7, <3>2 DEF Claims, At, TypeOK
    <3>4. QED BY <1>7, <2>1, <3>3 DEF Claims, TypeOK
  <2>2. CASE s # r
    <3>1. w # x
      BY <1>1, <1>7, <2>2 DEF Claims, TypeOK
    <3>2. QED BY <1>2, <1>7, <2>2, <3>1 DEF Claims, TypeOK
  <2>3. QED BY <2>1, <2>2
<1>8. ASSUME NEW x \in Workers, Starts(x) \/ Calls(x) \/ Records(x) \/ Loses(x)
      PROVE  holder'[r] = w /\ job'[r] = "running"
  BY <1>2, <1>8 DEF Starts, Calls, Records, Loses, jobVars, workVars
<1>9. ASSUME NEW x \in Workers, Ends(x) \/ Dies(x)
      PROVE  holder'[r] = w /\ job'[r] = "running"
  <2>1. Rests(x) /\ UNCHANGED stalled
    BY <1>9 DEF Ends, Dies, jobVars
  <2>2. w # x /\ work'[w] = work[w]
    BY <1>1, <2>1 DEF Rests, TypeOK
  <2>3. CASE UNCHANGED <<job, holder>>
    BY <1>2, <2>1, <2>2, <2>3
  <2>4. CASE Ends(x) /\ holder[work[x]] = x
    <3>1. Frees(work[x], "none")
      BY <2>4 DEF Ends
    <3>2. holder[r] = w
      BY <1>1, <2>1, <2>2 DEF LeaseInv, LeaseHolds, At
    <3>3. r # work[x]
      BY <2>2, <2>4, <3>2
    <3>4. QED BY <1>2, <2>1, <2>2, <3>1, <3>3 DEF Frees, TypeOK
  <2>5. QED BY <1>9, <2>3, <2>4 DEF Ends, Dies, jobVars
<1>10. CASE UNCHANGED vars
  BY <1>2, <1>10 DEF vars, jobVars, workVars
<1>11. QED BY <1>3, <1>4, <1>5, <1>6, <1>7, <1>8, <1>9, <1>10 DEF Next, WorkerNext

InFlightOf(r) == [w \in Workers |-> IF work[w] = r THEN flying[w] ELSE 0]

LEMMA AtOnceIsSome ==
    ASSUME NEW r PROVE AtOnce(r) \in Nat /\ AtOnce(r) >= 1 /\ AtOnce(r) >= Lanes
<1>1. Lanes * Slots \in Nat /\ Lanes * Slots >= Lanes
  BY SlotsAreSome, Numbers
<1>2. QED BY <1>1, Numbers DEF AtOnce

\* Those who are at a run make no more calls than are counted at once.
LEMMA InFlightIsWithin ==
    ASSUME TypeOK, WorkerInv, LeaseInv, NEW r \in Runs
    PROVE  InFlight(r) \in Nat /\ InFlight(r) <= AtOnce(r)
<1> DEFINE few == Cardinality(At(r))
<1>1. InFlightOf(r) \in [Workers -> Nat] /\ InFlight(r) = Total(InFlightOf(r))
  BY DEF InFlightOf, InFlight, TypeOK
<1>2. InFlight(r) \in Nat
  BY <1>1, RowsAreFinite
<1>3. At(r) \in SUBSET Workers
  BY DEF At
<1>4. \A w \in Workers : InFlightOf(r)[w] <= Lanes /\ (w \notin At(r) => InFlightOf(r)[w] = 0)
  BY Numbers DEF InFlightOf, At, WorkerInv, LanesHold
<1>5. InFlight(r) <= few * Lanes
  <2> HIDE DEF few
  <2>1. Total(InFlightOf(r)) <= Cardinality(At(r)) * Lanes
    BY <1>1, <1>3, <1>4, Numbers, TotalIsWithin
  <2>2. QED BY <1>1, <2>1 DEF few
<1>6. few \in Nat /\ few <= Slots /\ IsFiniteSet(At(r))
  BY <1>3, FS_Subset, FS_CardinalityType DEF Slots
<1>7. r \notin stalled => few <= 1
  <2> SUFFICES ASSUME r \notin stalled PROVE few <= 1
    OBVIOUS
  <2>1. At(r) \subseteq {holder[r]}
    BY DEF LeaseInv, LeaseHolds
  <2>2. IsFiniteSet({holder[r]}) /\ Cardinality({holder[r]}) = 1
    BY FS_Singleton
  <2>3. QED BY <2>1, <2>2, FS_Subset
<1> HIDE DEF few
<1>8. few * Lanes <= AtOnce(r) /\ few * Lanes \in Nat
  <2>1. CASE r \in stalled
    <3>1. few * Lanes <= Slots * Lanes /\ few * Lanes \in Nat
      BY <1>6, SlotsAreSome, Numbers, Times
    <3>2. Slots * Lanes = Lanes * Slots
      BY SlotsAreSome, Numbers
    <3>3. QED BY <2>1, <3>1, <3>2 DEF AtOnce
  <2>2. CASE r \notin stalled
    <3>1. few * Lanes <= 1 * Lanes /\ few * Lanes \in Nat
      BY <1>6, <1>7, <2>2, Numbers, Times
    <3>2. 1 * Lanes = Lanes * 1
      BY Numbers
    <3>3. QED BY <2>2, <3>1, <3>2 DEF AtOnce
  <2>3. QED BY <2>1, <2>2
<1>9. QED BY <1>2, <1>5, <1>8, AtOnceIsSome

LEMMA StalledGrows ==
    ASSUME [Next]_vars, NEW r \in Runs PROVE AtOnce(r)' >= AtOnce(r)
<1>1. stalled \subseteq stalled'
  <2>1. ASSUME NEW c \in Clients, Asks(c) \/ Counts(c) \/ Enqueues(c) PROVE stalled' = stalled
    BY <2>1 DEF Asks, Counts, Enqueues, Queue, jobVars
  <2>2. ASSUME NEW s \in Runs, Decides(s) \/ SetsBudget(s) PROVE stalled' = stalled
    BY <2>2 DEF Decides, SetsBudget, Queue, jobVars
  <2>3. ASSUME NEW s \in Runs, Lapses(s) PROVE stalled \subseteq stalled'
    BY <2>3 DEF Lapses
  <2>4. ASSUME NEW w \in Workers, WorkerNext(w) PROVE stalled' = stalled
    BY <2>4 DEF WorkerNext, Claims, Starts, Calls, Records, Loses, Ends, Dies, jobVars
  <2>5. CASE UNCHANGED vars
    BY <2>5 DEF vars, jobVars
  <2>6. QED BY <2>1, <2>2, <2>3, <2>4, <2>5 DEF Next
<1>2. Lanes * Slots \in Nat /\ Lanes * Slots >= Lanes * 1
  BY SlotsAreSome, Numbers
<1>3. AtOnce(r) = (IF r \in stalled THEN Lanes * Slots ELSE Lanes * 1)
  BY DEF AtOnce
<1>4. AtOnce(r)' = (IF r \in stalled' THEN Lanes * Slots ELSE Lanes * 1)
  BY DEF AtOnce
<1>5. QED BY <1>1, <1>2, <1>3, <1>4, Numbers

\* And after a step as before it.
Fits(r) == InFlight(r) \in Nat /\ InFlight(r) <= AtOnce(r) /\ AtOnce(r) \in Nat
AllFit == \A r \in Runs : Fits(r)

LEMMA InFlightFits == TypeOK /\ WorkerInv /\ LeaseInv => AllFit
  BY InFlightIsWithin, AtOnceIsSome DEF AllFit, Fits

\* No call that is in flight for r is one more than there was.
LEMMA InFlightShrinks ==
    ASSUME TypeOK, TypeOK', NEW r \in Runs,
           \A w \in Workers : InFlightOf(r)'[w] <= InFlightOf(r)[w]
    PROVE  InFlight(r)' <= InFlight(r)
<1>1. InFlightOf(r) \in [Workers -> Nat] /\ InFlightOf(r)' \in [Workers -> Nat]
  BY DEF InFlightOf, TypeOK
<1>2. Total(InFlightOf(r)') <= Total(InFlightOf(r))
  BY <1>1, TotalIsMonotone
<1>3. InFlight(r) = Total(InFlightOf(r)) /\ InFlight(r)' = Total(InFlightOf(r)')
  BY DEF InFlight, InFlightOf, Total, Rows
<1>4. QED BY <1>2, <1>3

LEMMA RunInvIsInductive ==
    ASSUME Kept, TypeOK', WorkerInv', LeaseInv', [Next]_vars PROVE RunInv'
<1> SUFFICES ASSUME NEW r \in Runs PROVE RunHolds(r)'
  BY DEF RunInv
<1>1. TypeOK /\ WorkerInv /\ LeaseInv /\ RunHolds(r)
  BY DEF Kept, RunInv
<1>2. PICK b \in Budgets : cost[r] + InFlight(r) * MaxPrice < b + AtOnce(r) * MaxPrice
  BY <1>1 DEF RunHolds
<1>3. /\ InFlight(r) \in Nat /\ InFlight(r)' \in Nat /\ InFlight(r)' <= AtOnce(r)'
      /\ AtOnce(r) \in Nat /\ AtOnce(r)' \in Nat /\ AtOnce(r)' >= AtOnce(r)
  <2>1. AllFit'
    BY InFlightFits, PTL
  <2>2. /\ InFlight(r)' \in Nat /\ InFlight(r)' <= AtOnce(r)' /\ AtOnce(r)' \in Nat
    BY <2>1 DEF AllFit, Fits
  <2>3. QED BY <1>1, <2>2, InFlightIsWithin, AtOnceIsSome, StalledGrows
<1>4. /\ calls[r] \in Nat /\ cost[r] \in Nat /\ calls'[r] \in Nat /\ cost'[r] \in Nat
      /\ b \in Nat
  BY <1>1 DEF TypeOK
<1>5. CASE /\ calls'[r] = calls[r] /\ cost'[r] = cost[r]
           /\ \A w \in Workers : InFlightOf(r)'[w] <= InFlightOf(r)[w]
  <2>1. InFlight(r)' <= InFlight(r)
    BY <1>1, <1>5, InFlightShrinks
  <2>2. /\ InFlight(r)' * MaxPrice <= InFlight(r) * MaxPrice
        /\ InFlight(r)' * MaxPrice \in Nat
    BY <1>3, <2>1, Numbers, Times
  <2>3. AtOnce(r) * MaxPrice <= AtOnce(r)' * MaxPrice /\ AtOnce(r) * MaxPrice \in Nat
    BY <1>3, Numbers, Times
  <2>4. AtOnce(r)' * MaxPrice \in Nat /\ InFlight(r) * MaxPrice \in Nat
    BY <1>3, Numbers, Times
  <2>5. calls'[r] + InFlight(r)' < RunCalls + AtOnce(r)'
    BY <1>1, <1>3, <1>4, <1>5, <2>1, Numbers DEF RunHolds
  <2>6. cost'[r] + InFlight(r)' * MaxPrice < b + AtOnce(r)' * MaxPrice
    BY <1>2, <1>4, <1>5, <2>2, <2>3, <2>4
  <2>7. QED BY <2>5, <2>6 DEF RunHolds
<1>6. CASE Outside
  <2>1. UNCHANGED <<usageVars, workVars>>
    BY <1>6, OutsideLeavesWork
  <2>2. \A w \in Workers : InFlightOf(r)'[w] <= InFlightOf(r)[w]
    BY <1>1, <2>1 DEF InFlightOf, usageVars, workVars, TypeOK
  <2>3. QED BY <1>5, <2>1, <2>2 DEF usageVars
<1>7. ASSUME NEW w \in Workers, NEW s \in Runs, Claims(w, s) PROVE RunHolds(r)'
  <2>1. /\ UNCHANGED usageVars /\ work' = [work EXCEPT ![w] = s] /\ work[w] = None
    BY <1>7 DEF Claims
  <2>2. flying[w] = 0
    BY <1>1, <2>1 DEF WorkerInv, LanesHold, TypeOK
  <2>3. \A x \in Workers : InFlightOf(r)'[x] <= InFlightOf(r)[x]
    BY <1>1, <2>1, <2>2 DEF InFlightOf, usageVars, TypeOK
  <2>4. QED BY <1>5, <2>1, <2>3 DEF usageVars
<1>8. ASSUME NEW w \in Workers, Starts(w) PROVE RunHolds(r)'
  <2>1. UNCHANGED <<usageVars, work>>
    BY <1>8 DEF Starts
  <2>2. \A x \in Workers : InFlightOf(r)'[x] <= InFlightOf(r)[x]
    BY <1>1, <2>1 DEF InFlightOf, usageVars, TypeOK
  <2>3. QED BY <1>5, <2>1, <2>2 DEF usageVars
<1>9. ASSUME NEW w \in Workers, Calls(w) PROVE RunHolds(r)'
  <2>1. /\ UNCHANGED <<calls, cost, work>> /\ flying' = [flying EXCEPT ![w] = @ + 1]
        /\ stage[w] = "running"
        /\ calls[work[w]] + 1 <= limit[w].calls /\ cost[work[w]] < limit[w].cost
    BY <1>9 DEF Calls, WithinBudget, workVars
  <2>2. CASE work[w] # r
    <3>1. \A x \in Workers : InFlightOf(r)'[x] <= InFlightOf(r)[x]
      BY <1>1, <2>1, <2>2 DEF InFlightOf, TypeOK
    <3>2. QED BY <1>5, <2>1, <3>1
  <2>3. CASE work[w] = r
    <3>1. limit[w].calls <= RunCalls
      BY <1>1, <2>1 DEF WorkerInv, CeilingsHold
    <3>2. PICK c \in Budgets : limit[w].cost <= c
      BY <1>1, <2>1 DEF WorkerInv, CeilingsHold
    <3>3. limit[w].calls \in Nat /\ limit[w].cost \in Nat /\ c \in Nat
      BY <1>1 DEF TypeOK, Ceiling
    <3>4. calls'[r] + InFlight(r)' < RunCalls + AtOnce(r)'
      BY <1>3, <1>4, <2>1, <2>3, <3>1, <3>3, Numbers
    <3>5. /\ InFlight(r)' * MaxPrice <= AtOnce(r)' * MaxPrice
          /\ InFlight(r)' * MaxPrice \in Nat /\ AtOnce(r)' * MaxPrice \in Nat
      BY <1>3, Numbers, Times
    <3>6. cost'[r] < c
      BY <1>4, <2>1, <2>3, <3>2, <3>3
    <3>7. cost'[r] + InFlight(r)' * MaxPrice < c + AtOnce(r)' * MaxPrice
      BY <1>4, <3>3, <3>5, <3>6
    <3>8. QED BY <3>4, <3>7 DEF RunHolds
  <2>4. QED BY <2>2, <2>3
<1>10. ASSUME NEW w \in Workers, Records(w) PROVE RunHolds(r)'
  <2>1. PICK s \in Runs, price \in 0..MaxPrice : RecordsAt(w, s, price)
    BY <1>1, <1>10, RecordsIsAt
  <2>2. CASE s # r
    <3>1. \A x \in Workers : InFlightOf(r)'[x] <= InFlightOf(r)[x]
      BY <1>1, <2>1, <2>2 DEF RecordsAt, InFlightOf, workVars, TypeOK
    <3>2. calls'[r] = calls[r] /\ cost'[r] = cost[r]
      BY <1>1, <2>1, <2>2 DEF RecordsAt, TypeOK
    <3>3. QED BY <1>5, <3>1, <3>2
  <2>3. CASE s = r
    <3> DEFINE before == InFlightOf(r)
               after == [before EXCEPT ![w] = flying[w] - 1]
    <3>1. before \in [Workers -> Nat] /\ before[w] = flying[w] /\ flying[w] \in Nat \ {0}
      BY <1>1, <2>1, <2>3 DEF InFlightOf, RecordsAt, TypeOK
    <3>2. InFlightOf(r)' = after
      BY <1>1, <2>1, <2>3 DEF InFlightOf, RecordsAt, workVars, TypeOK
    <3>3. flying[w] - 1 \in Nat
      BY <3>1
    <3>4. Total(after) = Total(before) - flying[w] + (flying[w] - 1)
      <4> HIDE DEF before
      <4> DEFINE fewer == flying[w] - 1
      <4>1. fewer \in Nat
        BY <3>3
      <4> HIDE DEF fewer
      <4>2. Total([before EXCEPT ![w] = fewer]) = Total(before) - before[w] + fewer
        BY <3>1, <4>1, WorkersExcept
      <4>3. QED BY <3>1, <4>2 DEF fewer
    <3>5. InFlight(r) = Total(before) /\ InFlight(r)' = Total(InFlightOf(r)')
      BY DEF InFlight, InFlightOf, Total, Rows
    <3>6. Total(after) = Total(before) - 1 /\ Total(before) = Total(after) + 1
      <4> HIDE DEF before, after
      <4>1. Total(before) \in Nat
        BY <3>1, RowsAreFinite
      <4>2. QED BY <3>1, <3>4, <4>1
    <3>7. InFlight(r) = InFlight(r)' + 1
      BY <3>2, <3>5, <3>6
    <3>8. calls'[r] = calls[r] + 1 /\ cost'[r] = cost[r] + price
      BY <1>1, <2>1, <2>3 DEF RecordsAt, TypeOK
    <3>9. price \in Nat /\ price <= MaxPrice
      BY Numbers
    <3>10. /\ InFlight(r) * MaxPrice = InFlight(r)' * MaxPrice + MaxPrice
           /\ InFlight(r)' * MaxPrice \in Nat
      BY <1>3, <3>7, Numbers, Times
    <3>11. /\ AtOnce(r) * MaxPrice <= AtOnce(r)' * MaxPrice
           /\ AtOnce(r) * MaxPrice \in Nat /\ AtOnce(r)' * MaxPrice \in Nat
      BY <1>3, Numbers, Times
    <3>12. calls'[r] + InFlight(r)' < RunCalls + AtOnce(r)'
      BY <1>1, <1>3, <1>4, <3>7, <3>8, Numbers DEF RunHolds
    <3>13. cost'[r] + InFlight(r)' * MaxPrice < b + AtOnce(r)' * MaxPrice
      BY <1>2, <1>4, <3>8, <3>9, <3>10, <3>11, Numbers
    <3>14. QED BY <3>12, <3>13 DEF RunHolds
  <2>4. QED BY <2>2, <2>3
<1>11. ASSUME NEW w \in Workers, Loses(w) \/ Ends(w) \/ Dies(w) PROVE RunHolds(r)'
  <2>1. Calmer(w)
    BY <1>1, <1>11, CalmsDown
  <2>2. ASSUME NEW x \in Workers PROVE InFlightOf(r)'[x] <= InFlightOf(r)[x]
    <3>1. flying[x] \in Nat /\ flying'[x] \in Nat /\ flying'[x] <= flying[x]
      BY <1>1, <2>1 DEF Calmer, TypeOK
    <3>2. work'[x] = work[x] \/ work'[x] = None
      BY <1>1, <2>1 DEF Calmer, Rests, workVars, TypeOK
    <3>3. InFlightOf(r)'[x] = IF work'[x] = r THEN flying'[x] ELSE 0
      BY DEF InFlightOf
    <3>4. InFlightOf(r)[x] = IF work[x] = r THEN flying[x] ELSE 0
      BY DEF InFlightOf
    <3>5. QED BY <3>1, <3>2, <3>3, <3>4
  <2>3. QED BY <1>5, <2>1, <2>2 DEF Calmer
<1>12. QED BY <1>6, <1>7, <1>8, <1>9, <1>10, <1>11, Steps

LEMMA KeptIsInductive ==
    ASSUME Kept, [Next]_vars PROVE Kept'
<1>1. TypeOK'
  BY TypeIsInductive DEF Kept
<1>2. WorkerInv' /\ LeaseInv'
  BY <1>1, WorkerInvIsInductive, LeaseInvIsInductive DEF Kept
<1>3. QED BY <1>1, <1>2, RunInvIsInductive DEF Kept
-----------------------------------------------------------------------------
(* What may still be recorded.                                             *)

\* By a worker: up to its ceiling and past it by what its lanes cost, but one; what
\* flies, when it is there; and before its ceilings are set, what it saw was left.
ToCome(at, inFlight, used, left, max, price) ==
    IF at = "running"
    THEN IF used < max THEN (max - used) + Lanes * price - 1 ELSE inFlight * price
    ELSE IF at = "starting" /\ left > 0 THEN left + Lanes * price - 1 ELSE 0

CallsToCome(w) == ToCome(stage[w], flying[w], calls[work[w]], seen[w].calls, limit[w].calls, 1)
CostToCome(w) == ToCome(stage[w], flying[w], cost[work[w]], seen[w].cost, limit[w].cost, MaxPrice)
CallsComing == [w \in Workers |-> CallsToCome(w)]
CostComing == [w \in Workers |-> CostToCome(w)]

SpendingInv ==
    /\ Total(calls) + Total(CallsComing) <= Slots * (AccountCalls + Lanes - 1)
    /\ Total(cost) + Total(CostComing) <= Slots * (AccountCost + Lanes * MaxPrice - 1)

LEMMA LanesCost ==
    ASSUME NEW k \in Nat, k <= Lanes
    PROVE  /\ k * MaxPrice \in Nat /\ k * MaxPrice <= Lanes * MaxPrice
           /\ Lanes * MaxPrice \in Nat /\ Lanes * MaxPrice >= MaxPrice
           /\ (k + 1) * MaxPrice = k * MaxPrice + MaxPrice
           /\ k * 1 = k /\ Lanes * 1 = Lanes
<1>1. Lanes * MaxPrice >= 1 * MaxPrice /\ Lanes * MaxPrice \in Nat
  BY Numbers, Times
<1>2. QED BY <1>1, Numbers, Times

LEMMA WorkerIsTyped ==
    ASSUME TypeOK, NEW w \in Workers
    PROVE  /\ flying[w] \in Nat /\ stage[w] \in {"idle", "starting", "running"}
           /\ seen[w].calls \in Nat /\ seen[w].cost \in Nat
           /\ limit[w].calls \in Nat /\ limit[w].cost \in Nat
           /\ stage[w] # "idle" => /\ work[w] \in Runs
                                   /\ calls[work[w]] \in Nat /\ cost[work[w]] \in Nat
  BY DEF TypeOK, Ceiling

\* A worker has no more to come than the account had left, and a resting one has none.
LEMMA ToComeIsWithin ==
    ASSUME TypeOK, WorkerInv, NEW w \in Workers
    PROVE  /\ CallsToCome(w) \in Nat /\ CallsToCome(w) <= AccountCalls + Lanes - 1
           /\ CostToCome(w) \in Nat /\ CostToCome(w) <= AccountCost + Lanes * MaxPrice - 1
           /\ stage[w] = "idle" => CallsToCome(w) = 0 /\ CostToCome(w) = 0
           /\ flying[w] <= CallsToCome(w)
<1>1. LanesHold(w) /\ CeilingsHold(w)
  BY DEF WorkerInv
<1> DEFINE f == flying[w]
           fP == f * MaxPrice
           lP == Lanes * MaxPrice
<1>2. /\ f \in Nat /\ f <= Lanes /\ fP \in Nat /\ lP \in Nat /\ fP <= lP /\ lP >= 1
      /\ f * 1 = f /\ Lanes * 1 = Lanes /\ (f = 0 => fP = 0)
  BY <1>1, WorkerIsTyped, LanesCost, Numbers DEF LanesHold
<1>3. f > 0 => AccountCalls >= 1 /\ AccountCost >= 1
  BY <1>1 DEF LanesHold
<1>4. stage[w] # "running" => f = 0
  BY <1>1 DEF LanesHold
<1>5. CallsToCome(w) = IF stage[w] = "running"
                       THEN IF calls[work[w]] < limit[w].calls
                            THEN (limit[w].calls - calls[work[w]]) + Lanes - 1 ELSE f
                       ELSE IF stage[w] = "starting" /\ seen[w].calls > 0
                            THEN seen[w].calls + Lanes - 1 ELSE 0
  BY <1>2 DEF CallsToCome, ToCome
<1>6. CostToCome(w) = IF stage[w] = "running"
                      THEN IF cost[work[w]] < limit[w].cost
                           THEN (limit[w].cost - cost[work[w]]) + lP - 1 ELSE fP
                      ELSE IF stage[w] = "starting" /\ seen[w].cost > 0
                           THEN seen[w].cost + lP - 1 ELSE 0
  BY DEF CostToCome, ToCome
<1> HIDE DEF f, fP, lP
<1>7. /\ CallsToCome(w) \in Nat /\ CallsToCome(w) <= AccountCalls + Lanes - 1
      /\ stage[w] = "idle" => CallsToCome(w) = 0
      /\ f <= CallsToCome(w)
  BY <1>1, <1>2, <1>3, <1>4, <1>5, WorkerIsTyped, Numbers DEF CeilingsHold
<1>8. /\ CostToCome(w) \in Nat /\ CostToCome(w) <= AccountCost + lP - 1
      /\ stage[w] = "idle" => CostToCome(w) = 0
  BY <1>1, <1>2, <1>3, <1>6, WorkerIsTyped, Numbers DEF CeilingsHold
<1>9. QED BY <1>7, <1>8 DEF f, lP

LEMMA ComingIsTyped ==
    ASSUME TypeOK, WorkerInv
    PROVE  /\ CallsComing \in [Workers -> Nat] /\ CostComing \in [Workers -> Nat]
           /\ Total(CallsComing) \in Nat /\ Total(CostComing) \in Nat
<1>1. CallsComing \in [Workers -> Nat] /\ CostComing \in [Workers -> Nat]
  BY ToComeIsWithin DEF CallsComing, CostComing
<1>2. QED BY <1>1, RowsAreFinite

\* What the account is charged of, and what comes of it, when a worker claims.
LEMMA AClaimIsWithin ==
    ASSUME NEW used \in Nat, NEW coming \in [Workers -> Nat], NEW w \in Workers,
           NEW account \in Nat, NEW over \in Nat, over >= 1, coming[w] = 0,
           \A x \in Workers : coming[x] <= account + over - 1,
           used + Total(coming) <= Slots * (account + over - 1),
           NEW add \in Nat,
           add = IF Left(account, used) > 0 THEN Left(account, used) + over - 1 ELSE 0
    PROVE  used + Total([coming EXCEPT ![w] = add]) <= Slots * (account + over - 1)
<1> DEFINE X == account + over - 1
           others == Workers \ {w}
<1>1. Total([coming EXCEPT ![w] = add]) = Total(coming) - coming[w] + add
  BY WorkersExcept
<1>2. Total(coming) \in Nat /\ X \in Nat /\ Slots \in Nat
  BY RowsAreFinite, SlotsAreSome
<1>3. Total([coming EXCEPT ![w] = add]) = Total(coming) + add
  BY <1>1, <1>2
<1>4. CASE add = 0
  BY <1>2, <1>3, <1>4
<1>5. CASE add # 0
  <2>1. used + add = X
    BY <1>5 DEF Left
  <2>2. Total(coming) <= Cardinality(others) * X
    <3>1. \A x \in Workers : coming[x] <= X /\ (x \notin others => coming[x] = 0)
      OBVIOUS
    <3>2. others \in SUBSET Workers
      OBVIOUS
    <3> HIDE DEF X, others
    <3>3. QED BY <1>2, <3>1, <3>2, TotalIsWithin
  <2>3. Cardinality(others) = Slots - 1
    BY FS_RemoveElement DEF Slots
  <2>4. (Slots - 1) * X + X = Slots * X /\ (Slots - 1) * X \in Nat /\ Slots * X \in Nat
    <3>1. Slots - 1 \in Nat
      BY SlotsAreSome
    <3> HIDE DEF X
    <3>2. ((Slots - 1) + 1) * X = (Slots - 1) * X + X /\ (Slots - 1) * X \in Nat
      BY <1>2, <3>1, Times
    <3>3. (Slots - 1) + 1 = Slots
      BY <1>2
    <3>4. Slots * X \in Nat
      BY <1>2, Times
    <3>5. QED BY <3>2, <3>3, <3>4
  <2> HIDE DEF X, others
  <2>5. used + Total([coming EXCEPT ![w] = add]) <= Slots * X
    BY <1>2, <1>3, <2>1, <2>2, <2>3, <2>4
  <2>6. QED BY <2>5 DEF X
<1>6. QED BY <1>4, <1>5

\* And after a step as before it.
ComesToNumbers ==
    \A w \in Workers : CallsToCome(w) \in Nat /\ CostToCome(w) \in Nat

LEMMA ComingLater == TypeOK /\ WorkerInv => ComesToNumbers
  BY ToComeIsWithin DEF ComesToNumbers

\* What a worker records is taken from what it had to come.
LEMMA RecordsTakes ==
    ASSUME TypeOK, TypeOK', WorkerInv, NEW w \in Workers, NEW r \in Runs,
           NEW price \in 0..MaxPrice, RecordsAt(w, r, price)
    PROVE  /\ CallsToCome(w)' + 1 <= CallsToCome(w)
           /\ CostToCome(w)' + price <= CostToCome(w)
<1> DEFINE f == flying[w]
           n == f - 1
           nP == n * MaxPrice
           fP == f * MaxPrice
           lP == Lanes * MaxPrice
<1>1. /\ stage[w] = "running" /\ work[w] = r /\ f > 0 /\ flying'[w] = n
      /\ calls'[r] = calls[r] + 1 /\ cost'[r] = cost[r] + price
      /\ UNCHANGED <<work, stage, limit>>
  BY DEF RecordsAt, workVars, TypeOK
<1>2. /\ calls[r] \in Nat /\ cost[r] \in Nat /\ f \in Nat
      /\ limit[w].calls \in Nat /\ limit[w].cost \in Nat
  BY WorkerIsTyped DEF TypeOK
<1>3. f <= Lanes
  BY DEF WorkerInv, LanesHold
<1>4. n \in Nat /\ n <= Lanes /\ n + 1 = f /\ n + 1 <= Lanes
  BY <1>1, <1>2, <1>3, Numbers
<1>5. nP \in Nat /\ fP = nP + MaxPrice /\ fP <= lP /\ lP \in Nat /\ fP \in Nat
  <2>1. nP \in Nat /\ (n + 1) * MaxPrice = nP + MaxPrice
    BY <1>4, Numbers, Times
  <2>2. fP <= lP /\ lP \in Nat /\ fP \in Nat
    BY <1>2, <1>3, LanesCost
  <2>3. QED BY <1>4, <2>1, <2>2
<1>6. price \in Nat /\ price <= MaxPrice
  BY Numbers
<1>7. CallsToCome(w) = IF calls[r] < limit[w].calls
                       THEN (limit[w].calls - calls[r]) + Lanes - 1 ELSE f
  BY <1>1, <1>2, Numbers DEF CallsToCome, ToCome
<1>8. CallsToCome(w)' = IF calls[r] + 1 < limit[w].calls
                        THEN (limit[w].calls - (calls[r] + 1)) + Lanes - 1 ELSE n
  BY <1>1, <1>4, Numbers DEF CallsToCome, ToCome
<1>9. CostToCome(w) = IF cost[r] < limit[w].cost
                      THEN (limit[w].cost - cost[r]) + lP - 1 ELSE fP
  BY <1>1 DEF CostToCome, ToCome
<1>10. CostToCome(w)' = IF cost[r] + price < limit[w].cost
                        THEN (limit[w].cost - (cost[r] + price)) + lP - 1 ELSE nP
  BY <1>1 DEF CostToCome, ToCome
<1> HIDE DEF f, n, nP, fP, lP
<1>11. CallsToCome(w)' + 1 <= CallsToCome(w)
  BY <1>2, <1>4, <1>7, <1>8, Numbers
<1>12. CostToCome(w)' + price <= CostToCome(w)
  BY <1>2, <1>5, <1>6, <1>9, <1>10, Numbers
<1>13. QED BY <1>11, <1>12

\* A worker that does not claim has no more to come, however much was recorded for
\* the run that others are at.
LEMMA OnlyClaimsAdd ==
    ASSUME TypeOK, TypeOK', WorkerInv, WorkerInv', [Next]_vars, NEW w \in Workers,
           \A r \in Runs : ~Claims(w, r)
    PROVE  CallsToCome(w)' <= CallsToCome(w) /\ CostToCome(w)' <= CostToCome(w)
<1> DEFINE Less == CallsToCome(w)' <= CallsToCome(w) /\ CostToCome(w)' <= CostToCome(w)
           r == work[w]
           f == flying[w]
           fP == f * MaxPrice
           lP == Lanes * MaxPrice
<1>1. LanesHold(w) /\ CeilingsHold(w)
  BY DEF WorkerInv
<1>2. /\ f \in Nat /\ f <= Lanes /\ fP \in Nat /\ lP \in Nat /\ fP <= lP /\ lP >= 1
      /\ f * 1 = f /\ Lanes * 1 = Lanes /\ (f = 0 => fP = 0)
  <2>1. f \in Nat /\ f <= Lanes
    BY <1>1, WorkerIsTyped DEF LanesHold
  <2>2. fP \in Nat /\ lP \in Nat /\ fP <= lP /\ lP >= MaxPrice /\ Lanes * 1 = Lanes
    BY <2>1, LanesCost
  <2>3. f * 1 = f /\ (f = 0 => fP = 0)
    BY <2>1, Numbers
  <2>4. QED BY <2>1, <2>2, <2>3, Numbers
<1>3. /\ CallsToCome(w) \in Nat /\ CostToCome(w) \in Nat
  BY ToComeIsWithin
<1>4. CASE UNCHANGED <<usageVars, workVars>>
  BY <1>3, <1>4 DEF usageVars, workVars, CallsToCome, CostToCome, ToCome
<1>5. CASE /\ stage'[w] = stage[w] /\ work'[w] = work[w] /\ flying'[w] = flying[w]
           /\ seen'[w] = seen[w] /\ limit'[w] = limit[w]
           /\ stage[w] # "idle" =>
                /\ calls'[work[w]] \in Nat /\ calls'[work[w]] >= calls[work[w]]
                /\ cost'[work[w]] \in Nat /\ cost'[work[w]] >= cost[work[w]]
  <2>1. CallsToCome(w)' <= CallsToCome(w)
    <3> HIDE DEF f, fP, lP
    <3>1. flying[w] * 1 = flying[w] /\ flying[w] \in Nat /\ flying[w] <= Lanes
      BY <1>2 DEF f
    <3>2. QED BY <1>2, <1>5, <3>1, WorkerIsTyped, Numbers DEF CallsToCome, ToCome
  <2>2. CostToCome(w)' <= CostToCome(w)
    <3>1. CostToCome(w) = IF stage[w] = "running"
                          THEN IF cost[r] < limit[w].cost
                               THEN (limit[w].cost - cost[r]) + lP - 1 ELSE fP
                          ELSE IF stage[w] = "starting" /\ seen[w].cost > 0
                               THEN seen[w].cost + lP - 1 ELSE 0
      BY DEF CostToCome, ToCome
    <3>2. CostToCome(w)' = IF stage[w] = "running"
                           THEN IF cost'[r] < limit[w].cost
                                THEN (limit[w].cost - cost'[r]) + lP - 1 ELSE fP
                           ELSE IF stage[w] = "starting" /\ seen[w].cost > 0
                                THEN seen[w].cost + lP - 1 ELSE 0
      BY <1>5 DEF CostToCome, ToCome
    <3> HIDE DEF f, fP, lP
    <3>3. QED BY <1>2, <1>5, <3>1, <3>2, WorkerIsTyped
  <2>3. QED BY <2>1, <2>2
<1>6. CASE Outside
  BY <1>4, <1>6, OutsideLeavesWork
<1>7. CASE stage'[w] = "idle"
  BY <1>3, <1>7 DEF CallsToCome, CostToCome, ToCome
<1>8. ASSUME NEW x \in Workers, NEW s \in Runs, Claims(x, s) PROVE Less
  <2>1. x # w
    BY <1>8
  <2>2. /\ stage'[w] = stage[w] /\ work'[w] = work[w] /\ flying'[w] = flying[w]
        /\ seen'[w] = seen[w] /\ limit'[w] = limit[w] /\ calls' = calls /\ cost' = cost
    BY <1>8, <2>1 DEF Claims, usageVars, TypeOK
  <2>3. QED BY <1>5, <2>2, WorkerIsTyped
<1>9. ASSUME NEW x \in Workers, Starts(x) PROVE Less
  <2>1. CASE x # w
    <3>1. /\ stage'[w] = stage[w] /\ work'[w] = work[w] /\ flying'[w] = flying[w]
          /\ seen'[w] = seen[w] /\ limit'[w] = limit[w] /\ calls' = calls /\ cost' = cost
      BY <1>9, <2>1 DEF Starts, usageVars, TypeOK
    <3>2. QED BY <1>5, <3>1, WorkerIsTyped
  <2>2. CASE x = w
    <3>1. /\ stage[w] = "starting" /\ stage'[w] = "running" /\ limit'[w] = Ceilings(w)
          /\ UNCHANGED <<calls, cost, flying, work>>
      BY <1>9, <2>2 DEF Starts, usageVars, TypeOK
    <3>2. f = 0 /\ fP = 0 /\ flying'[w] = 0 /\ flying'[w] * MaxPrice = 0 /\ flying'[w] * 1 = 0
      BY <1>1, <1>2, <3>1 DEF LanesHold
    <3>3. /\ calls[r] \in Nat /\ cost[r] \in Nat /\ budget[r] \in Nat
          /\ seen[w].calls \in Nat /\ seen[w].cost \in Nat
      BY <3>1, WorkerIsTyped DEF TypeOK
    <3>4. /\ Ceilings(w).calls \in Nat /\ Ceilings(w).calls <= calls[r] + seen[w].calls
          /\ Ceilings(w).cost \in Nat /\ Ceilings(w).cost <= cost[r] + seen[w].cost
      BY <3>3, Numbers DEF Ceilings, Least
    <3>5. CallsToCome(w) = (IF seen[w].calls > 0 THEN seen[w].calls + Lanes - 1 ELSE 0)
      BY <1>2, <3>1 DEF CallsToCome, ToCome
    <3>6. CostToCome(w) = (IF seen[w].cost > 0 THEN seen[w].cost + lP - 1 ELSE 0)
      BY <3>1 DEF CostToCome, ToCome
    <3>7. CallsToCome(w)' = (IF calls[r] < Ceilings(w).calls
                             THEN (Ceilings(w).calls - calls[r]) + Lanes - 1 ELSE 0)
      BY <1>2, <3>1, <3>2 DEF CallsToCome, ToCome
    <3>8. CostToCome(w)' = (IF cost[r] < Ceilings(w).cost
                            THEN (Ceilings(w).cost - cost[r]) + lP - 1 ELSE 0)
      BY <3>1, <3>2 DEF CostToCome, ToCome
    <3> HIDE DEF f, fP, lP, r
    <3>9. CallsToCome(w)' <= CallsToCome(w)
      BY <3>3, <3>4, <3>5, <3>7, Numbers
    <3>10. CostToCome(w)' <= CostToCome(w)
      BY <1>2, <3>3, <3>4, <3>6, <3>8
    <3>11. QED BY <3>9, <3>10
  <2>3. QED BY <2>1, <2>2
<1>10. ASSUME NEW x \in Workers, Calls(x) PROVE Less
  <2>1. CASE x # w
    <3>1. flying'[w] = flying[w] /\ UNCHANGED <<calls, cost, workVars>>
      BY <1>10, <2>1 DEF Calls, TypeOK
    <3>2. QED BY <1>5, <3>1, WorkerIsTyped DEF workVars
  <2>2. CASE x = w
    <3>1. /\ stage[w] = "running" /\ calls[r] < limit[w].calls /\ cost[r] < limit[w].cost
          /\ UNCHANGED <<calls, cost, work, stage, seen, limit>>
      BY <1>10, <2>2, WorkerIsTyped DEF Calls, WithinBudget, workVars
    <3>2. CallsToCome(w)' = CallsToCome(w) /\ CostToCome(w)' = CostToCome(w)
      BY <3>1 DEF CallsToCome, CostToCome, ToCome
    <3>3. QED BY <1>3, <3>2
  <2>3. QED BY <2>1, <2>2
<1>11. ASSUME NEW x \in Workers, Records(x) PROVE Less
  <2>1. PICK s \in Runs, price \in 0..MaxPrice : RecordsAt(x, s, price)
    BY <1>11, RecordsIsAt
  <2>2. CASE x # w
    <3>1. flying'[w] = flying[w] /\ UNCHANGED workVars
      BY <2>1, <2>2 DEF RecordsAt, TypeOK
    <3>2. stage[w] # "idle" => /\ calls'[r] \in Nat /\ calls'[r] >= calls[r]
                               /\ cost'[r] \in Nat /\ cost'[r] >= cost[r]
      BY <2>1, WorkerIsTyped DEF RecordsAt, TypeOK
    <3>3. QED BY <1>5, <3>1, <3>2 DEF workVars
  <2>3. CASE x = w
    <3>1. CallsToCome(w)' + 1 <= CallsToCome(w) /\ CostToCome(w)' + price <= CostToCome(w)
      BY <2>1, <2>3, RecordsTakes
    <3>2. CallsToCome(w)' \in Nat /\ CostToCome(w)' \in Nat
      <4>1. ComesToNumbers'
        BY ComingLater, PTL
      <4>2. QED BY <4>1 DEF ComesToNumbers
    <3>3. price \in Nat
      BY Numbers
    <3>4. QED BY <1>3, <3>1, <3>2, <3>3
  <2>4. QED BY <2>2, <2>3
<1>12. ASSUME NEW x \in Workers, Loses(x) \/ Ends(x) \/ Dies(x) PROVE Less
  <2>1. Calmer(x)
    BY <1>12, CalmsDown
  <2>2. CASE x # w
    <3>1. flying'[w] = flying[w] /\ UNCHANGED <<calls, cost>>
      BY <2>1, <2>2 DEF Calmer, TypeOK
    <3>2. /\ stage'[w] = stage[w] /\ work'[w] = work[w]
          /\ seen'[w] = seen[w] /\ limit'[w] = limit[w]
      BY <2>1, <2>2 DEF Calmer, Rests, workVars, TypeOK
    <3>3. QED BY <1>5, <3>1, <3>2, WorkerIsTyped
  <2>3. CASE x = w /\ Rests(x)
    BY <1>7, <2>3 DEF Rests, TypeOK
  <2>4. CASE x = w /\ UNCHANGED workVars
    <3>1. /\ UNCHANGED <<calls, cost, stage, work, seen, limit>>
          /\ flying'[w] \in Nat /\ flying'[w] <= flying[w] /\ flying[w] \in Nat
      BY <2>1, <2>4 DEF Calmer, workVars, TypeOK
    <3>2. flying'[w] * MaxPrice <= flying[w] * MaxPrice /\ flying'[w] * 1 <= flying[w] * 1
      BY <3>1, Numbers, Times
    <3>3. /\ flying'[w] * MaxPrice \in Nat /\ flying'[w] * 1 \in Nat
          /\ flying[w] * MaxPrice \in Nat /\ flying[w] * 1 \in Nat
      BY <3>1, Numbers, Times
    <3>4. CallsToCome(w)' <= CallsToCome(w)
      <4>1. CASE stage[w] = "running" /\ ~(calls[r] < limit[w].calls)
        <5>1. CallsToCome(w) = flying[w] * 1
          BY <4>1 DEF CallsToCome, ToCome
        <5>2. CallsToCome(w)' = flying'[w] * 1
          BY <3>1, <4>1 DEF CallsToCome, ToCome
        <5>3. QED BY <3>2, <3>3, <5>1, <5>2
      <4>2. CASE ~(stage[w] = "running" /\ ~(calls[r] < limit[w].calls))
        <5>1. CallsToCome(w)' = CallsToCome(w)
          BY <3>1, <4>2 DEF CallsToCome, ToCome
        <5>2. QED BY <1>3, <5>1
      <4>3. QED BY <4>1, <4>2
    <3>5. CostToCome(w)' <= CostToCome(w)
      <4>1. CASE stage[w] = "running" /\ ~(cost[r] < limit[w].cost)
        <5>1. CostToCome(w) = flying[w] * MaxPrice
          BY <4>1 DEF CostToCome, ToCome
        <5>2. CostToCome(w)' = flying'[w] * MaxPrice
          BY <3>1, <4>1 DEF CostToCome, ToCome
        <5>3. QED BY <3>2, <3>3, <5>1, <5>2
      <4>2. CASE ~(stage[w] = "running" /\ ~(cost[r] < limit[w].cost))
        <5>1. CostToCome(w)' = CostToCome(w)
          BY <3>1, <4>2 DEF CostToCome, ToCome
        <5>2. QED BY <1>3, <5>1
      <4>3. QED BY <4>1, <4>2
    <3>6. QED BY <3>4, <3>5
  <2>5. QED BY <2>1, <2>2, <2>3, <2>4 DEF Calmer
<1>13. QED BY <1>6, <1>8, <1>9, <1>10, <1>11, <1>12, Steps

LEMMA SpendingIsInductive ==
    ASSUME Kept, Kept', SpendingInv, [Next]_vars PROVE SpendingInv'
<1>1. TypeOK /\ TypeOK' /\ WorkerInv /\ WorkerInv'
  BY DEF Kept
<1>2. /\ CallsComing \in [Workers -> Nat] /\ CostComing \in [Workers -> Nat]
      /\ Total(CallsComing) \in Nat /\ Total(CostComing) \in Nat
  BY <1>1, ComingIsTyped
<1>3. CallsComing' \in [Workers -> Nat] /\ CostComing' \in [Workers -> Nat]
  <2>1. ComesToNumbers'
    BY <1>1, ComingLater, PTL
  <2>2. QED BY <2>1 DEF ComesToNumbers, CallsComing, CostComing
<1>4. /\ Total(CallsComing)' = Total(CallsComing') /\ Total(CostComing)' = Total(CostComing')
      /\ Total(calls)' = Total(calls') /\ Total(cost)' = Total(cost')
  BY DEF Total, Rows
<1>5. /\ Total(CallsComing') \in Nat /\ Total(CostComing') \in Nat
      /\ Total(calls) \in Nat /\ Total(cost) \in Nat
  BY <1>1, <1>3, RowsAreFinite, TotalsAreNumbers
<1> DEFINE mostCalls == Slots * (AccountCalls + Lanes - 1)
           mostCost == Slots * (AccountCost + Lanes * MaxPrice - 1)
<1>6. mostCalls \in Nat /\ mostCost \in Nat
  <2>1. Lanes * MaxPrice \in Nat /\ Lanes * MaxPrice >= 1
    BY Numbers
  <2>2. AccountCalls + Lanes - 1 \in Nat /\ AccountCost + Lanes * MaxPrice - 1 \in Nat
    BY <2>1, Numbers
  <2> DEFINE a == AccountCalls + Lanes - 1
             b == AccountCost + Lanes * MaxPrice - 1
  <2> HIDE DEF a, b
  <2>3. Slots * a \in Nat /\ Slots * b \in Nat
    BY <2>2, SlotsAreSome DEF a, b
  <2>4. QED BY <2>3 DEF a, b
<1>7. /\ Total(calls) + Total(CallsComing) <= mostCalls
      /\ Total(cost) + Total(CostComing) <= mostCost
  BY DEF SpendingInv
<1> HIDE DEF mostCalls, mostCost
<1>8. SUFFICES /\ Total(calls') + Total(CallsComing') <= mostCalls
               /\ Total(cost') + Total(CostComing') <= mostCost
  BY <1>4, <1>8 DEF SpendingInv, mostCalls, mostCost
<1>9. ASSUME NEW w \in Workers, Records(w)
      PROVE  /\ Total(calls') + Total(CallsComing') <= mostCalls
             /\ Total(cost') + Total(CostComing') <= mostCost
  <2>1. PICK r \in Runs, price \in 0..MaxPrice : RecordsAt(w, r, price)
    BY <1>1, <1>9, RecordsIsAt
  <2>2. CallsToCome(w)' + 1 <= CallsToCome(w) /\ CostToCome(w)' + price <= CostToCome(w)
    BY <1>1, <2>1, RecordsTakes
  <2>3. price \in Nat /\ \A s \in Runs : \A x \in Workers : ~Claims(x, s)
    <3>1. \A s \in Runs : \A x \in Workers : ~Claims(x, s)
      BY <1>1, <2>1 DEF RecordsAt, Claims, jobVars, TypeOK
    <3>2. QED BY <3>1, Numbers
  <2> DEFINE callsLess == CallsComing[w] - 1
             costLess == CostComing[w] - price
  <2>4. callsLess \in Nat /\ costLess \in Nat
    <3>1. CallsComing'[w] + 1 <= CallsComing[w] /\ CostComing'[w] + price <= CostComing[w]
      BY <2>2 DEF CallsComing, CostComing
    <3>2. QED BY <1>2, <1>3, <2>3, <3>1
  <2>5. /\ \A x \in Workers : CallsComing'[x] <= [CallsComing EXCEPT ![w] = callsLess][x]
        /\ \A x \in Workers : CostComing'[x] <= [CostComing EXCEPT ![w] = costLess][x]
    <3> SUFFICES ASSUME NEW x \in Workers
                 PROVE  /\ CallsComing'[x] <= [CallsComing EXCEPT ![w] = callsLess][x]
                        /\ CostComing'[x] <= [CostComing EXCEPT ![w] = costLess][x]
      OBVIOUS
    <3>1. CallsToCome(x)' <= CallsToCome(x) /\ CostToCome(x)' <= CostToCome(x)
      BY <1>1, <2>3, OnlyClaimsAdd
    <3>2. /\ CallsComing'[x] = CallsToCome(x)' /\ CallsComing[x] = CallsToCome(x)
          /\ CostComing'[x] = CostToCome(x)' /\ CostComing[x] = CostToCome(x)
      BY DEF CallsComing, CostComing
    <3>3. CASE x = w
      <4>1. CallsComing'[x] <= callsLess /\ CostComing'[x] <= costLess
        BY <1>2, <1>3, <2>2, <2>3, <3>2, <3>3
      <4>2. QED BY <1>2, <3>3, <4>1
    <3>4. CASE x # w
      BY <1>2, <3>1, <3>2, <3>4
    <3>5. QED BY <3>3, <3>4
  <2> DEFINE callsAfter == [CallsComing EXCEPT ![w] = callsLess]
             costAfter == [CostComing EXCEPT ![w] = costLess]
  <2>6. /\ Total(callsAfter) = Total(CallsComing) - CallsComing[w] + callsLess
        /\ Total(costAfter) = Total(CostComing) - CostComing[w] + costLess
    <3> HIDE DEF callsLess, costLess
    <3>1. QED BY <1>2, <2>4, WorkersExcept
  <2>7. callsAfter \in [Workers -> Nat] /\ costAfter \in [Workers -> Nat]
    <3> HIDE DEF callsLess, costLess
    <3>1. QED BY <1>2, <2>4
  <2>8. Total(CallsComing') <= Total(callsAfter) /\ Total(CostComing') <= Total(costAfter)
    <3> HIDE DEF callsAfter, costAfter
    <3>1. /\ \A x \in Workers : CallsComing'[x] <= callsAfter[x]
          /\ \A x \in Workers : CostComing'[x] <= costAfter[x]
      BY <2>5 DEF callsAfter, costAfter
    <3>2. QED BY <1>3, <2>7, <3>1, TotalIsMonotone
  <2>9. Total(calls') = Total(calls) + 1 /\ Total(cost') = Total(cost) + price
    <3> DEFINE one == calls[r] + 1
               more == cost[r] + price
    <3>1. calls \in [Runs -> Nat] /\ cost \in [Runs -> Nat] /\ one \in Nat /\ more \in Nat
      BY <1>1, <2>3 DEF TypeOK
    <3>2. calls' = [calls EXCEPT ![r] = one] /\ cost' = [cost EXCEPT ![r] = more]
      BY <2>1 DEF RecordsAt
    <3>3. calls[r] \in Nat /\ cost[r] \in Nat
      BY <3>1
    <3>4. /\ Total(calls') = Total(calls) - calls[r] + one
          /\ Total(cost') = Total(cost) - cost[r] + more
      <4> HIDE DEF one, more
      <4>1. QED BY <3>1, <3>2, RunsExcept
    <3>5. QED BY <1>5, <2>3, <3>3, <3>4
  <2> HIDE DEF callsAfter, costAfter
  <2>10. CallsComing[w] \in Nat /\ CostComing[w] \in Nat
    BY <1>2
  <2>11. Total(callsAfter) = Total(CallsComing) - 1 /\ Total(costAfter) = Total(CostComing) - price
    BY <1>2, <2>3, <2>6, <2>10
  <2>12. QED BY <1>2, <1>5, <1>6, <1>7, <2>3, <2>8, <2>9, <2>11
<1>10. ASSUME UNCHANGED <<calls, cost>>,
              \A w \in Workers : \A r \in Runs : ~Claims(w, r)
       PROVE  /\ Total(calls') + Total(CallsComing') <= mostCalls
              /\ Total(cost') + Total(CostComing') <= mostCost
  <2>1. /\ \A x \in Workers : CallsComing'[x] <= CallsComing[x]
        /\ \A x \in Workers : CostComing'[x] <= CostComing[x]
    BY <1>1, <1>10, OnlyClaimsAdd DEF CallsComing, CostComing
  <2>2. Total(CallsComing') <= Total(CallsComing) /\ Total(CostComing') <= Total(CostComing)
    BY <1>2, <1>3, <2>1, TotalIsMonotone
  <2>3. Total(calls') = Total(calls) /\ Total(cost') = Total(cost)
    BY <1>10
  <2>4. QED BY <1>2, <1>5, <1>6, <1>7, <2>2, <2>3
<1>11. ASSUME NEW w \in Workers, NEW r \in Runs, Claims(w, r)
       PROVE  /\ Total(calls') + Total(CallsComing') <= mostCalls
              /\ Total(cost') + Total(CostComing') <= mostCost
  <2> DEFINE over == Lanes * MaxPrice
             addCalls == IF Left(AccountCalls, Total(calls)) > 0
                         THEN Left(AccountCalls, Total(calls)) + Lanes - 1 ELSE 0
             addCost == IF Left(AccountCost, Total(cost)) > 0
                        THEN Left(AccountCost, Total(cost)) + over - 1 ELSE 0
  <2>1. /\ work[w] = None /\ stage[w] = "idle"
        /\ stage' = [stage EXCEPT ![w] = "starting"] /\ work' = [work EXCEPT ![w] = r]
        /\ seen' = [seen EXCEPT ![w] = [calls |-> Left(AccountCalls, Total(calls)),
                                        cost |-> Left(AccountCost, Total(cost))]]
        /\ UNCHANGED <<calls, cost, flying, limit>>
    BY <1>1, <1>11 DEF Claims, usageVars, TypeOK
  <2>2. over \in Nat /\ over >= 1 /\ addCalls \in Nat /\ addCost \in Nat
    <3>1. over \in Nat /\ over >= 1
      BY Numbers
    <3> HIDE DEF over
    <3>2. QED BY <1>5, <3>1, Numbers DEF Left
  <2>3. ASSUME NEW x \in Workers
        PROVE  /\ CallsToCome(x)' = [CallsComing EXCEPT ![w] = addCalls][x]
               /\ CostToCome(x)' = [CostComing EXCEPT ![w] = addCost][x]
    <3>1. CASE x = w
      <4>1. stage'[w] = "starting" /\ seen'[w].calls = Left(AccountCalls, Total(calls))
            /\ seen'[w].cost = Left(AccountCost, Total(cost))
        BY <1>1, <2>1 DEF TypeOK
      <4>2. CallsToCome(w)' = addCalls
        BY <4>1, Numbers DEF CallsToCome, ToCome
      <4>3. CostToCome(w)' = addCost
        BY <4>1 DEF CostToCome, ToCome
      <4> HIDE DEF addCalls, addCost
      <4>4. QED BY <1>2, <3>1, <4>2, <4>3
    <3>2. CASE x # w
      <4>1. CallsToCome(x)' = CallsToCome(x) /\ CostToCome(x)' = CostToCome(x)
        BY <1>1, <2>1, <3>2 DEF CallsToCome, CostToCome, TypeOK
      <4>2. CallsToCome(x) = CallsComing[x] /\ CostToCome(x) = CostComing[x]
        BY DEF CallsComing, CostComing
      <4> HIDE DEF addCalls, addCost
      <4>3. QED BY <1>2, <3>2, <4>1, <4>2
    <3>3. QED BY <3>1, <3>2
  <2> HIDE DEF addCalls, addCost
  <2>4. CallsComing' = [CallsComing EXCEPT ![w] = addCalls]
    <3>1. CallsComing' = [x \in Workers |-> [CallsComing EXCEPT ![w] = addCalls][x]]
      BY <2>3 DEF CallsComing
    <3>2. [CallsComing EXCEPT ![w] = addCalls] \in [Workers -> Nat]
      BY <1>2, <2>2
    <3>3. QED BY <3>1, <3>2
  <2>5. CostComing' = [CostComing EXCEPT ![w] = addCost]
    <3>1. CostComing' = [x \in Workers |-> [CostComing EXCEPT ![w] = addCost][x]]
      BY <2>3 DEF CostComing
    <3>2. [CostComing EXCEPT ![w] = addCost] \in [Workers -> Nat]
      BY <1>2, <2>2
    <3>3. QED BY <3>1, <3>2
  <2>6. /\ CallsComing[w] = 0 /\ CostComing[w] = 0
        /\ \A x \in Workers : CallsComing[x] <= AccountCalls + Lanes - 1
        /\ \A x \in Workers : CostComing[x] <= AccountCost + over - 1
    BY <1>1, <2>1, ToComeIsWithin DEF CallsComing, CostComing
  <2>7. Total(calls) + Total([CallsComing EXCEPT ![w] = addCalls]) <= mostCalls
    BY <1>2, <1>5, <1>7, <2>2, <2>6, Numbers, AClaimIsWithin DEF addCalls, mostCalls
  <2>8. Total(cost) + Total([CostComing EXCEPT ![w] = addCost]) <= mostCost
    <3>1. Total(cost) + Total(CostComing) <= Slots * (AccountCost + over - 1)
      BY <1>7 DEF mostCost
    <3>2. addCost = IF Left(AccountCost, Total(cost)) > 0
                    THEN Left(AccountCost, Total(cost)) + over - 1 ELSE 0
      BY DEF addCost
    <3>3. mostCost = Slots * (AccountCost + over - 1)
      BY DEF mostCost
    <3> HIDE DEF over
    <3>4. QED BY <1>2, <1>5, <2>2, <2>6, <3>1, <3>2, <3>3, Numbers, AClaimIsWithin
  <2>9. QED BY <2>1, <2>4, <2>5, <2>7, <2>8
<1>12. (\E w \in Workers : Records(w)) \/ UNCHANGED <<calls, cost>>
  <2>1. CASE Outside
    BY <2>1, OutsideLeavesWork DEF usageVars
  <2>2. ASSUME NEW w \in Workers, NEW r \in Runs, Claims(w, r) PROVE UNCHANGED <<calls, cost>>
    BY <2>2 DEF Claims, usageVars
  <2>3. ASSUME NEW w \in Workers,
               Starts(w) \/ Calls(w) \/ Loses(w) \/ Ends(w) \/ Dies(w)
        PROVE  UNCHANGED <<calls, cost>>
    BY <2>3 DEF Starts, Calls, Loses, Ends, Dies, usageVars
  <2>4. QED BY <2>1, <2>2, <2>3, Steps
<1>13. QED BY <1>9, <1>10, <1>11, <1>12
-----------------------------------------------------------------------------
LEMMA InitHolds ==
    ASSUME Init PROVE Kept /\ SpendingInv
<1>1. TypeOK
  BY DEF Init, TypeOK, Ceiling, Nothing
<1>2. WorkerInv
  BY Numbers DEF Init, WorkerInv, LanesHold, CeilingsHold, Nothing
<1>3. LeaseInv
  BY DEF Init, LeaseInv, LeaseHolds, At
<1>4. ASSUME NEW S, IsFiniteSet(S), NEW f \in [S -> Nat], \A x \in S : f[x] = 0
      PROVE  Total(f) = 0
  <2>1. Total(f) <= Cardinality({}) * 0 /\ Total(f) \in Nat
    <3>1. \A x \in S : f[x] <= 0 /\ (x \notin {} => f[x] = 0)
      BY <1>4
    <3>2. {} \in SUBSET S /\ 0 \in Nat
      OBVIOUS
    <3>3. QED BY <1>4, <3>1, <3>2, TotalIsWithin, RowsAreFinite
  <2>2. Cardinality({}) * 0 = 0
    BY FS_EmptySet
  <2>3. QED BY <2>1, <2>2
<1>5. ASSUME NEW r \in Runs PROVE RunHolds(r)
  <2>1. InFlightOf(r) \in [Workers -> Nat] /\ \A w \in Workers : InFlightOf(r)[w] = 0
    BY DEF Init, InFlightOf
  <2>2. InFlight(r) = 0
    <3>1. InFlight(r) = Total(InFlightOf(r))
      BY DEF InFlight, InFlightOf
    <3>2. IsFiniteSet(Workers)
      OBVIOUS
    <3> HIDE DEF InFlightOf
    <3>3. QED BY <1>4, <2>1, <3>1, <3>2
  <2>3. PICK b \in Budgets : b \in Nat
    OBVIOUS
  <2>4. 1 * MaxPrice <= AtOnce(r) * MaxPrice /\ AtOnce(r) * MaxPrice \in Nat
    BY AtOnceIsSome, Numbers, Times
  <2>5. 0 + 0 * MaxPrice < b + AtOnce(r) * MaxPrice
    BY <2>3, <2>4, Numbers
  <2>6. calls[r] = 0 /\ cost[r] = 0
    BY DEF Init
  <2>7. QED BY <2>2, <2>3, <2>5, <2>6, AtOnceIsSome, Numbers DEF RunHolds
<1>6. Kept
  BY <1>1, <1>2, <1>3, <1>5 DEF Kept, RunInv
<1>7. /\ CallsComing \in [Workers -> Nat] /\ CostComing \in [Workers -> Nat]
      /\ \A w \in Workers : CallsComing[w] = 0 /\ CostComing[w] = 0
  <2>1. \A w \in Workers : stage[w] = "idle"
    BY DEF Init
  <2>2. QED BY <1>1, <1>2, <2>1, ToComeIsWithin DEF CallsComing, CostComing
<1>8. Total(CallsComing) = 0 /\ Total(CostComing) = 0
  <2>1. IsFiniteSet(Workers)
    OBVIOUS
  <2> HIDE DEF CallsComing, CostComing
  <2>2. QED BY <1>4, <1>7, <2>1
<1>9. Total(calls) = 0 /\ Total(cost) = 0
  <2>1. /\ calls \in [Runs -> Nat] /\ cost \in [Runs -> Nat]
        /\ \A r \in Runs : calls[r] = 0 /\ cost[r] = 0
    BY DEF Init
  <2>2. IsFiniteSet(Runs)
    OBVIOUS
  <2>3. QED BY <1>4, <2>1, <2>2
<1>10. /\ 0 <= Slots * (AccountCalls + Lanes - 1)
       /\ 0 <= Slots * (AccountCost + Lanes * MaxPrice - 1)
  <2>1. Lanes * MaxPrice \in Nat /\ Lanes * MaxPrice >= 1
    BY Numbers
  <2>2. AccountCalls + Lanes - 1 \in Nat /\ AccountCost + Lanes * MaxPrice - 1 \in Nat
    BY <2>1, Numbers
  <2> DEFINE a == AccountCalls + Lanes - 1
             b == AccountCost + Lanes * MaxPrice - 1
  <2> HIDE DEF a, b
  <2>3. Slots * a \in Nat /\ Slots * b \in Nat
    BY <2>2, SlotsAreSome DEF a, b
  <2>4. 0 <= Slots * a /\ 0 <= Slots * b
    BY <2>3
  <2>5. QED BY <2>4 DEF a, b
<1>11. SpendingInv
  BY <1>8, <1>9, <1>10 DEF SpendingInv
<1>12. QED BY <1>6, <1>11

LEMMA SpendingFollows ==
    ASSUME Kept, SpendingInv PROVE SpendingIsBounded
<1>1. TypeOK /\ WorkerInv /\ LeaseInv /\ RunInv
  BY DEF Kept
<1>2. ASSUME NEW r \in Runs
      PROVE  /\ calls[r] + InFlight(r) < RunCalls + AtOnce(r)
             /\ \E b \in Budgets : cost[r] < b + AtOnce(r) * MaxPrice
  <2>1. RunHolds(r)
    BY <1>1 DEF RunInv
  <2>2. PICK b \in Budgets : cost[r] + InFlight(r) * MaxPrice < b + AtOnce(r) * MaxPrice
    BY <2>1 DEF RunHolds
  <2>3. /\ InFlight(r) * MaxPrice \in Nat /\ AtOnce(r) * MaxPrice \in Nat
        /\ cost[r] \in Nat /\ b \in Nat
    <3>1. InFlight(r) \in Nat /\ AtOnce(r) \in Nat
      BY <1>1, InFlightIsWithin, AtOnceIsSome
    <3>2. InFlight(r) * MaxPrice \in Nat /\ AtOnce(r) * MaxPrice \in Nat
      BY <3>1, Numbers, Times
    <3>3. QED BY <1>1, <3>2 DEF TypeOK
  <2>4. cost[r] < b + AtOnce(r) * MaxPrice
    BY <2>2, <2>3
  <2>5. QED BY <2>1, <2>4 DEF RunHolds
<1>3. /\ CallsComing \in [Workers -> Nat] /\ CostComing \in [Workers -> Nat]
      /\ Total(CallsComing) \in Nat /\ Total(CostComing) \in Nat
  BY <1>1, ComingIsTyped
<1>4. flying \in [Workers -> Nat] /\ \A w \in Workers : flying[w] <= CallsComing[w]
  BY <1>1, ToComeIsWithin DEF CallsComing, TypeOK
<1>5. Total(flying) <= Total(CallsComing)
  BY <1>3, <1>4, TotalIsMonotone
<1>6. Total(calls) \in Nat /\ Total(cost) \in Nat /\ Total(flying) \in Nat
  BY <1>1, TotalsAreNumbers
<1> DEFINE mostCalls == Slots * (AccountCalls + Lanes - 1)
           mostCost == Slots * (AccountCost + Lanes * MaxPrice - 1)
<1>7. /\ Total(calls) + Total(CallsComing) <= mostCalls
      /\ Total(cost) + Total(CostComing) <= mostCost
      /\ mostCalls \in Int /\ mostCost \in Int
  <2>1. mostCalls \in Int /\ mostCost \in Int
    BY SlotsAreSome, Numbers
  <2>2. QED BY <2>1 DEF SpendingInv
<1> HIDE DEF mostCalls, mostCost
<1>8. Total(calls) + Total(flying) <= mostCalls /\ Total(cost) <= mostCost
  BY <1>3, <1>5, <1>6, <1>7
<1>9. QED BY <1>2, <1>8 DEF SpendingIsBounded, mostCalls, mostCost

\* usage.py check and worker.py _limits: a run passes its ceilings by what its calls at
\* once cost and no more, those of the workers that lost its lease among them, and the
\* account as often as there are workers, whatever a call costs up to MaxPrice.
THEOREM SpendingBounded == Spec => []SpendingIsBounded
<1>1. Init => Kept /\ SpendingInv
  BY InitHolds
<1>2. Kept /\ SpendingInv /\ [Next]_vars => (Kept /\ SpendingInv)'
  BY KeptIsInductive, SpendingIsInductive
<1>3. Kept /\ SpendingInv => SpendingIsBounded
  BY SpendingFollows
<1>4. QED BY <1>1, <1>2, <1>3, PTL DEF Spec
-----------------------------------------------------------------------------
(* The builds.                                                             *)

\* The runs whose job was counted, and those about to be given one that was.
Counted == Active \ uncounted
Aimed == Counted \cup {target[c] : c \in {d \in Clients : request[d] = "queueing"}}
BuildsInv == Cardinality(Aimed) <= MaxBuilds + Cardinality(Clients) - 1

LEMMA AimedIsFinite ==
    ASSUME TypeOK
    PROVE  /\ Aimed \subseteq Runs /\ IsFiniteSet(Aimed) /\ Cardinality(Aimed) \in Nat
           /\ IsFiniteSet(Counted) /\ Cardinality(Counted) \in Nat
           /\ Cardinality(Counted) <= Cardinality(Aimed)
           /\ Cardinality(Active) \in Nat /\ Cardinality(Counted) <= Cardinality(Active)
<1>1. Aimed \subseteq Runs /\ Active \subseteq Runs
  BY DEF Aimed, Counted, Active, TypeOK
<1>2. IsFiniteSet(Aimed) /\ IsFiniteSet(Active)
  BY <1>1, FS_Subset
<1>3. Counted \subseteq Aimed /\ Counted \subseteq Active
  BY DEF Aimed, Counted
<1>4. QED BY <1>1, <1>2, <1>3, FS_Subset, FS_CardinalityType

\* No more runs are the target of a request than there are requests.
LEMMA TargetsAreFew ==
    ASSUME NEW goal, NEW some \in SUBSET Clients
    PROVE  /\ IsFiniteSet({goal[c] : c \in some}) /\ Cardinality({goal[c] : c \in some}) \in Nat
           /\ Cardinality({goal[c] : c \in some}) <= Cardinality(Clients)
<1> DEFINE goals == {goal[c] : c \in some}
           of == [c \in some |-> goal[c]]
<1>1. of \in Surjection(some, goals)
  BY DEF Surjection
<1>2. /\ IsFiniteSet(some) /\ Cardinality(some) <= Cardinality(Clients)
      /\ Cardinality(some) \in Nat /\ Cardinality(Clients) \in Nat
  BY FS_Subset, FS_CardinalityType
<1> HIDE DEF goals, of
<1>3. IsFiniteSet(goals) /\ Cardinality(goals) <= Cardinality(some)
  BY <1>1, <1>2, FS_Surjection
<1>4. Cardinality(goals) \in Nat
  BY <1>3, FS_CardinalityType
<1>5. IsFiniteSet(goals) /\ Cardinality(goals) \in Nat /\ Cardinality(goals) <= Cardinality(Clients)
  BY <1>2, <1>3, <1>4
<1>6. QED BY <1>5 DEF goals

LEMMA BuildsInvIsInductive ==
    ASSUME TypeOK, TypeOK', BuildsInv, [Next]_vars PROVE BuildsInv'
<1>1. IsFiniteSet(Aimed) /\ Cardinality(Aimed) \in Nat
  BY AimedIsFinite
<1>2. Cardinality(Clients) \in Nat
  BY FS_CardinalityType
<1>3. CASE Aimed' \subseteq Aimed
  <2>1. IsFiniteSet(Aimed') /\ Cardinality(Aimed') <= Cardinality(Aimed)
    BY <1>1, <1>3, FS_Subset
  <2>2. Cardinality(Aimed') \in Nat
    BY <2>1, FS_CardinalityType
  <2>3. QED BY <1>1, <1>2, <2>1, <2>2, Numbers DEF BuildsInv
<1>4. ASSUME NEW c \in Clients, Asks(c) PROVE BuildsInv'
  <2>1. Counted' = Counted
    BY <1>4 DEF Asks, jobVars, Counted, Active
  <2>2. \A d \in Clients : request'[d] = "queueing" => request[d] = "queueing" /\ target'[d] = target[d]
    BY <1>4 DEF Asks, TypeOK
  <2>3. QED BY <1>3, <2>1, <2>2 DEF Aimed
<1>5. ASSUME NEW c \in Clients, Counts(c) PROVE BuildsInv'
  <2>0. Counted' = Counted
    BY <1>5 DEF Counts, jobVars, Counted, Active
  <2>1. CASE target[c] \in Active \/ ~HasRoom
    <3>1. \A d \in Clients : request'[d] = "queueing"
                               => request[d] = "queueing" /\ target'[d] = target[d]
      BY <1>5, <2>1 DEF Counts, Goes, Leaves, TypeOK
    <3>2. QED BY <1>3, <2>0, <3>1 DEF Aimed
  <2>2. CASE HasRoom
    <3> DEFINE some == {d \in Clients : request'[d] = "queueing"}
               goals == {target'[d] : d \in some}
    <3>2. Aimed' = Counted \cup goals
      BY <2>0 DEF Aimed
    <3>3. some \in SUBSET Clients
      OBVIOUS
    <3>4. /\ IsFiniteSet(goals) /\ Cardinality(goals) \in Nat
          /\ Cardinality(goals) <= Cardinality(Clients)
      BY <3>3, TargetsAreFew
    <3> HIDE DEF goals
    <3>5. /\ IsFiniteSet(Counted) /\ Cardinality(Counted) \in Nat
          /\ Cardinality(Active) \in Nat /\ Cardinality(Counted) <= Cardinality(Active)
      BY AimedIsFinite
    <3>6. Cardinality(Counted) < MaxBuilds
      BY <2>2, <3>5, Numbers DEF HasRoom
    <3>7. /\ IsFiniteSet(Counted \cup goals)
          /\ Cardinality(Counted \cup goals)
               = Cardinality(Counted) + Cardinality(goals) - Cardinality(Counted \cap goals)
      BY <3>4, <3>5, FS_Union
    <3>8. Cardinality(Counted \cap goals) \in Nat
      <4>1. IsFiniteSet(Counted \cap goals)
        BY <3>5, FS_Subset
      <4>2. QED BY <4>1, FS_CardinalityType
    <3>9. Cardinality(Counted \cup goals) \in Nat
      BY <3>7, FS_CardinalityType
    <3>10. Cardinality(Counted \cup goals) <= MaxBuilds + Cardinality(Clients) - 1
      BY <1>2, <3>4, <3>5, <3>6, <3>7, <3>8, <3>9, Numbers
    <3>11. QED BY <3>2, <3>10 DEF BuildsInv
  <2>3. QED BY <2>1, <2>2
<1>6. ASSUME NEW c \in Clients, Enqueues(c) PROVE BuildsInv'
  <2>1. /\ request' = [request EXCEPT ![c] = "idle"]
        /\ target' = [target EXCEPT ![c] = None]
    BY <1>6 DEF Enqueues, Leaves
  <2>2. \A d \in Clients : request'[d] = "queueing"
                             => request[d] = "queueing" /\ target'[d] = target[d]
    BY <2>1 DEF TypeOK
  <2>3. Counted' \subseteq Counted \cup (IF request[c] = "queueing" THEN {target[c]} ELSE {})
    <3>1. CASE UNCHANGED jobVars
      BY <3>1 DEF jobVars, Counted, Active
    <3>2. CASE Queue(target[c], request[c] = "queueing")
      BY <1>6, <3>2 DEF Enqueues, Queue, Counted, Active, TypeOK
    <3>3. QED BY <1>6, <3>1, <3>2 DEF Enqueues
  <2>4. QED BY <1>3, <2>2, <2>3 DEF Aimed
<1>7. ASSUME UNCHANGED requestVars, Counted' \subseteq Counted
      PROVE  BuildsInv'
  BY <1>3, <1>7 DEF requestVars, Aimed
<1>8. ASSUME NEW r \in Runs, Decides(r) PROVE BuildsInv'
  <2>1. Counted' \subseteq Counted
    BY <1>8 DEF Decides, Queue, Counted, Active, TypeOK
  <2>2. QED BY <1>7, <1>8, <2>1 DEF Decides
<1>9. ASSUME NEW r \in Runs, Lapses(r) PROVE BuildsInv'
  <2>1. Counted' \subseteq Counted
    BY <1>9 DEF Lapses, Frees, Counted, Active, TypeOK
  <2>2. QED BY <1>7, <1>9, <2>1 DEF Lapses
<1>10. ASSUME NEW w \in Workers, NEW r \in Runs, Claims(w, r) PROVE BuildsInv'
  <2>1. Counted' \subseteq Counted
    BY <1>10 DEF Claims, Counted, Active, TypeOK
  <2>2. QED BY <1>7, <1>10, <2>1 DEF Claims
<1>11. ASSUME NEW w \in Workers, Ends(w) PROVE BuildsInv'
  <2>1. CASE Frees(work[w], "none")
    <3>1. Counted' \subseteq Counted
      BY <2>1 DEF Frees, Counted, Active, TypeOK
    <3>2. QED BY <1>7, <1>11, <3>1 DEF Ends
  <2>2. CASE UNCHANGED <<job, holder, uncounted>>
    BY <1>7, <1>11, <2>2 DEF Ends, Counted, Active
  <2>3. QED BY <1>11, <2>1, <2>2 DEF Ends
<1>12. ASSUME UNCHANGED <<requestVars, jobVars>> PROVE BuildsInv'
  BY <1>7, <1>12 DEF jobVars, Counted, Active
<1>13. ASSUME NEW r \in Runs, SetsBudget(r) PROVE BuildsInv'
  BY <1>12, <1>13 DEF SetsBudget
<1>14. ASSUME NEW w \in Workers,
              Starts(w) \/ Calls(w) \/ Records(w) \/ Loses(w) \/ Dies(w)
       PROVE  BuildsInv'
  BY <1>12, <1>14 DEF Starts, Calls, Records, Loses, Dies
<1>15. CASE UNCHANGED vars
  BY <1>12, <1>15 DEF vars
<1>16. QED
  BY <1>4, <1>5, <1>6, <1>8, <1>9, <1>10, <1>11, <1>13, <1>14, <1>15 DEF Next, WorkerNext

\* api.py require_capacity: the builds it counted pass the limit by the requests that
\* counted them at once, but one; a decision or the operator's requeue counts none.
THEOREM BuildsBounded == Spec => []BuildsAreBounded
<1>1. Init => TypeOK /\ BuildsInv
  <2> SUFFICES ASSUME Init PROVE TypeOK /\ BuildsInv
    OBVIOUS
  <2>1. TypeOK
    BY InitHolds DEF Kept
  <2>2. Aimed = {}
    BY DEF Init, Aimed, Counted, Active
  <2>3. Cardinality(Clients) \in Nat /\ Cardinality(Aimed) = 0
    BY <2>2, FS_EmptySet, FS_CardinalityType
  <2>4. QED BY <2>1, <2>3, Numbers DEF BuildsInv
<1>2. TypeOK /\ BuildsInv /\ [Next]_vars => (TypeOK /\ BuildsInv)'
  BY TypeIsInductive, BuildsInvIsInductive
<1>3. TypeOK /\ BuildsInv => BuildsAreBounded
  <2> SUFFICES ASSUME TypeOK, BuildsInv PROVE BuildsAreBounded
    OBVIOUS
  <2>1. Cardinality(Clients) \in Nat
    BY FS_CardinalityType
  <2>2. QED BY <2>1, AimedIsFinite, Numbers DEF BuildsInv, BuildsAreBounded, Counted
<1>4. QED BY <1>1, <1>2, <1>3, PTL DEF Spec
==============================================================================
