----------------------------- MODULE MCRunStore -----------------------------
\* Instances of RunStore for TLC.
EXTENDS RunStore, TLC

CONSTANTS worker, api1, api2, tool, usage, human, owner, c1, c2

\* Two threads of a worker process, a request of the API, and the erasure.
TwoThreads == tool :> worker @@ usage :> worker @@ human :> api1 @@ owner :> api2
TwoThreadKinds == tool :> "close" @@ usage :> "account" @@ human :> "decide" @@ owner :> "erase"
TwoAccounts == tool :> 1 @@ usage :> 2 @@ human :> 1 @@ owner :> 1

\* _mutation_result tries twice, the API three times, record_usage five times
\* (here three); abandon and complete once.
CallerAttempts == [kind \in {"mutate", "decide", "close", "account", "erase"} |->
    CASE kind = "mutate" -> 2 [] kind \in {"decide", "account"} -> 3 [] OTHER -> 1]

TaskWith(status, gates) == [status |-> status, gates |-> gates, format |-> 1]
OldTasks == {TaskWith("READY", {"malformed"}), TaskWith("RUNNING", {"malformed"}),
             TaskWith("READY", {"rejected"}), TaskWith("RUNNING", {"pending"}),
             TaskWith("READY", {"approved"})}
==============================================================================
