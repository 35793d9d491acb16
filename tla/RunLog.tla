------------------------------- MODULE RunLog -------------------------------
(***************************************************************************)
(* What the run store promises the kernel, its tools and its readers: a    *)
(* run is one log, every operation is decided on the whole log and         *)
(* appended to it in one step, and erasing the run erases all of it.       *)
(***************************************************************************)
EXTENDS Naturals, Sequences

CONSTANTS Actors    \* who operates on the run: tools, requests, model calls

VARIABLES
    history,        \* the operations done, in order
    erased          \* has the owner's data been deleted?

\* An ordinary mutation, the decision of one approval request, the end of the
\* run, and the account of a model call.
Kinds == {"mutate", "decide", "close", "account"}
Entry == [kind : Kinds, by : Actors]

Closed(log) == \E i \in DOMAIN log : log[i].kind = "close"
Decided(log) == \E i \in DOMAIN log : log[i].kind = "decide"

\* A terminal run accepts accounts only; a request is decided once.
Allowed(log, kind) ==
    kind = "account" \/ (~Closed(log) /\ (kind = "decide" => ~Decided(log)))

LogInit == history = <<>> /\ erased = FALSE

Operate(actor) ==
    /\ ~erased
    /\ \E kind \in Kinds :
        /\ Allowed(history, kind)
        /\ history' = Append(history, [kind |-> kind, by |-> actor])
    /\ UNCHANGED erased

Erase == ~erased /\ erased' = TRUE /\ history' = <<>>

LogNext == Erase \/ \E actor \in Actors : Operate(actor)

LogSpec == LogInit /\ [][LogNext]_<<history, erased>>
=============================================================================
