------------------------------ MODULE Resolve ------------------------------
(***************************************************************************)
(* One lookup as the trait Resolve of src/http/dns.rs has it: what the     *)
(* resolver promises and its caller relies on.  A future is polled by its  *)
(* task until it is ready, and a task that was told NotReady is woken when *)
(* there is an answer.  HttpConnecting relies on this; GaiResolver and     *)
(* ThreadpoolGai implement it.                                             *)
(***************************************************************************)
VARIABLES
    rslv,   \* the lookup: none yet, pending, answered (done or failed), over
    waker,  \* does the lookup hold its task's waker?
    task    \* notified: the task that owns the future is or will be polled

vars == <<rslv, waker, task>>

Answered == {"done", "failed"}
Tasks == {"idle", "notified"}

Init == rslv = "none" /\ waker = "none" /\ task \in Tasks

\* resolve(); the task goes on to poll the future.
Ask ==
    /\ rslv = "none"
    /\ rslv' = "pending" /\ task' = "notified"
    /\ UNCHANGED waker

\* poll returns NotReady.
Wait ==
    /\ rslv = "pending" /\ task = "notified"
    /\ waker' = "held" /\ task' \in Tasks
    /\ UNCHANGED rslv

\* The lookup has an answer, and wakes the task if it waits.
Answer ==
    /\ rslv = "pending"
    /\ rslv' \in Answered /\ waker' = "none"
    /\ task' = IF waker = "held" THEN "notified" ELSE task

\* poll returns the answer.
Take ==
    /\ rslv \in Answered /\ task = "notified"
    /\ rslv' = "over" /\ task' \in Tasks
    /\ UNCHANGED waker

\* The future is dropped.
Drop ==
    /\ rslv \in {"pending"} \cup Answered
    /\ rslv' = "over" /\ waker' = "none" /\ task' \in Tasks

\* Something else wakes the task.
Wake ==
    /\ task' = "notified"
    /\ UNCHANGED <<rslv, waker>>

\* The task is polled with no lookup under way.
Elsewhere ==
    /\ rslv \in {"none", "over"}
    /\ task' \in Tasks
    /\ UNCHANGED <<rslv, waker>>

Next == Ask \/ Wait \/ Answer \/ Take \/ Drop \/ Wake \/ Elsewhere

Spec == Init /\ [][Next]_vars
=============================================================================
