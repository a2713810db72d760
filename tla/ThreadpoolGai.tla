--------------------------- MODULE ThreadpoolGai ---------------------------
(***************************************************************************)
(* TokioThreadpoolGaiResolver of src/http/dns.rs: the future it returns    *)
(* calls getaddrinfo inside tokio_threadpool::blocking, which runs it on   *)
(* the spot if one of a number of permits is free, and else answers        *)
(* NotReady and wakes the task once a permit is kept for it.  Permits are  *)
(* modelled from how blocking is used; stage "granted" is one kept.        *)
(***************************************************************************)
EXTENDS Naturals, Sequences, FiniteSets, SequencesExt

CONSTANTS
    Lookups,    \* the calls of resolve(), each with its future
    MaxBlocking \* permits of the thread pool

ASSUME PermitsAssumption == IsFiniteSet(Lookups) /\ MaxBlocking \in Nat \ {0}

VARIABLES
    fut,        \* TokioThreadpoolGaiFuture: none yet, pending, or over
    stage,      \* how far its call of blocking is
    line,       \* futures that wait for a permit, in order
    waker,      \* is the task to be woken for the future?
    task,       \* notified: the task polls the future, or will
    runtime,    \* environment: is the task on the threadpool runtime?
    hang        \* environment: lookups for which getaddrinfo never returns

vars == <<fut, stage, line, waker, task, runtime, hang>>
env == <<runtime, hang>>

Stages == {"idle", "queued", "granted", "blocking", "done", "failed"}

Init ==
    /\ fut = [l \in Lookups |-> "none"]
    /\ stage = [l \in Lookups |-> "idle"]
    /\ line = <<>>
    /\ waker = [l \in Lookups |-> "none"]
    /\ task = [l \in Lookups |-> "idle"]
    /\ runtime \in [Lookups -> {"threadpool", "other"}]
    /\ hang \in SUBSET Lookups

\* Permits in use or kept.
Used == {l \in Lookups : stage[l] \in {"granted", "blocking"}}

Resolve(l) ==
    /\ fut[l] = "none"
    /\ fut' = [fut EXCEPT ![l] = "pending"]
    /\ task' = [task EXCEPT ![l] = "notified"]
    /\ UNCHANGED <<stage, line, waker, env>>

Polled(l) == fut[l] = "pending" /\ task[l] = "notified"

\* poll returns Ready or Err.
Return(l) ==
    /\ fut' = [fut EXCEPT ![l] = "over"]
    /\ task' = [task EXCEPT ![l] = "idle"]

\* blocking() fails: the task is not on the threadpool runtime.
PollOutside(l) ==
    /\ Polled(l) /\ stage[l] = "idle" /\ runtime[l] = "other"
    /\ stage' = [stage EXCEPT ![l] = "failed"]
    /\ waker' = [waker EXCEPT ![l] = "none"]
    /\ UNCHANGED <<fut, line, task, env>>

\* blocking() has a permit and calls getaddrinfo, within poll.
PollBlocks(l) ==
    /\ Polled(l) /\ runtime[l] = "threadpool"
    /\ \/ stage[l] = "granted"
       \/ stage[l] = "idle" /\ Cardinality(Used) < MaxBlocking
    /\ stage' = [stage EXCEPT ![l] = "blocking"]
    /\ UNCHANGED <<fut, line, waker, task, env>>

\* Mutation: a future gets in line without leaving its waker.
PollNotReadyUnregistered(l) ==
    /\ Polled(l) /\ runtime[l] = "threadpool"
    /\ \/ stage[l] = "idle" /\ Cardinality(Used) = MaxBlocking /\ line' = Append(line, l)
       \/ stage[l] = "queued" /\ UNCHANGED line
    /\ stage' = [stage EXCEPT ![l] = "queued"]
    /\ task' = [task EXCEPT ![l] = "idle"]
    /\ UNCHANGED <<fut, waker, env>>

\* blocking() has none: NotReady, and the task gets in line, once.
PollNotReady(l) ==
    /\ Polled(l) /\ runtime[l] = "threadpool"
    /\ \/ stage[l] = "idle" /\ Cardinality(Used) = MaxBlocking /\ line' = Append(line, l)
       \/ stage[l] = "queued" /\ UNCHANGED line
    /\ stage' = [stage EXCEPT ![l] = "queued"]
    /\ waker' = [waker EXCEPT ![l] = "held"]
    /\ task' = [task EXCEPT ![l] = "idle"]
    /\ UNCHANGED <<fut, env>>

\* Mutation: a permit that is free again is not handed on.
HandOnNothing(l, s, woken) ==
    /\ stage' = [stage EXCEPT ![l] = s]
    /\ line' = RemoveFirst(line, l)
    /\ task' = woken

\* Future l goes from having a permit to stage s, and the permit to the
\* first in line, whose task is woken.
HandOn(l, s, woken) ==
    IF line = <<>> THEN
        /\ stage' = [stage EXCEPT ![l] = s]
        /\ task' = woken
        /\ UNCHANGED line
    ELSE
        /\ stage' = [stage EXCEPT ![l] = s, ![Head(line)] = "granted"]
        /\ task' = [woken EXCEPT ![Head(line)] = "notified"]
        /\ line' = Tail(line)

\* getaddrinfo returns, with addresses or an error.
LookupReturns(l) ==
    /\ stage[l] = "blocking" /\ l \notin hang
    /\ \E s \in {"done", "failed"} : HandOn(l, s, task)
    /\ waker' = [waker EXCEPT ![l] = "none"]
    /\ UNCHANGED <<fut, env>>

PollReady(l) ==
    /\ Polled(l) /\ stage[l] \in {"done", "failed"}
    /\ Return(l)
    /\ UNCHANGED <<stage, line, waker, env>>

\* The connection is given up between two polls: its place in line or the
\* permit kept for it goes to others.
Drop(l) ==
    /\ fut[l] = "pending" /\ stage[l] \in {"idle", "queued", "granted"}
    /\ fut' = [fut EXCEPT ![l] = "over"]
    /\ waker' = [waker EXCEPT ![l] = "none"]
    /\ IF stage[l] = "granted" THEN HandOn(l, "idle", [task EXCEPT ![l] = "idle"])
       ELSE /\ stage' = [stage EXCEPT ![l] = "idle"]
            /\ task' = [task EXCEPT ![l] = "idle"]
            /\ line' = RemoveFirst(line, l)
    /\ UNCHANGED env

\* The task is woken by another of its futures.
Wake(l) ==
    /\ fut[l] = "pending" /\ task[l] = "idle"
    /\ task' = [task EXCEPT ![l] = "notified"]
    /\ UNCHANGED <<fut, stage, line, waker, env>>

Done ==
    /\ \A l \in Lookups : fut[l] = "over" \/ stage[l] = "blocking"
    /\ UNCHANGED vars

Poll(l) == PollOutside(l) \/ PollBlocks(l) \/ PollNotReady(l) \/ PollReady(l)

Next ==
    \/ \E l \in Lookups : Resolve(l) \/ Poll(l) \/ LookupReturns(l) \/ Drop(l) \/ Wake(l)
    \/ Done

\* A notified task is polled, and getaddrinfo returns unless it hangs.
Fairness == \A l \in Lookups : WF_vars(Poll(l)) /\ WF_vars(LookupReturns(l))

Spec == Init /\ [][Next]_vars
FairSpec == Spec /\ Fairness

-----------------------------------------------------------------------------
(* Properties                                                              *)

\* The resolver as its callers see it.
Rslv(l) == IF fut[l] = "pending" /\ stage[l] \in {"done", "failed"}
           THEN stage[l] ELSE fut[l]
Waker(l) == waker[l]
Task(l) == task[l]

Contract(l) == INSTANCE Resolve WITH
    rslv <- Rslv(l), waker <- Waker(l), task <- Task(l)

\* TokioThreadpoolGaiResolver keeps the contract of Resolve.
KeepsContract ==
    /\ \A l \in Lookups : Contract(l)!Init
    /\ [][\A l \in Lookups : Contract(l)!Next \/ UNCHANGED Contract(l)!vars]_vars

\* With fewer lookups that hang than permits, every other one ends.
Served ==
    \A l \in Lookups :
        (fut[l] = "pending" /\ l \notin hang /\ Cardinality(hang) < MaxBlocking)
        ~> (fut[l] = "over")

\* There are never more calls of getaddrinfo than permits, and a task sleeps
\* only with a place in line for one, while all of them are in use or kept for
\* others: neither the place nor the permit is lost when futures are dropped.
SleepsInLine ==
    /\ Cardinality(Used) <= MaxBlocking
    /\ \A l \in Lookups : fut[l] = "pending" /\ task[l] = "idle" =>
          Cardinality(Used) = MaxBlocking /\ \E i \in 1..Len(line) : line[i] = l

\* What the contract rests on: a lookup that waits, holds a permit or blocks
\* is pending, the task of one that blocks is the one that runs it, and those
\* in line wait, each in one place.
IInv ==
    /\ fut \in [Lookups -> {"none", "pending", "over"}]
    /\ stage \in [Lookups -> Stages]
    /\ line \in Seq(Lookups)
    /\ waker \in [Lookups -> {"none", "held"}]
    /\ task \in [Lookups -> {"idle", "notified"}]
    /\ \A l \in Lookups : stage[l] # "idle" /\ fut[l] # "pending" =>
                              fut[l] = "over" /\ stage[l] \in {"done", "failed"}
    /\ \A l \in Lookups : stage[l] = "blocking" => task[l] = "notified"
    /\ \A i \in 1..Len(line) : stage[line[i]] = "queued"
    /\ \A i, j \in 1..Len(line) : line[i] = line[j] => i = j
=============================================================================
