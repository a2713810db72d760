---------------------------- MODULE GaiResolver ----------------------------
(***************************************************************************)
(* GaiResolver of src/http/dns.rs: resolve() hands a blocking getaddrinfo  *)
(* to a pool of threads and returns the receiving end of a oneshot channel *)
(* as a GaiFuture.  The pool (futures_cpupool) and the channel             *)
(* (futures::sync::oneshot) are modelled from how they are used: jobs are  *)
(* taken in order, one whose future was dropped is skipped, and dropping   *)
(* the last handle of the pool queues one Close per thread.                *)
(***************************************************************************)
EXTENDS Naturals, Sequences, FiniteSets, SequencesExt

CONSTANTS
    Lookups,    \* the calls of resolve(), each with its future
    Threads     \* the threads of the pool

ASSUME PoolAssumption ==
    /\ IsFiniteSet(Lookups) /\ IsFiniteSet(Threads) /\ Threads # {}
    /\ {"idle", "gone", "close"} \cap Lookups = {}

VARIABLES
    fut,        \* GaiFuture: none yet, pending, or over
    sent,       \* what the channel holds
    waker,      \* does the channel hold the task's waker?
    task,       \* notified: the task will poll the future
    queue,      \* jobs of the pool, in order
    thread,     \* what each thread runs
    handle,     \* is there still a handle of the pool?
    hang        \* environment: lookups for which getaddrinfo never returns

vars == <<fut, sent, waker, task, queue, thread, handle, hang>>

Idle == "idle"
Gone == "gone"
Close == "close"

Init ==
    /\ fut = [l \in Lookups |-> "none"]
    /\ sent = [l \in Lookups |-> "none"]
    /\ waker = [l \in Lookups |-> "none"]
    /\ task = [l \in Lookups |-> "idle"]
    /\ queue = <<>>
    /\ thread = [h \in Threads |-> Idle]
    /\ handle = "open"
    /\ hang \in SUBSET Lookups

-----------------------------------------------------------------------------
(* GaiResolver and GaiFuture                                               *)

\* resolve: GaiBlocking is spawned on the executor as a GaiTask.
Resolve(l) ==
    /\ fut[l] = "none" /\ handle = "open"
    /\ fut' = [fut EXCEPT ![l] = "pending"]
    /\ task' = [task EXCEPT ![l] = "notified"]
    /\ queue' = Append(queue, l)
    /\ UNCHANGED <<sent, waker, thread, handle, hang>>

\* Mutation: NotReady without leaving a waker.
PollNotReadyUnregistered(l) ==
    /\ fut[l] = "pending" /\ task[l] = "notified" /\ sent[l] = "none"
    /\ task' = [task EXCEPT ![l] = "idle"]
    /\ UNCHANGED <<fut, sent, waker, queue, thread, handle, hang>>

\* GaiFuture::poll, the channel being empty.
PollNotReady(l) ==
    /\ fut[l] = "pending" /\ task[l] = "notified" /\ sent[l] = "none"
    /\ waker' = [waker EXCEPT ![l] = "held"]
    /\ task' = [task EXCEPT ![l] = "idle"]
    /\ UNCHANGED <<fut, sent, queue, thread, handle, hang>>

\* GaiFuture::poll returns the addresses or the error.
PollReady(l) ==
    /\ fut[l] = "pending" /\ task[l] = "notified" /\ sent[l] # "none"
    /\ fut' = [fut EXCEPT ![l] = "over"]
    /\ task' = [task EXCEPT ![l] = "idle"]
    /\ UNCHANGED <<sent, waker, queue, thread, handle, hang>>

-----------------------------------------------------------------------------
(* The caller                                                              *)

\* The connection is given up: the channel is closed, the job stays.
Drop(l) ==
    /\ fut[l] = "pending"
    /\ fut' = [fut EXCEPT ![l] = "over"]
    /\ waker' = [waker EXCEPT ![l] = "none"]
    /\ task' = [task EXCEPT ![l] = "idle"]
    /\ UNCHANGED <<sent, queue, thread, handle, hang>>

\* The task is woken by another of its futures.
Wake(l) ==
    /\ fut[l] = "pending" /\ task[l] = "idle"
    /\ task' = [task EXCEPT ![l] = "notified"]
    /\ UNCHANGED <<fut, sent, waker, queue, thread, handle, hang>>

\* Mutation: the pool is closed ahead of the jobs that wait.
DropHandleAhead ==
    /\ handle = "open"
    /\ handle' = "dropped"
    /\ queue' = [i \in 1..Cardinality(Threads) |-> Close] \o queue
    /\ UNCHANGED <<fut, sent, waker, task, thread, hang>>

\* The last GaiResolver is dropped, and the CpuPool with it.
DropHandle ==
    /\ handle = "open"
    /\ handle' = "dropped"
    /\ queue' = queue \o [i \in 1..Cardinality(Threads) |-> Close]
    /\ UNCHANGED <<fut, sent, waker, task, thread, hang>>

-----------------------------------------------------------------------------
(* The pool                                                                *)

\* A thread takes the next job; GaiTask::poll skips one that was dropped.
TakeJob(h) ==
    /\ thread[h] = Idle /\ queue # <<>>
    /\ queue' = Tail(queue)
    /\ thread' = [thread EXCEPT ![h] =
          IF Head(queue) = Close THEN Gone
          ELSE IF fut[Head(queue)] = "over" THEN Idle
          ELSE Head(queue)]
    /\ UNCHANGED <<fut, sent, waker, task, handle, hang>>

\* GaiBlocking::poll: to_socket_addrs returns, and the result is sent to the
\* future, unless that was dropped meanwhile.
Finish(h) ==
    /\ thread[h] \in Lookups /\ thread[h] \notin hang
    /\ LET l == thread[h]
       IN IF fut[l] = "over" THEN UNCHANGED <<sent, waker, task>>
          ELSE /\ \E a \in {"done", "failed"} : sent' = [sent EXCEPT ![l] = a]
               /\ waker' = [waker EXCEPT ![l] = "none"]
               /\ task' = [task EXCEPT ![l] = IF waker[l] = "held" THEN "notified" ELSE @]
    /\ thread' = [thread EXCEPT ![h] = Idle]
    /\ UNCHANGED <<fut, queue, handle, hang>>

\* Nobody waits for a lookup.
Done ==
    /\ \A l \in Lookups : fut[l] # "pending"
    /\ UNCHANGED vars

Poll(l) == PollNotReady(l) \/ PollReady(l)

Next ==
    \/ \E l \in Lookups : Resolve(l) \/ Poll(l) \/ Drop(l) \/ Wake(l)
    \/ DropHandle
    \/ \E h \in Threads : TakeJob(h) \/ Finish(h)
    \/ Done

\* A notified task is polled, threads take jobs, and getaddrinfo returns
\* unless it hangs.
Fairness ==
    /\ \A l \in Lookups : WF_vars(Poll(l))
    /\ \A h \in Threads : WF_vars(TakeJob(h)) /\ WF_vars(Finish(h))

Spec == Init /\ [][Next]_vars
FairSpec == Spec /\ Fairness

-----------------------------------------------------------------------------
(* Properties                                                              *)

\* Every variable keeps its type.
TypeOK ==
    /\ fut \in [Lookups -> {"none", "pending", "over"}]
    /\ sent \in [Lookups -> {"none", "done", "failed"}]
    /\ waker \in [Lookups -> {"none", "held"}]
    /\ task \in [Lookups -> {"idle", "notified"}]
    /\ queue \in Seq(Lookups \cup {Close})
    /\ thread \in [Threads -> Lookups \cup {Idle, Gone}]
    /\ handle \in {"open", "dropped"}
    /\ hang \subseteq Lookups

\* A lookup that is waited for and has no answer is one job of the pool: on
\* a thread or in the queue before any Close, and only there.
OneJob ==
    \A l \in Lookups :
        fut[l] = "pending" /\ sent[l] = "none" =>
            \/ /\ \E h \in Threads : /\ thread[h] = l
                                     /\ \A k \in Threads \ {h} : thread[k] # l
               /\ l \notin Range(queue)
            \/ /\ \A h \in Threads : thread[h] # l
               /\ \E i \in DOMAIN queue :
                     queue[i] = l /\ \A j \in 1..i : queue[j] # Close /\ (queue[j] = l => j = i)

\* The resolver as its callers see it.
Contract(l) == INSTANCE Resolve WITH
    rslv <- IF fut[l] = "pending" /\ sent[l] # "none" THEN sent[l] ELSE fut[l],
    waker <- waker[l], task <- task[l]

\* GaiResolver keeps the contract of Resolve: in particular no task that was
\* told NotReady is left asleep when its answer is there.
KeepsContract ==
    /\ \A l \in Lookups : Contract(l)!Init
    /\ [][\A l \in Lookups : Contract(l)!Next \/ UNCHANGED Contract(l)!vars]_vars

\* With fewer lookups that hang than threads, every other one is answered or
\* dropped, even if the resolver is dropped or tasks give up meanwhile.
Served ==
    \A l \in Lookups :
        (/\ fut[l] = "pending" /\ l \notin hang
         /\ Cardinality(hang) < Cardinality(Threads))
        ~> (fut[l] = "over")

-----------------------------------------------------------------------------
(* The inductive invariant                                                 *)

\* A job is a lookup that was asked for and has sent nothing.
Asked(l) == fut[l] # "none" /\ sent[l] = "none"
Jobs ==
    /\ \A h \in Threads : thread[h] \in Lookups => Asked(thread[h])
    /\ \A i \in 1..Len(queue) : queue[i] \in Lookups => Asked(queue[i])
    /\ \A l \in Lookups : fut[l] = "none" => sent[l] = "none"

\* There is no second job for a lookup.
Single ==
    /\ \A h, k \in Threads : thread[h] \in Lookups /\ thread[h] = thread[k] => h = k
    /\ \A i, j \in 1..Len(queue) : queue[i] \in Lookups /\ queue[i] = queue[j] => i = j
    /\ \A h \in Threads, i \in 1..Len(queue) : thread[h] \in Lookups => queue[i] # thread[h]

\* There is one for a lookup that waits.
Present ==
    \A l \in Lookups : fut[l] = "pending" /\ sent[l] = "none" =>
        \/ \E h \in Threads : thread[h] = l
        \/ \E i \in 1..Len(queue) : queue[i] = l

\* The pool closes after its last job.
ClosesLast ==
    /\ \A i, j \in 1..Len(queue) : i <= j /\ queue[i] = Close => queue[j] = Close
    /\ handle = "open" => \A i \in 1..Len(queue) : queue[i] # Close

IInv == Jobs /\ Single /\ Present /\ ClosesLast
=============================================================================
