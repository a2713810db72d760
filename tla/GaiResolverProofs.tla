------------------------- MODULE GaiResolverProofs -------------------------
(***************************************************************************)
(* Proofs about the two resolvers on getaddrinfo, for any lookups.         *)
(* GaiResolver, with any number of threads: no job is lost or run twice,   *)
(* and the contract of Resolve is kept.  ThreadpoolGai, with any number of *)
(* permits: it is kept as well, and a task sleeps only in line for a       *)
(* permit while all of them are taken.                                     *)
(***************************************************************************)
EXTENDS GaiResolver, FiniteSetTheorems, TLAPS

-----------------------------------------------------------------------------
(* Types                                                                   *)

\* What is no lookup.
LEMMA Apart == Idle \notin Lookups /\ Gone \notin Lookups /\ Close \notin Lookups
               /\ Idle # Gone
BY PoolAssumption DEF Idle, Gone, Close

\* What the type invariant says of the queue and the threads.
LEMMA Typed ==
    ASSUME TypeOK
    PROVE  /\ queue \in Seq(Lookups \cup {Close}) /\ Len(queue) \in Nat
           /\ \A i \in 1..Len(queue) : queue[i] \in Lookups \cup {Close}
           /\ thread \in [Threads -> Lookups \cup {Idle, Gone}]
BY DEF TypeOK

\* The Closes that DropHandle queues.
Closes == [i \in 1..Cardinality(Threads) |-> Close]

LEMMA ClosesSeq ==
    /\ Closes \in Seq(Lookups \cup {Close}) /\ Len(Closes) \in Nat
    /\ \A i \in 1..Len(Closes) : Closes[i] = Close
<1>1. Cardinality(Threads) \in Nat
  BY PoolAssumption, FS_CardinalityType
<1> DEFINE n == Cardinality(Threads)
<1> HIDE DEF n
<1>2. /\ [i \in 1..n |-> Close] \in Seq(Lookups \cup {Close})
      /\ Len([i \in 1..n |-> Close]) = n
  BY <1>1 DEF n
<1> QED
  BY <1>1, <1>2 DEF n, Closes

\* The queue after DropHandle: the jobs that wait, then the Closes.
LEMMA DropHandleQueue ==
    ASSUME TypeOK, DropHandle
    PROVE  /\ queue' \in Seq(Lookups \cup {Close}) /\ Len(queue') \in Nat
           /\ Len(queue) <= Len(queue')
           /\ \A i \in 1..Len(queue) : queue'[i] = queue[i]
           /\ \A i \in 1..Len(queue') : i \in 1..Len(queue) \/ queue'[i] = Close
<1> DEFINE c == Closes
<1>1. queue' = queue \o c
  BY DEF DropHandle, Closes
<1>2. /\ c \in Seq(Lookups \cup {Close}) /\ Len(c) \in Nat
      /\ \A i \in 1..Len(c) : c[i] = Close
  BY ClosesSeq
<1>3. queue \in Seq(Lookups \cup {Close}) /\ Len(queue) \in Nat
  BY Typed
<1> HIDE DEF c
<1>4. /\ queue' \in Seq(Lookups \cup {Close}) /\ Len(queue') = Len(queue) + Len(c)
      /\ \A i \in 1..Len(queue') :
            queue'[i] = IF i <= Len(queue) THEN queue[i] ELSE c[i - Len(queue)]
  BY <1>1, <1>2, <1>3
<1>5. \A i \in 1..Len(queue') : i \in 1..Len(queue) \/ i - Len(queue) \in 1..Len(c)
  BY <1>2, <1>3, <1>4
<1> QED
  BY <1>2, <1>3, <1>4, <1>5

\* The queue after a job was taken.
LEMMA TakeJobQueue ==
    ASSUME TypeOK, NEW h \in Threads, TakeJob(h)
    PROVE  /\ queue' \in Seq(Lookups \cup {Close}) /\ Len(queue') = Len(queue) - 1
           /\ Len(queue) \in Nat /\ Len(queue) >= 1
           /\ \A i \in 1..Len(queue') : queue'[i] = queue[i + 1] /\ i + 1 \in 1..Len(queue)
           /\ Head(queue) = queue[1] /\ queue[1] \in Lookups \cup {Close}
           /\ \A i \in 1..Len(queue) : i = 1 \/ i - 1 \in 1..Len(queue')
<1>1. queue \in Seq(Lookups \cup {Close}) /\ queue # <<>> /\ queue' = Tail(queue)
  BY Typed DEF TakeJob
<1>2. Len(queue) \in Nat /\ Len(queue) >= 1
  BY <1>1
<1>3. /\ queue' \in Seq(Lookups \cup {Close}) /\ Len(queue') = Len(queue) - 1
      /\ \A i \in 1..Len(queue') : queue'[i] = queue[i + 1]
      /\ Head(queue) = queue[1] /\ queue[1] \in Lookups \cup {Close}
  BY <1>1, <1>2
<1>4. /\ \A i \in 1..Len(queue') : i + 1 \in 1..Len(queue)
      /\ \A i \in 1..Len(queue) : i = 1 \/ i - 1 \in 1..Len(queue')
  BY <1>2, <1>3
<1> QED
  BY <1>2, <1>3, <1>4

\* A new resolver is well typed, and the invariant holds of it.
LEMMA InitInv == Init => TypeOK /\ IInv
<1> SUFFICES ASSUME Init PROVE TypeOK /\ IInv
  OBVIOUS
<1>1. /\ queue = <<>> /\ Len(queue) = 0 /\ queue \in Seq(Lookups \cup {Close})
      /\ \A h \in Threads : thread[h] = Idle
      /\ \A l \in Lookups : fut[l] = "none" /\ sent[l] = "none"
  BY DEF Init
<1>2. TypeOK
  BY <1>1 DEF Init, TypeOK
<1>3. \A i \in 1..Len(queue) : FALSE
  BY <1>1
<1>4. IInv
  BY <1>1, <1>3, Apart DEF IInv, Jobs, Single, Present, ClosesLast
<1> QED
  BY <1>2, <1>4

\* Every step keeps the types.
LEMMA StepType == TypeOK /\ [Next]_vars => TypeOK'
<1> SUFFICES ASSUME TypeOK, [Next]_vars PROVE TypeOK'
  OBVIOUS
<1>1. CASE UNCHANGED vars
  BY <1>1 DEF vars, TypeOK
<1>2. ASSUME NEW l \in Lookups, Resolve(l) PROVE TypeOK'
  <2>1. queue' \in Seq(Lookups \cup {Close})
    BY <1>2 DEF TypeOK, Resolve
  <2> QED BY <1>2, <2>1 DEF TypeOK, Resolve
<1>3. ASSUME NEW l \in Lookups, Poll(l) \/ Drop(l) \/ Wake(l) PROVE TypeOK'
  BY <1>3 DEF TypeOK, Poll, PollNotReady, PollReady, Drop, Wake
<1>4. CASE DropHandle
  <2>1. queue' \in Seq(Lookups \cup {Close})
    BY <1>4, DropHandleQueue
  <2> QED BY <1>4, <2>1 DEF TypeOK, DropHandle
<1>5. ASSUME NEW h \in Threads, TakeJob(h) PROVE TypeOK'
  <2>1. /\ queue' \in Seq(Lookups \cup {Close})
        /\ Head(queue) \in Lookups \cup {Close}
    BY <1>5, TakeJobQueue
  <2>2. thread' \in [Threads -> Lookups \cup {Idle, Gone}]
    BY <1>5, <2>1, Typed DEF TakeJob
  <2> QED BY <1>5, <2>1, <2>2 DEF TypeOK, TakeJob
<1>6. ASSUME NEW h \in Threads, Finish(h) PROVE TypeOK'
  <2>1. thread' \in [Threads -> Lookups \cup {Idle, Gone}]
    BY <1>6, Typed DEF Finish
  <2>2. /\ sent' \in [Lookups -> {"none", "done", "failed"}]
        /\ waker' \in [Lookups -> {"none", "held"}]
        /\ task' \in [Lookups -> {"idle", "notified"}]
    BY <1>6 DEF TypeOK, Finish
  <2> QED BY <1>6, <2>1, <2>2 DEF TypeOK, Finish
<1>7. CASE Done
  BY <1>1, <1>7 DEF Done
<1> QED
  BY <1>1, <1>2, <1>3, <1>4, <1>5, <1>6, <1>7 DEF Next

-----------------------------------------------------------------------------
(* Jobs                                                                    *)

\* Polling, dropping and waking touch no job, and undo no call of resolve.
LEMMA PollInv ==
    ASSUME TypeOK, IInv, NEW l \in Lookups, Poll(l) \/ Drop(l) \/ Wake(l)
    PROVE  IInv'
<1>1. /\ UNCHANGED <<sent, queue, thread, handle>>
      /\ \A m \in Lookups : /\ fut'[m] = "none" => fut[m] = "none"
                            /\ fut'[m] = "pending" => fut[m] = "pending"
  BY DEF TypeOK, Poll, PollNotReady, PollReady, Drop, Wake
<1>2. \A m \in Lookups : Asked(m) => Asked(m)'
  BY <1>1 DEF Asked
<1>3. Jobs'
  BY <1>1, <1>2 DEF IInv, Jobs
<1>4. Single' /\ ClosesLast'
  BY <1>1 DEF IInv, Single, ClosesLast
<1>5. Present'
  BY <1>1 DEF IInv, Present
<1> QED
  BY <1>3, <1>4, <1>5 DEF IInv

\* resolve queues a job for a lookup that has none.
LEMMA ResolveInv ==
    ASSUME TypeOK, IInv, NEW l \in Lookups, Resolve(l) PROVE IInv'
<1> DEFINE n == Len(queue)
<1>1. /\ fut[l] = "none" /\ handle = "open" /\ UNCHANGED <<sent, thread, handle>>
      /\ fut' = [fut EXCEPT ![l] = "pending"] /\ queue' = Append(queue, l)
  BY DEF Resolve
<1>2. /\ n \in Nat /\ Len(queue') = n + 1 /\ queue'[n + 1] = l
      /\ \A i \in 1..n : queue'[i] = queue[i]
  BY <1>1, Typed
<1>3. \A m \in Lookups : fut'[m] = IF m = l THEN "pending" ELSE fut[m]
  BY <1>1 DEF TypeOK
<1>4. sent[l] = "none"
  BY <1>1 DEF IInv, Jobs
<1>5. \A m \in Lookups : Asked(m) \/ m = l => Asked(m)'
  BY <1>1, <1>3, <1>4 DEF Asked
<1>6. ~Asked(l)
  BY <1>1 DEF Asked
<1> HIDE DEF n
<1>7. \A i \in 1..Len(queue') : i \in 1..n \/ i = n + 1
  BY <1>2
<1>8. /\ \A i \in 1..n : queue[i] # l
      /\ \A h \in Threads : thread[h] # l
  BY <1>6 DEF IInv, Jobs, n
<1>9. Jobs'
  BY <1>1, <1>2, <1>3, <1>5, <1>7 DEF IInv, Jobs, n
<1>10. Single'
  <2>1. \A h, k \in Threads : thread'[h] \in Lookups /\ thread'[h] = thread'[k] => h = k
    BY <1>1 DEF IInv, Single
  <2>2. ASSUME NEW i \in 1..Len(queue'), NEW j \in 1..Len(queue'),
               queue'[i] \in Lookups, queue'[i] = queue'[j]
        PROVE  i = j
    BY <1>2, <1>7, <1>8, <2>2 DEF IInv, Single, n
  <2>3. ASSUME NEW h \in Threads, NEW i \in 1..Len(queue'), thread'[h] \in Lookups
        PROVE  queue'[i] # thread'[h]
    BY <1>1, <1>2, <1>7, <1>8, <2>3 DEF IInv, Single, n
  <2> QED BY <2>1, <2>2, <2>3 DEF Single
<1>11. Present'
  <2> SUFFICES ASSUME NEW m \in Lookups, fut'[m] = "pending", sent'[m] = "none"
              PROVE  \/ \E h \in Threads : thread'[h] = m
                     \/ \E i \in 1..Len(queue') : queue'[i] = m
    BY DEF Present
  <2>1. 1..n \subseteq 1..Len(queue') /\ n + 1 \in 1..Len(queue')
    BY <1>2
  <2>2. CASE m = l
    BY <1>2, <2>1, <2>2
  <2>3. CASE m # l
    <3>1. (\E h \in Threads : thread[h] = m) \/ (\E i \in 1..n : queue[i] = m)
      BY <1>1, <1>3, <2>3 DEF IInv, Present, n
    <3> QED BY <1>1, <1>2, <2>1, <3>1
  <2> QED BY <2>2, <2>3
<1>12. ClosesLast'
  <2>1. \A i \in 1..Len(queue') : queue'[i] # Close
    BY <1>1, <1>2, <1>7, Apart DEF IInv, ClosesLast, n
  <2> QED BY <2>1 DEF ClosesLast
<1> QED
  BY <1>9, <1>10, <1>11, <1>12 DEF IInv

\* Dropping the pool queues its Closes after the jobs.
LEMMA DropHandleInv == ASSUME TypeOK, IInv, DropHandle PROVE IInv'
<1> DEFINE n == Len(queue)
<1>1. UNCHANGED <<fut, sent, thread>> /\ handle = "open" /\ handle' = "dropped"
  BY DEF DropHandle
<1>2. /\ n \in Nat /\ Len(queue') \in Nat /\ n <= Len(queue')
      /\ \A i \in 1..n : queue'[i] = queue[i]
      /\ \A i \in 1..Len(queue') : i \in 1..n \/ queue'[i] = Close
  BY Typed, DropHandleQueue
<1>3. \A m \in Lookups : Asked(m)' <=> Asked(m)
  BY <1>1 DEF Asked
<1> HIDE DEF n
<1>4. \A i \in 1..Len(queue') : queue'[i] \in Lookups => i \in 1..n /\ queue'[i] = queue[i]
  BY <1>2, Apart
<1>5. 1..n \subseteq 1..Len(queue')
  BY <1>2
<1>6. Jobs'
  BY <1>1, <1>3, <1>4 DEF IInv, Jobs, n
<1>7. Single'
  <2>1. \A h, k \in Threads : thread'[h] \in Lookups /\ thread'[h] = thread'[k] => h = k
    BY <1>1 DEF IInv, Single
  <2>2. \A i, j \in 1..Len(queue') : queue'[i] \in Lookups /\ queue'[i] = queue'[j] => i = j
    BY <1>4 DEF IInv, Single, n
  <2>3. \A h \in Threads, i \in 1..Len(queue') :
           thread'[h] \in Lookups => queue'[i] # thread'[h]
    BY <1>1, <1>4 DEF IInv, Single, n
  <2> QED BY <2>1, <2>2, <2>3 DEF Single
<1>8. Present'
  BY <1>1, <1>2, <1>5 DEF IInv, Present, n
<1>9. ClosesLast'
  <2>1. \A i \in 1..n : queue'[i] # Close
    BY <1>1, <1>2 DEF IInv, ClosesLast, n
  <2>2. ASSUME NEW i \in 1..Len(queue'), NEW j \in 1..Len(queue'), i <= j,
               queue'[i] = Close
        PROVE  queue'[j] = Close
    <3>1. i \notin 1..n
      BY <2>1, <2>2
    <3>2. j \notin 1..n
      BY <1>2, <2>2, <3>1
    <3> QED BY <1>2, <3>2
  <2> QED BY <1>1, <2>2 DEF ClosesLast
<1> QED
  BY <1>6, <1>7, <1>8, <1>9 DEF IInv

\* A thread takes the first job, or drops it if nobody waits for it.
LEMMA TakeJobInv ==
    ASSUME TypeOK, IInv, NEW h \in Threads, TakeJob(h) PROVE IInv'
<1> DEFINE n == Len(queue')
           x == queue[1]
<1>1. /\ UNCHANGED <<fut, sent, handle>> /\ thread[h] = Idle
      /\ thread' = [thread EXCEPT ![h] = IF Head(queue) = Close THEN Gone
                                         ELSE IF fut[Head(queue)] = "over" THEN Idle
                                         ELSE Head(queue)]
  BY DEF TakeJob
<1>2. /\ Len(queue) = n + 1 /\ n \in Nat /\ Head(queue) = x /\ x \in Lookups \cup {Close}
      /\ \A i \in 1..n : queue'[i] = queue[i + 1] /\ i + 1 \in 1..Len(queue)
      /\ \A i \in 1..Len(queue) : i = 1 \/ i - 1 \in 1..n
      /\ 1 \in 1..Len(queue)
  <2>1. /\ Len(queue') = Len(queue) - 1 /\ Len(queue) \in Nat /\ Len(queue) >= 1
    BY TakeJobQueue
  <2>2. Len(queue) = n + 1 /\ n \in Nat /\ 1 \in 1..Len(queue)
    BY <2>1
  <2> QED BY <2>2, TakeJobQueue
<1> HIDE DEF n, x
<1>3. /\ \A k \in Threads : k # h => thread'[k] = thread[k]
      /\ thread'[h] \in Lookups => thread'[h] = x /\ x \in Lookups
      /\ x \in Lookups /\ fut[x] # "over" => thread'[h] = x
  BY <1>1, <1>2, Apart, Typed
<1>4. \A m \in Lookups : Asked(m)' <=> Asked(m)
  BY <1>1 DEF Asked
<1>5. x \in Lookups =>
         /\ Asked(x)
         /\ \A k \in Threads : thread[k] # x
         /\ \A i \in 1..n : queue'[i] # x
  <2> SUFFICES ASSUME x \in Lookups
              PROVE  /\ Asked(x)
                     /\ \A k \in Threads : thread[k] # x
                     /\ \A i \in 1..n : queue'[i] # x
    OBVIOUS
  <2>1. Asked(x) /\ \A k \in Threads : thread[k] # x
    BY <1>2 DEF x, IInv, Jobs, Single
  <2>2. \A i \in 1..n : i + 1 # 1
    BY <1>2
  <2>3. \A i \in 1..n : queue[i + 1] # x
    BY <1>2, <2>2 DEF x, IInv, Single
  <2> QED BY <1>2, <2>1, <2>3
<1>6. Jobs'
  <2>1. \A k \in Threads : thread'[k] \in Lookups => Asked(thread'[k])
    BY <1>3, <1>5 DEF IInv, Jobs
  <2>2. \A i \in 1..n : queue'[i] \in Lookups => Asked(queue'[i])
    BY <1>2 DEF IInv, Jobs
  <2>3. \A l \in Lookups : fut'[l] = "none" => sent'[l] = "none"
    BY <1>1 DEF IInv, Jobs
  <2> QED BY <1>4, <2>1, <2>2, <2>3 DEF Jobs, n
<1>7. Single'
  <2>1. \A j, k \in Threads : thread'[j] \in Lookups /\ thread'[j] = thread'[k] => j = k
    BY <1>3, <1>5 DEF IInv, Single
  <2>2. ASSUME NEW i \in 1..n, NEW j \in 1..n, queue'[i] \in Lookups, queue'[i] = queue'[j]
        PROVE  i = j
    <3>1. i + 1 = j + 1
      BY <1>2, <2>2 DEF IInv, Single
    <3> QED BY <3>1
  <2>3. \A k \in Threads, i \in 1..n : thread'[k] \in Lookups => queue'[i] # thread'[k]
    BY <1>2, <1>3, <1>5 DEF IInv, Single
  <2> QED BY <2>1, <2>2, <2>3 DEF Single, n
<1>8. Present'
  <2> SUFFICES ASSUME NEW m \in Lookups, fut'[m] = "pending", sent'[m] = "none"
              PROVE  \/ \E k \in Threads : thread'[k] = m
                     \/ \E i \in 1..n : queue'[i] = m
    BY DEF Present, n
  <2>1. (\E k \in Threads : thread[k] = m) \/ (\E i \in 1..Len(queue) : queue[i] = m)
    BY <1>1 DEF IInv, Present
  <2>2. CASE \E k \in Threads : thread[k] = m
    BY <1>1, <1>3, <2>2, Apart
  <2>3. ASSUME NEW i \in 1..Len(queue), queue[i] = m
        PROVE  \/ \E k \in Threads : thread'[k] = m
               \/ \E j \in 1..n : queue'[j] = m
    <3>1. CASE i = 1
      <4>1. x = m /\ fut[x] # "over"
        BY <1>1, <2>3, <3>1 DEF x
      <4> QED BY <1>3, <4>1
    <3>2. CASE i # 1
      <4>1. i - 1 \in 1..n /\ (i - 1) + 1 = i
        BY <1>2, <3>2
      <4>2. queue'[i - 1] = m
        BY <1>2, <2>3, <4>1
      <4> QED BY <4>1, <4>2
    <3> QED BY <3>1, <3>2
  <2> QED BY <2>1, <2>2, <2>3
<1>9. ClosesLast'
  <2>1. ASSUME NEW i \in 1..n, NEW j \in 1..n, i <= j, queue'[i] = Close
        PROVE  queue'[j] = Close
    <3>1. i + 1 \in 1..Len(queue) /\ j + 1 \in 1..Len(queue) /\ i + 1 <= j + 1
      BY <1>2, <2>1
    <3> QED BY <1>2, <2>1, <3>1 DEF IInv, ClosesLast
  <2>2. handle' = "open" => \A i \in 1..n : queue'[i] # Close
    BY <1>1, <1>2 DEF IInv, ClosesLast
  <2> QED BY <2>1, <2>2 DEF ClosesLast, n
<1> QED
  BY <1>6, <1>7, <1>8, <1>9 DEF IInv

\* A lookup that returns is no job any more.
LEMMA FinishInv ==
    ASSUME TypeOK, IInv, NEW h \in Threads, Finish(h) PROVE IInv'
<1> DEFINE l == thread[h]
<1>1. /\ l \in Lookups /\ UNCHANGED <<fut, queue, handle>>
      /\ thread' = [thread EXCEPT ![h] = Idle]
      /\ fut[l] = "over" \/ \E a \in {"done", "failed"} : sent' = [sent EXCEPT ![l] = a]
      /\ fut[l] = "over" => sent' = sent
  BY DEF Finish
<1>2. /\ Asked(l)
      /\ \A k \in Threads : k # h => thread[k] # l
      /\ \A i \in 1..Len(queue) : queue[i] # l
  BY <1>1 DEF IInv, Jobs, Single
<1> HIDE DEF l
<1>3. /\ \A m \in Lookups : m # l => sent'[m] = sent[m]
      /\ \A k \in Threads : k # h => thread'[k] = thread[k]
      /\ thread'[h] = Idle
      /\ fut[l] = "pending" => sent'[l] # "none"
  <2>1. \A k \in Threads : thread'[k] = IF k = h THEN Idle ELSE thread[k]
    BY <1>1, Typed
  <2>2. \A m \in Lookups : m # l => sent'[m] = sent[m]
    BY <1>1 DEF TypeOK
  <2>3. fut[l] = "pending" => sent'[l] # "none"
    BY <1>1 DEF TypeOK
  <2> QED BY <2>1, <2>2, <2>3
<1>4. \A m \in Lookups : m # l /\ Asked(m) => fut'[m] # "none" /\ sent'[m] = "none"
  BY <1>1, <1>3 DEF Asked
<1>5. Jobs'
  <2>1. \A k \in Threads : thread'[k] \in Lookups =>
           fut'[thread'[k]] # "none" /\ sent'[thread'[k]] = "none"
    BY <1>2, <1>3, <1>4, Apart DEF IInv, Jobs
  <2>2. \A i \in 1..Len(queue) : queue[i] \in Lookups =>
           fut'[queue[i]] # "none" /\ sent'[queue[i]] = "none"
    BY <1>2, <1>4 DEF IInv, Jobs
  <2>3. \A m \in Lookups : fut'[m] = "none" => sent'[m] = "none"
    <3>1. fut[l] # "none"
      BY <1>2 DEF Asked
    <3> QED BY <1>1, <1>3, <3>1 DEF IInv, Jobs
  <2> QED BY <1>1, <2>1, <2>2, <2>3 DEF Jobs, Asked
<1>6. Single'
  BY <1>1, <1>3, Apart DEF IInv, Single
<1>7. Present'
  <2> SUFFICES ASSUME NEW m \in Lookups, fut'[m] = "pending", sent'[m] = "none"
              PROVE  \/ \E k \in Threads : thread'[k] = m
                     \/ \E i \in 1..Len(queue') : queue'[i] = m
    BY DEF Present
  <2>1. m # l
    BY <1>1, <1>3
  <2>2. (\E k \in Threads : thread[k] = m) \/ (\E i \in 1..Len(queue) : queue[i] = m)
    BY <1>1, <1>3, <2>1 DEF IInv, Present
  <2>3. \A k \in Threads : thread[k] = m => k # h
    BY <2>1 DEF l
  <2> QED BY <1>1, <1>3, <2>2, <2>3
<1>8. ClosesLast'
  BY <1>1 DEF IInv, ClosesLast
<1> QED
  BY <1>5, <1>6, <1>7, <1>8 DEF IInv

\* Every step keeps the invariant.
LEMMA StepInv == TypeOK /\ IInv /\ [Next]_vars => IInv'
<1> SUFFICES ASSUME TypeOK, IInv, [Next]_vars PROVE IInv'
  OBVIOUS
<1>1. CASE UNCHANGED vars
  <2>1. UNCHANGED <<fut, sent, queue, thread, handle>>
    BY <1>1 DEF vars
  <2>2. Jobs'
    BY <2>1 DEF IInv, Jobs, Asked
  <2>3. Single' /\ Present' /\ ClosesLast'
    BY <2>1 DEF IInv, Single, Present, ClosesLast
  <2> QED BY <2>2, <2>3 DEF IInv
<1>2. CASE Done
  BY <1>1, <1>2 DEF Done
<1> QED
  BY <1>1, <1>2, ResolveInv, PollInv, DropHandleInv, TakeJobInv, FinishInv DEF Next

\* The invariant the theorems rest on.
THEOREM Inductive == Spec => [](TypeOK /\ IInv)
<1>1. TypeOK /\ IInv /\ [Next]_vars => (TypeOK /\ IInv)'
  BY StepType, StepInv
<1> QED
  BY <1>1, InitInv, PTL DEF Spec

\* Every variable of the resolver and its pool keeps its type (TypeOK).
THEOREM TypeCorrect == Spec => []TypeOK
<1> QED BY Inductive, PTL

\* However lookups, drops of futures and the drop of the resolver interleave,
\* a lookup that is waited for is exactly one job, which the pool gets to
\* before it closes (OneJob).
THEOREM NoneLost == Spec => []OneJob
<1>1. TypeOK /\ IInv => OneJob
  <2> SUFFICES ASSUME TypeOK, IInv, NEW l \in Lookups, fut[l] = "pending", sent[l] = "none"
              PROVE
                \/ /\ \E h \in Threads : /\ thread[h] = l
                                         /\ \A k \in Threads \ {h} : thread[k] # l
                   /\ l \notin Range(queue)
                \/ /\ \A h \in Threads : thread[h] # l
                   /\ \E i \in DOMAIN queue :
                         /\ queue[i] = l
                         /\ \A j \in 1..i : queue[j] # Close /\ (queue[j] = l => j = i)
    BY DEF OneJob
  <2>0. DOMAIN queue = 1..Len(queue) /\ Len(queue) \in Nat
    BY Typed
  <2>1. CASE \E h \in Threads : thread[h] = l
    <3>1. PICK h \in Threads : thread[h] = l
      BY <2>1
    <3>2. \A k \in Threads \ {h} : thread[k] # l
      BY <3>1 DEF IInv, Single
    <3>3. \A i \in 1..Len(queue) : queue[i] # l
      BY <3>1 DEF IInv, Single
    <3>4. l \notin Range(queue)
      BY <2>0, <3>3 DEF Range
    <3> QED BY <3>1, <3>2, <3>4
  <2>2. CASE \A h \in Threads : thread[h] # l
    <3>1. PICK i \in 1..Len(queue) : queue[i] = l
      BY <2>2 DEF IInv, Present
    <3>2. \A j \in 1..i : j \in 1..Len(queue) /\ j <= i
      BY <2>0, <3>1
    <3>3. \A j \in 1..i : queue[j] # Close
      BY <3>1, <3>2, Apart DEF IInv, ClosesLast
    <3>4. \A j \in 1..i : queue[j] = l => j = i
      BY <3>1, <3>2 DEF IInv, Single
    <3> QED BY <2>0, <2>2, <3>1, <3>3, <3>4
  <2> QED BY <2>1, <2>2
<1> QED
  BY <1>1, Inductive, PTL

-----------------------------------------------------------------------------
(* The contract of Resolve                                                 *)

\* A step that does not touch a lookup is none of its contract.
LEMMA Untouched ==
    ASSUME NEW m \in Lookups, fut'[m] = fut[m], sent'[m] = sent[m],
           waker'[m] = waker[m], task'[m] = task[m]
    PROVE  UNCHANGED Contract(m)!vars
BY DEF Contract!vars

\* Each step of the resolver is a step of every lookup's contract, or none.
LEMMA StepContract ==
    ASSUME TypeOK, IInv, Next, NEW m \in Lookups
    PROVE  Contract(m)!Next \/ UNCHANGED Contract(m)!vars
<1> DEFINE Keeps == Contract(m)!Next \/ UNCHANGED Contract(m)!vars
<1>0. /\ fut \in [Lookups -> {"none", "pending", "over"}]
      /\ sent \in [Lookups -> {"none", "done", "failed"}]
      /\ waker \in [Lookups -> {"none", "held"}]
      /\ task \in [Lookups -> {"idle", "notified"}]
  BY DEF TypeOK
<1>1. ASSUME NEW l \in Lookups, Resolve(l) PROVE Keeps
  <2>1. CASE l = m
    <3>1. sent[m] = "none"
      BY <1>1, <2>1 DEF Resolve, IInv, Jobs
    <3>2. Contract(m)!Ask
      BY <1>0, <1>1, <2>1, <3>1 DEF Resolve, Contract!Ask
    <3> QED BY <3>2 DEF Contract!Next
  <2>2. CASE l # m
    BY <1>0, <1>1, <2>2, Untouched DEF Resolve
  <2> QED BY <2>1, <2>2
<1>2. ASSUME NEW l \in Lookups, PollNotReady(l) PROVE Keeps
  <2>1. CASE l = m
    <3>1. Contract(m)!Wait
      BY <1>0, <1>2, <2>1 DEF PollNotReady, Contract!Wait, Contract!Tasks
    <3> QED BY <3>1 DEF Contract!Next
  <2>2. CASE l # m
    BY <1>0, <1>2, <2>2, Untouched DEF PollNotReady
  <2> QED BY <2>1, <2>2
<1>3. ASSUME NEW l \in Lookups, PollReady(l) PROVE Keeps
  <2>1. CASE l = m
    <3>1. Contract(m)!Take
      BY <1>0, <1>3, <2>1 DEF PollReady, Contract!Take, Contract!Tasks, Contract!Answered
    <3> QED BY <3>1 DEF Contract!Next
  <2>2. CASE l # m
    BY <1>0, <1>3, <2>2, Untouched DEF PollReady
  <2> QED BY <2>1, <2>2
<1>4. ASSUME NEW l \in Lookups, Drop(l) PROVE Keeps
  <2>1. CASE l = m
    <3>1. Contract(m)!Drop
      BY <1>0, <1>4, <2>1 DEF Drop, Contract!Drop, Contract!Tasks, Contract!Answered
    <3> QED BY <3>1 DEF Contract!Next
  <2>2. CASE l # m
    BY <1>0, <1>4, <2>2, Untouched DEF Drop
  <2> QED BY <2>1, <2>2
<1>5. ASSUME NEW l \in Lookups, Wake(l) PROVE Keeps
  <2>1. CASE l = m
    <3>1. Contract(m)!Wake
      BY <1>0, <1>5, <2>1 DEF Wake, Contract!Wake
    <3> QED BY <3>1 DEF Contract!Next
  <2>2. CASE l # m
    BY <1>0, <1>5, <2>2, Untouched DEF Wake
  <2> QED BY <2>1, <2>2
<1>6. ASSUME DropHandle \/ (\E h \in Threads : TakeJob(h)) \/ Done PROVE Keeps
  BY <1>6, Untouched DEF DropHandle, TakeJob, Done, vars
<1>7. ASSUME NEW h \in Threads, Finish(h) PROVE Keeps
  <2> DEFINE l == thread[h]
  <2>1. l \in Lookups /\ sent[l] = "none" /\ fut[l] # "none"
    BY <1>7 DEF Finish, IInv, Jobs, Asked
  <2>2. CASE fut[l] = "over" \/ l # m
    BY <1>0, <1>7, <2>1, <2>2, Untouched DEF Finish
  <2>3. CASE fut[l] # "over" /\ l = m
    <3>1. fut[m] = "pending" /\ sent[m] = "none" /\ fut' = fut
      BY <1>0, <1>7, <2>1, <2>3 DEF Finish
    <3>2. /\ sent'[m] \in {"done", "failed"} /\ waker'[m] = "none"
          /\ task'[m] = IF waker[m] = "held" THEN "notified" ELSE task[m]
      BY <1>0, <1>7, <2>1, <2>3 DEF Finish
    <3>3. Contract(m)!Answer
      BY <3>1, <3>2 DEF Contract!Answer, Contract!Answered
    <3> QED BY <3>3 DEF Contract!Next
  <2> QED BY <2>2, <2>3
<1> QED
  BY <1>1, <1>2, <1>3, <1>4, <1>5, <1>6, <1>7 DEF Next, Poll

\* GaiResolver implements the contract of Resolve for every lookup
\* (KeepsContract): no wakeup is lost, no future is answered twice.
THEOREM Implements == Spec => KeepsContract
<1>1. Init => \A l \in Lookups : Contract(l)!Init
  BY DEF Init, Contract!Init, Contract!Tasks
<1>2. TypeOK /\ IInv /\ [Next]_vars =>
         [\A l \in Lookups : Contract(l)!Next \/ UNCHANGED Contract(l)!vars]_vars
  BY StepContract
<1> QED
  BY <1>1, <1>2, Inductive, PTL DEF Spec, KeepsContract

-----------------------------------------------------------------------------
(* TokioThreadpoolGaiResolver.  The theorem below is about the             *)
(* specification of ThreadpoolGai alone; fut, waker, task and hang are its *)
(* variables of these names.                                               *)

CONSTANT MaxBlocking
VARIABLES stage, line, runtime

Pool == INSTANCE ThreadpoolGai

\* A line that is part of another, in the same places or in fewer.
Thinned(s, t) ==
    /\ s \in Seq(Lookups)
    /\ \A i \in 1..Len(s) : \E j \in 1..Len(t) : s[i] = t[j]
    /\ \A i, j \in 1..Len(s) : s[i] = s[j] => i = j

\* All of line t but l is in line s.
Rest(s, t, l) ==
    \A j \in 1..Len(t) : t[j] # l => \E i \in 1..Len(s) : s[i] = t[j]

\* The line without the first in it.
LEMMA Shorter ==
    ASSUME NEW t \in Seq(Lookups), t # <<>>, \A i, j \in 1..Len(t) : t[i] = t[j] => i = j
    PROVE  /\ Thinned(Tail(t), t) /\ Head(t) \in Lookups /\ Head(t) = t[1] /\ 1 \in 1..Len(t)
           /\ \A i \in 1..Len(Tail(t)) : Tail(t)[i] # Head(t)
           /\ Rest(Tail(t), t, Head(t))
<1> DEFINE s == Tail(t)
<1>1. /\ s \in Seq(Lookups) /\ Len(t) \in Nat \ {0} /\ Len(s) = Len(t) - 1
      /\ \A i \in 1..Len(s) : s[i] = t[i + 1]
      /\ Head(t) = t[1] /\ Head(t) \in Lookups
  OBVIOUS
<1> HIDE DEF s
<1>2. \A i \in 1..Len(s) : i + 1 \in 1..Len(t) /\ i + 1 # 1
  BY <1>1
<1>3. 1 \in 1..Len(t)
  BY <1>1
<1>4. \A i, j \in 1..Len(s) : s[i] = s[j] => i = j
  <2> SUFFICES ASSUME NEW i \in 1..Len(s), NEW j \in 1..Len(s), s[i] = s[j] PROVE i = j
    OBVIOUS
  <2>1. i + 1 = j + 1
    BY <1>1, <1>2
  <2> QED BY <2>1
<1>5. \A i \in 1..Len(s) : s[i] # Head(t)
  BY <1>1, <1>2, <1>3
<1>6. Rest(s, t, Head(t))
  <2> SUFFICES ASSUME NEW j \in 1..Len(t), t[j] # Head(t)
               PROVE  \E i \in 1..Len(s) : s[i] = t[j]
    BY DEF Rest
  <2>1. j - 1 \in 1..Len(s) /\ (j - 1) + 1 = j
    BY <1>1
  <2> QED BY <1>1, <2>1
<1> QED BY <1>1, <1>2, <1>3, <1>4, <1>5, <1>6 DEF Thinned, s

\* The line without one that leaves it.
LEMMA Removed ==
    ASSUME NEW t \in Seq(Lookups), \A i, j \in 1..Len(t) : t[i] = t[j] => i = j, NEW l
    PROVE  LET s == Pool!RemoveFirst(t, l)
           IN Thinned(s, t) /\ Rest(s, t, l) /\ \A i \in 1..Len(s) : s[i] # l
<1>0. Len(t) \in Nat
  OBVIOUS
<1>1. CASE \A i \in 1..Len(t) : t[i] # l
  <2>1. Pool!RemoveFirst(t, l) = t
    BY <1>1 DEF Pool!RemoveFirst
  <2> QED BY <1>1, <2>1 DEF Thinned, Rest
<1>2. CASE \E i \in 1..Len(t) : t[i] = l
  <2>1. PICK p \in 1..Len(t) : t[p] = l
    BY <1>2
  <2>2. {i \in 1..Len(t) : t[i] = l} = {p}
    BY <2>1
  <2>3. Pool!SelectInSeq(t, LAMBDA v : v = l) = Pool!Min({p})
    BY <2>2 DEF Pool!SelectInSeq
  <2>4. Pool!Min({p}) = p
    BY <2>1 DEF Pool!Min
  <2>5. Pool!RemoveFirst(t, l) = Pool!RemoveAt(t, p)
    BY <1>2, <2>3, <2>4 DEF Pool!RemoveFirst
  <2> DEFINE s == Pool!RemoveAt(t, p)
             a == SubSeq(t, 1, p - 1)
             b == SubSeq(t, p + 1, Len(t))
  <2>6. /\ a \in Seq(Lookups) /\ Len(a) = p - 1 /\ \A i \in 1..(p - 1) : a[i] = t[i]
        /\ b \in Seq(Lookups) /\ Len(b) = Len(t) - p
        /\ \A i \in 1..(Len(t) - p) : b[i] = t[p + i]
    BY <1>0
  <2>7. s = a \o b
    BY DEF Pool!RemoveAt
  <2> HIDE DEF s, a, b
  <2>8. /\ s \in Seq(Lookups) /\ Len(s) = Len(t) - 1
        /\ \A i \in 1..Len(s) : s[i] = IF i < p THEN t[i] ELSE t[i + 1]
    <3>1. s \in Seq(Lookups) /\ Len(s) = Len(a) + Len(b)
      <4>1. a \in Seq(Lookups) /\ b \in Seq(Lookups)
        BY <2>6
      <4> QED BY <4>1, <2>7
    <3>2. \A i \in 1..(Len(a) + Len(b)) : s[i] = IF i <= Len(a) THEN a[i] ELSE b[i - Len(a)]
      BY <2>6, <2>7
    <3>3. Len(s) = Len(t) - 1
      BY <3>1, <2>6, <1>0
    <3>4. ASSUME NEW i \in 1..Len(s) PROVE s[i] = IF i < p THEN t[i] ELSE t[i + 1]
      <4>1. CASE i < p
        BY <4>1, <3>1, <3>2, <2>6, <1>0
      <4>2. CASE ~(i < p)
        <5>1. ~(i <= Len(a)) /\ i - Len(a) = i - p + 1 /\ i - p + 1 \in 1..(Len(t) - p)
              /\ p + (i - p + 1) = i + 1
          BY <4>2, <2>6, <3>3, <1>0
        <5>2. s[i] = b[i - Len(a)]
          BY <3>1, <3>2, <5>1
        <5> QED BY <4>2, <5>1, <5>2, <2>6
      <4> QED BY <4>1, <4>2
    <3> QED BY <3>1, <3>3, <3>4
  <2>9. \A i \in 1..Len(s) : \E j \in 1..Len(t) : /\ s[i] = t[j] /\ j # p
                                                  /\ j = IF i < p THEN i ELSE i + 1
    <3> SUFFICES ASSUME NEW i \in 1..Len(s)
                 PROVE  \E j \in 1..Len(t) : /\ s[i] = t[j] /\ j # p
                                             /\ j = IF i < p THEN i ELSE i + 1
      OBVIOUS
    <3>1. i \in 1..Len(t) /\ i + 1 \in 1..Len(t)
      BY <2>8, <1>0
    <3> QED BY <3>1, <2>8
  <2>10. \A i, j \in 1..Len(s) : s[i] = s[j] => i = j
    <3> SUFFICES ASSUME NEW i \in 1..Len(s), NEW j \in 1..Len(s), s[i] = s[j] PROVE i = j
      OBVIOUS
    <3>1. PICK x \in 1..Len(t) : s[i] = t[x] /\ x = IF i < p THEN i ELSE i + 1
      BY <2>9
    <3>2. PICK y \in 1..Len(t) : s[j] = t[y] /\ y = IF j < p THEN j ELSE j + 1
      BY <2>9
    <3>3. x = y
      BY <3>1, <3>2
    <3>4. i \in Nat /\ j \in Nat
      BY <2>8, <1>0
    <3> QED BY <3>1, <3>2, <3>3, <3>4
  <2>11. \A i \in 1..Len(s) : s[i] # l
    BY <2>1, <2>9
  <2>12. Rest(s, t, l)
    <3> SUFFICES ASSUME NEW j \in 1..Len(t), t[j] # l
                 PROVE  \E i \in 1..Len(s) : s[i] = t[j]
      BY DEF Rest
    <3>1. j # p
      BY <2>1
    <3>2. CASE j < p
      <4>1. j \in 1..Len(s)
        BY <3>2, <2>8, <1>0
      <4> QED BY <3>2, <4>1, <2>8
    <3>3. CASE j > p
      <4>1. j - 1 \in 1..Len(s) /\ ~(j - 1 < p) /\ (j - 1) + 1 = j
        BY <3>3, <2>8, <1>0
      <4>2. s[j - 1] = t[j]
        BY <4>1, <2>8
      <4> QED BY <4>1, <4>2
    <3> QED BY <3>1, <3>2, <3>3
  <2> QED BY <2>5, <2>8, <2>9, <2>10, <2>11, <2>12 DEF Thinned, s
<1> QED BY <1>1, <1>2

\* Types of the futures, their tasks and wakers.
Tasks == {"idle", "notified"}
Futs == {"none", "pending", "over"}
Holds == {"none", "held"}

\* The invariant without the line.
Sound ==
    /\ fut \in [Lookups -> Futs]
    /\ stage \in [Lookups -> Pool!Stages]
    /\ waker \in [Lookups -> Holds]
    /\ task \in [Lookups -> Tasks]
    /\ \A l \in Lookups : stage[l] # "idle" /\ fut[l] # "pending" =>
                              fut[l] = "over" /\ stage[l] \in {"done", "failed"}
    /\ \A l \in Lookups : stage[l] = "blocking" => task[l] = "notified"

\* The rest: the line.
InLine ==
    /\ line \in Seq(Lookups)
    /\ \A i \in 1..Len(line) : stage[line[i]] = "queued"
    /\ \A i, j \in 1..Len(line) : line[i] = line[j] => i = j

\* These are the invariant,
LEMMA Parts == Pool!IInv <=> Sound /\ InLine
BY DEF Pool!IInv, Sound, InLine, Tasks, Futs, Holds

\* and so after a step.
LEMMA PartsNext == (Pool!IInv <=> Sound /\ InLine)'
BY Parts, PTL

\* Those in line stay there if their stage does not change.
LEMMA LineKept ==
    ASSUME InLine, Thinned(line', line),
           \A i \in 1..Len(line') : stage'[line'[i]] = stage[line'[i]]
    PROVE  InLine'
BY DEF InLine, Thinned

\* What HandOn does: the permit goes to one that waits, or to none.
LEMMA HandedOn ==
    ASSUME Sound, InLine, NEW l \in Lookups, stage[l] # "queued",
           NEW s \in Pool!Stages, NEW w \in [Lookups -> Tasks], Pool!HandOn(l, s, w)
    PROVE  /\ \E K \in SUBSET Lookups :
                 /\ l \notin K /\ \A k \in K : stage[k] = "queued"
                 /\ stage' = [m \in Lookups |-> IF m = l THEN s
                                ELSE IF m \in K THEN "granted" ELSE stage[m]]
                 /\ task' = [m \in Lookups |-> IF m \in K THEN "notified" ELSE w[m]]
           /\ InLine'
<1>0. stage \in [Lookups -> Pool!Stages]
  BY DEF Sound
<1>1. CASE line = <<>>
  <2>1. /\ stage' = [m \in Lookups |-> IF m = l THEN s ELSE stage[m]]
        /\ task' = w /\ line' = line
    BY <1>0, <1>1 DEF Pool!HandOn
  <2>2. stage' = [m \in Lookups |-> IF m = l THEN s
                     ELSE IF m \in {} THEN "granted" ELSE stage[m]]
    BY <2>1
  <2>3. task' = [m \in Lookups |-> IF m \in {} THEN "notified" ELSE w[m]]
    BY <2>1
  <2>4. InLine'
    BY <1>1, <2>1 DEF InLine
  <2>5. {} \in SUBSET Lookups /\ l \notin {} /\ \A k \in {} : stage[k] = "queued"
    OBVIOUS
  <2> QED BY <2>2, <2>3, <2>4, <2>5
<1>2. CASE line # <<>>
  <2> DEFINE k == Head(line)
  <2>1. /\ Thinned(Tail(line), line) /\ k \in Lookups /\ k = line[1] /\ 1 \in 1..Len(line)
        /\ \A i \in 1..Len(Tail(line)) : Tail(line)[i] # k
    BY <1>2, Shorter DEF InLine
  <2>2. stage[k] = "queued" /\ k # l
    BY <2>1 DEF InLine
  <2>3. /\ stage' = [stage EXCEPT ![l] = s, ![k] = "granted"]
        /\ task' = [w EXCEPT ![k] = "notified"]
        /\ line' = Tail(line)
    BY <1>2 DEF Pool!HandOn
  <2> HIDE DEF k
  <2>4. stage' = [m \in Lookups |-> IF m = l THEN s
                     ELSE IF m \in {k} THEN "granted" ELSE stage[m]]
    BY <1>0, <2>1, <2>2, <2>3
  <2>5. task' = [m \in Lookups |-> IF m \in {k} THEN "notified" ELSE w[m]]
    BY <2>1, <2>3
  <2>6. \A i \in 1..Len(line') : stage'[line'[i]] = stage[line'[i]]
    <3> SUFFICES ASSUME NEW i \in 1..Len(line') PROVE stage'[line'[i]] = stage[line'[i]]
      OBVIOUS
    <3>1. line'[i] # k
      BY <2>1, <2>3
    <3>2. PICK j \in 1..Len(line) : line'[i] = line[j]
      BY <2>1, <2>3 DEF Thinned
    <3>3. stage[line[j]] = "queued" /\ line[j] \in Lookups
      BY DEF InLine
    <3> QED BY <2>4, <3>1, <3>2, <3>3
  <2>7. InLine'
    BY <2>1, <2>3, <2>6, LineKept
  <2>8. {k} \in SUBSET Lookups /\ l \notin {k} /\ \A x \in {k} : stage[x] = "queued"
    BY <2>1, <2>2
  <2> QED BY <2>4, <2>5, <2>7, <2>8
<1> QED BY <1>1, <1>2

\* A step that does not touch a lookup is none of its contract.
LEMMA PoolUntouched ==
    ASSUME NEW m \in Lookups, Pool!Rslv(m)' = Pool!Rslv(m),
           Pool!Waker(m)' = Pool!Waker(m), Pool!Task(m)' = Pool!Task(m)
    PROVE  UNCHANGED Pool!Contract(m)!vars
BY DEF Pool!Contract!vars

\* A step is one of the contract of lookup m, or none of it.
Kept(m) == Pool!Contract(m)!Next \/ UNCHANGED Pool!Contract(m)!vars

\* The invariant holds at the start.
LEMMA InitPool == Pool!Init => Pool!IInv
<1> SUFFICES ASSUME Pool!Init PROVE Sound /\ InLine
  BY Parts
<1>1. "idle" \in Pool!Stages
  BY DEF Pool!Stages
<1> QED BY <1>1 DEF Pool!Init, Sound, InLine, Tasks, Futs, Holds

\* A step that leaves the line alone and every stage in it.
LEMMA SameLine ==
    ASSUME InLine, line' = line, \A m \in Lookups : stage[m] = "queued" => stage'[m] = stage[m]
    PROVE  InLine'
<1>1. \A i \in 1..Len(line) : line[i] \in Lookups
  BY DEF InLine
<1> QED BY <1>1 DEF InLine

\* resolve() is Ask: no lookup has begun before it.
LEMMA PoolResolve ==
    ASSUME Sound, InLine, NEW l \in Lookups, Pool!Resolve(l)
    PROVE  Sound' /\ InLine' /\ \A m \in Lookups : Kept(m)
<1>0. /\ fut[l] = "none" /\ fut' = [fut EXCEPT ![l] = "pending"]
      /\ task' = [task EXCEPT ![l] = "notified"]
      /\ stage' = stage /\ line' = line /\ waker' = waker
  BY DEF Pool!Resolve
<1>1. stage[l] = "idle"
  BY <1>0 DEF Sound
<1>2. Sound'
  BY <1>0, <1>1 DEF Sound, Tasks, Futs
<1>3. InLine'
  BY <1>0 DEF InLine
<1>4. ASSUME NEW m \in Lookups PROVE Kept(m)
  <2>1. CASE m = l
    <3>1. Pool!Rslv(l) = "none" /\ Pool!Rslv(l)' = "pending"
      BY <1>0, <1>1 DEF Pool!Rslv, Sound
    <3>2. Pool!Task(l)' = "notified" /\ Pool!Waker(l)' = Pool!Waker(l)
      BY <1>0 DEF Pool!Task, Pool!Waker, Sound
    <3>3. Pool!Contract(l)!Ask
      BY <3>1, <3>2 DEF Pool!Contract!Ask
    <3> QED BY <2>1, <3>3 DEF Kept, Pool!Contract!Next
  <2>2. CASE m # l
    BY <1>0, <2>2, PoolUntouched DEF Kept, Pool!Rslv, Pool!Waker, Pool!Task, Sound
  <2> QED BY <2>1, <2>2
<1> QED BY <1>2, <1>3, <1>4

\* An error of blocking() is Answer, to a task that is being polled.
LEMMA PoolOutside ==
    ASSUME Sound, InLine, NEW l \in Lookups, Pool!PollOutside(l)
    PROVE  Sound' /\ InLine' /\ \A m \in Lookups : Kept(m)
<1>0. /\ fut[l] = "pending" /\ task[l] = "notified" /\ stage[l] = "idle"
      /\ stage' = [stage EXCEPT ![l] = "failed"] /\ waker' = [waker EXCEPT ![l] = "none"]
      /\ fut' = fut /\ line' = line /\ task' = task
  BY DEF Pool!PollOutside, Pool!Polled
<1>1. Sound'
  BY <1>0 DEF Sound, Holds, Pool!Stages
<1>2. InLine'
  BY <1>0, SameLine DEF Sound
<1>3. ASSUME NEW m \in Lookups PROVE Kept(m)
  <2>1. CASE m = l
    <3>1. Pool!Rslv(l) = "pending" /\ Pool!Rslv(l)' = "failed"
      BY <1>0 DEF Pool!Rslv, Sound
    <3>2. Pool!Task(l) = "notified" /\ Pool!Task(l)' = "notified" /\ Pool!Waker(l)' = "none"
      BY <1>0 DEF Pool!Task, Pool!Waker, Sound
    <3>3. Pool!Contract(l)!Answer
      BY <3>1, <3>2 DEF Pool!Contract!Answer, Pool!Contract!Answered
    <3> QED BY <2>1, <3>3 DEF Kept, Pool!Contract!Next
  <2>2. CASE m # l
    BY <1>0, <2>2, PoolUntouched DEF Kept, Pool!Rslv, Pool!Waker, Pool!Task, Sound
  <2> QED BY <2>1, <2>2
<1> QED BY <1>1, <1>2, <1>3

\* A call of getaddrinfo is not seen.
LEMMA PoolBlocks ==
    ASSUME Sound, InLine, NEW l \in Lookups, Pool!PollBlocks(l)
    PROVE  Sound' /\ InLine' /\ \A m \in Lookups : Kept(m)
<1>0. /\ fut[l] = "pending" /\ task[l] = "notified" /\ stage[l] \in {"idle", "granted"}
      /\ stage' = [stage EXCEPT ![l] = "blocking"]
      /\ fut' = fut /\ line' = line /\ task' = task /\ waker' = waker
  BY DEF Pool!PollBlocks, Pool!Polled
<1>1. Sound'
  BY <1>0 DEF Sound, Pool!Stages
<1>2. InLine'
  BY <1>0, SameLine DEF Sound
<1>3. ASSUME NEW m \in Lookups PROVE Kept(m)
  BY <1>0, PoolUntouched DEF Kept, Pool!Rslv, Pool!Waker, Pool!Task, Sound
<1> QED BY <1>1, <1>2, <1>3

\* NotReady is Wait: one that was not in line gets in, at the end.
LEMMA PoolNotReady ==
    ASSUME Sound, InLine, NEW l \in Lookups, Pool!PollNotReady(l)
    PROVE  Sound' /\ InLine' /\ \A m \in Lookups : Kept(m)
<1>0. /\ fut[l] = "pending" /\ task[l] = "notified" /\ stage[l] \in {"idle", "queued"}
      /\ stage[l] = "idle" => line' = Append(line, l)
      /\ stage[l] = "queued" => line' = line
      /\ stage' = [stage EXCEPT ![l] = "queued"] /\ waker' = [waker EXCEPT ![l] = "held"]
      /\ task' = [task EXCEPT ![l] = "idle"] /\ fut' = fut
  BY DEF Pool!PollNotReady, Pool!Polled
<1>1. Sound'
  BY <1>0 DEF Sound, Holds, Tasks, Pool!Stages
<1>2. InLine'
  <2>1. CASE stage[l] = "queued"
    BY <1>0, <2>1, SameLine DEF Sound
  <2>2. CASE stage[l] = "idle"
    <3>1. /\ line \in Seq(Lookups) /\ Len(line) \in Nat
          /\ \A i \in 1..Len(line) : line[i] \in Lookups /\ stage[line[i]] = "queued"
          /\ \A i, j \in 1..Len(line) : line[i] = line[j] => i = j
      BY DEF InLine
    <3>2. line' = Append(line, l)
      BY <1>0, <2>2
    <3>3. /\ line' \in Seq(Lookups) /\ Len(line') = Len(line) + 1
          /\ \A i \in 1..Len(line) : line'[i] = line[i]
          /\ line'[Len(line) + 1] = l
      BY <3>1, <3>2
    <3>4. \A i \in 1..Len(line') : i \in 1..Len(line) \/ i = Len(line) + 1
      BY <3>1, <3>3
    <3>5. \A i \in 1..Len(line) : line[i] # l
      BY <2>2, <3>1
    <3>6. \A i \in 1..Len(line') : stage'[line'[i]] = "queued"
      BY <1>0, <3>1, <3>3, <3>4 DEF Sound
    <3>7. \A i, j \in 1..Len(line') : line'[i] = line'[j] => i = j
      BY <3>1, <3>3, <3>4, <3>5
    <3> QED BY <3>3, <3>6, <3>7 DEF InLine
  <2> QED BY <1>0, <2>1, <2>2
<1>3. ASSUME NEW m \in Lookups PROVE Kept(m)
  <2>1. CASE m = l
    <3>1. Pool!Rslv(l) = "pending" /\ Pool!Rslv(l)' = "pending"
      BY <1>0 DEF Pool!Rslv, Sound
    <3>2. Pool!Task(l) = "notified" /\ Pool!Task(l)' = "idle" /\ Pool!Waker(l)' = "held"
      BY <1>0 DEF Pool!Task, Pool!Waker, Sound
    <3>3. Pool!Contract(l)!Wait
      BY <3>1, <3>2 DEF Pool!Contract!Wait, Pool!Contract!Tasks
    <3> QED BY <2>1, <3>3 DEF Kept, Pool!Contract!Next
  <2>2. CASE m # l
    BY <1>0, <2>2, PoolUntouched DEF Kept, Pool!Rslv, Pool!Waker, Pool!Task, Sound
  <2> QED BY <2>1, <2>2
<1> QED BY <1>1, <1>2, <1>3

\* Ready and Err are Take.
LEMMA PoolReady ==
    ASSUME Sound, InLine, NEW l \in Lookups, Pool!PollReady(l)
    PROVE  Sound' /\ InLine' /\ \A m \in Lookups : Kept(m)
<1>0. /\ fut[l] = "pending" /\ task[l] = "notified" /\ stage[l] \in {"done", "failed"}
      /\ fut' = [fut EXCEPT ![l] = "over"] /\ task' = [task EXCEPT ![l] = "idle"]
      /\ stage' = stage /\ line' = line /\ waker' = waker
  BY DEF Pool!PollReady, Pool!Polled, Pool!Return
<1>1. Sound'
  BY <1>0 DEF Sound, Tasks, Futs
<1>2. InLine'
  BY <1>0 DEF InLine
<1>3. ASSUME NEW m \in Lookups PROVE Kept(m)
  <2>1. CASE m = l
    <3>1. Pool!Rslv(l) \in {"done", "failed"} /\ Pool!Rslv(l)' = "over"
      BY <1>0 DEF Pool!Rslv, Sound
    <3>2. Pool!Task(l) = "notified" /\ Pool!Task(l)' = "idle" /\ Pool!Waker(l)' = Pool!Waker(l)
      BY <1>0 DEF Pool!Task, Pool!Waker, Sound
    <3>3. Pool!Contract(l)!Take
      BY <3>1, <3>2 DEF Pool!Contract!Take, Pool!Contract!Answered, Pool!Contract!Tasks
    <3> QED BY <2>1, <3>3 DEF Kept, Pool!Contract!Next
  <2>2. CASE m # l
    BY <1>0, <2>2, PoolUntouched DEF Kept, Pool!Rslv, Pool!Waker, Pool!Task, Sound
  <2> QED BY <2>1, <2>2
<1> QED BY <1>1, <1>2, <1>3

\* One that was in line and gets a permit is woken, as its contract allows.
LEMMA Granted ==
    ASSUME NEW m \in Lookups, stage[m] = "queued", stage'[m] = "granted",
           fut'[m] = fut[m], waker'[m] = waker[m], task'[m] = "notified"
    PROVE  Kept(m)
<1>1. Pool!Rslv(m)' = Pool!Rslv(m) /\ Pool!Waker(m)' = Pool!Waker(m)
      /\ Pool!Task(m)' = "notified"
  BY DEF Pool!Rslv, Pool!Waker, Pool!Task
<1>2. Pool!Contract(m)!Wake
  BY <1>1 DEF Pool!Contract!Wake
<1> QED BY <1>2 DEF Kept, Pool!Contract!Next

\* The return of getaddrinfo is Answer for its lookup, whose task runs it,
\* and Wake for the one that gets the permit.
LEMMA PoolReturns ==
    ASSUME Sound, InLine, NEW l \in Lookups, Pool!LookupReturns(l)
    PROVE  Sound' /\ InLine' /\ \A m \in Lookups : Kept(m)
<1>0. stage[l] = "blocking" /\ waker' = [waker EXCEPT ![l] = "none"] /\ fut' = fut
  BY DEF Pool!LookupReturns
<1>1. PICK s \in {"done", "failed"} : Pool!HandOn(l, s, task)
  BY DEF Pool!LookupReturns
<1>2. s \in Pool!Stages /\ task \in [Lookups -> Tasks] /\ stage[l] # "queued"
  BY <1>0 DEF Pool!Stages, Sound
<1>3. PICK K \in SUBSET Lookups :
         /\ l \notin K /\ \A k \in K : stage[k] = "queued"
         /\ stage' = [m \in Lookups |-> IF m = l THEN s
                        ELSE IF m \in K THEN "granted" ELSE stage[m]]
         /\ task' = [m \in Lookups |-> IF m \in K THEN "notified" ELSE task[m]]
  BY <1>1, <1>2, HandedOn
<1>4. InLine'
  BY <1>1, <1>2, HandedOn
<1>5. fut[l] = "pending" /\ task[l] = "notified"
  BY <1>0 DEF Sound
<1>6. Sound'
  <2>1. fut' \in [Lookups -> Futs] /\ waker' \in [Lookups -> Holds]
    BY <1>0 DEF Sound, Holds
  <2>2. stage' \in [Lookups -> Pool!Stages]
    <3>1. "granted" \in Pool!Stages
      BY DEF Pool!Stages
    <3> QED BY <1>2, <1>3, <3>1 DEF Sound
  <2>3. task' \in [Lookups -> Tasks]
    <3>1. "notified" \in Tasks
      BY DEF Tasks
    <3> QED BY <1>2, <1>3, <3>1
  <2>4. ASSUME NEW m \in Lookups
        PROVE  /\ stage'[m] # "idle" /\ fut'[m] # "pending" =>
                     fut'[m] = "over" /\ stage'[m] \in {"done", "failed"}
               /\ stage'[m] = "blocking" => task'[m] = "notified"
    <3>1. stage'[m] = (IF m = l THEN s ELSE IF m \in K THEN "granted" ELSE stage[m])
          /\ task'[m] = (IF m \in K THEN "notified" ELSE task[m]) /\ fut'[m] = fut[m]
      BY <1>0, <1>3
    <3>2. m \in K => fut[m] = "pending"
      BY <1>3 DEF Sound
    <3> QED BY <3>1, <3>2, <1>5 DEF Sound
  <2> QED BY <2>1, <2>2, <2>3, <2>4 DEF Sound
<1>7. ASSUME NEW m \in Lookups PROVE Kept(m)
  <2>1. CASE m = l
    <3>1. Pool!Rslv(l) = "pending" /\ Pool!Rslv(l)' \in {"done", "failed"}
      BY <1>0, <1>3, <1>5 DEF Pool!Rslv
    <3>2. Pool!Task(l) = "notified" /\ Pool!Task(l)' = "notified" /\ Pool!Waker(l)' = "none"
      BY <1>0, <1>3, <1>5 DEF Pool!Task, Pool!Waker, Sound
    <3>3. Pool!Contract(l)!Answer
      BY <3>1, <3>2 DEF Pool!Contract!Answer, Pool!Contract!Answered
    <3> QED BY <2>1, <3>3 DEF Kept, Pool!Contract!Next
  <2>2. CASE m \in K
    BY <1>0, <1>3, <2>2, Granted DEF Sound
  <2>3. CASE m # l /\ m \notin K
    <3>1. stage'[m] = stage[m] /\ task'[m] = task[m] /\ waker'[m] = waker[m] /\ fut'[m] = fut[m]
      BY <1>0, <1>3, <2>3 DEF Sound
    <3> QED BY <3>1, PoolUntouched DEF Kept, Pool!Rslv, Pool!Waker, Pool!Task
  <2> QED BY <2>1, <2>2, <2>3
<1> QED BY <1>4, <1>6, <1>7

\* The drop of a future is Drop, and Wake for one that gets its permit.
LEMMA PoolDrop ==
    ASSUME Sound, InLine, NEW l \in Lookups, Pool!Drop(l)
    PROVE  Sound' /\ InLine' /\ \A m \in Lookups : Kept(m)
<1> DEFINE w == [task EXCEPT ![l] = "idle"]
<1>0. /\ fut[l] = "pending" /\ stage[l] \in {"idle", "queued", "granted"}
      /\ fut' = [fut EXCEPT ![l] = "over"] /\ waker' = [waker EXCEPT ![l] = "none"]
  BY DEF Pool!Drop
<1>1. w \in [Lookups -> Tasks] /\ "idle" \in Pool!Stages
      /\ \A m \in Lookups : w[m] = IF m = l THEN "idle" ELSE task[m]
  BY DEF Sound, Tasks, Pool!Stages
<1>2. /\ \E K \in SUBSET Lookups :
           /\ l \notin K /\ \A k \in K : stage[k] = "queued"
           /\ stage' = [m \in Lookups |-> IF m = l THEN "idle"
                          ELSE IF m \in K THEN "granted" ELSE stage[m]]
           /\ task' = [m \in Lookups |-> IF m \in K THEN "notified" ELSE w[m]]
      /\ InLine'
  <2>1. CASE stage[l] = "granted"
    <3>1. Pool!HandOn(l, "idle", w) /\ stage[l] # "queued"
      BY <2>1 DEF Pool!Drop
    <3> HIDE DEF w
    <3> QED BY <1>1, <3>1, HandedOn
  <2>2. CASE stage[l] # "granted"
    <3>1. /\ stage' = [stage EXCEPT ![l] = "idle"] /\ task' = w
          /\ line' = Pool!RemoveFirst(line, l)
      BY <2>2 DEF Pool!Drop
    <3>2. Thinned(line', line) /\ \A i \in 1..Len(line') : line'[i] # l
      BY <3>1, Removed DEF InLine
    <3>3. \A i \in 1..Len(line') : stage'[line'[i]] = stage[line'[i]]
      <4>1. \A i \in 1..Len(line') : line'[i] \in Lookups
        BY <3>2 DEF Thinned
      <4> QED BY <3>1, <3>2, <4>1 DEF Sound
    <3>4. InLine'
      BY <3>2, <3>3, LineKept
    <3>5. stage' = [m \in Lookups |-> IF m = l THEN "idle"
                      ELSE IF m \in {} THEN "granted" ELSE stage[m]]
      BY <3>1 DEF Sound
    <3> HIDE DEF w
    <3>6. task' = [m \in Lookups |-> IF m \in {} THEN "notified" ELSE w[m]]
      BY <3>1, <1>1
    <3>7. {} \in SUBSET Lookups /\ l \notin {} /\ \A k \in {} : stage[k] = "queued"
      OBVIOUS
    <3> QED BY <3>4, <3>5, <3>6, <3>7
  <2> QED BY <2>1, <2>2
<1> HIDE DEF w
<1>3. PICK K \in SUBSET Lookups :
         /\ l \notin K /\ \A k \in K : stage[k] = "queued"
         /\ stage' = [m \in Lookups |-> IF m = l THEN "idle"
                        ELSE IF m \in K THEN "granted" ELSE stage[m]]
         /\ task' = [m \in Lookups |-> IF m \in K THEN "notified" ELSE w[m]]
  BY <1>2
<1>4. Sound'
  <2>1. fut' \in [Lookups -> Futs] /\ waker' \in [Lookups -> Holds]
    BY <1>0 DEF Sound, Holds, Futs
  <2>2. stage' \in [Lookups -> Pool!Stages]
    <3>1. "granted" \in Pool!Stages
      BY DEF Pool!Stages
    <3> QED BY <1>1, <1>3, <3>1 DEF Sound
  <2>3. task' \in [Lookups -> Tasks]
    <3>1. "notified" \in Tasks
      BY DEF Tasks
    <3> QED BY <1>1, <1>3, <3>1
  <2>4. ASSUME NEW m \in Lookups
        PROVE  /\ stage'[m] # "idle" /\ fut'[m] # "pending" =>
                     fut'[m] = "over" /\ stage'[m] \in {"done", "failed"}
               /\ stage'[m] = "blocking" => task'[m] = "notified"
    <3>1. /\ stage'[m] = (IF m = l THEN "idle" ELSE IF m \in K THEN "granted" ELSE stage[m])
          /\ task'[m] = (IF m \in K THEN "notified" ELSE w[m])
          /\ m # l => fut'[m] = fut[m]
      BY <1>0, <1>3 DEF Sound
    <3>2. m \in K => fut[m] = "pending"
      BY <1>3 DEF Sound
    <3> QED BY <3>1, <3>2, <1>1 DEF Sound
  <2> QED BY <2>1, <2>2, <2>3, <2>4 DEF Sound
<1>5. ASSUME NEW m \in Lookups PROVE Kept(m)
  <2>1. CASE m = l
    <3>1. Pool!Rslv(l) = "pending" /\ Pool!Rslv(l)' = "over"
      BY <1>0 DEF Pool!Rslv, Sound
    <3>2. Pool!Task(l)' \in {"idle", "notified"} /\ Pool!Waker(l)' = "none"
      BY <1>0, <1>1, <1>3 DEF Pool!Task, Pool!Waker, Sound
    <3>3. Pool!Contract(l)!Drop
      BY <3>1, <3>2 DEF Pool!Contract!Drop, Pool!Contract!Answered, Pool!Contract!Tasks
    <3> QED BY <2>1, <3>3 DEF Kept, Pool!Contract!Next
  <2>2. CASE m \in K
    <3>1. fut'[m] = fut[m] /\ waker'[m] = waker[m]
      BY <1>0, <1>3, <2>2 DEF Sound
    <3> QED BY <1>3, <2>2, <3>1, Granted
  <2>3. CASE m # l /\ m \notin K
    <3>1. stage'[m] = stage[m] /\ task'[m] = task[m] /\ waker'[m] = waker[m] /\ fut'[m] = fut[m]
      BY <1>0, <1>1, <1>3, <2>3 DEF Sound
    <3> QED BY <3>1, PoolUntouched DEF Kept, Pool!Rslv, Pool!Waker, Pool!Task
  <2> QED BY <2>1, <2>2, <2>3
<1> QED BY <1>2, <1>4, <1>5

\* What wakes a task otherwise is Wake.
LEMMA PoolWake ==
    ASSUME Sound, InLine, NEW l \in Lookups, Pool!Wake(l)
    PROVE  Sound' /\ InLine' /\ \A m \in Lookups : Kept(m)
<1>0. /\ task' = [task EXCEPT ![l] = "notified"]
      /\ fut' = fut /\ stage' = stage /\ line' = line /\ waker' = waker
  BY DEF Pool!Wake
<1>1. Sound'
  BY <1>0 DEF Sound, Tasks
<1>2. InLine'
  BY <1>0 DEF InLine
<1>3. ASSUME NEW m \in Lookups PROVE Kept(m)
  <2>1. CASE m = l
    <3>1. /\ Pool!Rslv(l)' = Pool!Rslv(l) /\ Pool!Waker(l)' = Pool!Waker(l)
          /\ Pool!Task(l)' = "notified"
      BY <1>0 DEF Pool!Rslv, Pool!Waker, Pool!Task, Sound
    <3>2. Pool!Contract(l)!Wake
      BY <3>1 DEF Pool!Contract!Wake
    <3> QED BY <2>1, <3>2 DEF Kept, Pool!Contract!Next
  <2>2. CASE m # l
    BY <1>0, <2>2, PoolUntouched DEF Kept, Pool!Rslv, Pool!Waker, Pool!Task, Sound
  <2> QED BY <2>1, <2>2
<1> QED BY <1>1, <1>2, <1>3

\* Every step keeps the invariant and the contract of every lookup.
LEMMA StepPool ==
    ASSUME Pool!IInv, [Pool!Next]_Pool!vars
    PROVE  Pool!IInv' /\ \A m \in Lookups : Kept(m)
<1>1. Sound /\ InLine
  BY Parts
<1>2. CASE Pool!Done \/ UNCHANGED Pool!vars
  <2>1. UNCHANGED <<fut, stage, line, waker, task>>
    BY <1>2 DEF Pool!Done, Pool!vars
  <2>2. Sound' /\ InLine'
    BY <1>1, <2>1 DEF Sound, InLine
  <2>3. \A m \in Lookups : Kept(m)
    BY <2>1, PoolUntouched DEF Kept, Pool!Rslv, Pool!Waker, Pool!Task
  <2> QED BY <2>2, <2>3, PartsNext
<1>3. ASSUME NEW l \in Lookups,
             Pool!Resolve(l) \/ Pool!Poll(l) \/ Pool!LookupReturns(l) \/ Pool!Drop(l) \/ Pool!Wake(l)
      PROVE  Pool!IInv' /\ \A m \in Lookups : Kept(m)
  <2>1. Sound' /\ InLine' /\ \A m \in Lookups : Kept(m)
    BY <1>1, <1>3, PoolResolve, PoolOutside, PoolBlocks, PoolNotReady, PoolReady,
       PoolReturns, PoolDrop, PoolWake DEF Pool!Poll
  <2> QED BY <2>1, PartsNext
<1> QED BY <1>2, <1>3 DEF Pool!Next

\* TokioThreadpoolGaiResolver implements the contract of Resolve for every
\* lookup, whatever the permits and however futures are dropped: no wakeup is
\* lost, no future is answered twice.
THEOREM PoolImplements == Pool!Spec => Pool!KeepsContract
<1>1. Pool!Init => \A l \in Lookups : Pool!Contract(l)!Init
  BY DEF Pool!Init, Pool!Contract!Init, Pool!Contract!Tasks, Pool!Rslv, Pool!Waker, Pool!Task
<1>2. Pool!IInv /\ [Pool!Next]_Pool!vars => Pool!IInv'
  BY StepPool
<1>3. Pool!IInv /\ [Pool!Next]_Pool!vars =>
         [\A l \in Lookups : Pool!Contract(l)!Next \/ UNCHANGED Pool!Contract(l)!vars]_Pool!vars
  BY StepPool DEF Kept
<1> QED
  BY <1>1, <1>2, <1>3, InitPool, PTL DEF Pool!Spec, Pool!KeepsContract

-----------------------------------------------------------------------------
(* The permits                                                             *)

\* How many permits are in use or kept, and who is in line for one.
Permits == Cardinality(Pool!Used)
Waits(l) == \E i \in 1..Len(line) : line[i] = l

\* What SleepsInLine rests on: there is a line only while there is no permit,
\* all that wait are in it, and only those sleep.
Full ==
    /\ Permits <= MaxBlocking
    /\ line # <<>> => Permits = MaxBlocking
    /\ \A l \in Lookups : stage[l] = "queued" => Waits(l)
    /\ \A l \in Lookups : stage[l] = "granted" => task[l] = "notified"
    /\ \A l \in Lookups : fut[l] = "pending" /\ task[l] = "idle" => stage[l] = "queued"

\* The permits of ThreadpoolGai are counted as here.
LEMMA SameCount == ASSUME NEW S PROVE Pool!Cardinality(S) = Cardinality(S)
BY Zenon DEF Pool!Cardinality, Cardinality

\* Permits can be counted.
LEMMA PermitsCount ==
    /\ IsFiniteSet(Pool!Used) /\ Permits \in Nat
    /\ \A l \in Pool!Used : Cardinality(Pool!Used \ {l}) = Permits - 1
    /\ \A l : l \notin Pool!Used => Cardinality(Pool!Used \cup {l}) = Permits + 1
<1>1. IsFiniteSet(Pool!Used)
  <2>1. Pool!Used \in SUBSET Lookups /\ IsFiniteSet(Lookups)
    BY PoolAssumption DEF Pool!Used
  <2> QED BY <2>1, FS_Subset
<1>2. Permits \in Nat
  BY <1>1, FS_CardinalityType DEF Permits
<1>3. \A l \in Pool!Used : Cardinality(Pool!Used \ {l}) = Permits - 1
  BY <1>1, FS_RemoveElement DEF Permits
<1>4. \A l : l \notin Pool!Used => Cardinality(Pool!Used \cup {l}) = Permits + 1
  BY <1>1, FS_AddElement DEF Permits
<1> QED BY <1>1, <1>2, <1>3, <1>4

\* A permit moves from one lookup to another: as many are in use as before.
LEMMA PermitMoves ==
    ASSUME NEW l \in Pool!Used, NEW k, k \notin Pool!Used
    PROVE  Cardinality((Pool!Used \ {l}) \cup {k}) = Permits
<1>1. IsFiniteSet(Pool!Used \ {l}) /\ Cardinality(Pool!Used \ {l}) = Permits - 1
  BY PermitsCount, FS_RemoveElement
<1>2. Cardinality((Pool!Used \ {l}) \cup {k}) = Cardinality(Pool!Used \ {l}) + 1
  BY <1>1, FS_AddElement
<1> QED BY <1>1, <1>2, PermitsCount

\* HandOn leaves no permit unused while there is a line: it goes to the first
\* in it, and is free again only if there is none.
LEMMA HandsPermit ==
    ASSUME MaxBlocking \in Nat, Sound, InLine, Full, NEW l \in Pool!Used,
           NEW s \in {"idle", "done", "failed"}, NEW w \in [Lookups -> Tasks],
           \A m \in Lookups : m # l => w[m] = task[m],
           Pool!HandOn(l, s, w)
    PROVE  /\ Permits' <= MaxBlocking
           /\ line' # <<>> => Permits' = MaxBlocking
           /\ \A m \in Lookups : stage'[m] = "queued" => Waits(m)'
           /\ \A m \in Lookups : stage'[m] = "granted" => task'[m] = "notified"
           /\ \A m \in Lookups : m # l /\ fut[m] = "pending" /\ task'[m] = "idle" =>
                                    stage'[m] = "queued"
<1>0. /\ stage \in [Lookups -> Pool!Stages] /\ l \in Lookups
      /\ stage[l] \in {"granted", "blocking"}
  BY DEF Sound, Pool!Used
<1>1. CASE line = <<>>
  <2>1. /\ task' = w /\ line' = line
        /\ \A m \in Lookups : stage'[m] = IF m = l THEN s ELSE stage[m]
    BY <1>0, <1>1 DEF Pool!HandOn
  <2>2. Pool!Used' = Pool!Used \ {l}
    BY <1>0, <2>1 DEF Pool!Used
  <2>3. Permits' = Permits - 1
    BY <2>2, PermitsCount DEF Permits
  <2>4. \A m \in Lookups : stage[m] # "queued"
    BY <1>1 DEF Full, Waits
  <2> QED BY <1>1, <2>1, <2>3, <2>4, PermitsCount DEF Full
<1>2. CASE line # <<>>
  <2> DEFINE k == Head(line)
  <2>1. /\ k \in Lookups /\ k = line[1] /\ 1 \in 1..Len(line) /\ Rest(Tail(line), line, k)
    BY <1>2, Shorter DEF InLine
  <2>2. stage[k] = "queued" /\ k # l
    BY <1>0, <2>1 DEF InLine
  <2>3. /\ stage' = [stage EXCEPT ![l] = s, ![k] = "granted"]
        /\ task' = [w EXCEPT ![k] = "notified"]
        /\ line' = Tail(line)
    BY <1>2 DEF Pool!HandOn
  <2> HIDE DEF k
  <2>4. \A m \in Lookups :
           /\ stage'[m] = IF m = k THEN "granted" ELSE IF m = l THEN s ELSE stage[m]
           /\ task'[m] = IF m = k THEN "notified" ELSE w[m]
    BY <1>0, <2>1, <2>2, <2>3
  <2>5. Pool!Used' = (Pool!Used \ {l}) \cup {k}
    BY <1>0, <2>1, <2>2, <2>4 DEF Pool!Used
  <2>6. Permits' = Permits
    <3>1. k \notin Pool!Used
      BY <2>2 DEF Pool!Used
    <3> QED BY <2>5, <3>1, PermitMoves DEF Permits
  <2>7. ASSUME NEW m \in Lookups, stage'[m] = "queued" PROVE Waits(m)'
    <3>1. m # k /\ stage[m] = "queued"
      BY <2>4, <2>7
    <3>2. PICK j \in 1..Len(line) : line[j] = m
      BY <3>1 DEF Full, Waits
    <3> QED BY <2>1, <2>3, <3>1, <3>2 DEF Rest, Waits
  <2> QED BY <1>2, <2>4, <2>6, <2>7 DEF Full
<1> QED BY <1>1, <1>2

\* Every step keeps the permits and the line.
LEMMA StepFull ==
    ASSUME MaxBlocking \in Nat, Pool!IInv, Full, [Pool!Next]_Pool!vars
    PROVE  Full'
<1>1. Sound /\ InLine
  BY Parts
<1>2. /\ fut \in [Lookups -> Futs] /\ stage \in [Lookups -> Pool!Stages]
      /\ task \in [Lookups -> Tasks] /\ line \in Seq(Lookups)
  BY <1>1 DEF Sound, InLine
<1>3. ASSUME Pool!Used' = Pool!Used, line' = line,
             \A m \in Lookups : stage'[m] = "queued" => stage[m] = "queued"
      PROVE  /\ Permits' <= MaxBlocking
             /\ line' # <<>> => Permits' = MaxBlocking
             /\ \A m \in Lookups : stage'[m] = "queued" => Waits(m)'
  BY <1>3 DEF Full, Permits, Waits
<1>4. CASE Pool!Done \/ UNCHANGED Pool!vars
  <2>1. UNCHANGED <<fut, stage, line, task>>
    BY <1>4 DEF Pool!Done, Pool!vars
  <2>2. Pool!Used' = Pool!Used
    BY <2>1 DEF Pool!Used
  <2> QED BY <1>3, <2>1, <2>2 DEF Full
<1>5. ASSUME NEW l \in Lookups, Pool!Resolve(l) \/ Pool!Wake(l) \/ Pool!PollReady(l)
      PROVE  Full'
  <2>1. UNCHANGED <<stage, line>>
    BY <1>5 DEF Pool!Resolve, Pool!Wake, Pool!PollReady
  <2>2. Pool!Used' = Pool!Used
    BY <2>1 DEF Pool!Used
  <2>3. \A m \in Lookups : stage[m] = "granted" => task'[m] = "notified"
    BY <1>2, <1>5 DEF Full, Pool!Resolve, Pool!Wake, Pool!PollReady, Pool!Return
  <2>4. \A m \in Lookups : fut'[m] = "pending" /\ task'[m] = "idle" => stage[m] = "queued"
    BY <1>2, <1>5 DEF Full, Pool!Resolve, Pool!Wake, Pool!PollReady, Pool!Return
  <2> QED BY <1>3, <2>1, <2>2, <2>3, <2>4 DEF Full
<1>6. ASSUME NEW l \in Lookups, Pool!PollOutside(l) PROVE Full'
  <2>1. /\ UNCHANGED <<fut, line, task>> /\ stage[l] = "idle" /\ task[l] = "notified"
        /\ \A m \in Lookups : stage'[m] = IF m = l THEN "failed" ELSE stage[m]
    BY <1>2, <1>6 DEF Pool!PollOutside, Pool!Polled
  <2>2. Pool!Used' = Pool!Used
    BY <2>1 DEF Pool!Used
  <2> QED BY <1>3, <2>1, <2>2 DEF Full
<1>7. ASSUME NEW l \in Lookups, Pool!PollBlocks(l) PROVE Full'
  <2>1. /\ UNCHANGED <<fut, line, task>> /\ task[l] = "notified"
        /\ \A m \in Lookups : stage'[m] = IF m = l THEN "blocking" ELSE stage[m]
    BY <1>2, <1>7 DEF Pool!PollBlocks, Pool!Polled
  <2>2. /\ \A m \in Lookups : stage'[m] = "granted" => task'[m] = "notified"
        /\ \A m \in Lookups : fut'[m] = "pending" /\ task'[m] = "idle" => stage'[m] = "queued"
    BY <2>1 DEF Full
  <2>3. CASE stage[l] = "granted"
    <3>1. Pool!Used' = Pool!Used
      BY <2>1, <2>3 DEF Pool!Used
    <3> QED BY <1>3, <2>1, <2>2, <3>1 DEF Full
  <2>4. CASE stage[l] = "idle" /\ Permits < MaxBlocking
    <3>1. Pool!Used' = Pool!Used \cup {l} /\ l \notin Pool!Used
      BY <2>1, <2>4 DEF Pool!Used
    <3>2. Permits' = Permits + 1
      BY <3>1, PermitsCount DEF Permits
    <3>3. line = <<>>
      BY <2>4, PermitsCount DEF Full
    <3>4. \A m \in Lookups : stage'[m] = "queued" => Waits(m)'
      BY <2>1 DEF Full, Waits
    <3> QED BY <2>1, <2>2, <2>4, <3>2, <3>3, <3>4, PermitsCount DEF Full
  <2> QED BY <1>7, <2>3, <2>4, SameCount DEF Pool!PollBlocks, Permits
<1>8. ASSUME NEW l \in Lookups, Pool!PollNotReady(l) PROVE Full'
  <2>1. /\ fut' = fut /\ stage[l] \in {"idle", "queued"}
        /\ \A m \in Lookups : /\ stage'[m] = IF m = l THEN "queued" ELSE stage[m]
                              /\ task'[m] = IF m = l THEN "idle" ELSE task[m]
    BY <1>2, <1>8 DEF Pool!PollNotReady, Pool!Polled
  <2>2. Pool!Used' = Pool!Used
    BY <2>1 DEF Pool!Used
  <2>3. /\ \A m \in Lookups : stage'[m] = "granted" => task'[m] = "notified"
        /\ \A m \in Lookups : fut'[m] = "pending" /\ task'[m] = "idle" => stage'[m] = "queued"
    BY <2>1 DEF Full
  <2>4. CASE stage[l] = "queued" /\ line' = line
    BY <1>3, <2>1, <2>2, <2>3, <2>4 DEF Full
  <2>5. CASE stage[l] = "idle" /\ Permits = MaxBlocking /\ line' = Append(line, l)
    <3>1. /\ Len(line) \in Nat /\ Len(line') = Len(line) + 1
          /\ \A i \in 1..Len(line) : line'[i] = line[i]
          /\ line'[Len(line) + 1] = l
      BY <1>2, <2>5
    <3>2. \A i \in 1..Len(line) : i \in 1..Len(line')
      BY <3>1
    <3>3. Waits(l)'
      <4>1. Len(line) + 1 \in 1..Len(line')
        BY <3>1
      <4> QED BY <3>1, <4>1 DEF Waits
    <3>4. \A m \in Lookups : stage'[m] = "queued" => Waits(m)'
      BY <2>1, <3>1, <3>2, <3>3 DEF Full, Waits
    <3>5. Permits' = MaxBlocking
      BY <2>2, <2>5 DEF Permits
    <3> QED BY <2>3, <3>4, <3>5 DEF Full
  <2> QED BY <1>8, <2>4, <2>5, SameCount DEF Pool!PollNotReady, Permits
<1>9. ASSUME NEW l \in Lookups, Pool!LookupReturns(l) PROVE Full'
  <2>1. stage[l] = "blocking" /\ fut' = fut /\ l \in Pool!Used /\ task[l] = "notified"
    BY <1>1, <1>9 DEF Pool!LookupReturns, Pool!Used, Sound
  <2>2. PICK s \in {"done", "failed"} : Pool!HandOn(l, s, task)
    BY <1>9 DEF Pool!LookupReturns
  <2>3. task'[l] = "notified"
    BY <1>2, <2>1, <2>2 DEF Pool!HandOn
  <2>4. /\ Permits' <= MaxBlocking
        /\ line' # <<>> => Permits' = MaxBlocking
        /\ \A m \in Lookups : stage'[m] = "queued" => Waits(m)'
        /\ \A m \in Lookups : stage'[m] = "granted" => task'[m] = "notified"
        /\ \A m \in Lookups : m # l /\ fut[m] = "pending" /\ task'[m] = "idle" =>
                                 stage'[m] = "queued"
    BY <1>1, <1>2, <2>1, <2>2, HandsPermit
  <2> QED BY <2>1, <2>3, <2>4 DEF Full
<1>10. ASSUME NEW l \in Lookups, Pool!Drop(l) PROVE Full'
  <2> DEFINE w == [task EXCEPT ![l] = "idle"]
  <2>1. /\ stage[l] \in {"idle", "queued", "granted"}
        /\ \A m \in Lookups : fut'[m] = IF m = l THEN "over" ELSE fut[m]
        /\ w \in [Lookups -> Tasks]
        /\ \A m \in Lookups : w[m] = IF m = l THEN "idle" ELSE task[m]
    BY <1>2, <1>10 DEF Pool!Drop, Tasks
  <2>2. CASE stage[l] = "granted"
    <3>1. Pool!HandOn(l, "idle", w) /\ l \in Pool!Used
      BY <1>10, <2>2 DEF Pool!Drop, Pool!Used
    <3> HIDE DEF w
    <3>2. /\ Permits' <= MaxBlocking
          /\ line' # <<>> => Permits' = MaxBlocking
          /\ \A m \in Lookups : stage'[m] = "queued" => Waits(m)'
          /\ \A m \in Lookups : stage'[m] = "granted" => task'[m] = "notified"
          /\ \A m \in Lookups : m # l /\ fut[m] = "pending" /\ task'[m] = "idle" =>
                                   stage'[m] = "queued"
      BY <1>1, <2>1, <3>1, HandsPermit
    <3> QED BY <2>1, <3>2 DEF Full
  <2>3. CASE stage[l] # "granted"
    <3>1. /\ \A m \in Lookups : stage'[m] = IF m = l THEN "idle" ELSE stage[m]
          /\ task' = w /\ line' = Pool!RemoveFirst(line, l)
      BY <1>2, <1>10, <2>3 DEF Pool!Drop
    <3>2. Thinned(line', line) /\ Rest(line', line, l)
      BY <1>1, <3>1, Removed DEF InLine
    <3>3. Pool!Used' = Pool!Used
      BY <2>1, <2>3, <3>1 DEF Pool!Used
    <3>4. line' # <<>> => line # <<>>
      BY <3>2 DEF Thinned
    <3>5. \A m \in Lookups : stage'[m] = "queued" => Waits(m)'
      BY <3>1, <3>2 DEF Full, Waits, Rest
    <3>6. /\ \A m \in Lookups : stage'[m] = "granted" => task'[m] = "notified"
          /\ \A m \in Lookups : fut'[m] = "pending" /\ task'[m] = "idle" => stage'[m] = "queued"
      BY <2>1, <3>1 DEF Full
    <3> QED BY <3>3, <3>4, <3>5, <3>6 DEF Full, Permits
  <2> QED BY <2>2, <2>3
<1> QED
  BY <1>4, <1>5, <1>6, <1>7, <1>8, <1>9, <1>10 DEF Pool!Next, Pool!Poll

\* However futures are polled and dropped, there are never more calls of
\* getaddrinfo than permits, and a task that sleeps has its place in line while
\* no permit is free (SleepsInLine).
THEOREM PoolSleeps ==
    ASSUME MaxBlocking \in Nat \ {0}
    PROVE  Pool!Spec => []Pool!SleepsInLine
<1>1. Pool!Init => Full
  <2> SUFFICES ASSUME Pool!Init PROVE Full
    OBVIOUS
  <2>1. Pool!Used = {}
    BY DEF Pool!Init, Pool!Used
  <2>2. Permits = 0
    BY <2>1, FS_EmptySet DEF Permits
  <2> QED BY <2>2 DEF Pool!Init, Full
<1>2. Pool!IInv /\ Full /\ [Pool!Next]_Pool!vars => Full'
  BY StepFull
<1>3. Pool!IInv /\ [Pool!Next]_Pool!vars => Pool!IInv'
  BY StepPool
<1>4. Pool!IInv /\ Full => Pool!SleepsInLine
  <2> SUFFICES ASSUME Pool!IInv, Full PROVE Pool!SleepsInLine
    OBVIOUS
  <2>1. Pool!Cardinality(Pool!Used) = Permits
    BY SameCount DEF Permits
  <2>2. \A l \in Lookups : Waits(l) => line # <<>>
    BY DEF Waits
  <2> QED BY <2>1, <2>2 DEF Full, Waits, Pool!SleepsInLine
<1> QED BY <1>1, <1>2, <1>3, <1>4, InitPool, PTL DEF Pool!Spec
=============================================================================
