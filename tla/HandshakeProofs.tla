-------------------------- MODULE HandshakeProofs --------------------------
(***************************************************************************)
(* Proofs about the two ends of a secured connection.  Handshake: what the *)
(* future of an https connection returns, for any number of messages a     *)
(* handshake takes and any way they arrive.  Streams: what shutdown leaves *)
(* on the wire, for any data before it and any room TCP has.  Neither      *)
(* sleeps through what it waits for.                                       *)
(***************************************************************************)
EXTENDS Handshake, Wire, SequenceTheorems, TLAPS

\* Where a peer stops, it has sent no more than a handshake takes.
LEMMA EndingType ==
    ASSUME NEW e \in Endings
    PROVE  e.after \in 0..Flights
BY DEF Endings

\* The variables have their types at the start.
LEMMA InitType == Init => TypeOK
BY FlightsAssumption DEF Init, TypeOK, Options, Finished

\* Every step keeps them.
LEMMA NextType == TypeOK /\ [Next]_vars => TypeOK'
<1> SUFFICES ASSUME TypeOK, [Next]_vars PROVE TypeOK'
  OBVIOUS
<1> USE FlightsAssumption
<1>0. ending.after \in 0..Flights
  BY EndingType DEF TypeOK
<1>1. Outcome \in Options
  BY DEF Outcome, Options
<1>2. Attempt => taken' \in 0..arrived /\ waker' \in {"none", "held"}
  BY DEF TypeOK, Attempt
<1>3. CASE BeginPoll
  BY <1>3 DEF TypeOK, BeginPoll
<1>4. CASE PollConnecting
  BY <1>4 DEF TypeOK, PollConnecting, NotReady, Return, Finished
<1>5. CASE StartHandshake
  BY <1>5, <1>1, <1>2 DEF TypeOK, StartHandshake
<1>6. CASE PollBlocked
  BY <1>6, <1>2 DEF TypeOK, PollBlocked, NotReady, Return, Finished, Options
<1>7. CASE PollDecided
  BY <1>7 DEF TypeOK, PollDecided, Return, Finished, Options
<1>8. CASE TcpDecided
  BY <1>8 DEF TypeOK, TcpDecided, Notify
<1>9. CASE PeerSends
  BY <1>9, <1>0 DEF TypeOK, PeerSends, Notify
<1>10. CASE SpuriousWake
  BY <1>10 DEF TypeOK, SpuriousWake
<1>11. CASE Done \/ UNCHANGED vars
  BY <1>11 DEF TypeOK, Done, vars
<1> QED
  BY <1>3, <1>4, <1>5, <1>6, <1>7, <1>8, <1>9, <1>10, <1>11 DEF Next, Poll

\* Every variable of the future keeps its type.
THEOREM TypeCorrect == Spec => []TypeOK
BY InitType, NextType, PTL DEF Spec

-----------------------------------------------------------------------------
(* What is returned                                                        *)

\* Every step keeps the invariant: a handshake that blocks is put back, and
\* what is put there stands for what the peer sent.
LEMMA NextCarried == TypeOK /\ IInv /\ [Next]_vars => IInv'
<1> SUFFICES ASSUME TypeOK, IInv, [Next]_vars PROVE IInv'
  OBVIOUS
<1> USE DEF IInv, Carried, OutcomeIsHonest
<1>1. Outcome = "Ok" => arrived = Flights
  BY DEF Outcome
<1>2. Outcome = "Failure" => ending.how = "failure"
  BY DEF Outcome
<1>3. Outcome \in {"Ok", "Failure", "WouldBlock"}
  BY DEF Outcome
<1>4. CASE BeginPoll
  BY <1>4 DEF BeginPoll
<1>5. CASE PollConnecting
  BY <1>5 DEF PollConnecting, NotReady, Return, TypeOK
<1>6. CASE StartHandshake
  BY <1>6, <1>1, <1>2, <1>3 DEF StartHandshake, Attempt
<1>7. CASE PollBlocked
  BY <1>7, <1>1, <1>2, <1>3 DEF PollBlocked, Attempt, NotReady, Return
<1>8. CASE PollDecided
  BY <1>8 DEF PollDecided, Return, TypeOK, Options
<1>9. CASE TcpDecided
  BY <1>9 DEF TcpDecided
<1>10. CASE PeerSends
  BY <1>10 DEF PeerSends
<1>11. CASE SpuriousWake
  BY <1>11 DEF SpuriousWake
<1>12. CASE Done \/ UNCHANGED vars
  BY <1>12 DEF Done, vars
<1> QED
  BY <1>4, <1>5, <1>6, <1>7, <1>8, <1>9, <1>10, <1>11, <1>12 DEF Next, Poll

\* The invariant holds throughout.
THEOREM Inductive == Spec => []IInv
<1>1. Init => IInv
  BY DEF Init, IInv, Carried, OutcomeIsHonest
<1> QED
  BY <1>1, NextCarried, TypeCorrect, PTL DEF Spec

\* A secured stream stands for a whole handshake, an error for a failure, and
\* the expect of Handshaking::poll never panics.
THEOREM Honest == Spec => []OutcomeIsHonest
<1>1. IInv => OutcomeIsHonest
  BY DEF IInv
<1> QED
  BY <1>1, Inductive, PTL

\* Every step keeps the wakeups: whoever makes the future able to go on holds
\* its waker, and notifies the task.
LEMMA NextWakes == TypeOK /\ NoLostWakeup /\ [Next]_vars => NoLostWakeup'
<1> SUFFICES ASSUME TypeOK, NoLostWakeup, [Next]_vars PROVE NoLostWakeup'
  OBVIOUS
<1>1. CASE BeginPoll \/ StartHandshake
  BY <1>1 DEF BeginPoll, StartHandshake, NoLostWakeup
<1>2. CASE PollConnecting
  BY <1>2 DEF PollConnecting, NotReady, Return, NoLostWakeup, Finished
<1>3. CASE PollBlocked
  <2>1. CASE Outcome = "WouldBlock"
    <3>1. Outcome' = "WouldBlock"
      BY <1>3, <2>1 DEF PollBlocked, Outcome
    <3>2. waker' = "held" /\ taken' = arrived' /\ inner' = "WouldBlock" /\ st' = "handshaking"
      BY <1>3, <2>1 DEF PollBlocked, Attempt
    <3> QED BY <3>1, <3>2 DEF NoLostWakeup
  <2>2. CASE Outcome # "WouldBlock"
    BY <1>3, <2>2 DEF PollBlocked, Return, NoLostWakeup, Finished
  <2> QED BY <2>1, <2>2
<1>4. CASE PollDecided
  BY <1>4 DEF PollDecided, Return, NoLostWakeup, Finished
<1>5. CASE TcpDecided
  BY <1>5 DEF TcpDecided, Notify, NoLostWakeup, TypeOK
<1>6. CASE PeerSends
  BY <1>6 DEF PeerSends, Notify, NoLostWakeup, TypeOK
<1>7. CASE SpuriousWake
  BY <1>7 DEF SpuriousWake, NoLostWakeup
<1>8. CASE Done \/ UNCHANGED vars
  BY <1>8 DEF Done, vars, NoLostWakeup, Outcome
<1> QED
  BY <1>1, <1>2, <1>3, <1>4, <1>5, <1>6, <1>7, <1>8 DEF Next, Poll

\* A wakeup is never lost (NoLostWakeup): the task of a handshake sleeps only
\* when all that arrived was taken, more is needed, and the connection holds
\* its waker, whenever the messages came.
THEOREM NeverLost == Spec => []NoLostWakeup
<1>1. Init => NoLostWakeup
  BY DEF Init, NoLostWakeup
<1> QED
  BY <1>1, NextWakes, TypeCorrect, PTL DEF Spec

-----------------------------------------------------------------------------
(* Closing.  The theorems below are about the specification of Streams     *)
(* alone; pc, task and taken are its variables of these names, and         *)
(* ClosesInOrder is the property of Wire, which Streams extends.           *)

CONSTANTS SendCap, MaxData
VARIABLES library, willing, at, waits, answered, conn

Closing == INSTANCE Streams

\* The first n records are data, and what follows is how the stream is to end.
Laid(n) ==
    /\ n \in 0..Len(wire) /\ Len(wire) - n <= Len(Closing!Ending)
    /\ \A i \in 1..n : wire[i] = "data"
    /\ \A i \in 1..(Len(wire) - n) : wire[n + i] = Closing!Ending[i]

\* What may be on the wire.
Records == {"data", "fin"} \cup Closing!Layers

\* The layers of TLS that a stream has, each once, and then the end.
LEMMA EndingIs ==
    ASSUME stack \subseteq Closing!Layers
    PROVE  LET e == Closing!Ending
               a == IF "Secured" \in stack THEN 1 ELSE 0
               b == IF "Https" \in stack THEN 1 ELSE 0
           IN /\ e \in Seq(Records) /\ Len(e) = a + b + 1
              /\ a = 1 => e[1] = "Secured"
              /\ b = 1 => e[a + 1] = "Https"
              /\ e[a + b + 1] = "fin"
<1> DEFINE s == IF "Secured" \in stack THEN <<"Secured">> ELSE <<>>
           t == IF "Https" \in stack THEN <<"Https">> ELSE <<>>
           f == <<"fin">>
           a == IF "Secured" \in stack THEN 1 ELSE 0
           b == IF "Https" \in stack THEN 1 ELSE 0
<1>1. "Secured" \in Records /\ "Https" \in Records /\ "fin" \in Records
  BY DEF Records, Closing!Layers
<1>2. /\ s \in Seq(Records) /\ Len(s) = a /\ (a = 1 => s[1] = "Secured")
      /\ t \in Seq(Records) /\ Len(t) = b /\ (b = 1 => t[1] = "Https")
      /\ f \in Seq(Records) /\ Len(f) = 1 /\ f[1] = "fin"
  <2> HIDE DEF Records
  <2> QED BY <1>1
<1>3. Closing!Ending = (s \o t) \o f
  BY DEF Closing!Ending, Closing!Stacked
<1>4. a \in {0, 1} /\ b \in {0, 1}
  OBVIOUS
<1> DEFINE u == s \o t
<1> HIDE DEF s, t, f, a, b
<1>5. /\ u \in Seq(Records) /\ Len(u) = a + b
      /\ a = 1 => u[1] = "Secured"
      /\ b = 1 => u[a + 1] = "Https"
  BY <1>2, <1>4
<1> HIDE DEF u
<1> DEFINE e == u \o f
<1>6. /\ e \in Seq(Records) /\ Len(e) = a + b + 1
      /\ a = 1 => e[1] = "Secured"
      /\ b = 1 => e[a + 1] = "Https"
      /\ e[a + b + 1] = "fin"
  <2>1. /\ e \in Seq(Records) /\ Len(e) = Len(u) + 1
        /\ \A i \in 1..Len(u) : e[i] = u[i]
        /\ e[Len(u) + 1] = "fin"
    <3>1. /\ e \in Seq(Records) /\ Len(e) = Len(u) + Len(f)
          /\ \A i \in 1..(Len(u) + Len(f)) :
                e[i] = IF i <= Len(u) THEN u[i] ELSE f[i - Len(u)]
      <4> HIDE DEF Records
      <4>1. \A p, q \in Seq(Records) :
              /\ p \o q \in Seq(Records) /\ Len(p \o q) = Len(p) + Len(q)
              /\ \A i \in 1..(Len(p) + Len(q)) :
                    (p \o q)[i] = IF i <= Len(p) THEN p[i] ELSE q[i - Len(p)]
        BY ConcatProperties
      <4>2. u \in Seq(Records) /\ f \in Seq(Records)
        BY <1>2, <1>5
      <4> QED BY <4>1, <4>2
    <3>2. Len(u) \in Nat /\ Len(f) = 1 /\ f[1] = "fin"
      BY <1>2, <1>5
    <3> HIDE DEF e
    <3>3. e[Len(u) + 1] = f[1]
      <4>1. (Len(u) + 1) - Len(u) = 1 /\ ~(Len(u) + 1 <= Len(u)) /\ Len(u) + 1 \in 1..(Len(u) + Len(f))
        BY <3>2
      <4> QED BY <3>1, <4>1
    <3> QED BY <3>1, <3>2, <3>3
  <2> HIDE DEF e
  <2> QED BY <1>4, <1>5, <2>1
<1> QED BY <1>3, <1>6 DEF u, a, b

\* The property in those words.
LEMMA LaidOut ==
    stack \subseteq Closing!Layers /\ wire \in Seq(Records) =>
        (Closing!ClosesInOrder <=> \E n \in 0..Len(wire) : Laid(n))
<1> SUFFICES ASSUME stack \subseteq Closing!Layers, wire \in Seq(Records)
             PROVE  Closing!ClosesInOrder <=> \E n \in 0..Len(wire) : Laid(n)
  OBVIOUS
<1> DEFINE e == Closing!Ending
           tail(n) == SubSeq(wire, n + 1, Len(wire))
<1>1. e \in Seq(Records) /\ Len(e) \in Nat /\ Len(wire) \in Nat
  BY EndingIs
<1> HIDE DEF e
<1>2. ASSUME NEW n \in 0..Len(wire)
      PROVE  Closing!IsPrefix(tail(n), e) <=>
               /\ Len(wire) - n <= Len(e)
               /\ \A i \in 1..(Len(wire) - n) : wire[n + i] = e[i]
  <2> DEFINE t == tail(n)
  <2>1. /\ t \in Seq(Records) /\ Len(t) = Len(wire) - n
        /\ \A i \in 1..(Len(wire) - n) : t[i] = wire[n + i]
    BY <1>1
  <2> HIDE DEF t
  <2>2. SubSeq(t, 1, Len(t)) = t
    BY <2>1
  <2>3. ASSUME Len(t) <= Len(e)
        PROVE  (t = SubSeq(e, 1, Len(t))) <=> \A i \in 1..Len(t) : t[i] = e[i]
    <3> DEFINE q == SubSeq(e, 1, Len(t))
    <3>1. q \in Seq(Records) /\ Len(q) = Len(t) /\ \A i \in 1..Len(t) : q[i] = e[i]
      BY <1>1, <2>1, <2>3
    <3> HIDE DEF q
    <3>2. (\A i \in 1..Len(t) : t[i] = q[i]) => t = q
      BY <2>1, <3>1, SeqEqual
    <3> QED BY <3>1, <3>2 DEF q
  <2>4. Closing!IsPrefix(t, e) <=> Len(t) <= Len(e) /\ \A i \in 1..Len(t) : t[i] = e[i]
    BY <2>2, <2>3 DEF Closing!IsPrefix
  <2>5. (\A i \in 1..Len(t) : t[i] = e[i]) <=>
            \A i \in 1..(Len(wire) - n) : wire[n + i] = e[i]
    BY <2>1
  <2> QED BY <2>1, <2>4, <2>5 DEF t
<1> HIDE DEF tail
<1> QED BY <1>2 DEF Closing!ClosesInOrder, Laid, tail, e

\* The same after a step.
LEMMA LaidOutNext ==
    (stack \subseteq Closing!Layers /\ wire \in Seq(Records) =>
        (Closing!ClosesInOrder <=> \E n \in 0..Len(wire) : Laid(n)))'
BY LaidOut, PTL

\* A record is on the wire exactly if the part of the ending laid out so far
\* has it.
LEMMA SentIs ==
    ASSUME stack \subseteq Closing!Layers, wire \in Seq(Records),
           NEW n \in 0..Len(wire), Laid(n), NEW r \in Records, r # "data"
    PROVE  Closing!Sent(r) <=> \E i \in 1..(Len(wire) - n) : Closing!Ending[i] = r
<1>1. Len(wire) \in Nat /\ DOMAIN wire = 1..Len(wire)
  OBVIOUS
<1>2. ASSUME NEW i \in 1..Len(wire), wire[i] = r
      PROVE  i - n \in 1..(Len(wire) - n) /\ Closing!Ending[i - n] = r
  <2>1. ~(i \in 1..n)
    BY <1>2 DEF Laid
  <2>2. i - n \in 1..(Len(wire) - n) /\ n + (i - n) = i
    BY <2>1, <1>1
  <2> QED BY <1>2, <2>2 DEF Laid
<1>3. ASSUME NEW i \in 1..(Len(wire) - n), Closing!Ending[i] = r
      PROVE  n + i \in 1..Len(wire) /\ wire[n + i] = r
  BY <1>1, <1>3 DEF Laid
<1> QED BY <1>1, <1>2, <1>3 DEF Closing!Sent

\* One more record keeps the order if it is the next of the ending, or data
\* with none of the ending written.
LEMMA Extended ==
    ASSUME stack \subseteq Closing!Layers, wire \in Seq(Records),
           NEW n \in 0..Len(wire), Laid(n),
           NEW r \in Records, wire' = Append(wire, r), stack' = stack,
           \/ /\ Len(wire) - n < Len(Closing!Ending)
              /\ r = Closing!Ending[Len(wire) - n + 1]
           \/ r = "data" /\ n = Len(wire)
    PROVE  Closing!ClosesInOrder' /\ wire' \in Seq(Records)'
<1>1. Len(wire) \in Nat /\ Len(Closing!Ending) \in Nat
  BY EndingIs
<1>2. Closing!Ending' = Closing!Ending
  BY DEF Closing!Ending, Closing!Stacked
<1>3. /\ wire' \in Seq(Records) /\ Len(wire') = Len(wire) + 1
      /\ \A i \in 1..Len(wire) : wire'[i] = wire[i]
      /\ wire'[Len(wire) + 1] = r
  BY AppendProperties
<1>4. ASSUME Len(wire) - n < Len(Closing!Ending), r = Closing!Ending[Len(wire) - n + 1]
      PROVE  Laid(n)'
  <2>1. \A i \in 1..(Len(wire) + 1 - n) : wire'[n + i] = Closing!Ending[i]
    <3> SUFFICES ASSUME NEW i \in 1..(Len(wire) + 1 - n) PROVE wire'[n + i] = Closing!Ending[i]
      OBVIOUS
    <3>1. CASE i = Len(wire) - n + 1
      <4>1. n + i = Len(wire) + 1
        BY <3>1, <1>1
      <4> QED BY <1>3, <1>4, <3>1, <4>1
    <3>2. CASE i # Len(wire) - n + 1
      <4>1. n + i \in 1..Len(wire) /\ i \in 1..(Len(wire) - n)
        BY <3>2, <1>1
      <4> QED BY <1>3, <4>1 DEF Laid
    <3> QED BY <3>1, <3>2
  <2>2. \A i \in 1..n : wire'[i] = "data"
    BY <1>1, <1>3 DEF Laid
  <2>3. n \in 0..Len(wire') /\ Len(wire') - n <= Len(Closing!Ending)
    BY <1>1, <1>3, <1>4
  <2>4. Len(wire') - n = Len(wire) + 1 - n
    BY <1>1, <1>3
  <2> QED BY <1>2, <2>1, <2>2, <2>3, <2>4 DEF Laid
<1>5. ASSUME r = "data", n = Len(wire) PROVE Laid(n + 1)'
  <2>1. \A i \in 1..(n + 1) : wire'[i] = "data"
    <3> SUFFICES ASSUME NEW i \in 1..(n + 1) PROVE wire'[i] = "data"
      OBVIOUS
    <3>1. i \in 1..n \/ i = Len(wire) + 1
      BY <1>1, <1>5
    <3> QED BY <3>1, <1>1, <1>3, <1>5 DEF Laid
  <2>2. Len(wire') - (n + 1) = 0 /\ n + 1 \in 0..Len(wire')
    BY <1>1, <1>3, <1>5
  <2> QED BY <1>1, <1>2, <2>1, <2>2 DEF Laid
<1>6. \E m \in 0..Len(wire') : Laid(m)'
  <2>1. CASE Len(wire) - n < Len(Closing!Ending) /\ r = Closing!Ending[Len(wire) - n + 1]
    BY <1>4, <2>1, <1>1, <1>3
  <2>2. CASE r = "data" /\ n = Len(wire)
    BY <1>5, <2>2, <1>1, <1>3
  <2> QED BY <2>1, <2>2
<1>7. stack' \subseteq Closing!Layers' /\ wire' \in Seq(Records)'
  BY <1>3 DEF Records, Closing!Layers
<1> QED BY <1>6, <1>7, LaidOutNext

\* How far the ending is laid out, from which records are on the wire.
LEMMA Place ==
    ASSUME stack \subseteq Closing!Layers, wire \in Seq(Records),
           NEW n \in 0..Len(wire), Laid(n)
    PROVE  LET k == Len(wire) - n
               a == IF "Secured" \in stack THEN 1 ELSE 0
               b == IF "Https" \in stack THEN 1 ELSE 0
           IN /\ k \in 0..(a + b + 1)
              /\ a = 1 /\ Closing!Sent("Secured") => k >= 1
              /\ a = 1 /\ ~Closing!Sent("Secured") => k = 0
              /\ b = 1 /\ Closing!Sent("Https") => k >= a + 1
              /\ b = 1 /\ ~Closing!Sent("Https") => k <= a
              /\ ~Closing!Sent("fin") => k <= a + b
<1> DEFINE k == Len(wire) - n
           a == IF "Secured" \in stack THEN 1 ELSE 0
           b == IF "Https" \in stack THEN 1 ELSE 0
           e == Closing!Ending
<1>1. /\ Len(e) = a + b + 1 /\ a \in {0, 1} /\ b \in {0, 1}
      /\ a = 1 => e[1] = "Secured"
      /\ b = 1 => e[a + 1] = "Https"
      /\ e[a + b + 1] = "fin"
  BY EndingIs
<1>2. k \in 0..(a + b + 1)
  <2>1. Len(wire) \in Nat
    OBVIOUS
  <2> HIDE DEF a, b
  <2> QED BY <1>1, <2>1 DEF Laid
<1>3. \A r \in {"Secured", "Https", "fin"} : Closing!Sent(r) <=> \E i \in 1..k : e[i] = r
  BY SentIs DEF Records, Closing!Layers
<1>4. /\ Closing!Sent("Secured") <=> \E i \in 1..k : e[i] = "Secured"
      /\ Closing!Sent("Https") <=> \E i \in 1..k : e[i] = "Https"
      /\ Closing!Sent("fin") <=> \E i \in 1..k : e[i] = "fin"
  BY <1>3
<1> DEFINE P == Closing!Sent("Secured")
           Q == Closing!Sent("Https")
           R == Closing!Sent("fin")
<1> HIDE DEF a, b, k, e, P, Q, R
<1>5. /\ P <=> \E i \in 1..k : e[i] = "Secured"
      /\ Q <=> \E i \in 1..k : e[i] = "Https"
      /\ R <=> \E i \in 1..k : e[i] = "fin"
  BY <1>4 DEF P, Q, R
<1>6. /\ a = 1 /\ P => k >= 1
      /\ a = 1 /\ ~P => k = 0
      /\ ~R => k <= a + b
  BY <1>1, <1>2, <1>5
<1>7. b = 1 /\ ~Q => k <= a
  BY <1>1, <1>2, <1>5
<1>8. b = 1 /\ Q => k >= a + 1
  <2>1. CASE a = 0
    BY <2>1, <1>1, <1>2, <1>5
  <2>2. CASE a = 1
    BY <2>2, <1>1, <1>2, <1>5
  <2> QED BY <2>1, <2>2, <1>1
<1> QED BY <1>2, <1>6, <1>7, <1>8 DEF a, b, k, P, Q, R

\* The wire with one record more.
LEMMA Appended ==
    ASSUME wire \in Seq(Records), NEW r \in Records, wire' = Append(wire, r)
    PROVE  /\ Len(wire) \in Nat /\ DOMAIN wire = 1..Len(wire)
           /\ wire' \in Seq(Records) /\ Len(wire') = Len(wire) + 1
           /\ DOMAIN (wire') = 1..(Len(wire) + 1)
           /\ \A i \in 1..Len(wire) : wire'[i] = wire[i]
           /\ wire'[Len(wire) + 1] = r
<1>1. /\ Len(wire) \in Nat /\ DOMAIN wire = 1..Len(wire)
      /\ wire' \in Seq(Records) /\ Len(wire') = Len(wire) + 1
      /\ \A i \in 1..Len(wire) : wire'[i] = wire[i]
      /\ wire'[Len(wire) + 1] = r
  BY AppendProperties
<1>2. DOMAIN (wire') = 1..(Len(wire) + 1)
  BY <1>1
<1> QED BY <1>1, <1>2

\* What an extension of the wire keeps and adds.
LEMMA SentGrows ==
    ASSUME wire \in Seq(Records), NEW r \in Records, wire' = Append(wire, r), NEW x
    PROVE  Closing!Sent(x)' <=> Closing!Sent(x) \/ x = r
<1>1. /\ Len(wire) \in Nat /\ DOMAIN wire = 1..Len(wire)
      /\ DOMAIN (wire') = 1..(Len(wire) + 1)
      /\ \A i \in 1..Len(wire) : wire'[i] = wire[i]
      /\ wire'[Len(wire) + 1] = r
  BY Appended
<1> QED BY <1>1 DEF Closing!Sent

\* What stays as it is with the wire.
LEMMA Quiet ==
    ASSUME Closing!IInv, UNCHANGED <<stack, wire>>
    PROVE  /\ stack' \subseteq Closing!Layers /\ (wire \in Seq({"data", "fin"} \cup Closing!Layers))'
           /\ Closing!ClosesInOrder' /\ \A x : Closing!Sent(x)' <=> Closing!Sent(x)
<1>1. Closing!Ending' = Closing!Ending
  BY DEF Closing!Ending, Closing!Stacked
<1> QED BY <1>1 DEF Closing!IInv, Closing!ClosesInOrder, Closing!Sent, Closing!Layers

\* A step that leaves the wire alone keeps the invariant if it takes shutdown
\* no further than it should go.
LEMMA QuietStep ==
    ASSUME Closing!IInv, UNCHANGED <<stack, wire>>,
           at' # "parked" => pc' = "closing",
           pc' = "open" => pc = "open",
           pc = "closed" => pc' = "closed",
           pc' = "closed" => \A l \in stack : Closing!Sent(l),
           at' \in {"Https", "tcp"} /\ "Secured" \in stack => Closing!Sent("Secured"),
           at' = "tcp" /\ "Https" \in stack => Closing!Sent("Https")
    PROVE  Closing!IInv'
<1>1. /\ stack' \subseteq Closing!Layers' /\ (wire \in Seq({"data", "fin"} \cup Closing!Layers))'
      /\ Closing!ClosesInOrder' /\ \A x : Closing!Sent(x)' <=> Closing!Sent(x)
  BY Quiet DEF Closing!Layers
<1>2. /\ Closing!Sent("fin")' <=> Closing!Sent("fin")
      /\ Closing!Sent("Secured")' <=> Closing!Sent("Secured")
      /\ Closing!Sent("Https")' <=> Closing!Sent("Https")
  BY <1>1
<1>3. pc' = "open" => \A i \in DOMAIN wire' : wire'[i] = "data"
  BY DEF Closing!IInv
<1>4. Closing!Sent("fin")' => pc' = "closed"
  BY <1>2 DEF Closing!IInv
<1> HIDE DEF Closing!Sent, Closing!ClosesInOrder
<1>5. pc' = "closed" => \A l \in stack' : Closing!Sent(l)'
  BY <1>1
<1> QED BY <1>1, <1>2, <1>3, <1>4, <1>5 DEF Closing!IInv

\* The positions of a sequence that is longer by one.
LEMMA UpToLast ==
    ASSUME NEW n \in Nat, NEW i \in 1..(n + 1)
    PROVE  i \in 1..n \/ i = n + 1
OBVIOUS

\* A step that writes a record keeps it too, if that record is the next one.
LEMMA LoudStep ==
    ASSUME Closing!IInv, NEW r \in Records, wire' = Append(wire, r), stack' = stack,
           NEW n \in 0..Len(wire), Laid(n),
           \/ /\ Len(wire) - n < Len(Closing!Ending)
              /\ r = Closing!Ending[Len(wire) - n + 1]
           \/ r = "data" /\ n = Len(wire),
           at' # "parked" => pc' = "closing",
           pc' = "open" => pc = "open" /\ r = "data",
           r = "fin" => pc' = "closed",
           pc = "closed" => pc' = "closed",
           pc' = "closed" => \A l \in stack : Closing!Sent(l),
           at' \in {"Https", "tcp"} /\ "Secured" \in stack =>
                Closing!Sent("Secured") \/ r = "Secured",
           at' = "tcp" /\ "Https" \in stack => Closing!Sent("Https") \/ r = "Https"
    PROVE  Closing!IInv'
<1>1. stack \subseteq Closing!Layers /\ wire \in Seq(Records)
  BY DEF Closing!IInv, Records
<1>2. Closing!ClosesInOrder' /\ (wire \in Seq({"data", "fin"} \cup Closing!Layers))'
  BY <1>1, Extended DEF Records
<1>0. ASSUME NEW x PROVE Closing!Sent(x)' <=> Closing!Sent(x) \/ x = r
  BY <1>1, SentGrows
<1>3. /\ Closing!Sent("fin")' <=> Closing!Sent("fin") \/ r = "fin"
      /\ Closing!Sent("Secured")' <=> Closing!Sent("Secured") \/ r = "Secured"
      /\ Closing!Sent("Https")' <=> Closing!Sent("Https") \/ r = "Https"
  BY <1>0
<1>4. pc' = "open" => \A i \in DOMAIN wire' : wire'[i] = "data"
  <2>1. /\ Len(wire) \in Nat /\ DOMAIN wire = 1..Len(wire)
        /\ DOMAIN (wire') = 1..(Len(wire) + 1)
        /\ \A i \in 1..Len(wire) : wire'[i] = wire[i]
        /\ wire'[Len(wire) + 1] = r
    BY <1>1, Appended
  <2> SUFFICES ASSUME pc' = "open", NEW i \in 1..(Len(wire) + 1)
               PROVE  wire'[i] = "data"
    BY <2>1
  <2>2. pc = "open" /\ r = "data"
    OBVIOUS
  <2>3. \A j \in 1..Len(wire) : wire[j] = "data"
    BY <2>1, <2>2 DEF Closing!IInv
  <2>4. i \in 1..Len(wire) \/ i = Len(wire) + 1
    BY <2>1, UpToLast
  <2> QED BY <2>1, <2>2, <2>3, <2>4
<1>5. stack' \subseteq Closing!Layers'
  BY <1>1 DEF Closing!Layers
<1>6. Closing!Sent("fin")' => pc' = "closed"
  BY <1>3 DEF Closing!IInv
<1> HIDE DEF Closing!Sent, Closing!ClosesInOrder
<1>7. pc' = "closed" => \A l \in stack' : Closing!Sent(l)'
  BY <1>0
<1> QED BY <1>2, <1>3, <1>4, <1>5, <1>6, <1>7 DEF Closing!IInv

\* A close_notify is the next record: the layers above have said goodbye,
\* and this one has not.
LEMMA NotifyOrder ==
    ASSUME Closing!IInv, NEW l \in Closing!Layers, Closing!Notify(l)
    PROVE  Closing!IInv'
<1>1. stack \subseteq Closing!Layers /\ wire \in Seq(Records) /\ pc = "closing" /\ pc' = pc
      /\ stack' = stack /\ l \in stack /\ ~Closing!Sent(l) /\ at = l
  BY DEF Closing!IInv, Records, Closing!Notify, Closing!Layers, Closing!env
<1>2. PICK n \in 0..Len(wire) : Laid(n)
  BY <1>1, LaidOut DEF Closing!IInv
<1>3. CASE ~Closing!Room
  <2>1. at' = "parked" /\ wire' = wire
    BY <1>3 DEF Closing!Notify, Closing!NotReady
  <2> QED BY <1>1, <2>1, QuietStep
<1>4. CASE Closing!Room
  <2>1. wire' = Append(wire, l) /\ at' = Closing!Below[l]
    BY <1>4 DEF Closing!Notify
  <2> DEFINE k == Len(wire) - n
             a == IF "Secured" \in stack THEN 1 ELSE 0
             b == IF "Https" \in stack THEN 1 ELSE 0
  <2>2. /\ k \in 0..(a + b + 1)
        /\ a = 1 /\ Closing!Sent("Secured") => k >= 1
        /\ a = 1 /\ ~Closing!Sent("Secured") => k = 0
        /\ b = 1 /\ ~Closing!Sent("Https") => k <= a
    BY <1>1, <1>2, Place
  <2>3. /\ Len(Closing!Ending) = a + b + 1
        /\ a = 1 => Closing!Ending[1] = "Secured"
        /\ b = 1 => Closing!Ending[a + 1] = "Https"
    BY <1>1, EndingIs
  <2>4. CASE l = "Secured"
    <3>1. a = 1 /\ b \in {0, 1} /\ k = 0
      BY <2>2, <2>4, <1>1
    <3>2. k < Len(Closing!Ending) /\ l = Closing!Ending[k + 1]
      BY <2>3, <2>4, <3>1
    <3>3. at' = "Https"
      BY <2>1, <2>4 DEF Closing!Below
    <3> HIDE DEF a, b
    <3> QED BY <1>1, <1>2, <2>1, <2>4, <3>2, <3>3, LoudStep DEF Records, Closing!IInv
  <2>5. CASE l = "Https"
    <3>1. b = 1 /\ a \in {0, 1} /\ k <= a
      BY <2>2, <2>5, <1>1
    <3>2. a = 1 => Closing!Sent("Secured")
      BY <1>1, <2>5 DEF Closing!IInv
    <3>3. k = a
      BY <2>2, <3>1, <3>2
    <3>4. k < Len(Closing!Ending) /\ l = Closing!Ending[k + 1]
      BY <2>3, <2>5, <3>1, <3>3
    <3>5. at' = "tcp"
      BY <2>1, <2>5 DEF Closing!Below
    <3>6. "Secured" \in stack => Closing!Sent("Secured")
      BY <3>2
    <3> HIDE DEF a, b
    <3> QED BY <1>1, <1>2, <2>1, <2>5, <3>4, <3>5, <3>6, LoudStep DEF Records
  <2> QED BY <2>4, <2>5 DEF Closing!Layers
<1> QED BY <1>3, <1>4

\* So is the end of the TCP stream.
LEMMA DropOrder ==
    ASSUME Closing!IInv, Closing!Drop
    PROVE  Closing!IInv'
<1>1. stack \subseteq Closing!Layers /\ wire \in Seq(Records) /\ pc = "closed" /\ pc' = pc
      /\ stack' = stack /\ at' = "parked" /\ wire' = Append(wire, "fin") /\ ~Closing!Sent("fin")
  BY DEF Closing!IInv, Records, Closing!Drop, Closing!env
<1>2. PICK n \in 0..Len(wire) : Laid(n)
  BY <1>1, LaidOut DEF Closing!IInv
<1> DEFINE k == Len(wire) - n
           a == IF "Secured" \in stack THEN 1 ELSE 0
           b == IF "Https" \in stack THEN 1 ELSE 0
<1>3. /\ k \in 0..(a + b + 1)
      /\ a = 1 /\ Closing!Sent("Secured") => k >= 1
      /\ b = 1 /\ Closing!Sent("Https") => k >= a + 1
      /\ ~Closing!Sent("fin") => k <= a + b
  BY <1>1, <1>2, Place
<1>4. Len(Closing!Ending) = a + b + 1 /\ Closing!Ending[a + b + 1] = "fin"
  BY <1>1, EndingIs
<1>5. \A l \in stack : Closing!Sent(l)
  BY <1>1 DEF Closing!IInv
<1>6. (a = 1 => Closing!Sent("Secured")) /\ (b = 1 => Closing!Sent("Https"))
  BY <1>5
<1>7. a \in {0, 1} /\ b \in {0, 1}
  OBVIOUS
<1> HIDE DEF a, b, k
<1>8. k = a + b
  BY <1>1, <1>3, <1>6, <1>7
<1>9. k < Len(Closing!Ending) /\ "fin" = Closing!Ending[k + 1]
  BY <1>4, <1>7, <1>8
<1>10. "fin" \in Records /\ at' # "Https" /\ at' # "tcp"
  BY <1>1 DEF Records
<1> QED BY <1>1, <1>2, <1>5, <1>9, <1>10, LoudStep DEF k

\* Data is written before shutdown is called.
LEMMA WriteOrder ==
    ASSUME Closing!IInv, Closing!Write
    PROVE  Closing!IInv'
<1>1. stack \subseteq Closing!Layers /\ wire \in Seq(Records) /\ pc = "open" /\ pc' = pc
      /\ stack' = stack /\ at' = "parked" /\ wire' = Append(wire, "data")
      /\ "data" \in Records
  BY DEF Closing!IInv, Records, Closing!Write, Closing!env
<1>2. Laid(Len(wire)) /\ Len(wire) \in 0..Len(wire)
  <2>1. Len(wire) \in Nat /\ DOMAIN wire = 1..Len(wire)
    BY <1>1
  <2>2. Len(wire) - Len(wire) = 0 /\ Len(wire) \in 0..Len(wire)
    BY <2>1
  <2>3. Len(Closing!Ending) >= 0
    BY <1>1, EndingIs
  <2>4. \A i \in 1..Len(wire) : wire[i] = "data"
    BY <1>1, <2>1 DEF Closing!IInv
  <2> QED BY <2>2, <2>3, <2>4 DEF Laid
<1> QED BY <1>1, <1>2, LoudStep

\* Every step of Streams keeps its invariant.
LEMMA StepOrder ==
    Closing!IInv /\ [Closing!Next]_Closing!vars => Closing!IInv'
<1> SUFFICES ASSUME Closing!IInv, [Closing!Next]_Closing!vars PROVE Closing!IInv'
  OBVIOUS
<1>1. CASE Closing!Write
  BY <1>1, WriteOrder
<1>2. CASE Closing!Close
  <2>1. UNCHANGED <<stack, wire, at>> /\ pc = "open" /\ pc' = "closing"
    BY <1>2 DEF Closing!Close, Closing!env
  <2> QED BY <2>1, QuietStep DEF Closing!IInv
<1>3. CASE Closing!BeginPoll
  <2>1. UNCHANGED <<stack, wire, pc>> /\ pc = "closing" /\ at' = "Secured"
    BY <1>3 DEF Closing!BeginPoll, Closing!env
  <2> QED BY <2>1, QuietStep
<1>4. CASE Closing!Poll
  <2>1. ASSUME NEW l \in Closing!Layers, Closing!PassOn(l) PROVE Closing!IInv'
    <3>1. UNCHANGED <<stack, wire, pc>> /\ at = l /\ l \notin stack /\ at' = Closing!Below[l]
      BY <2>1 DEF Closing!PassOn, Closing!env
    <3>2. pc' = "closing"
      BY <3>1 DEF Closing!IInv, Closing!Layers
    <3>3. CASE l = "Secured"
      <4>1. at' = "Https"
        BY <3>1, <3>3 DEF Closing!Below
      <4> QED BY <3>1, <3>2, <3>3, <4>1, QuietStep
    <3>4. CASE l = "Https"
      <4>1. at' = "tcp"
        BY <3>1, <3>4 DEF Closing!Below
      <4>2. "Secured" \in stack => Closing!Sent("Secured")
        BY <3>1, <3>4 DEF Closing!IInv
      <4> QED BY <3>1, <3>2, <3>4, <4>1, <4>2, QuietStep
    <3> QED BY <3>3, <3>4 DEF Closing!Layers
  <2>2. ASSUME NEW l \in Closing!Layers, Closing!Notify(l) PROVE Closing!IInv'
    BY <2>2, NotifyOrder
  <2>3. ASSUME NEW l \in Closing!Layers, Closing!NotifyAgain(l) PROVE Closing!IInv'
    <3>1. /\ UNCHANGED <<stack, wire, pc>> /\ at = l /\ Closing!Sent(l)
          /\ at' = Closing!Below[l] \/ at' = "parked"
      BY <2>3 DEF Closing!NotifyAgain, Closing!NotReady, Closing!env
    <3>2. pc' = "closing"
      BY <3>1 DEF Closing!IInv, Closing!Layers
    <3>3. CASE at' = "parked"
      BY <3>1, <3>2, <3>3, QuietStep
    <3>4. CASE l = "Secured" /\ at' # "parked"
      <4>1. at' = "Https"
        BY <3>1, <3>4 DEF Closing!Below
      <4> QED BY <3>1, <3>2, <3>4, <4>1, QuietStep
    <3>5. CASE l = "Https" /\ at' # "parked"
      <4>1. at' = "tcp"
        BY <3>1, <3>5 DEF Closing!Below
      <4>2. "Secured" \in stack => Closing!Sent("Secured")
        BY <3>1, <3>5 DEF Closing!IInv
      <4> QED BY <3>1, <3>2, <3>5, <4>1, <4>2, QuietStep
    <3> QED BY <3>3, <3>4, <3>5 DEF Closing!Layers
  <2>4. ASSUME NEW l \in Closing!Layers, Closing!NotifyFails(l) PROVE Closing!IInv'
    <3>1. UNCHANGED <<stack, wire>> /\ at = l /\ at' = "parked" /\ pc' = "failed"
      BY <2>4 DEF Closing!NotifyFails, Closing!env
    <3>2. pc = "closing"
      BY <3>1 DEF Closing!IInv, Closing!Layers
    <3> QED BY <3>1, <3>2, QuietStep
  <2>5. CASE Closing!ShutdownTcp
    <3>1. UNCHANGED <<stack, wire>> /\ at = "tcp" /\ at' = "parked" /\ pc' = "closed"
      BY <2>5 DEF Closing!ShutdownTcp, Closing!env
    <3>2. pc = "closing" /\ \A l \in stack : Closing!Sent(l)
      <4>1. pc = "closing" /\ stack \subseteq {"Secured", "Https"}
            /\ ("Secured" \in stack => Closing!Sent("Secured"))
            /\ ("Https" \in stack => Closing!Sent("Https"))
        BY <3>1 DEF Closing!IInv, Closing!Layers
      <4> HIDE DEF Closing!Sent
      <4> QED BY <4>1
    <3> QED BY <3>1, <3>2, QuietStep
  <2> QED BY <1>4, <2>1, <2>2, <2>3, <2>4, <2>5 DEF Closing!Poll
<1>5. CASE UNCHANGED <<stack, wire, at, pc>>
  BY <1>5, QuietStep DEF Closing!IInv
<1>6. CASE Closing!PeerReads \/ Closing!Reset \/ Closing!SpuriousWake
             \/ (\E l \in Closing!Layers : Closing!PeerAnswers(l))
             \/ Closing!Done \/ UNCHANGED Closing!vars
  <2>1. UNCHANGED <<stack, wire, at, pc>>
    BY <1>6 DEF Closing!PeerReads, Closing!Reset, Closing!SpuriousWake,
                Closing!PeerAnswers, Closing!Done, Closing!vars, Closing!env
  <2> QED BY <1>5, <2>1
<1> QED BY <1>1, <1>2, <1>3, <1>4, <1>6, DropOrder DEF Closing!Next

\* The invariant holds before anything is written.
LEMMA InitOrder == Closing!Init => Closing!IInv
<1> SUFFICES ASSUME Closing!Init PROVE Closing!IInv
  OBVIOUS
<1>1. stack \subseteq Closing!Layers /\ wire = <<>> /\ wire \in Seq(Records) /\ at = "parked"
      /\ pc = "open"
  BY DEF Closing!Init
<1>2. Laid(0) /\ 0 \in 0..Len(wire)
  <2>1. Len(wire) = 0 /\ Len(Closing!Ending) >= 0
    BY <1>1, EndingIs
  <2> QED BY <2>1 DEF Laid
<1>3. Closing!ClosesInOrder
  BY <1>1, <1>2, LaidOut
<1>4. ~Closing!Sent("fin")
  BY <1>1 DEF Closing!Sent
<1> QED BY <1>1, <1>3, <1>4 DEF Closing!IInv, Records

\* However often shutdown is called again, the goodbyes of the layers follow
\* the data once each, from the outermost in, and the end of the stream
\* follows them.
THEOREM Closes == Closing!Spec => []ClosesInOrder
<1>1. Closing!IInv => ClosesInOrder
  <2>1. ASSUME NEW s, NEW t PROVE Closing!IsPrefix(s, t) <=> IsPrefix(s, t)
    BY DEF Closing!IsPrefix, IsPrefix
  <2>2. Closing!Ending = Ending
    BY DEF Closing!Ending, Ending, Closing!Stacked, Stacked
  <2> QED BY <2>1, <2>2 DEF Closing!IInv, Closing!ClosesInOrder, ClosesInOrder
<1> QED BY <1>1, InitOrder, StepOrder, PTL DEF Closing!Spec

\* What the wakeups need: what the library may do, and that only layers of TLS
\* say goodbye.
Goodbyes ==
    /\ library \in {"oneway", "twoway"}
    /\ \A l \in Closing!Layers : Closing!Sent(l) => l \in stack

\* Every step keeps that.
LEMMA StepGoodbyes ==
    Closing!IInv /\ Goodbyes /\ [Closing!Next]_Closing!vars => Goodbyes'
<1> SUFFICES ASSUME Closing!IInv, Goodbyes, [Closing!Next]_Closing!vars PROVE Goodbyes'
  OBVIOUS
<1>1. wire \in Seq(Records) /\ Closing!Layers = {"Secured", "Https"}
  BY DEF Closing!IInv, Records, Closing!Layers
<1>2. ASSUME NEW r \in Records, wire' = Append(wire, r), r \in Closing!Layers => r \in stack,
             UNCHANGED <<library, stack>>
      PROVE  Goodbyes'
  <2>1. ASSUME NEW x PROVE Closing!Sent(x)' <=> Closing!Sent(x) \/ x = r
    BY <1>1, <1>2, SentGrows
  <2>2. ASSUME NEW l \in Closing!Layers, Closing!Sent(l)' PROVE l \in stack'
    BY <1>2, <2>1, <2>2 DEF Goodbyes
  <2>3. Closing!Layers' = Closing!Layers
    BY DEF Closing!Layers
  <2> HIDE DEF Closing!Sent
  <2> QED BY <1>2, <2>2, <2>3 DEF Goodbyes
<1>3. ASSUME UNCHANGED <<library, stack, wire>> PROVE Goodbyes'
  BY <1>3 DEF Goodbyes, Closing!Sent, Closing!Layers
<1>4. UNCHANGED <<library, stack>>
  BY DEF Closing!Next, Closing!Poll, Closing!Write, Closing!Close, Closing!BeginPoll,
         Closing!PassOn, Closing!Notify, Closing!NotifyAgain, Closing!NotifyFails,
         Closing!ShutdownTcp, Closing!Drop, Closing!PeerReads, Closing!PeerAnswers, Closing!Reset,
         Closing!SpuriousWake, Closing!Done, Closing!vars, Closing!env
<1>5. CASE Closing!Write
  <2>1. wire' = Append(wire, "data") /\ "data" \in Records /\ "data" \notin Closing!Layers
    BY <1>1, <1>5 DEF Closing!Write, Records
  <2> QED BY <1>2, <1>4, <2>1
<1>6. CASE Closing!Drop
  <2>1. wire' = Append(wire, "fin") /\ "fin" \in Records /\ "fin" \notin Closing!Layers
    BY <1>1, <1>6 DEF Closing!Drop, Records
  <2> QED BY <1>2, <1>4, <2>1
<1>7. ASSUME NEW l \in Closing!Layers, Closing!Notify(l) PROVE Goodbyes'
  <2>1. (wire' = Append(wire, l) \/ wire' = wire) /\ l \in Records /\ l \in stack
    BY <1>7 DEF Closing!Notify, Records
  <2> QED BY <1>2, <1>3, <1>4, <2>1
<1>8. CASE wire' = wire
  BY <1>3, <1>4, <1>8
<1> QED
  BY <1>5, <1>6, <1>7, <1>8
  DEF Closing!Next, Closing!Poll, Closing!Close, Closing!BeginPoll, Closing!PassOn,
      Closing!NotifyAgain, Closing!NotifyFails, Closing!ShutdownTcp, Closing!PeerReads,
      Closing!PeerAnswers, Closing!Reset, Closing!SpuriousWake, Closing!Done, Closing!vars

\* Every step keeps the wakeups of shutdown.
LEMMA StepShutdownWakes ==
    ASSUME Closing!IInv, Goodbyes, Closing!NoLostWakeup, [Closing!Next]_Closing!vars
    PROVE  Closing!NoLostWakeup'
<1> USE DEF Closing!env
<1>0. Closing!Layers = {"Secured", "Https"}
  BY DEF Closing!Layers
<1>1. ASSUME pc' # "closing" \/ at' # "parked" \/ task' = "notified"
      PROVE  Closing!NoLostWakeup'
  BY <1>1 DEF Closing!NoLostWakeup
<1>2. CASE Closing!Write \/ Closing!Close \/ Closing!BeginPoll \/ Closing!ShutdownTcp
             \/ Closing!Drop \/ Closing!SpuriousWake
  BY <1>1, <1>2 DEF Closing!Write, Closing!Close, Closing!BeginPoll, Closing!ShutdownTcp,
                    Closing!Drop, Closing!SpuriousWake
<1>3. ASSUME NEW l \in Closing!Layers, Closing!PassOn(l) \/ Closing!NotifyFails(l)
      PROVE  Closing!NoLostWakeup'
  BY <1>0, <1>1, <1>3 DEF Closing!PassOn, Closing!NotifyFails, Closing!Below
<1>4. ASSUME NEW l \in Closing!Layers, Closing!Notify(l) PROVE Closing!NoLostWakeup'
  <2>1. CASE Closing!Room
    BY <1>0, <1>1, <1>4, <2>1 DEF Closing!Notify, Closing!Below
  <2>2. CASE ~Closing!Room
    <3>1. "write" \in waits' /\ conn' = "up" /\ UNCHANGED <<wire, taken>>
      BY <1>4, <2>2 DEF Closing!Notify, Closing!NotReady
    <3>2. ~Closing!Room'
      BY <2>2, <3>1 DEF Closing!Room
    <3> QED BY <3>1, <3>2 DEF Closing!NoLostWakeup
  <2> QED BY <2>1, <2>2
<1>5. ASSUME NEW l \in Closing!Layers, Closing!NotifyAgain(l) PROVE Closing!NoLostWakeup'
  <2>1. CASE library = "oneway" \/ l \in answered
    BY <1>0, <1>1, <1>5, <2>1 DEF Closing!NotifyAgain, Closing!Below
  <2>2. CASE ~(library = "oneway" \/ l \in answered)
    <3>1. /\ "read" \in waits' /\ conn' = "up" /\ library' = "twoway"
          /\ l \in stack' \ answered' /\ wire' = wire
      BY <1>5, <2>2 DEF Closing!NotifyAgain, Closing!NotReady, Goodbyes
    <3>2. Closing!Sent(l)'
      BY <1>5, <3>1 DEF Closing!NotifyAgain, Closing!Sent
    <3> HIDE DEF Closing!Sent
    <3> QED BY <3>1, <3>2 DEF Closing!NoLostWakeup
  <2> QED BY <2>1, <2>2
<1>6. ASSUME UNCHANGED <<stack, wire>> PROVE \A l : Closing!Sent(l)' <=> Closing!Sent(l)
  BY <1>6 DEF Closing!Sent
<1>7. CASE Closing!PeerReads
  <2>1. /\ UNCHANGED <<stack, library, pc, at, wire, answered, conn>>
        /\ "write" \in waits => task' = "notified"
        /\ task = "notified" => task' = "notified"
        /\ task' = "idle" => task = "idle"
        /\ "read" \in waits => "read" \in waits'
    BY <1>7 DEF Closing!PeerReads, Closing!Wake
  <2> HIDE DEF Closing!Sent
  <2> QED BY <1>6, <2>1 DEF Closing!NoLostWakeup
<1>8. ASSUME NEW l \in Closing!Layers, Closing!PeerAnswers(l) PROVE Closing!NoLostWakeup'
  <2>1. /\ UNCHANGED <<stack, library, pc, at, wire, taken, conn>>
        /\ "read" \in waits => task' = "notified"
        /\ task' = "idle" => task = "idle"
        /\ "write" \in waits => "write" \in waits'
    BY <1>8 DEF Closing!PeerAnswers, Closing!Wake
  <2>2. Closing!Room' <=> Closing!Room
    BY <2>1 DEF Closing!Room
  <2> HIDE DEF Closing!Sent, Closing!Room
  <2> QED BY <2>1, <2>2 DEF Closing!NoLostWakeup
<1>9. CASE Closing!Reset
  <2>1. /\ UNCHANGED <<pc, at>> /\ (task' = "idle" => task = "idle")
        /\ "read" \in waits \/ "write" \in waits => task' = "notified"
    BY <1>9 DEF Closing!Reset, Closing!Wake
  <2> HIDE DEF Closing!Sent, Closing!Room
  <2> QED BY <2>1 DEF Closing!NoLostWakeup
<1>10. CASE Closing!Done \/ UNCHANGED Closing!vars
  <2>1. UNCHANGED Closing!vars
    BY <1>10 DEF Closing!Done
  <2>2. Closing!Room' <=> Closing!Room
    BY <2>1 DEF Closing!Room, Closing!vars
  <2> HIDE DEF Closing!Sent, Closing!Room
  <2> QED BY <1>6, <2>1, <2>2 DEF Closing!NoLostWakeup, Closing!vars
<1> QED
  BY <1>2, <1>3, <1>4, <1>5, <1>7, <1>8, <1>9, <1>10 DEF Closing!Next, Closing!Poll

\* shutdown never loses a wakeup: a task that waits for it sleeps only while
\* its record finds no room or an answer is due, with its waker held for that.
THEOREM ShutdownWakes == Closing!Spec => []Closing!NoLostWakeup
<1>1. Closing!Init => Goodbyes /\ Closing!NoLostWakeup
  BY DEF Closing!Init, Goodbyes, Closing!NoLostWakeup, Closing!Sent
<1>2. Closing!IInv /\ Goodbyes /\ Closing!NoLostWakeup /\ [Closing!Next]_Closing!vars
         => Closing!NoLostWakeup'
  BY StepShutdownWakes
<1> QED BY <1>1, <1>2, StepGoodbyes, InitOrder, StepOrder, PTL DEF Closing!Spec
=============================================================================
