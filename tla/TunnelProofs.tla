---------------------------- MODULE TunnelProofs ----------------------------
(***************************************************************************)
(* Proofs of the safety properties of Tunnel, for all lengths of requests  *)
(* and replies, and of what its end rests on: someone can move, and no     *)
(* step can be repeated for ever.                                          *)
(***************************************************************************)
EXTENDS Tunnel, TLAPS

\* The arithmetic in the types of the reply and the counters.
Shaped ==
    /\ reply.total \in Nat /\ reply.total <= MaxReply
    /\ \A b \in reply.blanks : b \in Nat /\ StatusLen < b /\ b <= reply.total
    /\ len \in Nat /\ sent \in Nat /\ pos \in Nat
    /\ StatusLen \in Nat /\ RequestLen \in Nat /\ MaxReply \in Nat

\* TypeOK gives the provers that arithmetic.
LEMMA Shapes == TypeOK => Shaped
<1> SUFFICES ASSUME TypeOK PROVE Shaped
  BY DEF Shaped
<1>1. len \in Nat /\ sent \in Nat /\ pos \in Nat
  BY LengthsAssumption DEF TypeOK
<1>2. reply \in Replies
  BY DEF TypeOK
<1>3. reply.total \in Nat /\ reply.total <= MaxReply
  BY <1>2, LengthsAssumption DEF Replies
<1>4. \A b \in reply.blanks : b \in Nat /\ StatusLen < b /\ b <= reply.total
  BY <1>2, LengthsAssumption DEF Replies
<1> QED
  BY <1>1, <1>3, <1>4, LengthsAssumption DEF Shaped

\* A number below a bounded one is bounded.
LEMMA Below == \A i, j, k \in Nat : i <= j /\ j <= k => i \in 0..k
OBVIOUS

\* The bounds on what was read and sent, for numbers alone.
LEMMA Sent == TypeOK /\ IInv => /\ len \in Nat /\ sent \in Nat /\ MaxReply \in Nat
                              /\ len <= sent /\ sent <= MaxReply
BY Shapes DEF Shaped, IInv, Stream

\* A future that was just made satisfies the invariant.
LEMMA InitInv == Init => TypeOK /\ IInv
<1> SUFFICES ASSUME Init PROVE TypeOK /\ IInv
  OBVIOUS
<1>1. TypeOK
  BY LengthsAssumption DEF Init, TypeOK, States, Causes, ProxyStates
<1>2. Stream
  BY <1>1, Shapes DEF Shaped, Init, Stream
<1>3. Progress
  BY <1>1, Shapes DEF Shaped, Init, Progress
<1> QED
  BY <1>1, <1>2, <1>3 DEF Init, IInv, EstablishedIsComplete, FailureIsHonest

\* Writing the request: nothing was read yet, and position 0 ends no blank line.
LEMMA WriteInv ==
    ASSUME TypeOK, IInv, NEW n \in 1..RequestLen, Write(n)
    PROVE  TypeOK' /\ IInv'
<1>1. TypeOK'
  <2>1. pos' \in 0..RequestLen /\ state' \in States
    BY Shapes DEF Shaped, Write, States
  <2> QED
    BY <2>1 DEF Write, TypeOK
<1>2. Stream'
  BY DEF Write, IInv, Stream
<1>3. Progress'
  BY Shapes DEF Shaped, Write, IInv, Progress
<1>4. state' # "Ok" /\ cause' = "none"
  BY DEF Write, IInv, Progress
<1> QED
  BY <1>1, <1>2, <1>3, <1>4 DEF IInv, EstablishedIsComplete, FailureIsHonest

\* Why a future may fail: it was refused, or the proxy closed the connection,
\* and then not after a 200 reply that poll has read to its only blank line.
LEMMA FailInv ==
    ASSUME TypeOK, IInv, NEW why, Fail(why),
           why \in Causes,
           why = "unsuccessful" => reply.status = "other",
           why # "unsuccessful" => Closed,
           why = "eof reading" => state = "Reading" /\ len = sent,
           len' \in Nat, len <= len', len' <= sent, UNCHANGED <<reply, pos, sent, proxy>>
    PROVE  TypeOK' /\ IInv'
<1>1. TypeOK'
  <2>1. state' \in States /\ cause' \in Causes
    BY DEF Fail, States
  <2>2. /\ sent \in Nat /\ MaxReply \in Nat /\ sent <= MaxReply
    BY Sent
  <2>3. len' \in 0..MaxReply
    BY <2>2, Below
  <2> QED
    BY <2>1, <2>3 DEF TypeOK
<1>2. Stream'
  BY DEF IInv, Stream
<1>3. Progress'
  BY DEF Fail, Progress
<1>4. EstablishedIsComplete'
  BY DEF Fail, EstablishedIsComplete
<1>5. why = "eof reading" => ~(OnlyHead /\ reply.status = "200")
  BY Shapes DEF Shaped, IInv, Stream, Progress, OnlyHead, Closed
<1>6. FailureIsHonest'
  BY <1>5 DEF Fail, FailureIsHonest, OnlyHead, Closed
<1> QED
  BY <1>1, <1>2, <1>3, <1>4, <1>6 DEF IInv

\* Reading the reply: by the verdict on what was read so far.
LEMMA ReadInv ==
    ASSUME TypeOK, IInv, NEW n \in 1..MaxReply, Read(n)
    PROVE  TypeOK' /\ IInv'
<1>1. /\ state = "Reading" /\ len' = len + n /\ len + n <= sent /\ n \in Nat
      /\ UNCHANGED <<reply, pos, sent, proxy>>
  BY LengthsAssumption DEF Read
<1>2. len' \in Nat /\ len <= len' /\ len' <= sent /\ len' \in 0..MaxReply
  BY <1>1, Shapes DEF Shaped, IInv, Stream
<1>3. Stream' /\ pos = RequestLen /\ cause = "none"
  BY <1>1, <1>2, Shapes DEF Shaped, IInv, Stream, Progress
<1>4. CASE Verdict(len + n) = "more" /\ UNCHANGED <<state, cause>>
  <2>1. TypeOK'
    BY <1>1, <1>2, <1>4 DEF TypeOK
  <2>2. reply.status = "200" => len + n \notin reply.blanks
    BY <1>1, <1>4, Shapes DEF Shaped, Verdict
  <2>3. Progress'
    BY <1>1, <1>3, <1>4, <2>2 DEF Progress
  <2> QED
    BY <1>1, <1>3, <1>4, <2>1, <2>3 DEF IInv, EstablishedIsComplete, FailureIsHonest
<1>5. CASE Verdict(len + n) = "refused" /\ Fail("unsuccessful")
  <2>1. reply.status = "other"
    BY <1>5 DEF Verdict, TypeOK, Replies
  <2>2. "unsuccessful" \in Causes
    BY DEF Causes
  <2> QED
    BY <1>1, <1>2, <1>5, <2>1, <2>2, FailInv
<1>6. CASE Verdict(len + n) = "established" /\ state' = "Ok" /\ UNCHANGED cause
  <2>1. TypeOK'
    BY <1>1, <1>2, <1>6 DEF TypeOK, States
  <2>2. reply.status = "200" /\ len + n \in reply.blanks
    BY <1>6 DEF Verdict
  <2>3. Progress'
    BY <1>1, <1>3, <1>6 DEF Progress
  <2>4. EstablishedIsComplete'
    BY <1>1, <1>3, <1>6, <2>2, Shapes DEF Shaped, EstablishedIsComplete, OnlyHead
  <2> QED
    BY <1>1, <1>3, <1>6, <2>1, <2>3, <2>4 DEF IInv, FailureIsHonest
<1> QED
  BY <1>4, <1>5, <1>6 DEF Read

\* The proxy's steps leave the future alone.
LEMMA ProxyInv ==
    ASSUME TypeOK, IInv, ProxyStep
    PROVE  TypeOK' /\ IInv'
<1>1. UNCHANGED <<reply, state, cause, pos, len>>
  BY DEF ProxyStep, ProxySends, ProxyEnds
<1>2. Stream' /\ sent' \in Nat
  BY Shapes DEF Shaped, ProxyStep, ProxySends, ProxyEnds, IInv, Stream
<1>6. proxy' \in ProxyStates
  BY DEF ProxyStep, ProxySends, ProxyEnds, TypeOK, ProxyStates
<1>7. TypeOK'
  BY <1>1, <1>2, <1>6, Shapes DEF Shaped, TypeOK, Stream
<1>3. Closed => Closed'
  BY DEF ProxyStep, ProxySends, ProxyEnds, Closed
<1>4. Progress' /\ EstablishedIsComplete'
  BY <1>1 DEF IInv, Progress, EstablishedIsComplete, OnlyHead
<1>5. FailureIsHonest'
  BY <1>1, <1>3 DEF IInv, FailureIsHonest, OnlyHead
<1> QED
  BY <1>2, <1>4, <1>5, <1>7 DEF IInv

\* Every step preserves the invariant.
LEMMA NextInv == TypeOK /\ IInv /\ [Next]_vars => TypeOK' /\ IInv'
<1> SUFFICES ASSUME TypeOK, IInv, [Next]_vars PROVE TypeOK' /\ IInv'
  OBVIOUS
<1>1. CASE \E n \in 1..RequestLen : Write(n)
  BY <1>1, WriteInv
<1>2. CASE WriteFails
  <2>1. len' = len
    BY <1>2 DEF WriteFails
  <2>2. len' \in Nat /\ len <= len' /\ len' <= sent
    BY <2>1, Sent
  <2>3. PICK why \in {"eof writing", "io"} : Fail(why)
    BY <1>2 DEF WriteFails
  <2>4. why \in Causes /\ why # "unsuccessful" /\ why # "eof reading"
    BY DEF Causes
  <2> QED
    BY <1>2, <2>2, <2>3, <2>4, FailInv DEF WriteFails
<1>3. CASE \E n \in 1..MaxReply : Read(n)
  BY <1>3, ReadInv
<1>4. CASE ReadEof
  <2>1. len' \in Nat /\ len <= len' /\ len' <= sent
    BY <1>4, Shapes DEF Shaped, ReadEof, IInv, Stream
  <2>2. "eof reading" \in Causes
    BY DEF Causes
  <2> QED
    BY <1>4, <2>1, <2>2, FailInv DEF ReadEof
<1>5. CASE ReadFails
  <2>1. len' \in Nat /\ len <= len' /\ len' <= sent
    BY <1>5, Shapes DEF Shaped, ReadFails, IInv, Stream
  <2>2. "io" \in Causes
    BY DEF Causes
  <2> QED
    BY <1>5, <2>1, <2>2, FailInv DEF ReadFails
<1>6. CASE ProxyStep
  BY <1>6, ProxyInv
<1>7. CASE UNCHANGED vars
  BY <1>7 DEF vars, TypeOK, IInv, Stream, Progress, EstablishedIsComplete,
              FailureIsHonest, OnlyHead, Closed
<1> QED
  BY <1>1, <1>2, <1>3, <1>4, <1>5, <1>6, <1>7 DEF Next, Poll, Done

\* The invariant of Tunnel::poll holds in every behaviour.
THEOREM Inductive == Spec => [](TypeOK /\ IInv)
BY InitInv, NextInv, PTL DEF Spec

\* Every variable of a tunnel keeps its type (TypeOK).
THEOREM TypeCorrect == Spec => []TypeOK
BY Inductive, PTL

\* A tunnel is handed out only after the whole request was written and the
\* whole head of a 200 reply was read (EstablishedIsComplete).
THEOREM Complete == Spec => []EstablishedIsComplete
<1>1. IInv => EstablishedIsComplete
  BY DEF IInv
<1> QED
  BY <1>1, Inductive, PTL

\* poll fails only when the proxy refused or closed the connection, and never
\* reports the end of the stream after a complete 200 reply (FailureIsHonest).
THEOREM Honest == Spec => []FailureIsHonest
<1>1. IInv => FailureIsHonest
  BY DEF IInv
<1> QED
  BY <1>1, Inductive, PTL

\* The request is not all written before poll begins to read, and poll does
\* not go on reading after a status that is not 200.
LEMMA StepUndecided == TypeOK /\ IInv /\ Undecided /\ [Next]_vars => Undecided'
<1> SUFFICES ASSUME TypeOK, IInv, Undecided, [Next]_vars PROVE Undecided'
  OBVIOUS
<1>1. CASE UNCHANGED vars
  BY <1>1 DEF vars, Undecided
<1>2. ASSUME NEW n \in 1..RequestLen, Write(n) PROVE Undecided'
  BY <1>2, Shapes DEF Shaped, Write, IInv, Progress, Undecided
<1>3. CASE WriteFails \/ ReadEof \/ ReadFails
  BY <1>3 DEF WriteFails, ReadEof, ReadFails, Fail, Undecided
<1>4. ASSUME NEW n \in 1..MaxReply, Read(n) PROVE Undecided'
  <2>1. state' = "Reading" => Verdict(len + n) = "more"
    BY <1>4 DEF Read, Fail
  <2>2. Verdict(len + n) = "more" /\ reply.status = "other" => len + n <= StatusLen
    BY Shapes DEF Verdict, Shaped
  <2>3. state' # "Writing" /\ len' = len + n /\ reply' = reply
    BY <1>4 DEF Read, Fail
  <2> QED BY <2>1, <2>2, <2>3 DEF Undecided
<1>5. CASE ProxyStep
  BY <1>5 DEF ProxyStep, ProxySends, ProxyEnds, Undecided
<1> QED
  BY <1>1, <1>2, <1>3, <1>4, <1>5 DEF Next, Poll, Done

\* A future that is not decided can move, or the proxy can, unless the proxy
\* keeps the connection after a reply that decides nothing.
LEMMA SomeoneMoves == TypeOK /\ IInv /\ Undecided => NoStandoff
<1> SUFFICES ASSUME TypeOK, IInv, Undecided, state = "Reading",
                    len >= sent, ~Closed, proxy # "sending"
             PROVE  ~(\/ reply.ending # "open"
                      \/ reply.status = "other" /\ StatusLen < reply.total
                      \/ reply.status = "200" /\ OnlyHead)
  BY Shapes DEF NoStandoff, PollCanMove, Shaped
<1>1. proxy = "ended" /\ reply.ending = "open"
  BY DEF TypeOK, ProxyStates, Closed
<1>2. len = reply.total
  BY <1>1, Shapes DEF Shaped, IInv, Stream
<1>3. reply.status = "200" => ~OnlyHead
  BY <1>2 DEF IInv, Progress, OnlyHead
<1>4. reply.status = "other" => ~(StatusLen < reply.total)
  BY <1>2, Shapes DEF Shaped, Undecided
<1> QED BY <1>1, <1>3, <1>4

\* Tunnel::poll and the proxy never wait for each other as long as a reply
\* that will decide the future is not complete (NoStandoff).
THEOREM NeverStuck == Spec => []NoStandoff
<1>1. Init => Undecided
  BY LengthsAssumption DEF Init, Undecided
<1> QED
  BY <1>1, StepUndecided, SomeoneMoves, Inductive, PTL DEF Spec

\* Left counts down to 0.
LEMMA LeftNat == TypeOK /\ IInv => Left \in Nat
<1> SUFFICES ASSUME TypeOK, IInv PROVE Left \in Nat
  OBVIOUS
<1>1. RequestLen - pos \in Nat /\ reply.total - sent \in Nat /\ reply.total - len \in Nat
  BY Shapes, LengthsAssumption DEF Shaped, TypeOK, IInv, Stream
<1> QED BY <1>1 DEF Left

\* Every step takes something off what is left.
LEMMA StepAdvances == TypeOK /\ IInv /\ Next => Left' < Left \/ UNCHANGED vars
<1> SUFFICES ASSUME TypeOK, IInv, Next, ~UNCHANGED vars PROVE Left' < Left
  OBVIOUS
<1>0. /\ reply.total \in Nat /\ sent \in Nat /\ len \in Nat /\ pos \in Nat
      /\ RequestLen \in Nat
  BY Shapes DEF Shaped
<1>1. ASSUME NEW n \in 1..RequestLen, Write(n) PROVE Left' < Left
  <2>1. n \in Nat /\ n >= 1 /\ pos' = pos + n /\ state' \in {"Writing", "Reading"}
        /\ state = "Writing" /\ UNCHANGED <<reply, len, sent, proxy>>
    BY <1>0, <1>1 DEF Write
  <2> QED BY <1>0, <2>1 DEF Left
<1>2. CASE WriteFails \/ ReadEof \/ ReadFails
  <2>1. /\ state \in {"Writing", "Reading"} /\ state' = "Err"
        /\ UNCHANGED <<reply, pos, len, sent, proxy>>
    BY <1>2 DEF WriteFails, ReadEof, ReadFails, Fail
  <2> QED BY <1>0, <2>1 DEF Left
<1>3. ASSUME NEW n \in 1..MaxReply, Read(n) PROVE Left' < Left
  <2>1. n \in Nat /\ n >= 1 /\ len' = len + n /\ state = "Reading"
        /\ UNCHANGED <<reply, pos, sent, proxy>>
    BY <1>3, LengthsAssumption DEF Read
  <2> QED BY <1>0, <2>1 DEF Left
<1>4. ASSUME NEW n \in 1..MaxReply, ProxySends(n) PROVE Left' < Left
  <2>1. n \in Nat /\ n >= 1 /\ sent' = sent + n
        /\ UNCHANGED <<reply, state, pos, len, proxy>>
    BY <1>4, LengthsAssumption DEF ProxySends
  <2> QED BY <1>0, <2>1 DEF Left
<1>5. CASE ProxyEnds
  <2>1. proxy = "sending" /\ proxy' = "ended" /\ UNCHANGED <<reply, state, pos, len, sent>>
    BY <1>5 DEF ProxyEnds
  <2> QED BY <1>0, <2>1 DEF Left
<1> QED
  BY <1>1, <1>2, <1>3, <1>4, <1>5 DEF Next, Poll, ProxyStep, Done

\* However the request and the reply are cut up, the future and the proxy
\* take finitely many steps, at most Left of them (Advances).
THEOREM Finite == Spec => Advances
<1>1. TypeOK /\ IInv /\ [Next]_vars => [(Left \in Nat) /\ Left' < Left]_vars
  BY LeftNat, StepAdvances
<1> QED
  BY <1>1, Inductive, PTL DEF Spec, Advances
=============================================================================
