--------------------------- MODULE ExchangeProofs ---------------------------
(***************************************************************************)
(* Proofs about Exchange, for every size of the buffers, the request and   *)
(* the reply: types, IInv, the properties of the Body that follow, and     *)
(* that the client and its peer do not wait for each other.                *)
(***************************************************************************)
EXTENDS Exchange, TLAPS

(* What a reply's fields are.                                              *)
LEMMA ReplyFields ==
    ASSUME TypeOK
    PROVE  /\ reply.total \in Nat /\ reply.head \in Nat /\ reply.max \in Nat
           /\ reply.head >= 1
           /\ reply.parse \in {"ok", "error", "panic"}
           /\ reply.length \in {"Some", "None"}
           /\ item.lo \in Nat /\ item.hi \in Nat
  BY SizesAssumption DEF TypeOK, Replies

(* Every initial state is well typed and satisfies IInv.                   *)
LEMMA InitInv == Init => TypeOK /\ IInv
<1> SUFFICES ASSUME Init PROVE TypeOK /\ IInv
  OBVIOUS
<1>1. TypeOK
  BY DEF Init, TypeOK
<1>2. IInv
  BY <1>1, ReplyFields, SizesAssumption
  DEF Init, IInv, Stream, Reading, Counting, EndIsWhole, PanicOnlyOnExcess,
      BrokenIsHonest
<1> QED BY <1>1, <1>2

(* One step keeps every variable's type.                                   *)
LEMMA StepType == TypeOK /\ [Next]_vars => TypeOK'
<1> SUFFICES ASSUME TypeOK, [Next]_vars PROVE TypeOK'
  OBVIOUS
<1> USE ReplyFields DEF TypeOK, client, body, server
<1>1. CASE UNCHANGED vars
  BY <1>1 DEF vars
<1>2. CASE Connect
  BY <1>2, SizesAssumption DEF Connect, Fail
<1>3. ASSUME NEW n \in 1..MaxRequest, Write(n) PROVE TypeOK'
  BY <1>3, SizesAssumption DEF Write
<1>4. CASE WriteFails
  BY <1>4 DEF WriteFails, Fail
<1>5. CASE Written
  BY <1>5 DEF Written
<1>6. ASSUME NEW n \in 0..MaxRequest, NextChunk(n) PROVE TypeOK'
  BY <1>6, SizesAssumption DEF NextChunk
<1>7. CASE StreamFails
  BY <1>7 DEF StreamFails, Fail
<1>8. CASE StreamEnds
  BY <1>8 DEF StreamEnds
<1>9. ASSUME NEW n \in 1..MaxReply, ReadHead(n) PROVE TypeOK'
  <2>1. got + n \in Nat
    BY SizesAssumption
  <2> QED BY <1>9, <2>1 DEF ReadHead, Respond, Fail
<1>10. CASE BrokenHeaders
  BY <1>10 DEF BrokenHeaders, Fail
<1>11. CASE ReadFails
  BY <1>11 DEF ReadFails, Fail
<1>12. CASE PollDrained
  BY <1>12 DEF PollDrained, End
<1>13. CASE PollRest
  BY <1>13 DEF PollRest, Yield
<1>14. ASSUME NEW n \in 0..MaxReply, PollRead(n) PROVE TypeOK'
  <2>1. got + n \in Nat /\ counter + n \in Nat
    BY SizesAssumption
  <2>2. Kept(n) \in Int
    BY <2>1, SizesAssumption DEF Kept
  <2>3. item' \in [lo : Nat, hi : Nat]
    BY <1>14, <2>2 DEF PollRead, Yield, End
  <2> QED BY <1>14, <2>1, <2>3 DEF PollRead, Yield, End
<1>15. CASE PollFails
  BY <1>15 DEF PollFails
<1>16. CASE Drop
  BY <1>16 DEF Drop
<1>17. ASSUME NEW n \in 1..MaxRequest, PeerReads(n) PROVE TypeOK'
  BY <1>17, SizesAssumption DEF PeerReads
<1>18. CASE PeerReplies
  BY <1>18 DEF PeerReplies
<1>19. ASSUME NEW n \in 1..MaxReply, PeerWrites(n) PROVE TypeOK'
  BY <1>19, SizesAssumption DEF PeerWrites
<1>20. CASE PeerEnds
  BY <1>20 DEF PeerEnds
<1>21. CASE Done
  BY <1>1, <1>21 DEF Done
<1>22. \A n \in 1..MaxReply : n \in 0..MaxReply
  BY SizesAssumption
<1>23. CASE PollEof
  BY <1>14, <1>23, SizesAssumption DEF PollEof
<1> QED
  BY <1>1, <1>2, <1>3, <1>4, <1>5, <1>6, <1>7, <1>8, <1>9, <1>10, <1>11, <1>12,
     <1>13, <1>14, <1>15, <1>16, <1>17, <1>18, <1>19, <1>20, <1>21, <1>22, <1>23
  DEF Next, ClientStep, PeerStep

(* A step that moves neither bytes nor the Body keeps IInv if it keeps what *)
(* is said of where the client is.                                         *)
LEMMA OnlyPc ==
    ASSUME TypeOK, IInv, UNCHANGED <<reply, got, body, server>>,
           Reading', BrokenIsHonest', result' = "ok" <=> result = "ok"
    PROVE  IInv'
<1>1. Stream'
  BY DEF IInv, Stream, server
<1>2. Counting'
  BY DEF IInv, Counting, body
<1>3. EndIsWhole' /\ PanicOnlyOnExcess'
  BY DEF IInv, EndIsWhole, PanicOnlyOnExcess, Closed, body, server
<1> QED BY <1>1, <1>2, <1>3 DEF IInv

(* Every step keeps IInv.                                                  *)
LEMMA StepInv == TypeOK /\ IInv /\ [Next]_vars => IInv'
<1> SUFFICES ASSUME TypeOK, IInv, [Next]_vars PROVE IInv'
  OBVIOUS
<1> USE DEF client, body, server
<1>0. TypeOK'
  BY StepType
<1>1. CASE UNCHANGED vars \/ Done
  <2>1. UNCHANGED vars
    BY <1>1 DEF Done
  <2> QED
    BY <2>1
    DEF vars, IInv, Stream, Reading, Counting, EndIsWhole, PanicOnlyOnExcess,
        BrokenIsHonest, Closed
<1>2. CASE Connect \/ WriteFails \/ Written \/ StreamFails
  BY <1>2, OnlyPc
  DEF Connect, WriteFails, Written, StreamFails, Fail, IInv, Reading, BrokenIsHonest
<1>3. CASE StreamEnds
  BY <1>3, OnlyPc, ReplyFields, SizesAssumption
  DEF StreamEnds, IInv, Reading, BrokenIsHonest, TypeOK
<1>4. CASE BrokenHeaders
  <2>1. result' = "broken" /\ pc' = "done"
    BY <1>4 DEF BrokenHeaders, Fail
  <2>2. got = BufSize \/ got = reply.total
    BY <1>4 DEF BrokenHeaders, AtEof, Closed, IInv, Stream
  <2>3. reply.head > reply.total \/ reply.head > BufSize
    BY <1>4, <2>2, ReplyFields, SizesAssumption
    DEF BrokenHeaders, IInv, Reading, TypeOK
  <2> QED
    BY <1>4, <2>1, <2>3, OnlyPc DEF BrokenHeaders, IInv, Reading, BrokenIsHonest
<1>5. CASE ReadFails
  BY <1>5, OnlyPc DEF ReadFails, Fail, IInv, Reading, BrokenIsHonest
<1>6. CASE Drop
  BY <1>6, OnlyPc DEF Drop, IInv, Reading, BrokenIsHonest
<1>7. ASSUME NEW n \in 1..MaxRequest, Write(n) PROVE IInv'
  BY <1>7, OnlyPc DEF Write, IInv, Reading, BrokenIsHonest
<1>8. ASSUME NEW n \in 0..MaxRequest, NextChunk(n) PROVE IInv'
  BY <1>8, OnlyPc DEF NextChunk, IInv, Reading, BrokenIsHonest
<1>9. ASSUME NEW n \in 1..MaxReply, ReadHead(n) PROVE IInv'
  <2>1. /\ n \in Nat /\ n >= 1 /\ got' = got + n /\ got + n <= sent
        /\ got + n <= BufSize /\ got < reply.head
        /\ result = "none" /\ counter = 0 /\ bodyEnd = "none"
        /\ UNCHANGED <<reply, server>>
    BY <1>9, SizesAssumption DEF ReadHead, IInv, Reading, Counting, TypeOK
  <2>2. Stream'
    BY <2>1 DEF IInv, Stream
  <2>3. CASE got + n < reply.head
    <3>1. UNCHANGED <<pc, result, body>> /\ pc = "read"
      BY <1>9, <2>1, <2>3, ReplyFields DEF ReadHead, HeadComplete, TypeOK
    <3>2. Reading' /\ Counting'
      BY <2>1, <2>3, <3>1 DEF IInv, Reading, Counting
    <3>3. EndIsWhole' /\ PanicOnlyOnExcess' /\ BrokenIsHonest'
      BY <2>1, <3>1 DEF EndIsWhole, PanicOnlyOnExcess, BrokenIsHonest
    <3> QED BY <2>2, <3>2, <3>3 DEF IInv
  <2>4. CASE reply.head <= got + n
    <3>1. CASE reply.parse = "ok"
      <4>1. /\ Respond(got + n)
        BY <1>9, <2>4, <3>1 DEF ReadHead, HeadComplete
      <4>2. Reading'
        BY <2>1, <4>1 DEF Respond, Reading
      <4>3. Counting'
        BY <2>1, <2>4, <4>1, ReplyFields DEF Respond, Counting, TypeOK
      <4>4. EndIsWhole' /\ PanicOnlyOnExcess'
        BY <2>1, <4>1 DEF Respond, EndIsWhole, PanicOnlyOnExcess
      <4>5. BrokenIsHonest'
        BY <2>1, <2>4, <4>1, ReplyFields, SizesAssumption
        DEF Respond, BrokenIsHonest, TypeOK
      <4> QED BY <2>2, <4>2, <4>3, <4>4, <4>5 DEF IInv
    <3>2. CASE reply.parse # "ok"
      <4>1. /\ pc' = "done" /\ result' \in {"error", "panic"} /\ UNCHANGED body
        BY <1>9, <2>4, <3>2, ReplyFields DEF ReadHead, HeadComplete, Fail
      <4>2. Reading' /\ Counting'
        BY <2>1, <4>1 DEF IInv, Reading, Counting
      <4>3. EndIsWhole' /\ PanicOnlyOnExcess' /\ BrokenIsHonest'
        BY <2>1, <4>1 DEF EndIsWhole, PanicOnlyOnExcess, BrokenIsHonest
      <4> QED BY <2>2, <4>2, <4>3 DEF IInv
    <3> QED BY <3>1, <3>2
  <2> QED BY <2>1, <2>3, <2>4, ReplyFields DEF TypeOK
<1>10. CASE PollDrained
  <2>1. /\ pc = "body" /\ pc' = "done" /\ drained = "yes" /\ bodyEnd' = "end"
        /\ UNCHANGED <<reply, result, got, rest, restTo, counter, drained, item,
                       server>>
    BY <1>10 DEF PollDrained, End
  <2> QED
    BY <2>1
    DEF IInv, Stream, Reading, Counting, EndIsWhole, PanicOnlyOnExcess,
        BrokenIsHonest
<1>11. CASE PollRest
  <2>1. /\ pc = "body" /\ rest = "Some" /\ rest' = "None" /\ item'.hi = restTo
        /\ drained = "no"
        /\ UNCHANGED <<reply, client, got, restTo, counter, drained, bodyEnd,
                       server>>
    BY <1>11 DEF PollRest, Yield
  <2>2. result = "ok" /\ got = restTo /\ counter = 0 /\ bodyEnd = "none"
    BY <2>1, ReplyFields DEF IInv, Reading, Counting, TypeOK
  <2>3. Stream' /\ Reading' /\ BrokenIsHonest'
    BY <2>1 DEF IInv, Stream, Reading, BrokenIsHonest
  <2>4. Counting'
    BY <2>1, <2>2, ReplyFields DEF IInv, Counting
  <2>5. EndIsWhole' /\ PanicOnlyOnExcess'
    BY <2>1, <2>2 DEF EndIsWhole, PanicOnlyOnExcess
  <2> QED BY <2>3, <2>4, <2>5 DEF IInv
<1>12. ASSUME NEW n \in 0..MaxReply, PollRead(n), n = 0 => AtEof PROVE IInv'
  <2>1. /\ pc = "body" /\ drained = "no" /\ rest = "None"
        /\ n \in Nat /\ got + n <= sent
        /\ got' = got + n /\ counter' = counter + n
        /\ UNCHANGED <<reply, result, rest, restTo, drained, server>>
    BY <1>12, SizesAssumption DEF PollRead, TypeOK
  <2>2. /\ result = "ok" /\ bodyEnd = "none" /\ got = restTo + counter
        /\ item.hi = IF reply.length = "Some" /\ counter > reply.max
                     THEN restTo + reply.max ELSE got
        /\ reply.head <= restTo
    BY <2>1 DEF IInv, Reading, Counting
  <2>3. /\ got \in Nat /\ counter \in Nat /\ restTo \in Nat /\ sent \in Nat
        /\ sent <= reply.total
    BY DEF TypeOK, IInv, Stream
  <2>4. Stream' /\ BrokenIsHonest'
    BY <2>1, <2>3 DEF IInv, Stream, BrokenIsHonest
  <2>5. CASE reply.length = "Some" /\ counter + n > reply.max
    <3>1. Kept(n) = reply.max - counter
      BY <2>1, <2>3, <2>5, ReplyFields DEF Kept
    <3>2. CASE counter < reply.max
      <4>1. /\ item'.hi = got + Kept(n) /\ UNCHANGED <<pc, bodyEnd>>
        BY <1>12, <2>3, <3>1, <3>2, ReplyFields DEF PollRead, Yield
      <4>2. item'.hi = restTo + reply.max
        BY <2>2, <2>3, <3>1, <4>1, ReplyFields
      <4>3. Reading' /\ Counting' /\ EndIsWhole' /\ PanicOnlyOnExcess'
        BY <2>1, <2>2, <2>3, <2>5, <4>1, <4>2, ReplyFields
        DEF IInv, Reading, Counting, EndIsWhole, PanicOnlyOnExcess
      <4> QED BY <2>4, <4>3 DEF IInv
    <3>3. CASE counter >= reply.max
      <4>1. /\ UNCHANGED item /\ pc' = "done"
            /\ bodyEnd' = IF counter = reply.max THEN "end" ELSE "panic"
        BY <1>12, <2>3, <3>1, <3>3, ReplyFields DEF PollRead, End
      <4>2. item.hi = restTo + reply.max
        BY <2>2, <2>3, <2>5, <3>3, ReplyFields
      <4>3. Reading' /\ Counting'
        BY <2>1, <2>2, <2>3, <2>5, <4>1, <4>2, ReplyFields
        DEF IInv, Reading, Counting
      <4>4. EndIsWhole'
        BY <2>1, <2>2, <2>3, <2>5, <4>1, <4>2, ReplyFields DEF EndIsWhole
      <4>5. PanicOnlyOnExcess'
        BY <2>1, <2>2, <2>3, <2>5, <4>1, ReplyFields DEF PanicOnlyOnExcess
      <4> QED BY <2>4, <4>3, <4>4, <4>5 DEF IInv
    <3> QED BY <2>3, <3>2, <3>3, ReplyFields
  <2>6. CASE ~(reply.length = "Some" /\ counter + n > reply.max)
    <3>1. Kept(n) = n /\ item.hi = got
      BY <2>1, <2>2, <2>3, <2>6, ReplyFields DEF Kept
    <3>2. CASE n > 0
      <4>1. /\ item'.hi = got + n /\ UNCHANGED <<pc, bodyEnd>>
        BY <1>12, <3>1, <3>2 DEF PollRead, Yield
      <4>2. Reading' /\ Counting' /\ EndIsWhole' /\ PanicOnlyOnExcess'
        BY <2>1, <2>2, <2>3, <2>6, <4>1, ReplyFields
        DEF IInv, Reading, Counting, EndIsWhole, PanicOnlyOnExcess
      <4> QED BY <2>4, <4>2 DEF IInv
    <3>3. CASE n = 0
      <4>1. UNCHANGED item /\ pc' = "done" /\ bodyEnd' = "end"
        BY <1>12, <3>1, <3>3 DEF PollRead, End
      <4>2. Closed /\ got = reply.total
        BY <1>12, <3>3 DEF AtEof, Closed, IInv, Stream
      <4>3. Reading' /\ Counting'
        BY <2>1, <2>2, <2>3, <2>6, <3>3, <4>1, ReplyFields
        DEF IInv, Reading, Counting
      <4>4. EndIsWhole' /\ PanicOnlyOnExcess'
        BY <2>1, <3>1, <4>1, <4>2 DEF EndIsWhole, PanicOnlyOnExcess, Closed
      <4> QED BY <2>4, <4>3, <4>4 DEF IInv
    <3> QED BY <2>1, <3>2, <3>3
  <2> QED BY <2>5, <2>6
<1>13. CASE PollFails
  <2>1. /\ pc = "body" /\ drained' = "yes" /\ bodyEnd = "none"
        /\ UNCHANGED <<reply, client, got, rest, restTo, counter, item, bodyEnd,
                       server>>
    BY <1>13 DEF PollFails, IInv, Reading
  <2> QED
    BY <2>1
    DEF IInv, Stream, Reading, Counting, EndIsWhole, PanicOnlyOnExcess,
        BrokenIsHonest, Closed
<1>14. ASSUME NEW n \in 1..MaxRequest, PeerReads(n) PROVE IInv'
  BY <1>14
  DEF PeerReads, IInv, Stream, Reading, Counting, EndIsWhole, PanicOnlyOnExcess,
      BrokenIsHonest, Closed
<1>15. CASE PeerReplies
  BY <1>15
  DEF PeerReplies, IInv, Stream, Reading, Counting, EndIsWhole, PanicOnlyOnExcess,
      BrokenIsHonest, Closed
<1>16. ASSUME NEW n \in 1..MaxReply, PeerWrites(n) PROVE IInv'
  <2>1. /\ UNCHANGED <<reply, client, got, body, peer>> /\ peer = "writing"
        /\ sent <= sent' /\ sent' <= reply.total /\ sent' \in Nat
    BY <1>16, SizesAssumption DEF PeerWrites, TypeOK
  <2> QED
    BY <2>1, ReplyFields
    DEF IInv, Stream, Reading, Counting, EndIsWhole, PanicOnlyOnExcess,
        BrokenIsHonest, Closed, TypeOK
<1>17. CASE PeerEnds
  BY <1>17
  DEF PeerEnds, IInv, Stream, Reading, Counting, EndIsWhole, PanicOnlyOnExcess,
      BrokenIsHonest, Closed
<1>18. CASE PollEof
  BY <1>12, <1>18, SizesAssumption DEF PollEof
<1>19. \A n \in 1..MaxReply : n \in 0..MaxReply /\ n # 0
  BY SizesAssumption
<1> QED
  BY <1>1, <1>2, <1>3, <1>4, <1>5, <1>6, <1>7, <1>8, <1>9, <1>10, <1>11, <1>12,
     <1>13, <1>14, <1>15, <1>16, <1>17, <1>18, <1>19
  DEF Next, ClientStep, PeerStep

(* IInv is an invariant, and inductive relative to TypeOK.                 *)
THEOREM Inductive == Spec => [](TypeOK /\ IInv)
<1>1. TypeOK /\ IInv /\ [Next]_vars => (TypeOK /\ IInv)'
  BY StepType, StepInv
<1> QED BY <1>1, InitInv, PTL DEF Spec

(* Every variable of an exchange keeps its type: what is written, read and *)
(* yielded stays within the buffers.                                       *)
THEOREM TypeCorrect == Spec => []TypeOK
<1> QED BY Inductive, PTL

(* The Body yields at most content_length bytes besides the rest.          *)
THEOREM Bounded == Spec => []BodyBound
<1>1. TypeOK /\ IInv => BodyBound
  BY ReplyFields DEF TypeOK, IInv, Counting, BodyBound
<1> QED BY <1>1, Inductive, PTL

(* A Body that ends without an error has yielded what there was to yield.  *)
THEOREM Whole == Spec => []EndIsWhole
<1>1. IInv => EndIsWhole
  BY DEF IInv
<1> QED BY <1>1, Inductive, PTL

(* Only a peer that exceeds its content-length makes the Body panic.       *)
THEOREM NoOtherPanic == Spec => []PanicOnlyOnExcess
<1>1. IInv => PanicOnlyOnExcess
  BY DEF IInv
<1> QED BY <1>1, Inductive, PTL

(* "Broken headers" is reported only of heads that are broken or too long. *)
THEOREM Honest == Spec => []BrokenIsHonest
<1>1. IInv => BrokenIsHonest
  BY DEF IInv
<1> QED BY <1>1, Inductive, PTL

(* No byte of the reply's body is skipped, repeated or out of order.       *)
THEOREM Contiguous == Spec => NoGap
<1>1. TypeOK /\ IInv /\ [Next]_vars => [item' # item => item'.lo = item.hi + 1]_vars
  <2> SUFFICES ASSUME TypeOK, IInv, Next, item' # item
              PROVE  item'.lo = item.hi + 1
    OBVIOUS
  <2> USE DEF client, body, server
  <2>1. ASSUME NEW n \in 1..MaxReply, ReadHead(n) PROVE item'.lo = item.hi + 1
    <3>1. item'.lo = 1 /\ item.hi = 0
      BY <2>1 DEF ReadHead, Respond, IInv, Reading
    <3> QED BY <3>1
  <2>2. CASE PollRest
    BY <2>2, ReplyFields DEF PollRest, Yield, IInv, Reading, Counting
  <2>3. ASSUME NEW n \in 0..MaxReply, PollRead(n) PROVE item'.lo = item.hi + 1
    <3>1. Kept(n) > 0 /\ item'.lo = got + 1
      BY <2>3 DEF PollRead, Yield, End
    <3>2. item.hi = IF reply.length = "Some" /\ counter > reply.max
                    THEN restTo + reply.max ELSE got
      BY <2>3 DEF PollRead, IInv, Reading, Counting
    <3>3. n \in Nat /\ counter \in Nat
      BY SizesAssumption DEF TypeOK
    <3>4. ~(reply.length = "Some" /\ counter > reply.max)
      BY <3>1, <3>3, ReplyFields DEF Kept
    <3> QED BY <3>1, <3>2, <3>4
  <2>4. CASE PollEof
    BY <2>3, <2>4, SizesAssumption DEF PollEof
  <2>5. \A n \in 1..MaxReply : n \in 0..MaxReply
    BY SizesAssumption
  <2> QED
    BY <2>1, <2>2, <2>3, <2>4, <2>5
    DEF Next, ClientStep, PeerStep, Connect, Write, WriteFails, Written, NextChunk,
        StreamFails, StreamEnds, BrokenHeaders, ReadFails, PollDrained, PollFails,
        Drop, PeerReads, PeerReplies, PeerWrites, PeerEnds, Done, vars
<1> QED BY <1>1, Inductive, PTL DEF Spec, NoGap

(* What is taken was written, a peer that has not begun has sent nothing,  *)
(* and one that waits for the request begins when it is whole.             *)
LEMMA StepTurns == TypeOK /\ Turns /\ [Next]_vars => Turns'
<1> SUFFICES ASSUME TypeOK, Turns, [Next]_vars PROVE Turns'
  OBVIOUS
<1> USE DEF client, body, server
<1>1. taken \in Nat /\ wrote \in Nat /\ sent \in Nat
  BY DEF TypeOK
<1>2. CASE UNCHANGED <<reply, peer, taken, sent>> /\ wrote' >= wrote /\ wrote' \in Nat
           /\ (pc \in {"read", "body", "done"} => pc' \in {"read", "body", "done"})
  BY <1>1, <1>2 DEF Turns
<1>3. CASE UNCHANGED vars
  BY <1>1, <1>2, <1>3 DEF vars
<1>4. CASE Connect \/ WriteFails \/ Written \/ StreamFails \/ StreamEnds \/ Drop
  BY <1>1, <1>2, <1>4
  DEF Connect, WriteFails, Written, StreamFails, StreamEnds, Drop, Fail
<1>5. ASSUME NEW n \in 1..MaxRequest, Write(n) PROVE Turns'
  BY <1>1, <1>2, <1>5, SizesAssumption DEF Write
<1>6. ASSUME NEW n \in 0..MaxRequest, NextChunk(n) PROVE Turns'
  BY <1>1, <1>2, <1>6 DEF NextChunk
<1>7. ASSUME NEW n \in 1..MaxReply, ReadHead(n) PROVE Turns'
  BY <1>1, <1>2, <1>7 DEF ReadHead, Respond, Fail
<1>8. CASE BrokenHeaders \/ ReadFails \/ PollDrained \/ PollRest \/ PollFails
  BY <1>1, <1>2, <1>8
  DEF BrokenHeaders, ReadFails, PollDrained, PollRest, PollFails, Fail, End
<1>9. ASSUME NEW n \in Nat, PollRead(n) PROVE Turns'
  BY <1>1, <1>2, <1>9 DEF PollRead, End
<1>10. ASSUME NEW n \in 1..MaxRequest, PeerReads(n) PROVE Turns'
  <2>1. n \in Nat /\ n <= wrote - taken /\ taken' = taken + n
        /\ UNCHANGED <<reply, pc, wrote, peer, sent>>
    BY <1>10, SizesAssumption DEF PeerReads
  <2> QED BY <1>1, <2>1 DEF Turns
<1>11. CASE PeerReplies
  <2>1. reply \in Replies /\ reply.when \in {"after", "early"}
    BY DEF TypeOK, Replies
  <2> QED BY <1>11, <2>1 DEF PeerReplies, Requested, Turns
<1>12. ASSUME NEW n \in 1..MaxReply, PeerWrites(n) PROVE Turns'
  BY <1>12 DEF PeerWrites, Turns
<1>13. CASE PeerEnds
  BY <1>13 DEF PeerEnds, Turns
<1>14. 0 \in Nat /\ \A n \in 1..MaxReply : n \in Nat
  BY SizesAssumption
<1> QED
  BY <1>3, <1>4, <1>5, <1>6, <1>7, <1>8, <1>9, <1>10, <1>11, <1>12, <1>13, <1>14
  DEF Next, ClientStep, PeerStep, PollEof, Done

(* Where the turns are kept, one side can move.                            *)
LEMMA SomeoneMoves == TypeOK /\ IInv /\ Turns => NoStandoff
<1> SUFFICES ASSUME TypeOK, IInv, Turns, ~(ClientCanMove \/ PeerCanMove)
             PROVE  /\ pc \in {"connect", "write", "stream", "read"} /\ Unblocked =>
                        ~(reply.ending # "open" \/ reply.head <= reply.total
                                                \/ BufSize <= reply.total)
                    /\ pc = "body" => reply.ending = "open"
  BY DEF NoStandoff
<1>1. /\ taken \in Nat /\ wrote \in Nat /\ sent \in Nat /\ got \in Nat
      /\ reply.total \in Nat /\ reply.head \in Nat /\ reply.head >= 1
      /\ BufSize \in Nat /\ SendCap \in Nat /\ SendCap >= 1
      /\ RecvCap \in Nat /\ RecvCap >= 1
  BY ReplyFields, SizesAssumption DEF TypeOK
<1>2. /\ got <= sent /\ sent <= reply.total /\ taken <= wrote
      /\ peer = "ended" => sent = reply.total
  BY DEF IInv, Stream, Turns
<1>3. /\ reply.when \in {"after", "early"}
      /\ reply.ending \in {"eof", "reset", "open"}
      /\ peer \in {"reading", "writing", "ended"}
  BY DEF TypeOK, Replies
<1>4. ASSUME pc = "write", Unblocked PROVE FALSE
  <2>1. taken < wrote /\ ~Closed /\ got = 0
    BY <1>1, <1>4 DEF ClientCanMove, IInv, Reading
  <2>2. peer = "writing" /\ sent # reply.total /\ RecvCap <= sent
    BY <1>1, <1>3, <2>1 DEF PeerCanMove, Closed
  <2>3. reply.when = "early"
    BY <1>3, <1>4, <2>2 DEF Turns
  <2> QED BY <1>1, <1>2, <1>4, <2>2, <2>3 DEF Unblocked
\* A reader that waits has read all that was sent.
<1>5. ASSUME pc \in {"read", "body"}, got = sent
      PROVE  peer = "ended" /\ reply.ending = "open"
  <2>1. peer # "writing"
    BY <1>1, <1>5 DEF PeerCanMove
  <2>2. peer # "reading"
    BY <1>1, <1>2, <1>5 DEF PeerCanMove, Requested
  <2>3. ~AtEof /\ ~Reset
    BY <1>5 DEF ClientCanMove
  <2> QED BY <1>3, <1>5, <2>1, <2>2, <2>3 DEF AtEof, Reset, Closed
<1>6. ASSUME pc = "read"
      PROVE  reply.ending = "open" /\ reply.total < reply.head /\ reply.total < BufSize
  <2>1. got = sent /\ got # BufSize
    BY <1>1, <1>2, <1>6 DEF ClientCanMove
  <2>2. peer = "ended" /\ reply.ending = "open"
    BY <1>5, <1>6, <2>1
  <2>3. got = reply.total /\ got < reply.head /\ got <= BufSize
    BY <1>2, <1>6, <2>1, <2>2 DEF IInv, Reading
  <2> QED BY <1>1, <2>1, <2>2, <2>3
<1>7. ASSUME pc = "body" PROVE reply.ending = "open"
  <2>1. got = sent
    BY <1>1, <1>2, <1>7 DEF ClientCanMove
  <2> QED BY <1>5, <1>7, <2>1
<1>8. pc \notin {"connect", "stream"}
  BY DEF ClientCanMove
<1> QED BY <1>1, <1>4, <1>6, <1>7, <1>8

(* request() and the Body never wait for a peer that waits for them, for   *)
(* all sizes of the buffers (NoStandoff): only a peer that replies early   *)
(* with more than the connection holds, or keeps the connection without    *)
(* completing its head, can leave them waiting.                            *)
THEOREM NeverStuck == Spec => []NoStandoff
<1>1. Init => Turns
  BY DEF Init, Turns
<1> QED BY <1>1, StepTurns, SomeoneMoves, Inductive, PTL DEF Spec
=============================================================================
