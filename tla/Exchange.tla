------------------------------ MODULE Exchange ------------------------------
(***************************************************************************)
(* One HTTP exchange: Client::request of src/lib.rs writes the request,    *)
(* reads the reply's head and returns a Response whose Body (src/body.rs)  *)
(* the caller then drains.                                                 *)
(*                                                                         *)
(* Bytes are numbers: the reply is the bytes 1..reply.total, of which the  *)
(* first reply.head are the head (up to its blank line), and only how many *)
(* bytes each side has written and read is kept.  The peer and the two     *)
(* socket buffers between it and the client are the environment.           *)
(***************************************************************************)
EXTENDS Integers

CONSTANTS
    BufSize,    \* size of the array the head is read into
    ReadSize,   \* size of Body.buf
    SendCap,    \* bytes the connection holds towards the peer
    RecvCap,    \* bytes the connection holds towards the client
    HeadLen,    \* bytes of the request's head
    MaxRequest, \* bound: most bytes of a request
    MaxReply    \* bound: most bytes of a reply, and largest content-length

ASSUME SizesAssumption ==
    /\ BufSize \in Nat \ {0} /\ ReadSize \in Nat \ {0}
    /\ SendCap \in Nat \ {0} /\ RecvCap \in Nat \ {0}
    /\ HeadLen \in Nat \ {0} /\ MaxRequest \in Nat /\ HeadLen <= MaxRequest
    /\ MaxReply \in Nat

VARIABLES
    reply,      \* environment: what the peer will send, and when
    pc,         \* where the client is
    result,     \* what request() returned
    todo,       \* bytes write_all has still to write
    wrote,      \* bytes written to the connection
    got,        \* bytes read from the connection; while the head is read, left
    rest,       \* is Body.rest Some or None?
    restTo,     \* last byte of the buffer when the head was complete
    counter,    \* Body.counter
    drained,    \* Body.drained
    item,       \* first and last byte of the last item the Body yielded
    bodyEnd,    \* how the Body ended
    peer,       \* what the peer is doing
    taken,      \* bytes the peer has read
    sent        \* bytes the peer has written

client == <<pc, result, todo, wrote>>
body == <<rest, restTo, counter, drained, item, bodyEnd>>
server == <<peer, taken, sent>>
vars == <<reply, client, got, body, server>>

\* head > total: the peer ends before the head does.  when: after the whole
\* request, or early, perhaps before it has read it.  length, max: the
\* content-length header, if there is one that parses as a usize.
Replies ==
    {r \in [total : 0..MaxReply, head : 1..(MaxReply + 1),
            length : {"Some", "None"}, max : 0..MaxReply,
            parse : {"ok", "error", "panic"},
            ending : {"eof", "reset", "open"},
            when : {"after", "early"}] :
        r.length = "None" => r.max = 0}

Init ==
    /\ reply \in Replies
    /\ pc = "connect" /\ result = "none"
    /\ todo = 0 /\ wrote = 0 /\ got = 0
    /\ rest = "None" /\ restTo = 0 /\ counter = 0 /\ drained = "no"
    /\ item = [lo |-> 1, hi |-> 0] /\ bodyEnd = "none"
    /\ peer = "reading" /\ taken = 0 /\ sent = 0

-----------------------------------------------------------------------------
(* Client::request                                                         *)

\* request() returns an error, or panics; the connection is dropped.
Fail(why) ==
    /\ pc' = "done"
    /\ result' = why

\* connect(dst).await?, then write_all of the head build_req made.
Connect ==
    /\ pc = "connect"
    /\ \/ pc' = "write" /\ todo' = HeadLen /\ UNCHANGED result
       \/ Fail("connect") /\ UNCHANGED todo
    /\ UNCHANGED <<reply, wrote, got, body, server>>

\* The peer has closed the connection.
Closed == peer = "ended" /\ reply.ending # "open"

\* write_all: write what the connection takes, again until all is written.
Write(n) ==
    /\ pc = "write" /\ todo > 0
    /\ n <= todo /\ wrote + n - taken <= SendCap
    /\ todo' = todo - n
    /\ wrote' = wrote + n
    /\ UNCHANGED <<reply, pc, result, got, body, server>>

WriteFails ==
    /\ pc = "write" /\ todo > 0 /\ Closed
    /\ Fail("io")
    /\ UNCHANGED <<reply, todo, wrote, got, body, server>>

\* write_all is done: on to the stream of the request's body.
Written ==
    /\ pc = "write" /\ todo = 0
    /\ pc' = "stream"
    /\ UNCHANGED <<reply, result, todo, wrote, got, body, server>>

\* body.next().await: a chunk to write, an error, or the end (also when
\* the request has no body).
NextChunk(n) ==
    /\ pc = "stream" /\ wrote + n <= MaxRequest
    /\ pc' = "write"
    /\ todo' = n
    /\ UNCHANGED <<reply, result, wrote, got, body, server>>

StreamFails ==
    /\ pc = "stream"
    /\ Fail("stream")
    /\ UNCHANGED <<reply, todo, wrote, got, body, server>>

StreamEnds ==
    /\ pc = "stream"
    /\ pc' = "read"
    /\ UNCHANGED <<reply, result, todo, wrote, got, body, server>>

\* Mutation: the last window of four bytes is not looked at.
HeadCompleteOffByOne(n) == reply.head < n

\* The head's blank line is among the first n bytes.
HeadComplete(n) == reply.head <= n

\* Mutation: Body::new(conn, None, content_length).
RespondWithoutRest(left) ==
    /\ pc' = "body" /\ result' = "ok"
    /\ rest' = "None" /\ restTo' = left
    /\ item' = [lo |-> 1, hi |-> reply.head]
    /\ UNCHANGED <<counter, drained, bodyEnd>>

\* Body::new(conn, Some(rest), content_length), in the Response.
Respond(left) ==
    /\ pc' = "body" /\ result' = "ok"
    /\ rest' = "Some" /\ restTo' = left
    /\ item' = [lo |-> 1, hi |-> reply.head]
    /\ UNCHANGED <<counter, drained, bodyEnd>>

\* read(conn, &mut buf[left ..]) returns n > 0 bytes: the loop goes on, or
\* the head is complete and is parsed.
ReadHead(n) ==
    /\ pc = "read"
    /\ n <= sent - got /\ n <= BufSize - got
    /\ got' = got + n
    /\ IF ~HeadComplete(got + n) THEN UNCHANGED <<pc, result, body>>
       ELSE IF reply.parse = "ok" THEN Respond(got + n)
       ELSE Fail(reply.parse) /\ UNCHANGED body
    /\ UNCHANGED <<reply, todo, wrote, server>>

\* A read has nothing more to return: the peer closed the connection.
AtEof == Closed /\ reply.ending = "eof" /\ got = sent

\* Mutation: a full buffer is not an error.
BrokenHeadersAtEofOnly ==
    /\ pc = "read" /\ AtEof
    /\ Fail("broken")
    /\ UNCHANGED <<reply, todo, wrote, got, body, server>>

\* read returns 0, at the end of the stream or because the buffer is full.
BrokenHeaders ==
    /\ pc = "read"
    /\ IF got = BufSize THEN TRUE ELSE AtEof
    /\ Fail("broken")
    /\ UNCHANGED <<reply, todo, wrote, got, body, server>>

Reset == Closed /\ reply.ending = "reset"

ReadFails ==
    /\ pc = "read" /\ Reset
    /\ Fail("io")
    /\ UNCHANGED <<reply, todo, wrote, got, body, server>>

-----------------------------------------------------------------------------
(* Body::poll_next, called by whoever holds the Response                   *)

\* poll_next returns None, or panics.
End(how) ==
    /\ pc' = "done"
    /\ bodyEnd' = how

\* Some(Ok(vec)), of the bytes lo..hi.
Yield(lo, hi) == item' = [lo |-> lo, hi |-> hi]

PollDrained ==
    /\ pc = "body" /\ drained = "yes"
    /\ End("end")
    /\ UNCHANGED <<reply, result, todo, wrote, got, rest, restTo, counter,
                   drained, item, server>>

\* rest.take(): what followed the head in its buffer, be it nothing.
PollRest ==
    /\ pc = "body" /\ drained = "no" /\ rest = "Some"
    /\ rest' = "None"
    /\ Yield(reply.head + 1, restTo)
    /\ UNCHANGED <<reply, client, got, restTo, counter, drained, bodyEnd,
                   server>>

\* Mutation: content_length is not looked at.
KeptAll(n) == n

\* Mutation: counter starts at the length of rest.
KeptCountingRest(n) ==
    LET count == counter + n + (restTo - reply.head)
    IN IF reply.length = "Some" /\ count > reply.max THEN n - (count - reply.max) ELSE n

\* How much of n bytes read is not cut off by content_length.
Kept(n) ==
    IF reply.length = "Some" /\ counter + n > reply.max
    THEN n - (counter + n - reply.max)
    ELSE n

\* The reader returns n bytes (n = 0: the end).  A negative Kept is an
\* arithmetic overflow, or a slice out of range where overflow wraps.
PollRead(n) ==
    /\ pc = "body" /\ drained = "no" /\ rest = "None"
    /\ n <= sent - got /\ n <= ReadSize
    /\ got' = got + n
    /\ counter' = counter + n
    /\ IF Kept(n) > 0 THEN Yield(got + 1, got + Kept(n)) /\ UNCHANGED <<pc, bodyEnd>>
       ELSE End(IF Kept(n) = 0 THEN "end" ELSE "panic") /\ UNCHANGED item
    /\ UNCHANGED <<reply, result, todo, wrote, rest, restTo, drained, server>>

PollEof == AtEof /\ PollRead(0)

\* Mutation: the reader's error ends the Body without being yielded.
PollFailsSilently ==
    /\ pc = "body" /\ drained = "no" /\ rest = "None" /\ Reset
    /\ End("end")
    /\ UNCHANGED <<reply, result, todo, wrote, got, rest, restTo, counter,
                   drained, item, server>>

\* Mutation: the Body is not drained by an error.
PollFailsUndrained ==
    /\ pc = "body" /\ drained = "no" /\ rest = "None" /\ Reset
    /\ UNCHANGED vars

\* The reader fails: Some(Err(err)), and the Body is drained.
PollFails ==
    /\ pc = "body" /\ drained = "no" /\ rest = "None" /\ Reset
    /\ drained' = "yes"
    /\ UNCHANGED <<reply, client, got, rest, restTo, counter, item, bodyEnd,
                   server>>

\* The caller drops the future of request(), or the Response.
Drop ==
    /\ pc # "done"
    /\ pc' = "done"
    /\ UNCHANGED <<reply, result, todo, wrote, got, body, server>>

-----------------------------------------------------------------------------
(* The peer                                                                *)

\* The peer reads the request, except while it is busy writing its reply.
PeerReads(n) ==
    /\ peer = "reading" \/ (peer = "ended" /\ reply.ending = "open")
    /\ n <= wrote - taken
    /\ taken' = taken + n
    /\ UNCHANGED <<reply, client, got, body, peer, sent>>

\* The whole request has reached the peer.
Requested == pc \in {"read", "body", "done"} /\ taken = wrote

PeerReplies ==
    /\ peer = "reading"
    /\ IF reply.when = "early" THEN TRUE ELSE Requested
    /\ peer' = "writing"
    /\ UNCHANGED <<reply, client, got, body, taken, sent>>

PeerWrites(n) ==
    /\ peer = "writing"
    /\ sent + n <= reply.total /\ sent + n - got <= RecvCap
    /\ sent' = sent + n
    /\ UNCHANGED <<reply, client, got, body, peer, taken>>

\* The reply is written: the peer closes, resets or keeps the connection.
PeerEnds ==
    /\ peer = "writing" /\ sent = reply.total
    /\ peer' = "ended"
    /\ UNCHANGED <<reply, client, got, body, taken, sent>>

Done ==
    /\ pc = "done"
    /\ UNCHANGED vars

ClientStep ==
    \/ Connect
    \/ \E n \in 1..MaxRequest : Write(n)
    \/ WriteFails
    \/ Written
    \/ \E n \in 0..MaxRequest : NextChunk(n)
    \/ StreamFails
    \/ StreamEnds
    \/ \E n \in 1..MaxReply : ReadHead(n)
    \/ BrokenHeaders
    \/ ReadFails
    \/ PollDrained
    \/ PollRest
    \/ \E n \in 1..MaxReply : PollRead(n)
    \/ PollEof
    \/ PollFails

PeerStep ==
    \/ \E n \in 1..MaxRequest : PeerReads(n)
    \/ PeerReplies
    \/ \E n \in 1..MaxReply : PeerWrites(n)
    \/ PeerEnds

Next == ClientStep \/ Drop \/ PeerStep \/ Done

\* The executor polls a future that can move and the caller drains the Body;
\* the stream of the request's body is finite; the peer keeps going.
Fairness ==
    /\ WF_vars(ClientStep)
    /\ SF_vars(StreamEnds)
    /\ WF_vars(PeerStep)

Spec == Init /\ [][Next]_vars
FairSpec == Spec /\ Fairness

-----------------------------------------------------------------------------
(* Properties                                                              *)

\* Every variable keeps its type.
TypeOK ==
    /\ reply \in Replies
    /\ pc \in {"connect", "write", "stream", "read", "body", "done"}
    /\ result \in {"none", "connect", "io", "stream", "broken", "error",
                   "panic", "ok"}
    /\ todo \in Nat /\ wrote \in Nat /\ got \in Nat
    /\ rest \in {"Some", "None"} /\ restTo \in Nat /\ counter \in Nat
    /\ drained \in {"yes", "no"}
    /\ item \in [lo : Nat, hi : Nat]
    /\ bodyEnd \in {"none", "end", "panic"}
    /\ peer \in {"reading", "writing", "ended"}
    /\ taken \in Nat /\ sent \in Nat

\* What the Body yields follows on from the head and from what it yielded
\* before: no byte of the reply is skipped, repeated or out of order.
NoGap == [][item' # item => item'.lo = item.hi + 1]_vars

\* The Body yields at most content_length bytes besides those that came with
\* the head, which counter leaves out.
BodyBound ==
    result = "ok" /\ reply.length = "Some" => item.hi <= restTo + reply.max

\* The Body ends without an error only when the peer closed and all of the
\* reply was yielded, or content_length bytes were.
EndIsWhole ==
    bodyEnd = "end" /\ drained = "no" =>
        \/ Closed /\ item.hi = reply.total
        \/ reply.length = "Some" /\ item.hi >= reply.head + reply.max

\* The subtraction in poll_next overflows only when the peer sends more than
\* content_length bytes after those that came with the head.
PanicOnlyOnExcess ==
    bodyEnd = "panic" =>
        reply.length = "Some" /\ reply.total > restTo + reply.max

\* request() reports broken headers only when the peer closes before the
\* end of the head or the head does not fit the buffer; and it returns a
\* response only if the head fits.
BrokenIsHonest ==
    /\ result = "broken" => reply.head > reply.total \/ reply.head > BufSize
    /\ result = "ok" => reply.head <= BufSize /\ reply.head <= sent

\* The peer does not wait for the client to read while the client waits for
\* it to: it reads the request first, or the connection can hold its reply.
Unblocked == reply.when = "after" \/ reply.total <= RecvCap

\* request() returns if the peer closes, completes the head or sends more
\* than the buffer holds; a peer that keeps the connection without doing so
\* is waited for without limit.
RequestReturns ==
    (/\ pc = "connect" /\ Unblocked
     /\ \/ reply.ending # "open"
        \/ reply.head <= reply.total
        \/ BufSize <= reply.total)
    ~> (result # "none" \/ pc = "done")

\* The Body ends if the peer closes.
BodyEnds == (pc = "body" /\ reply.ending # "open") ~> (pc = "done")

\* Something the client is waiting for is there: room for the request, bytes
\* of the reply, or the end of the connection.
ClientCanMove ==
    \/ pc \in {"connect", "stream"}
    \/ pc = "write" /\ (todo = 0 \/ wrote - taken < SendCap \/ Closed)
    \/ pc = "read" /\ (got < sent \/ got = BufSize \/ AtEof \/ Reset)
    \/ pc = "body" /\ (drained = "yes" \/ rest = "Some" \/ got < sent \/ AtEof \/ Reset)

PeerCanMove ==
    \/ peer = "reading" /\ (taken < wrote \/ reply.when = "early" \/ Requested)
    \/ peer = "writing" /\ (sent = reply.total \/ sent - got < RecvCap)
    \/ peer = "ended" /\ reply.ending = "open" /\ taken < wrote

\* In no state that RequestReturns and BodyEnds speak of do both sides wait:
\* request() and the Body never wait for a peer that waits for them.
NoStandoff ==
    /\ pc \in {"connect", "write", "stream", "read"} /\ Unblocked
       /\ (reply.ending # "open" \/ reply.head <= reply.total \/ BufSize <= reply.total)
       => ClientCanMove \/ PeerCanMove
    /\ pc = "body" /\ reply.ending # "open" => ClientCanMove \/ PeerCanMove

-----------------------------------------------------------------------------
(* The inductive invariant behind the safety properties                    *)

\* The peer ends after its last byte, and the client is never ahead of it.
Stream ==
    /\ got <= sent /\ sent <= reply.total
    /\ peer = "ended" => sent = reply.total

\* While the head is read it is incomplete, and in the buffer.
Reading ==
    /\ pc \in {"connect", "write", "stream"} => got = 0
    /\ pc = "read" => got < reply.head /\ got <= BufSize
    /\ pc \in {"connect", "write", "stream", "read"} => result = "none"
    /\ pc = "body" => result = "ok" /\ bodyEnd = "none"
    /\ result # "ok" => bodyEnd = "none" /\ item.hi = 0

\* Where the Body is in the reply.
Counting ==
    /\ result = "ok" =>
          /\ reply.head <= restTo /\ restTo <= BufSize
          /\ got = restTo + counter
          /\ rest = "Some" => counter = 0 /\ item.hi = reply.head
          /\ rest = "None" =>
                item.hi = IF reply.length = "Some" /\ counter > reply.max
                          THEN restTo + reply.max ELSE got
    /\ result # "ok" => counter = 0

\* A peer that replies after the request does not begin before it is whole.
Turns ==
    /\ taken <= wrote
    /\ peer = "reading" => sent = 0
    /\ reply.when = "after" /\ peer # "reading" => pc \in {"read", "body", "done"}

\* Conjoined with TypeOK, this is preserved by every step.
IInv ==
    /\ Stream
    /\ Reading
    /\ Counting
    /\ EndIsWhole
    /\ PanicOnlyOnExcess
    /\ BrokenIsHonest
=============================================================================
