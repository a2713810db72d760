------------------------------- MODULE Tunnel -------------------------------
(***************************************************************************)
(* The future Tunnel of src/proxy/tunnel.rs: it writes a CONNECT request   *)
(* to a proxy and reads the proxy's reply until it ends in a blank line.   *)
(*                                                                         *)
(* Bytes are counted.  The proxy's reply is the bytes 1..reply.total; its  *)
(* head is the first reply.head of them, and what may follow (bytes of the *)
(* tunnelled connection) can hold blank lines of its own.                  *)
(***************************************************************************)
EXTENDS Naturals

CONSTANTS
    RequestLen, \* bytes of the CONNECT request
    StatusLen,  \* bytes of "HTTP/1.1 200"
    MaxReply    \* bound: most bytes the proxy sends

ASSUME LengthsAssumption ==
    /\ RequestLen \in Nat \ {0}
    /\ StatusLen \in Nat
    /\ MaxReply \in Nat

VARIABLES
    reply,      \* environment: what the proxy will send
    state,      \* TunnelState, or how the future completed
    cause,      \* why it failed
    pos,        \* position of the cursor in the request
    len,        \* length of buf while reading: the bytes read
    sent,       \* environment: bytes the proxy has sent
    proxy       \* environment: is the proxy still sending?

vars == <<reply, state, cause, pos, len, sent, proxy>>

\* blanks: the positions at which a blank line of the reply ends; the first
\* one ends the head, which is longer than the status line.  A reply whose
\* blanks is empty has no complete head.
Replies ==
    {r \in [total : 0..MaxReply, blanks : SUBSET (1..MaxReply),
            status : {"200", "other"}, ending : {"eof", "error", "open"}] :
        \A b \in r.blanks : StatusLen < b /\ b <= r.total}

States == {"Writing", "Reading", "Ok", "Err"}
Causes == {"none", "eof writing", "eof reading", "unsuccessful", "io"}
ProxyStates == {"sending", "ended"}

Init ==
    /\ reply \in Replies
    /\ state = "Writing"
    /\ cause = "none"
    /\ pos = 0
    /\ len = 0
    /\ sent = 0
    /\ proxy = "sending"

-----------------------------------------------------------------------------
(* Tunnel::poll; where nothing can be written or read it returns NotReady  *)

Fail(why) ==
    /\ state' = "Err"
    /\ cause' = why

\* write_buf takes n bytes of the request; after the last one buf is reused
\* for the reply.
Write(n) ==
    /\ state = "Writing"
    /\ pos + n <= RequestLen
    /\ pos' = pos + n
    /\ state' = IF pos + n = RequestLen THEN "Reading" ELSE "Writing"
    /\ UNCHANGED <<reply, cause, len, sent, proxy>>

\* The proxy has closed the connection.
Closed == proxy = "ended" /\ reply.ending # "open"

\* write_buf takes nothing, or fails.
WriteFails ==
    /\ state = "Writing" /\ Closed
    /\ \E why \in {"eof writing", "io"} : Fail(why)
    /\ UNCHANGED <<reply, pos, len, sent, proxy>>

\* Mutation: the end of the reply is not waited for.
VerdictEager(n) ==
    IF n <= StatusLen THEN "more"
    ELSE IF reply.status # "200" THEN "refused"
    ELSE "established"

\* Mutation: a reply too short for its status is refused.
VerdictImpatient(n) ==
    IF n > StatusLen /\ reply.status = "200"
    THEN IF n \in reply.blanks THEN "established" ELSE "more"
    ELSE "refused"

\* Mutation: one byte more than needed is waited for.
VerdictOffByOne(n) ==
    IF n <= StatusLen + 1 THEN "more"
    ELSE IF reply.status # "200" THEN "refused"
    ELSE IF n \in reply.blanks THEN "established"
    ELSE "more"

\* What poll makes of the first n bytes of the reply: too few to tell, a
\* status that is not 200, a reply that ends in a blank line, or one to read
\* more of.
Verdict(n) ==
    IF n <= StatusLen THEN "more"
    ELSE IF reply.status # "200" THEN "refused"
    ELSE IF n \in reply.blanks THEN "established"
    ELSE "more"

\* read_buf appends n > 0 bytes to buf.
Read(n) ==
    /\ state = "Reading"
    /\ len + n <= sent
    /\ len' = len + n
    /\ \/ Verdict(len + n) = "more" /\ UNCHANGED <<state, cause>>
       \/ Verdict(len + n) = "refused" /\ Fail("unsuccessful")
       \/ Verdict(len + n) = "established" /\ state' = "Ok" /\ UNCHANGED cause
    /\ UNCHANGED <<reply, pos, sent, proxy>>

\* Mutation: a read of 0 bytes is not an error.
ReadEofIgnored ==
    /\ state = "Reading" /\ Closed /\ reply.ending = "eof" /\ len = sent
    /\ UNCHANGED vars

\* read_buf returns 0, or fails.
ReadEof ==
    /\ state = "Reading" /\ Closed /\ reply.ending = "eof" /\ len = sent
    /\ Fail("eof reading")
    /\ UNCHANGED <<reply, pos, len, sent, proxy>>

ReadFails ==
    /\ state = "Reading" /\ Closed /\ reply.ending = "error"
    /\ Fail("io")
    /\ UNCHANGED <<reply, pos, len, sent, proxy>>

-----------------------------------------------------------------------------
(* The proxy, which may answer before it has read the whole request        *)

ProxySends(n) ==
    /\ proxy = "sending" /\ sent + n <= reply.total
    /\ sent' = sent + n
    /\ UNCHANGED <<reply, state, cause, pos, len, proxy>>

ProxyEnds ==
    /\ proxy = "sending" /\ sent = reply.total
    /\ proxy' = "ended"
    /\ UNCHANGED <<reply, state, cause, pos, len, sent>>

\* Nothing is left to do, or the proxy keeps the future waiting.
Done ==
    /\ state \in {"Ok", "Err"} \/ (proxy = "ended" /\ reply.ending = "open" /\ len = sent)
    /\ UNCHANGED vars

Poll ==
    \/ \E n \in 1..RequestLen : Write(n)
    \/ WriteFails
    \/ \E n \in 1..MaxReply : Read(n)
    \/ ReadEof
    \/ ReadFails

ProxyStep ==
    \/ \E n \in 1..MaxReply : ProxySends(n)
    \/ ProxyEnds

Next == Poll \/ ProxyStep \/ Done

\* The executor polls a future that can move; the proxy sends its reply.
Fairness == WF_vars(Poll) /\ WF_vars(ProxyStep)

Spec == Init /\ [][Next]_vars
FairSpec == Spec /\ Fairness

-----------------------------------------------------------------------------
(* Properties                                                              *)

\* Every variable keeps its type.
TypeOK ==
    /\ reply \in Replies
    /\ state \in States
    /\ cause \in Causes
    /\ pos \in 0..RequestLen
    /\ len \in 0..MaxReply
    /\ sent \in 0..MaxReply
    /\ proxy \in ProxyStates

\* The reply is a head and nothing more: its only blank line is its end.
OnlyHead == reply.blanks = {reply.total}

\* A tunnel is handed out only when all of the request was written and the
\* whole head of a 200 reply was read; and if the proxy sent only the head,
\* no byte beyond it was taken from the connection.
EstablishedIsComplete ==
    state = "Ok" =>
        /\ pos = RequestLen /\ reply.status = "200"
        /\ \E b \in reply.blanks : b <= len
        /\ OnlyHead => len = reply.total

\* A failed tunnel has a reason the proxy gave: it refused, or it closed the
\* connection; a 200 reply that is only a head is never turned into "eof
\* while reading", however it was cut up into reads.
FailureIsHonest ==
    /\ cause = "unsuccessful" => reply.status = "other"
    /\ cause \in {"eof writing", "eof reading", "io"} => Closed
    /\ cause = "eof reading" => ~(OnlyHead /\ reply.status = "200")

\* A proxy that replies 200 with only a head and keeps the connection gets
\* the tunnel established, however its reply is cut up into reads.
Establishes ==
    (state = "Writing" /\ reply.status = "200" /\ OnlyHead /\ reply.ending = "open")
    ~> (state = "Ok")

\* The future completes when the proxy refuses in more than StatusLen bytes
\* or closes the connection.
Completes ==
    (\/ reply.ending # "open"
     \/ reply.status = "other" /\ StatusLen < reply.total)
    ~> (state \in {"Ok", "Err"})

\* Something the future or the proxy is waiting for is there.
PollCanMove ==
    \/ state = "Writing"
    \/ state = "Reading" /\ (len < sent \/ Closed)

\* As long as one of the replies that Establishes and Completes speak of is
\* not decided on, the future or the proxy can move.
NoStandoff ==
    /\ state \in {"Writing", "Reading"}
    /\ \/ reply.ending # "open"
       \/ reply.status = "other" /\ StatusLen < reply.total
       \/ reply.status = "200" /\ OnlyHead
    => PollCanMove \/ proxy = "sending"

\* What is still to be written, sent, read, ended and decided.
Left ==
    (RequestLen - pos) + (reply.total - sent) + (reply.total - len)
    + (IF proxy = "sending" THEN 1 ELSE 0)
    + (IF state \in {"Writing", "Reading"} THEN 1 ELSE 0)

\* Every step of the future or the proxy is one of finitely many: no read,
\* write or poll can be repeated without end.
Advances == [][(Left \in Nat) /\ Left' < Left]_vars

-----------------------------------------------------------------------------
(* The inductive invariant behind the safety properties                    *)

\* What was read was sent, and the proxy ends after its last byte.
Stream ==
    /\ len <= sent /\ sent <= reply.total
    /\ proxy = "ended" => sent = reply.total

\* The request is out before the reply is read, and as long as poll reads a
\* 200 reply, no read has stopped at the end of a blank line.
Progress ==
    /\ state \in {"Reading", "Ok"} => pos = RequestLen
    /\ state = "Writing" => len = 0
    /\ state = "Reading" /\ reply.status = "200" => len \notin reply.blanks
    /\ state # "Err" => cause = "none"

\* Part of the request is left while it is written, and a status that was
\* read and is not 200 ends the reading.
Undecided ==
    /\ state = "Writing" => pos < RequestLen
    /\ state = "Reading" /\ reply.status = "other" => len <= StatusLen

\* Conjoined with TypeOK, this is preserved by every step.
IInv == Stream /\ Progress /\ EstablishedIsComplete /\ FailureIsHonest
=============================================================================
