------------------------------ MODULE Streams ------------------------------
(***************************************************************************)
(* Closing a connection: AsyncWrite::shutdown of ProxyStream               *)
(* (src/proxy/stream.rs) over MaybeHttpsStream and TlsStream               *)
(* (src/https/stream.rs) over TCP.                                         *)
(*                                                                         *)
(* A layer of TLS says goodbye with a close_notify, which goes down        *)
(* through the layers below it, and then shuts down what is below.  A call *)
(* that cannot go on returns NotReady, and the next one starts again at    *)
(* the outermost layer.  Calling the shutdown of native_tls again after    *)
(* its close_notify was sent either does nothing or waits for the peer's   *)
(* answer, depending on the TLS library behind it.                         *)
(***************************************************************************)
EXTENDS Wire

CONSTANTS
    SendCap,    \* records TCP takes before its peer reads
    MaxData     \* bound: records of data written

ASSUME StreamBounds == SendCap \in Nat \ {0} /\ MaxData \in Nat

VARIABLES       \* besides stack and wire
    library,    \* environment: what a second native_tls shutdown does
    willing,    \* environment: layers whose peer answers a close_notify
    pc,         \* open, closing, or how shutdown ended
    at,         \* the layer whose shutdown is running; parked if none is
    task,       \* has the executor been notified to poll the task?
    waits,      \* what the connection holds the task's waker for
    taken,      \* how many of them the peer has read
    answered,   \* layers whose close_notify was answered
    conn        \* environment: has the connection been reset?

vars == <<stack, library, willing, pc, at, task, waits, wire, taken, answered, conn>>
env == <<stack, library, willing>>

\* What each layer wraps.
Below == [Secured |-> "Https", Https |-> "tcp"]

Init ==
    /\ stack \in SUBSET Layers
    /\ library \in {"oneway", "twoway"}
    /\ willing \in SUBSET stack
    /\ pc = "open" /\ at = "parked" /\ task = "idle" /\ waits = {}
    /\ wire = <<>> /\ taken = 0
    /\ answered = {}
    /\ conn = "up"

Room == Len(wire) - taken < SendCap

-----------------------------------------------------------------------------
(* The caller                                                              *)

\* write: passed on from layer to layer.
Write ==
    /\ pc = "open" /\ conn = "up" /\ Room /\ Len(wire) < MaxData
    /\ wire' = Append(wire, "data")
    /\ UNCHANGED <<env, pc, at, task, waits, taken, answered, conn>>

\* The caller begins to call shutdown until it is ready.
Close ==
    /\ pc = "open"
    /\ pc' = "closing" /\ task' = "notified"
    /\ UNCHANGED <<env, at, waits, wire, taken, answered, conn>>

BeginPoll ==
    /\ pc = "closing" /\ at = "parked" /\ task = "notified"
    /\ at' = "Secured" /\ task' = "idle"
    /\ UNCHANGED <<env, pc, waits, wire, taken, answered, conn>>

-----------------------------------------------------------------------------
(* shutdown                                                                *)

NotReady(what) ==
    /\ at' = "parked" /\ waits' = waits \cup {what}

Sent(l) == \E i \in DOMAIN wire : wire[i] = l

\* Regular and Http: the call goes to what is below.
PassOn(l) ==
    /\ at = l /\ l \in Layers \ stack
    /\ at' = Below[l]
    /\ UNCHANGED <<env, pc, task, waits, wire, taken, answered, conn>>

\* Mutation: what is below is shut down although close_notify would block.
NotifyRegardless(l) ==
    /\ at = l /\ l \in stack /\ ~Sent(l) /\ conn = "up"
    /\ wire' = IF Room THEN Append(wire, l) ELSE wire
    /\ at' = Below[l]
    /\ UNCHANGED <<env, pc, task, waits, taken, answered, conn>>

\* Mutation: NotReady without leaving a waker.
NotifyUnregistered(l) ==
    /\ at = l /\ l \in stack /\ ~Sent(l) /\ conn = "up"
    /\ IF Room THEN wire' = Append(wire, l) /\ at' = Below[l]
       ELSE at' = "parked" /\ UNCHANGED wire
    /\ UNCHANGED <<env, pc, task, waits, taken, answered, conn>>

\* TlsStream::shutdown: native_tls sends its close_notify, and what is below
\* is shut down; or it would block.
Notify(l) ==
    /\ at = l /\ l \in stack /\ ~Sent(l) /\ conn = "up"
    /\ IF Room THEN wire' = Append(wire, l) /\ at' = Below[l] /\ UNCHANGED waits
       ELSE NotReady("write") /\ UNCHANGED wire
    /\ UNCHANGED <<env, pc, task, taken, answered, conn>>

\* TlsStream::shutdown is called again after the close_notify was sent.
NotifyAgain(l) ==
    /\ at = l /\ Sent(l) /\ conn = "up"
    /\ IF library = "oneway" \/ l \in answered THEN at' = Below[l] /\ UNCHANGED waits
       ELSE NotReady("read")
    /\ UNCHANGED <<env, pc, task, wire, taken, answered, conn>>

\* native_tls fails: the error is returned, and nothing below is shut down.
NotifyFails(l) ==
    /\ at = l /\ l \in stack /\ conn = "reset"
    /\ pc' = "failed" /\ at' = "parked"
    /\ UNCHANGED <<env, task, waits, wire, taken, answered, conn>>

\* TcpStream::shutdown is ready at once and does nothing: the end of the stream
\* is sent when it is dropped.
ShutdownTcp ==
    /\ at = "tcp"
    /\ pc' = "closed" /\ at' = "parked"
    /\ UNCHANGED <<env, task, waits, wire, taken, answered, conn>>

Poll ==
    \/ \E l \in Layers : PassOn(l) \/ Notify(l) \/ NotifyAgain(l) \/ NotifyFails(l)
    \/ ShutdownTcp

\* The caller drops the stream it has shut down, which closes the socket.
Drop ==
    /\ pc = "closed" /\ conn = "up" /\ ~Sent("fin")
    /\ wire' = Append(wire, "fin")
    /\ UNCHANGED <<env, pc, at, task, waits, taken, answered, conn>>

-----------------------------------------------------------------------------
(* The peer                                                                *)

Wake(what) ==
    /\ task' = IF waits \cap what # {} THEN "notified" ELSE task
    /\ waits' = waits \ what

PeerReads ==
    /\ taken < Len(wire) /\ conn = "up"
    /\ taken' = taken + 1
    /\ Wake({"write"})
    /\ UNCHANGED <<env, pc, at, wire, answered, conn>>

\* The peer of layer l answers the close_notify it has read.
PeerAnswers(l) ==
    /\ l \in willing \ answered /\ conn = "up"
    /\ \E i \in 1..taken : wire[i] = l
    /\ answered' = answered \cup {l}
    /\ Wake({"read"})
    /\ UNCHANGED <<env, pc, at, wire, taken, conn>>

Reset ==
    /\ conn = "up"
    /\ conn' = "reset"
    /\ Wake({"read", "write"})
    /\ UNCHANGED <<env, pc, at, wire, taken, answered>>

SpuriousWake ==
    /\ pc = "closing" /\ at = "parked" /\ task = "idle"
    /\ task' = "notified"
    /\ UNCHANGED <<env, pc, at, waits, wire, taken, answered, conn>>

Done ==
    /\ pc \in {"closed", "failed"}
    /\ UNCHANGED vars

Next ==
    \/ Write \/ Close \/ BeginPoll \/ Poll \/ Drop
    \/ PeerReads \/ Reset \/ SpuriousWake \/ Done
    \/ \E l \in Layers : PeerAnswers(l)

\* The executor polls a notified task and poll runs to its end; the peer
\* reads, and answers if it is going to.
Fairness ==
    /\ WF_vars(BeginPoll) /\ WF_vars(Poll)
    /\ WF_vars(PeerReads) /\ \A l \in Layers : WF_vars(PeerAnswers(l))

Spec == Init /\ [][Next]_vars
FairSpec == Spec /\ Fairness

-----------------------------------------------------------------------------
(* Properties                                                              *)

\* A task that waits for shutdown sleeps only while the record it has to send
\* finds no room, or an answer it needs is due, and the connection holds its
\* waker for just that.
NoLostWakeup ==
    pc = "closing" /\ at = "parked" /\ task = "idle" =>
        /\ conn = "up"
        /\ \/ "write" \in waits /\ ~Room
           \/ /\ "read" \in waits /\ library = "twoway"
              /\ \E l \in stack \ answered : Sent(l)

\* Why ClosesInOrder holds: shutdown runs only while closing, the data ends before it
\* begins and the TCP stream after it, and what is above the layer it has come
\* to, or every layer once it has ended, has said goodbye.
IInv ==
    /\ stack \subseteq Layers
    /\ wire \in Seq({"data", "fin"} \cup Layers)
    /\ at # "parked" => pc = "closing"
    /\ pc = "open" => \A i \in DOMAIN wire : wire[i] = "data"
    /\ Sent("fin") => pc = "closed"
    /\ at \in {"Https", "tcp"} /\ "Secured" \in stack => Sent("Secured")
    /\ at = "tcp" /\ "Https" \in stack => Sent("Https")
    /\ pc = "closed" => \A l \in stack : Sent(l)
    /\ ClosesInOrder

\* shutdown ends once it is called, if the peers read and the outer one of
\* two layers answers; with at most one layer, or a library that does not
\* wait, no peer needs to answer.
ShutdownEnds ==
    (pc = "closing" /\ (stack = Layers /\ library = "twoway" => "Secured" \in willing))
        ~> (pc \in {"closed", "failed"})
=============================================================================
