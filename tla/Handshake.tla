----------------------------- MODULE Handshake -----------------------------
(***************************************************************************)
(* The future HttpsConnecting of src/https/client.rs for an https Uri: the *)
(* inner connector's future and then Handshaking, which drives a TLS       *)
(* handshake over a connection that may block.                             *)
(*                                                                         *)
(* A handshake needs Flights messages of the peer; an attempt (native_tls) *)
(* takes those that have arrived and, if more are needed, leaves the       *)
(* task's waker with the connection.                                       *)
(***************************************************************************)
EXTENDS Naturals

CONSTANT Flights    \* messages of the peer that complete a handshake

ASSUME FlightsAssumption == Flights \in Nat \ {0}

VARIABLES
    st,         \* connecting, handshaking, or how the future completed
    inner,      \* Handshaking.inner
    pc,         \* where in poll the task is; parked after NotReady
    task,       \* has the executor been notified to poll the task?
    waker,      \* does the connection, or connecting, hold its waker?
    tcp,        \* the inner connector's future
    taken,      \* messages that attempts have taken
    arrived,    \* environment: messages that have arrived
    ending      \* environment: what the peer does after some messages

vars == <<st, inner, pc, task, waker, tcp, taken, arrived, ending>>

Options == {"None", "Ok", "WouldBlock", "Failure"}

\* What the peer sends: all messages, or some and then a failure (it closes,
\* or its certificate is not for the host), or nothing more.
Endings == {e \in [after : 0..Flights, how : {"complete", "failure", "silence"}] :
               (e.how = "complete") <=> (e.after = Flights)}

Init ==
    /\ st = "connecting" /\ inner = "None"
    /\ pc = "parked" /\ task = "notified" /\ waker = "none"
    /\ tcp = "pending"
    /\ taken = 0 /\ arrived = 0
    /\ ending \in Endings

Finished == {"ok", "err", "panic"}

\* The result of an attempt now.
Outcome ==
    IF arrived = Flights THEN "Ok"
    ELSE IF arrived = ending.after /\ ending.how = "failure" THEN "Failure"
    ELSE "WouldBlock"

\* An attempt takes what has arrived, and waits for more.
Attempt ==
    /\ taken' = arrived
    /\ waker' = IF Outcome = "WouldBlock" THEN "held" ELSE waker

-----------------------------------------------------------------------------
(* HttpsConnecting::poll                                                   *)

BeginPoll ==
    /\ pc = "parked" /\ task = "notified" /\ st \notin Finished
    /\ pc' = "poll" /\ task' = "idle"
    /\ UNCHANGED <<st, inner, waker, tcp, taken, arrived, ending>>

NotReady == pc' = "parked"
Return(how) == st' = how /\ pc' = "parked"

\* The inner connector's future is not ready, or fails.
PollConnecting ==
    /\ pc = "poll" /\ st = "connecting" /\ tcp # "ok"
    /\ IF tcp = "pending" THEN NotReady /\ waker' = "held" /\ UNCHANGED st
       ELSE Return("err") /\ UNCHANGED waker
    /\ UNCHANGED <<inner, task, tcp, taken, arrived, ending>>

\* It is ready: tls.connect makes the first attempt, whose result goes into
\* a Handshaking that is polled at once.
StartHandshake ==
    /\ pc = "poll" /\ st = "connecting" /\ tcp = "ok"
    /\ st' = "handshaking"
    /\ inner' = Outcome
    /\ Attempt
    /\ UNCHANGED <<pc, task, tcp, arrived, ending>>

\* Mutation: a handshake that blocks is not put back.
PollBlockedForgets ==
    /\ pc = "poll" /\ st = "handshaking" /\ inner = "WouldBlock"
    /\ inner' = "None"
    /\ Attempt
    /\ IF Outcome = "WouldBlock" THEN NotReady /\ UNCHANGED st
       ELSE Return(IF Outcome = "Ok" THEN "ok" ELSE "err")
    /\ UNCHANGED <<task, tcp, arrived, ending>>

\* Mutation: the handshake is put back without another attempt.
PollBlockedIdle ==
    /\ pc = "poll" /\ st = "handshaking" /\ inner = "WouldBlock"
    /\ NotReady
    /\ UNCHANGED <<st, inner, task, waker, tcp, taken, arrived, ending>>

\* Handshaking::poll takes inner; a handshake that was blocked is tried
\* again and put back if it still is.
PollBlocked ==
    /\ pc = "poll" /\ st = "handshaking" /\ inner = "WouldBlock"
    /\ inner' = IF Outcome = "WouldBlock" THEN "WouldBlock" ELSE "None"
    /\ Attempt
    /\ IF Outcome = "WouldBlock" THEN NotReady /\ UNCHANGED st
       ELSE Return(IF Outcome = "Ok" THEN "ok" ELSE "err")
    /\ UNCHANGED <<task, tcp, arrived, ending>>

\* A result that is there is returned; none is "polled after ready".
PollDecided ==
    /\ pc = "poll" /\ st = "handshaking" /\ inner # "WouldBlock"
    /\ inner' = "None"
    /\ Return(IF inner = "Ok" THEN "ok" ELSE IF inner = "Failure" THEN "err" ELSE "panic")
    /\ UNCHANGED <<task, waker, tcp, taken, arrived, ending>>

Poll == PollConnecting \/ StartHandshake \/ PollBlocked \/ PollDecided

-----------------------------------------------------------------------------
(* The environment                                                         *)

Notify ==
    /\ task' = IF waker = "held" THEN "notified" ELSE task
    /\ waker' = "none"

\* The inner connector's future completes.
TcpDecided ==
    /\ tcp = "pending"
    /\ tcp' \in {"ok", "failed"}
    /\ Notify
    /\ UNCHANGED <<st, inner, pc, taken, arrived, ending>>

\* Messages, or the failure after the last one, arrive.
PeerSends ==
    /\ tcp = "ok" /\ arrived < ending.after
    /\ arrived' \in (arrived + 1)..ending.after
    /\ Notify
    /\ UNCHANGED <<st, inner, pc, tcp, taken, ending>>

\* Another future of the same task is ready, so this one is polled too.
SpuriousWake ==
    /\ pc = "parked" /\ task = "idle" /\ st \notin Finished
    /\ task' = "notified"
    /\ UNCHANGED <<st, inner, pc, waker, tcp, taken, arrived, ending>>

Done ==
    /\ st \in Finished
    /\ UNCHANGED vars

Next == BeginPoll \/ Poll \/ TcpDecided \/ PeerSends \/ SpuriousWake \/ Done

\* The executor polls a notified task and poll runs to its end; the inner
\* future completes and the peer sends what it is going to.
Fairness ==
    WF_vars(BeginPoll) /\ WF_vars(Poll) /\ WF_vars(TcpDecided) /\ WF_vars(PeerSends)

Spec == Init /\ [][Next]_vars
FairSpec == Spec /\ Fairness

-----------------------------------------------------------------------------
(* Properties                                                              *)

\* Every variable keeps its type.
TypeOK ==
    /\ st \in {"connecting", "handshaking"} \cup Finished
    /\ inner \in Options
    /\ pc \in {"parked", "poll"} /\ task \in {"idle", "notified"}
    /\ waker \in {"none", "held"}
    /\ tcp \in {"pending", "ok", "failed"}
    /\ arrived \in 0..Flights /\ taken \in 0..arrived
    /\ ending \in Endings

\* A secured stream is returned only when the peer's whole handshake was
\* taken, an error only if connecting or the handshake failed, and through
\* any number of polls that block the expect of Handshaking::poll holds.
OutcomeIsHonest ==
    /\ st = "ok" => taken = Flights
    /\ st = "err" => tcp = "failed" \/ ending.how = "failure"
    /\ st # "panic"

\* A task sleeps only while its future cannot go on, and what it waits for
\* holds its waker: the inner connector's future, or a connection on which
\* every message that has arrived was taken and more are needed.
NoLostWakeup ==
    st \notin Finished /\ pc = "parked" /\ task = "idle" =>
        /\ waker = "held"
        /\ IF st = "connecting" THEN tcp = "pending"
           ELSE inner = "WouldBlock" /\ taken = arrived /\ Outcome = "WouldBlock"

\* A peer that completes the handshake, or fails it, ends the future: the
\* messages that arrive between the first attempt and the first poll, or
\* while a poll runs, are not lost, and no wakeup is.
Ends == (ending.how # "silence") ~> (st \in Finished)

-----------------------------------------------------------------------------
(* The inductive invariant                                                 *)

\* What inner holds while a handshake runs, and what it stands for.
Carried ==
    /\ st = "handshaking" => inner # "None"
    /\ inner = "Ok" => taken = Flights
    /\ inner = "Failure" => ending.how = "failure"

IInv == Carried /\ OutcomeIsHonest
=============================================================================
