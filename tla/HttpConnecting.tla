--------------------------- MODULE HttpConnecting ---------------------------
(***************************************************************************)
(* One connection attempt of HttpConnector: the future HttpConnecting of   *)
(* src/http/mod.rs with the happy-eyeballs race ConnectingTcp inside it.   *)
(*                                                                         *)
(* A call of poll is a sequence of steps of this module, one per turn of   *)
(* the loops in the code; between two of them the environment (resolver,   *)
(* kernel, timer) may move, as it may while poll runs.  pc says where in   *)
(* poll the task is; "parked" is outside poll, after NotReady.             *)
(*                                                                         *)
(* The addresses of a resolver's answer are its positions 1..Len(answer):  *)
(* an iterator IpAddrs is the set of positions it has not yielded, and     *)
(* next() yields the least one.                                            *)
(***************************************************************************)
EXTENDS Naturals, Sequences, FiniteSets

CONSTANTS
    MaxAddrs    \* bound: most addresses a resolver answers with

ASSUME MaxAddrsAssumption == MaxAddrs \in Nat \ {0}

VARIABLES
    dst,        \* the Destination and the connector's enforce_http
    st,         \* state of the future (State) or how it completed
    cause,      \* why it completed with an error or a panic
    pc,         \* where in poll the task is
    task,       \* has the executor been notified to poll the task?
    interest,   \* event sources that hold the task's waker
    rslv,       \* the Resolve future
    answer,     \* families of the addresses resolved, in order
    remote,     \* the two ConnectingTcpRemote: preferred and fallback
    fallback,   \* is ConnectingTcp.fallback Some or None?
    delay,      \* the Delay of ConnectingTcpFallback
    sock,       \* the ConnectFuture of each address
    fate,       \* environment: what connecting to each address does
    timer,      \* environment: does the timer work?
    sockopt     \* environment: do set_nodelay and peer_addr succeed?

env == <<fate, timer, sockopt>>
vars == <<dst, st, cause, pc, task, interest, rslv, answer, remote,
          fallback, delay, sock, fate, timer, sockopt>>

Pos == 1..MaxAddrs
NoAddr == 0
Family == {"v4", "v6"}
Answers == UNION {[1..n -> Family] : n \in 0..MaxAddrs}

\* accept, refuse: the connection is decided so; hang: it never is;
\* nosock: connect() itself fails, no socket can be made.
Fate == {"accept", "refuse", "hang", "nosock"}

\* What can notify the task.
Resolver == <<"resolver", 0>>
Timer == <<"delay", 0>>
Socket(i) == <<"socket", i>>
Sources == {Resolver, Timer} \cup {Socket(i) : i \in Pos}

Sides == {"preferred", "fallback"}
Remote == [addrs : SUBSET Pos, current : Pos \cup {NoAddr}]
NoRemote == [addrs |-> {}, current |-> NoAddr]

\* A Uri that has a scheme has a host (the uri crate refuses others).  host
\* is what IpAddrs::try_parse makes of it: an address of a family, or a name.
Dsts == {d \in [scheme : {"none", "http", "https", "other"},
                host : {"none", "v4", "v6", "name"},
                enforce_http : BOOLEAN] :
            d.scheme # "none" => d.host # "none"}

\* A future not yet returned by connect(), pending, or completed.
States == {"New", "Lazy", "Resolving", "Connecting", "Error",
           "Ok", "Err", "Panic"}
Pending == {"Lazy", "Resolving", "Connecting", "Error"}
Finished == {"Ok", "Err", "Panic"}

Causes == {"none", "invalid_url", "resolve", "connect", "sockopt",
           "missing connect error", "polled twice"}
Places == {"parked", "poll", "delay", "fallback"}
Lookups == {"none", "pending", "failed", "done"}
Delays == {"unset", "armed", "elapsed"}

\* A ConnectFuture is spent once polling it has handed out its result.
Sockets == {"none", "pending", "connected", "failed", "spent"}

Init ==
    /\ dst \in Dsts
    /\ st = "New"
    /\ cause = "none"
    /\ pc = "parked"
    /\ task = "idle"
    /\ interest = {}
    /\ rslv = "none"
    /\ answer = <<>>
    /\ remote = [s \in Sides |-> NoRemote]
    /\ fallback = "None"
    /\ delay = "unset"
    /\ sock = [i \in Pos |-> "none"]
    /\ fate = <<>>
    /\ timer \in {"works", "broken"}
    /\ sockopt \in {"ok", "error"}

-----------------------------------------------------------------------------
(* Connecting and completing                                               *)

\* The checks of HttpConnector::connect.
InvalidUrl(d) ==
    \/ d.enforce_http /\ d.scheme # "http"
    \/ ~d.enforce_http /\ d.scheme = "none"
    \/ d.host = "none"

\* HttpConnector::connect: the future starts Lazy, or in Error.
Connect ==
    /\ st = "New"
    /\ st' = IF InvalidUrl(dst) THEN "Error" ELSE "Lazy"
    /\ task' = "notified"
    /\ UNCHANGED <<dst, cause, pc, interest, rslv, answer, remote, fallback,
                   delay, sock, env>>

\* poll returns Ready or Err, or panics; the future is never polled again.
Return(how, why) ==
    /\ st' = how
    /\ cause' = why
    /\ pc' = "parked"

\* Mutation: the waker is not left with src.
NotReadyUnregistered(src) ==
    /\ pc' = "parked"
    /\ UNCHANGED interest

\* poll returns NotReady, leaving the task's waker with src.
NotReady(src) ==
    /\ interest' = interest \cup {src}
    /\ pc' = "parked"

\* The executor polls a task that was notified.
BeginPoll ==
    /\ pc = "parked" /\ task = "notified" /\ st \in Pending
    /\ pc' = "poll"
    /\ task' = "idle"
    /\ UNCHANGED <<dst, st, cause, interest, rslv, answer, remote, fallback,
                   delay, sock, env>>

\* State::Error: the error is taken and returned.
PollError ==
    /\ pc = "poll" /\ st = "Error"
    /\ Return("Err", "invalid_url")
    /\ UNCHANGED <<dst, task, interest, rslv, answer, remote, fallback,
                   delay, sock, env>>

-----------------------------------------------------------------------------
(* Resolving                                                               *)

\* IpAddrs::split_by_preference: the family of the first address is
\* preferred, the other one is the fallback.
Split(ans) ==
    [s \in Sides |->
        [addrs |-> {i \in DOMAIN ans :
                        (ans[i] = ans[1]) <=> (s = "preferred")},
         current |-> NoAddr]]

\* Mutation: a fallback even without addresses.
ConnectingTcpNewAlwaysFallback(ans) ==
    /\ st' = "Connecting"
    /\ remote' = Split(ans)
    /\ fallback' = "Some"
    /\ delay' = "armed"

\* ConnectingTcp::new: a fallback, with its delay running, if it has
\* addresses.
ConnectingTcpNew(ans) ==
    /\ st' = "Connecting"
    /\ remote' = Split(ans)
    /\ fallback' = IF Split(ans)["fallback"].addrs = {} THEN "None" ELSE "Some"
    /\ delay' = IF Split(ans)["fallback"].addrs = {} THEN "unset" ELSE "armed"

\* State::Lazy and the host parses as an address: no lookup.
PollLazyLiteral ==
    /\ pc = "poll" /\ st = "Lazy" /\ dst.host \in Family
    /\ answer' = <<dst.host>>
    /\ fate' \in [{1} -> Fate]
    /\ ConnectingTcpNew(<<dst.host>>)
    /\ UNCHANGED <<dst, cause, pc, task, interest, rslv, sock, timer, sockopt>>

\* State::Lazy otherwise: the resolver is asked.
PollLazyName ==
    /\ pc = "poll" /\ st = "Lazy" /\ dst.host = "name"
    /\ st' = "Resolving"
    /\ rslv' = "pending"
    /\ UNCHANGED <<dst, cause, pc, task, interest, answer, remote, fallback,
                   delay, sock, env>>

\* State::Resolving: wait, fail with the resolver's error, or connect.
PollResolving ==
    /\ pc = "poll" /\ st = "Resolving"
    /\ \/ /\ rslv = "pending"
          /\ NotReady(Resolver)
          /\ UNCHANGED <<st, cause, remote, fallback, delay>>
       \/ /\ rslv = "failed"
          /\ Return("Err", "resolve")
          /\ UNCHANGED <<interest, remote, fallback, delay>>
       \/ /\ rslv = "done"
          /\ ConnectingTcpNew(answer)
          /\ UNCHANGED <<cause, pc, interest>>
    /\ UNCHANGED <<dst, task, rslv, answer, sock, env>>

-----------------------------------------------------------------------------
(* ConnectingTcpRemote::poll, on either side of the race                   *)

\* The side whose remote is being polled.
Polling(s) ==
    /\ st = "Connecting"
    /\ pc = IF s = "preferred" THEN "poll" ELSE "fallback"

\* Mutation: the preferred side's error is returned whatever the fallback.
RemoteErrGivesUp(s) ==
    \/ /\ s = "preferred"
       /\ Return("Err", "connect")
       /\ UNCHANGED <<remote, fallback>>
    \/ /\ s = "fallback"
       /\ fallback' = "None"
       /\ pc' = "parked"
       /\ UNCHANGED <<st, cause, remote>>

\* What ConnectingTcp::poll does when the remote of side s returns Err: the
\* fallback becomes the preferred one and is polled, or is dropped.
RemoteErr(s) ==
    \/ /\ s = "preferred" /\ fallback = "Some"
       /\ remote' = [remote EXCEPT !["preferred"] = remote["fallback"]]
       /\ fallback' = "None"
       /\ UNCHANGED <<st, cause, pc>>
    \/ /\ s = "preferred" /\ fallback = "None"
       /\ Return("Err", "connect")
       /\ UNCHANGED <<remote, fallback>>
    \/ /\ s = "fallback"
       /\ fallback' = "None"
       /\ pc' = "parked"
       /\ UNCHANGED <<st, cause, remote>>

\* The state of the side's current ConnectFuture; "none" if it has none.
Current(s) ==
    IF remote[s].current = NoAddr THEN "none" ELSE sock[remote[s].current]

\* Polling a ConnectFuture that is decided hands out its result, after which
\* it must not be polled again.
SpendCurrent(s) ==
    IF remote[s].current = NoAddr
    THEN sock
    ELSE [sock EXCEPT ![remote[s].current] = "spent"]

\* Mutation: the addresses are taken from the back.
YieldsLast(s, i) == i \in remote[s].addrs /\ \A j \in remote[s].addrs : i >= j

\* addrs.next() yields i.
Yields(s, i) == i \in remote[s].addrs /\ \A j \in remote[s].addrs : i <= j

\* connect() makes a socket for the next address; the loop goes on.
StartNext(s, i) ==
    /\ Polling(s) /\ Current(s) \in {"none", "failed"}
    /\ Yields(s, i)
    /\ fate[i] # "nosock"
    /\ remote' = [remote EXCEPT ![s] = [addrs |-> remote[s].addrs \ {i},
                                        current |-> i]]
    /\ sock' = [SpendCurrent(s) EXCEPT ![i] = "pending"]
    /\ UNCHANGED <<dst, st, cause, pc, task, interest, rslv, answer,
                   fallback, delay, env>>

\* connect() fails for the next address: its error is returned at once.
StartFails(s, i) ==
    /\ Polling(s) /\ Current(s) \in {"none", "failed"}
    /\ Yields(s, i)
    /\ fate[i] = "nosock"
    /\ RemoteErr(s)
    /\ sock' = SpendCurrent(s)
    /\ UNCHANGED <<dst, task, interest, rslv, answer, delay, env>>

\* The last address failed: its error is returned.
Exhausted(s) ==
    /\ Polling(s) /\ Current(s) = "failed"
    /\ remote[s].addrs = {}
    /\ RemoteErr(s)
    /\ sock' = SpendCurrent(s)
    /\ UNCHANGED <<dst, task, interest, rslv, answer, delay, env>>

\* Where poll panics: with no address at all there is no error to return
\* (err.take().expect), and a ConnectFuture that has returned must not be
\* polled again.
PanicOf(s) ==
    IF Current(s) = "none" /\ remote[s].addrs = {} THEN "missing connect error"
    ELSE IF Current(s) = "spent" THEN "polled twice"
    ELSE "none"

RemotePanics(s) ==
    /\ Polling(s) /\ PanicOf(s) # "none"
    /\ Return("Panic", PanicOf(s))
    /\ UNCHANGED <<dst, task, interest, rslv, answer, remote, fallback,
                   delay, sock, env>>

\* Mutation: poll returns without a look at the fallback.
CurrentNotReadyReturns(s) ==
    /\ Polling(s) /\ Current(s) = "pending"
    /\ NotReady(Socket(remote[s].current))
    /\ UNCHANGED <<dst, st, cause, task, rslv, answer, remote, fallback,
                   delay, sock, env>>

\* The current connection is undecided.  A preferred side with a fallback
\* goes on to the delay; otherwise poll returns.
CurrentNotReady(s) ==
    /\ Polling(s) /\ Current(s) = "pending"
    /\ interest' = interest \cup {Socket(remote[s].current)}
    /\ pc' = IF s = "preferred" /\ fallback = "Some" THEN "delay" ELSE "parked"
    /\ UNCHANGED <<dst, st, cause, task, rslv, answer, remote, fallback,
                   delay, sock, env>>

\* The current connection is established: it wins, the other side is
\* dropped, and HttpConnecting sets the socket's options and returns it.
CurrentReady(s) ==
    /\ Polling(s) /\ Current(s) = "connected"
    /\ sock' = SpendCurrent(s)
    /\ remote' = [remote EXCEPT !["preferred"] = remote[s]]
    /\ fallback' = "None"
    /\ IF sockopt = "ok" THEN Return("Ok", "none") ELSE Return("Err", "sockopt")
    /\ UNCHANGED <<dst, task, interest, rslv, answer, delay, env>>

\* Mutation: a fallback that is still delayed is not kept.
PollDelayForgets ==
    /\ pc = "delay"
    /\ IF delay = "elapsed" THEN pc' = "fallback" /\ UNCHANGED <<interest, fallback>>
       ELSE NotReady(Timer) /\ fallback' = "None"
    /\ UNCHANGED <<dst, st, cause, task, rslv, answer, remote, delay, sock, env>>

\* The fallback's delay: poll the fallback once it has elapsed, wait for it,
\* or drop the fallback when the timer fails.
PollDelay ==
    /\ pc = "delay"
    /\ \/ /\ delay = "elapsed"
          /\ pc' = "fallback"
          /\ UNCHANGED <<interest, fallback>>
       \/ /\ delay = "armed" /\ timer = "works"
          /\ NotReady(Timer)
          /\ UNCHANGED fallback
       \/ /\ delay = "armed" /\ timer = "broken"
          /\ fallback' = "None"
          /\ pc' = "parked"
          /\ UNCHANGED interest
    /\ UNCHANGED <<dst, st, cause, task, rslv, answer, remote, delay, sock, env>>

PollRemote(s) ==
    \/ \E i \in Pos : StartNext(s, i) \/ StartFails(s, i)
    \/ Exhausted(s)
    \/ RemotePanics(s)
    \/ CurrentNotReady(s)
    \/ CurrentReady(s)

PollStep ==
    \/ PollError
    \/ PollLazyLiteral
    \/ PollLazyName
    \/ PollResolving
    \/ \E s \in Sides : PollRemote(s)
    \/ PollDelay

-----------------------------------------------------------------------------
(* The environment                                                         *)

\* src is ready: the task is notified if it left its waker there.
Notify(src) ==
    /\ task' = IF src \in interest THEN "notified" ELSE task
    /\ interest' = interest \ {src}

\* The lookup ends, with an error or with an answer.
ResolverAnswers ==
    /\ rslv = "pending"
    /\ \/ /\ rslv' = "failed"
          /\ UNCHANGED <<answer, fate>>
       \/ /\ rslv' = "done"
          /\ answer' \in Answers
          /\ fate' \in [DOMAIN answer' -> Fate]
    /\ Notify(Resolver)
    /\ UNCHANGED <<dst, st, cause, pc, remote, fallback, delay, sock, timer,
                   sockopt>>

\* The kernel decides the connection to address i.
SocketDecides(i) ==
    /\ st = "Connecting"
    /\ sock[i] = "pending" /\ fate[i] \in {"accept", "refuse"}
    /\ sock' = [sock EXCEPT ![i] = IF fate[i] = "accept" THEN "connected"
                                   ELSE "failed"]
    /\ Notify(Socket(i))
    /\ UNCHANGED <<dst, st, cause, pc, rslv, answer, remote, fallback, delay,
                   env>>

\* happy_eyeballs_timeout has passed since ConnectingTcp::new.  The delay is
\* dropped with the fallback it belongs to.
DelayElapses ==
    /\ fallback = "Some" /\ delay = "armed" /\ timer = "works"
    /\ delay' = "elapsed"
    /\ Notify(Timer)
    /\ UNCHANGED <<dst, st, cause, pc, rslv, answer, remote, fallback, sock,
                   env>>

\* The timer fails while the delay runs, and notifies who waits for it.
TimerFails ==
    /\ fallback = "Some" /\ delay = "armed" /\ timer = "works"
    /\ timer' = "broken"
    /\ Notify(Timer)
    /\ UNCHANGED <<dst, st, cause, pc, rslv, answer, remote, fallback, delay, sock,
                   fate, sockopt>>

\* Another future of the same task is ready, so this one is polled too.
SpuriousWake ==
    /\ pc = "parked" /\ task = "idle" /\ st \in Pending
    /\ task' = "notified"
    /\ UNCHANGED <<dst, st, cause, pc, interest, rslv, answer, remote,
                   fallback, delay, sock, env>>

\* The future has completed: nothing is left to do.
Done ==
    /\ st \in Finished
    /\ UNCHANGED vars

Next ==
    \/ Connect
    \/ BeginPoll
    \/ PollStep
    \/ ResolverAnswers
    \/ \E i \in Pos : SocketDecides(i)
    \/ DelayElapses
    \/ TimerFails
    \/ SpuriousWake
    \/ Done

\* The executor polls a notified task and poll runs to its end; lookups and
\* timers end; every connection that does not hang is decided.
Fairness ==
    /\ WF_vars(Connect)
    /\ WF_vars(BeginPoll)
    /\ WF_vars(PollStep)
    /\ WF_vars(ResolverAnswers)
    /\ \A i \in Pos : WF_vars(SocketDecides(i))
    /\ WF_vars(DelayElapses)

Spec == Init /\ [][Next]_vars
FairSpec == Spec /\ Fairness

-----------------------------------------------------------------------------
(* Properties                                                              *)

\* Every variable keeps its type.
TypeOK ==
    /\ dst \in Dsts
    /\ st \in States
    /\ cause \in Causes
    /\ pc \in Places
    /\ task \in {"idle", "notified"}
    /\ interest \subseteq Sources
    /\ rslv \in Lookups
    /\ answer \in Answers \cup {<<>>}
    /\ remote \in [Sides -> Remote]
    /\ fallback \in {"Some", "None"}
    /\ delay \in Delays
    /\ sock \in [Pos -> Sockets]
    /\ fate \in [DOMAIN answer -> Fate]
    /\ timer \in {"works", "broken"}
    /\ sockopt \in {"ok", "error"}

\* Every address of family f was tried and failed, up to one for which no
\* socket could be made.
FamilyOver(f) ==
    \A j \in DOMAIN answer : answer[j] = f =>
        \/ sock[j] = "spent"
        \/ \E k \in 1..j :
              /\ answer[k] = f /\ fate[k] = "nosock"
              /\ \A m \in 1..(k - 1) : answer[m] = f => sock[m] = "spent"

\* A connect error is returned only when both families are over; only a
\* timer failure lets the fallback family go untried.
FailureIsHonest ==
    cause = "connect" =>
        \A i \in DOMAIN answer :
            \/ FamilyOver(answer[i])
            \/ timer = "broken" /\ answer[i] # answer[1]

\* No address of the fallback family is tried before the delay has elapsed
\* or the preferred family is over.
FallbackWaits ==
    \A i \in DOMAIN answer :
        sock[i] # "none" /\ answer[i] # answer[1] =>
            delay = "elapsed" \/ FamilyOver(answer[1])

\* An address is tried only after every earlier address of its family was
\* tried and has failed, so a family has one connection at a time.
InOrder ==
    \A i, j \in DOMAIN answer :
        i < j /\ answer[i] = answer[j] /\ sock[j] # "none" =>
            sock[i] = "spent" /\ fate[i] = "refuse"

\* While the race runs, every connection that is undecided or established
\* belongs to a side that is still polled: none is forgotten.
NoneForgotten ==
    \A i \in Pos :
        st = "Connecting" /\ sock[i] \in {"pending", "connected"} =>
            \/ i = remote["preferred"].current
            \/ fallback = "Some" /\ i = remote["fallback"].current

\* The connection of side s is undecided and will wake the task.
Watched(s) == Current(s) = "pending" /\ Socket(remote[s].current) \in interest

\* A task sleeps only while everything its future could go on with holds its
\* waker: the resolver; or the connection of each side that is still polled
\* and, until the fallback's turn, its delay.  What is decided while poll
\* runs, before or after it was looked at, or between the timer and the
\* sockets, is never slept through.
NoLostWakeup ==
    st \in Pending /\ pc = "parked" /\ task = "idle" =>
        \/ st = "Resolving" /\ rslv = "pending" /\ Resolver \in interest
        \/ /\ st = "Connecting" /\ Watched("preferred")
           /\ fallback = "Some" => IF delay = "armed"
                                    THEN timer = "works" /\ Timer \in interest
                                    ELSE Watched("fallback")

\* An upper bound on the steps a poll has left: the turns through the states,
\* and three for every address and side that it may still go through.
StepsLeft ==
    LET untried == Cardinality(remote["preferred"].addrs)
                     + (IF fallback = "Some" THEN Cardinality(remote["fallback"].addrs) + 1
                        ELSE 0)
    IN CASE st = "Lazy" -> 6 * MaxAddrs + 7
         [] st = "Resolving" -> 6 * MaxAddrs + 6
         [] st = "Connecting" -> 3 * untried + (CASE pc = "poll" -> 2 [] pc = "delay" -> 1
                                                  [] OTHER -> 0)
         [] OTHER -> 0

\* A call of poll ends: each of its steps ends it or leaves fewer to come, and
\* nothing that happens meanwhile makes them more.  The loops of the three
\* poll functions do not spin, whatever the sockets do.
PollEnds ==
    [][pc # "parked" => \/ pc' = "parked"
                        \/ StepsLeft' < StepsLeft
                        \/ ~PollStep /\ StepsLeft' = StepsLeft]_vars

\* The future panics only if the resolver answered with no address.
PanicOnlyOnEmptyAnswer ==
    st = "Panic" => answer = <<>> /\ rslv = "done"

\* What ConnectingTcpRemote::poll asserts with expect: whenever it has no
\* address left it has an error to return.
ErrAlwaysRecorded == cause # "missing connect error"

\* Address i is where its family's tries end: it accepts and all before it
\* refuse.
Reachable(i) ==
    /\ fate[i] = "accept"
    /\ \A j \in 1..(i - 1) : answer[j] = answer[i] => fate[j] = "refuse"

\* A family leads to an address that accepts: the preferred one, or the other
\* one as long as the timer works.
LeadsSomewhere ==
    \E i \in DOMAIN answer :
        Reachable(i) /\ (answer[i] = answer[1] \/ timer = "works")

\* If a family leads to an address that accepts, the connection succeeds,
\* even when the other family hangs: a hanging preferred family is overtaken
\* after the delay (unless the timer fails first), and no wakeup is lost.
ReachableConnects ==
    (st = "Connecting" /\ sockopt = "ok" /\ LeadsSomewhere)
        ~> (st = "Ok" \/ ~LeadsSomewhere)

\* The future completes unless some address hangs.
Terminates ==
    (st \in Pending) ~>
        \/ st \in Finished
        \/ \E i \in DOMAIN answer : fate[i] = "hang"

-----------------------------------------------------------------------------
(* What the attempt implements and what it relies on                       *)

BeforeTheRace == st \in {"New", "Lazy", "Resolving", "Error"}

\* The families of the sides that are still polled.
Racing ==
    {answer[i] : i \in {j \in DOMAIN answer :
        \E s \in Sides :
            /\ s = "preferred" \/ fallback = "Some"
            /\ j \in remote[s].addrs \cup {remote[s].current}}}

\* The attempt as Dial sees it: how far it is; what there is to try, once the
\* race has begun; what is being tried, has accepted or refused, and was given up.
Phase ==
    IF BeforeTheRace THEN "idle" ELSE
    IF st = "Connecting" THEN "race" ELSE
    IF st = "Ok" THEN "ok" ELSE IF st = "Err" THEN "err" ELSE "panic"
Known == IF BeforeTheRace THEN <<>> ELSE answer
NoSockets == IF BeforeTheRace THEN {} ELSE {i \in DOMAIN answer : fate[i] = "nosock"}
Late == IF delay = "elapsed" THEN "yes" ELSE "no"
Trying ==
    IF st = "Connecting" THEN {i \in Pos : sock[i] \in {"pending", "connected"}} ELSE {}
Accepted ==
    IF st = "Connecting" THEN {i \in Pos : sock[i] = "connected"} ELSE {}
Refusals ==
    {i \in DOMAIN answer : sock[i] \in {"failed", "spent"} /\ fate[i] = "refuse"}
GivenUp ==
    IF st = "Connecting" THEN {answer[i] : i \in DOMAIN answer} \ Racing ELSE {}

Attempt == INSTANCE Dial WITH
    phase <- Phase, answer <- Known, nosock <- NoSockets, late <- Late,
    trying <- Trying, accepted <- Accepted, refused <- Refusals, closed <- GivenUp

\* Through all the turns of its polls, the future does what Dial describes:
\* no address is tried out of turn, a family is given up only for a reason,
\* and the outcome is the one the addresses call for.
ImplementsDial == Attempt!Spec

\* The lookup as Resolve sees it: over once the future has gone on from it;
\* a task that is being polled counts as notified.
LookupState == IF st = "Resolving" \/ rslv = "none" THEN rslv ELSE "over"
LookupWaker == IF Resolver \in interest THEN "held" ELSE "none"
LookupTask == IF pc = "parked" THEN task ELSE "notified"

Lookup == INSTANCE Resolve WITH
    rslv <- LookupState, waker <- LookupWaker, task <- LookupTask

\* The future and the resolver of this model keep to the contract that the
\* resolvers are shown to implement.
KeepsResolveContract == Lookup!Spec

-----------------------------------------------------------------------------
(* The inductive invariant behind the safety properties                    *)

\* The sides that are still polled, and the addresses each may still use.
Live(s) == st = "Connecting" /\ (s = "preferred" \/ fallback = "Some")
Owned(s) == remote[s].addrs \cup ({remote[s].current} \ {NoAddr})

\* Before the race there is no socket, and the lookup runs only in Resolving.
BeforeRace ==
    /\ st \in {"New", "Lazy", "Resolving", "Error"} =>
          cause = "none" /\ fallback = "None" /\ sock = [i \in Pos |-> "none"]
    /\ st \in {"New", "Lazy", "Error"} => rslv = "none"
    /\ rslv = "pending" => st = "Resolving"
    /\ st = "New" => pc = "parked"
    /\ st = "Connecting" => cause = "none"
    /\ st = "Connecting" /\ answer = <<>> => rslv = "done"

\* poll reaches the delay and the fallback only while there is one.
InPoll ==
    /\ pc \in {"delay", "fallback"} => st = "Connecting" /\ fallback = "Some"
    /\ pc = "fallback" => delay = "elapsed"
    /\ fallback = "Some" => delay # "unset"
    /\ fallback = "Some" /\ delay = "armed" =>
          remote["fallback"].current = NoAddr

\* A socket's state agrees with what its address does.
SockFate ==
    \A i \in Pos : sock[i] # "none" =>
        /\ i \in DOMAIN answer
        /\ fate[i] # "nosock"
        /\ sock[i] = "connected" => fate[i] = "accept"
        /\ sock[i] = "failed" => fate[i] = "refuse"

\* What a live side owns: untried addresses and, before them, the one being
\* tried; every other address of that family has failed.
SideOK(s) ==
    /\ Owned(s) \subseteq DOMAIN answer
    /\ \A i \in remote[s].addrs :
          /\ sock[i] = "none"
          /\ remote[s].current < i
    /\ remote[s].current # NoAddr =>
          sock[remote[s].current] \in {"pending", "connected", "failed"}
    /\ \A i \in Owned(s), j \in DOMAIN answer :
          IF j \in Owned(s)
          THEN answer[j] = answer[i]
          ELSE answer[j] = answer[i] =>
                  j < i /\ sock[j] = "spent" /\ fate[j] = "refuse"
    /\ Owned(s) = {} => answer = <<>>

\* The preferred side holds the first family as long as there is a fallback,
\* and the other one only once the first is over.
Roles ==
    st = "Connecting" =>
        /\ fallback = "Some" => \A i \in Owned("fallback") : answer[i] # answer[1]
        /\ \A i \in Owned("preferred") :
              answer[i] # answer[1] => fallback = "None" /\ FamilyOver(answer[1])

\* A family that no live side owns is over, or was dropped with the timer.
Accounted ==
    st = "Connecting" =>
        \A i \in DOMAIN answer :
            \/ \E s \in Sides :
                  Live(s) /\ \E k \in Owned(s) : answer[k] = answer[i]
            \/ FamilyOver(answer[i])
            \/ timer = "broken" /\ answer[i] # answer[1]

\* Conjoined with TypeOK, this is preserved by every step: the invariant from
\* which the properties of the race follow.
IInv ==
    /\ BeforeRace
    /\ InPoll
    /\ SockFate
    /\ \A s \in Sides : Live(s) => SideOK(s)
    /\ Roles
    /\ Accounted
    /\ NoneForgotten
    /\ InOrder
    /\ FallbackWaits
    /\ FailureIsHonest
    /\ PanicOnlyOnEmptyAnswer

\* What the refinement of Dial needs besides: before the race nothing is
\* known and no delay runs; a fallback means a race with addresses, and none
\* of its addresses is touched while its delay runs.
Staged ==
    /\ BeforeTheRace => delay = "unset" /\ (rslv # "done" => answer = <<>>)
    /\ fallback = "Some" => st = "Connecting" /\ answer # <<>>
    /\ fallback = "Some" /\ delay = "armed" =>
          \A i \in DOMAIN answer : answer[i] # answer[1] => sock[i] = "none"

\* With NoLostWakeup, what keeps the wakeups inductive: past the preferred side,
\* poll has left its waker there or the task is notified already.
PreferredSeen ==
    pc \in {"delay", "fallback"} => task = "notified" \/ Watched("preferred")
=============================================================================
