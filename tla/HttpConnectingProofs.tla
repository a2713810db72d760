------------------------ MODULE HttpConnectingProofs ------------------------
(***************************************************************************)
(* Proofs about HttpConnecting, for every bound MaxAddrs: the type         *)
(* invariant, the safety properties of the race by way of IInv, the        *)
(* refinements of Resolve and Dial, that no wakeup is lost and that every  *)
(* poll ends.                                                              *)
(***************************************************************************)
EXTENDS HttpConnecting, FiniteSetTheorems, TLAPS

(* The positions of an answer are an initial segment of Pos.               *)
LEMMA AnswerDomain ==
    ASSUME NEW ans \in Answers \cup {<<>>}
    PROVE  \E n \in 0..MaxAddrs : DOMAIN ans = 1..n
<1>1. CASE ans = <<>>
  BY <1>1, MaxAddrsAssumption
<1>2. CASE ans \in Answers
  BY <1>2 DEF Answers
<1> QED BY <1>1, <1>2

(* Those positions are in Pos, and hold families.                          *)
LEMMA AnswerPos ==
    ASSUME NEW ans \in Answers \cup {<<>>}
    PROVE  DOMAIN ans \subseteq Pos /\ \A i \in DOMAIN ans : ans[i] \in Family
<1>1. CASE ans = <<>>
  BY <1>1
<1>2. CASE ans \in Answers
  BY <1>2, MaxAddrsAssumption DEF Answers, Pos
<1> QED BY <1>1, <1>2

(* A host that is an address gives an answer of that one address.          *)
LEMMA LiteralAnswer ==
    ASSUME NEW f \in Family
    PROVE  <<f>> \in Answers /\ DOMAIN <<f>> = {1} /\ <<f>>[1] = f
<1>1. <<f>> \in [1..1 -> Family] /\ 1..1 = {1}
  OBVIOUS
<1>2. 1 \in 0..MaxAddrs
  BY MaxAddrsAssumption
<1> QED BY <1>1, <1>2 DEF Answers

(* The two sides of a split are remotes over the answer's positions.       *)
LEMMA SplitType ==
    ASSUME NEW ans \in Answers \cup {<<>>}
    PROVE  Split(ans) \in [Sides -> Remote]
  BY AnswerPos DEF Split, Remote, NoAddr

(* A split has not started on its fallback side.                           *)
LEMMA SplitIdle ==
    ASSUME NEW ans
    PROVE  Split(ans)["fallback"].current = NoAddr
  BY DEF Split, Sides

(* Every initial state is well typed.                                      *)
LEMMA InitType == Init => TypeOK
<1> SUFFICES ASSUME Init PROVE TypeOK
  OBVIOUS
<1>1. fate \in [DOMAIN answer -> Fate]
  BY DEF Init
<1>2. remote \in [Sides -> Remote]
  BY DEF Init, Remote, NoRemote, NoAddr
<1> QED
  BY <1>1, <1>2
  DEF Init, TypeOK, States, Causes, Places, Lookups, Delays, Sockets

(* One step of the model keeps every variable's type.                      *)
LEMMA StepType == TypeOK /\ [Next]_vars => TypeOK'
<1> SUFFICES ASSUME TypeOK, [Next]_vars PROVE TypeOK'
  OBVIOUS
<1> USE DEF TypeOK
<1>1. CASE UNCHANGED vars
  BY <1>1 DEF vars
<1>2. CASE Connect
  BY <1>2 DEF Connect, env, States
<1>3. CASE BeginPoll
  BY <1>3 DEF BeginPoll, env, Places
<1>4. CASE PollError
  BY <1>4 DEF PollError, Return, env, States, Causes, Places
<1>5. CASE PollLazyLiteral
  <2>1. answer' \in Answers /\ DOMAIN answer' = {1}
    BY <1>5, LiteralAnswer DEF PollLazyLiteral
  <2>2. remote' \in [Sides -> Remote]
    BY <1>5, <2>1, SplitType DEF PollLazyLiteral, ConnectingTcpNew
  <2>3. fate' \in [DOMAIN answer' -> Fate]
    BY <1>5, <2>1 DEF PollLazyLiteral
  <2> QED
    BY <1>5, <2>1, <2>2, <2>3
    DEF PollLazyLiteral, ConnectingTcpNew, States, Delays
<1>6. CASE PollLazyName
  BY <1>6 DEF PollLazyName, env, States, Lookups
<1>7. CASE PollResolving
  <2>1. Resolver \in Sources
    BY DEF Sources
  <2>2. CASE ConnectingTcpNew(answer) /\ UNCHANGED <<cause, pc, interest>>
    BY <1>7, <2>2, SplitType DEF PollResolving, ConnectingTcpNew, env, States, Delays
  <2> QED
    BY <1>7, <2>1, <2>2
    DEF PollResolving, NotReady, Return, env, States, Causes, Places
<1>8. ASSUME NEW s \in Sides, PollRemote(s) PROVE TypeOK'
  <2>0. SpendCurrent(s) \in [Pos -> Sockets]
    BY DEF SpendCurrent, NoAddr, Remote, Sockets
  <2>1. ASSUME NEW i \in Pos, StartNext(s, i) PROVE TypeOK'
    <3>1. sock' \in [Pos -> Sockets]
      BY <2>0, <2>1 DEF StartNext, Yields, Sockets
    <3>2. remote' \in [Sides -> Remote]
      BY <2>1 DEF StartNext, Yields, Remote
    <3> QED BY <2>1, <3>1, <3>2 DEF StartNext, Yields, env
  <2>2. ASSUME RemoteErr(s)
        PROVE  /\ st' \in States /\ cause' \in Causes /\ pc' \in Places
               /\ fallback' \in {"Some", "None"}
               /\ remote' \in [Sides -> Remote]
    BY <2>2 DEF RemoteErr, Return, Sides, States, Causes, Places
  <2>3. ASSUME NEW i \in Pos, StartFails(s, i) PROVE TypeOK'
    BY <2>0, <2>2, <2>3 DEF StartFails, Yields, env
  <2>4. CASE Exhausted(s)
    BY <2>0, <2>2, <2>4 DEF Exhausted, env
  <2>5. CASE RemotePanics(s)
    BY <2>5 DEF RemotePanics, PanicOf, Return, env, States, Causes, Places
  <2>6. CASE CurrentNotReady(s)
    <3>1. Socket(remote[s].current) \in Sources
      BY <2>6 DEF CurrentNotReady, Current, Sources, Remote
    <3> QED BY <2>6, <3>1 DEF CurrentNotReady, env, Places
  <2>7. CASE CurrentReady(s)
    <3>1. remote' \in [Sides -> Remote]
      BY <2>7 DEF CurrentReady, Sides
    <3>2. st' \in States /\ cause' \in Causes /\ pc' \in Places
      BY <2>7 DEF CurrentReady, Return, States, Causes, Places
    <3> QED BY <2>0, <2>7, <3>1, <3>2 DEF CurrentReady, env
  <2> QED BY <1>8, <2>1, <2>3, <2>4, <2>5, <2>6, <2>7 DEF PollRemote
<1>9. CASE PollDelay
  BY <1>9 DEF PollDelay, NotReady, Sources, env, Places
<1>10. CASE ResolverAnswers
  <2>1. answer' \in Answers \cup {<<>>} /\ fate' \in [DOMAIN answer' -> Fate]
    BY <1>10 DEF ResolverAnswers
  <2> QED BY <1>10, <2>1 DEF ResolverAnswers, Notify, Lookups
<1>11. ASSUME NEW i \in Pos, SocketDecides(i) PROVE TypeOK'
  <2>1. sock' \in [Pos -> Sockets]
    BY <1>11 DEF SocketDecides, Sockets
  <2> QED BY <1>11, <2>1 DEF SocketDecides, Notify, env
<1>12. CASE DelayElapses
  BY <1>12 DEF DelayElapses, Notify, env, Delays
<1>13. CASE SpuriousWake
  BY <1>13 DEF SpuriousWake, env
<1>15. CASE TimerFails
  BY <1>15 DEF TimerFails, Notify
<1>14. CASE Done
  BY <1>14, <1>1 DEF Done
<1> QED
  BY <1>1, <1>2, <1>3, <1>4, <1>5, <1>6, <1>7, <1>8, <1>9, <1>10, <1>11,
     <1>12, <1>13, <1>14, <1>15 DEF Next, PollStep

(* Type correctness of the connection future.                              *)
THEOREM TypeCorrect == Spec => []TypeOK
<1> QED BY InitType, StepType, PTL DEF Spec
-----------------------------------------------------------------------------
(* What TypeOK says of the race's variables, in the form the steps use.    *)
LEMMA Shapes ==
    ASSUME TypeOK
    PROVE  /\ DOMAIN answer \subseteq Pos
           /\ \E n \in 0..MaxAddrs : DOMAIN answer = 1..n
           /\ sock \in [Pos -> Sockets]
           /\ remote \in [Sides -> Remote]
           /\ \A s \in Sides : /\ remote[s].addrs \subseteq Pos
                               /\ remote[s].current \in Pos \cup {NoAddr}
           /\ Pos \subseteq Nat \ {0}
           /\ NoAddr = 0 /\ NoAddr \notin Pos
<1>1. Pos \subseteq Nat \ {0}
  BY MaxAddrsAssumption DEF Pos
<1>2. NoAddr = 0
  BY DEF NoAddr
<1>3. remote \in [Sides -> Remote]
  BY DEF TypeOK
<1>4. sock \in [Pos -> Sockets] /\ answer \in Answers \cup {<<>>}
  BY DEF TypeOK
<1> QED
  BY <1>1, <1>2, <1>3, <1>4, AnswerPos, AnswerDomain DEF Remote

(* A family that is over stays over: spent futures stay spent.             *)
LEMMA OverStays ==
    ASSUME NEW f, FamilyOver(f), UNCHANGED <<answer, fate>>, TypeOK,
           \A i \in Pos : sock[i] = "spent" => sock'[i] = "spent"
    PROVE  FamilyOver(f)'
<1>1. DOMAIN answer \subseteq Pos
  BY Shapes
<1>2. \E n \in Nat : DOMAIN answer = 1..n
  BY Shapes, MaxAddrsAssumption
<1> QED BY <1>1, <1>2 DEF FamilyOver

(* Steps that leave the race as it is keep all that is said about it.      *)
LEMMA RaceUnchanged ==
    ASSUME TypeOK, IInv,
           UNCHANGED <<st, cause, answer, remote, fallback, sock, fate>>,
           timer' = timer \/ timer' = "broken"
    PROVE  /\ SockFate' /\ (\A s \in Sides : Live(s) => SideOK(s))'
           /\ Roles' /\ Accounted' /\ NoneForgotten' /\ InOrder'
           /\ FailureIsHonest'
  BY DEF IInv, SockFate, Live, SideOK, Owned, Roles, Accounted, NoneForgotten,
         InOrder, FailureIsHonest, FamilyOver

(* IInv holds before connect() is called.                                  *)
LEMMA InitInv == Init => IInv
<1> SUFFICES ASSUME Init PROVE IInv
  OBVIOUS
<1>1. st = "New" /\ cause = "none" /\ sock = [i \in Pos |-> "none"]
      /\ answer = <<>> /\ fallback = "None" /\ pc = "parked" /\ rslv = "none"
  BY DEF Init
<1>2. DOMAIN answer = {}
  BY <1>1
<1> QED
  BY <1>1, <1>2
  DEF IInv, BeforeRace, InPoll, SockFate, Live, Roles, Accounted, NoneForgotten,
      InOrder, FallbackWaits, FailureIsHonest, PanicOnlyOnEmptyAnswer
(* With no socket yet, nothing is said of the race until it starts.        *)
LEMMA NoRaceInv ==
    /\ TypeOK /\ sock = [i \in Pos |-> "none"] /\ BeforeRace /\ InPoll
    /\ st # "Connecting" /\ cause # "connect" /\ st # "Panic"
    => IInv
<1> SUFFICES ASSUME TypeOK, sock = [i \in Pos |-> "none"], BeforeRace, InPoll,
                    st # "Connecting", cause # "connect", st # "Panic"
             PROVE  IInv
  OBVIOUS
<1>1. DOMAIN answer \subseteq Pos
  BY Shapes
<1>2. \A i \in Pos : sock[i] = "none"
  OBVIOUS
<1> QED
  BY <1>1, <1>2
  DEF IInv, SockFate, Live, Roles, Accounted, NoneForgotten, InOrder,
      FallbackWaits, FailureIsHonest, PanicOnlyOnEmptyAnswer

(* The race starts in order: the two sides own the two families.           *)
LEMMA RaceStarts ==
    /\ TypeOK /\ sock = [i \in Pos |-> "none"] /\ cause = "none"
    /\ st = "Connecting" /\ remote = Split(answer) /\ BeforeRace /\ InPoll
    /\ fallback = IF Split(answer)["fallback"].addrs = {} THEN "None" ELSE "Some"
    => IInv
<1> SUFFICES
      ASSUME TypeOK, sock = [i \in Pos |-> "none"], cause = "none",
             st = "Connecting", remote = Split(answer), BeforeRace, InPoll,
             fallback = IF Split(answer)["fallback"].addrs = {} THEN "None"
                        ELSE "Some"
      PROVE  IInv
  OBVIOUS
<1>1. DOMAIN answer \subseteq Pos /\ \A i \in Pos : sock[i] = "none" /\ i > 0
  BY Shapes
<1>2. \A i \in DOMAIN answer : answer[i] \in Family
  BY AnswerPos DEF TypeOK
<1>3. Sides = {"preferred", "fallback"}
  BY DEF Sides
<1>4. \A s \in Sides :
         /\ remote[s].current = NoAddr
         /\ remote[s].addrs = {i \in DOMAIN answer :
                                 (answer[i] = answer[1]) <=> (s = "preferred")}
         /\ Owned(s) = remote[s].addrs
  BY DEF Split, Owned
<1>4a. /\ Owned("preferred") = {i \in DOMAIN answer : answer[i] = answer[1]}
       /\ Owned("fallback") = {i \in DOMAIN answer : answer[i] # answer[1]}
  BY <1>3, <1>4
<1>5. fallback = "None" <=> Owned("fallback") = {}
  BY <1>3, <1>4 DEF Split
<1>6. answer = <<>> \/ 1 \in DOMAIN answer
  <2>1. PICK n \in 0..MaxAddrs : DOMAIN answer = 1..n
    BY Shapes
  <2>2. CASE n = 0
    <3>1. DOMAIN answer = {}
      BY <2>1, <2>2
    <3>2. answer \in Answers \cup {<<>>}
      BY DEF TypeOK
    <3> QED BY <3>1, <3>2 DEF Answers
  <2>3. CASE n # 0
    BY <2>1, <2>3, MaxAddrsAssumption
  <2> QED BY <2>2, <2>3
<1>7. SideOK("preferred")
  <2>1. Owned("preferred") = {} => answer = <<>>
    BY <1>4a, <1>6
  <2> QED BY <1>1, <1>3, <1>4, <1>4a, <2>1 DEF SideOK, NoAddr
<1>8. ASSUME fallback = "Some" PROVE SideOK("fallback")
  <2>1. Owned("fallback") # {}
    BY <1>5, <1>8
  <2>2. \A i, j \in DOMAIN answer :
           answer[i] # answer[1] /\ answer[j] # answer[1] => answer[i] = answer[j]
    BY <1>2, <1>6 DEF Family
  <2> QED BY <1>1, <1>3, <1>4, <1>4a, <2>1, <2>2 DEF SideOK, NoAddr
<1>9. \A s \in Sides : Live(s) => SideOK(s)
  BY <1>3, <1>7, <1>8 DEF Live
<1>10. Roles
  BY <1>4a DEF Roles
<1>11. Accounted
  <2> SUFFICES ASSUME NEW i \in DOMAIN answer
              PROVE  \E s \in Sides :
                        Live(s) /\ \E k \in Owned(s) : answer[k] = answer[i]
    BY DEF Accounted
  <2>1. CASE answer[i] = answer[1]
    BY <1>3, <1>4a, <2>1 DEF Live
  <2>2. CASE answer[i] # answer[1]
    BY <1>3, <1>4a, <1>5, <2>2, TypeOK DEF Live, TypeOK
  <2> QED BY <2>1, <2>2
<1> QED
  BY <1>1, <1>9, <1>10, <1>11
  DEF IInv, SockFate, NoneForgotten, InOrder, FallbackWaits, FailureIsHonest,
      PanicOnlyOnEmptyAnswer
(* The two lemmas above, of the state after a step.                        *)
LEMMA NoRaceInvNext ==
    (/\ TypeOK /\ sock = [i \in Pos |-> "none"] /\ BeforeRace /\ InPoll
     /\ st # "Connecting" /\ cause # "connect" /\ st # "Panic")'
    => IInv'
  BY NoRaceInv, PTL

(* The same for the start of the race.                                     *)
LEMMA RaceStartsNext ==
    (/\ TypeOK /\ sock = [i \in Pos |-> "none"] /\ cause = "none"
     /\ st = "Connecting" /\ remote = Split(answer) /\ BeforeRace /\ InPoll
     /\ fallback = IF Split(answer)["fallback"].addrs = {} THEN "None"
                   ELSE "Some")'
    => IInv'
  BY RaceStarts, PTL
(* Steps outside the race, and steps that only wait or wake.               *)
LEMMA QuietInv ==
    ASSUME TypeOK, TypeOK', IInv,
           \/ UNCHANGED vars \/ Connect \/ BeginPoll \/ PollError
           \/ PollLazyLiteral \/ PollLazyName \/ PollResolving
           \/ ResolverAnswers \/ SpuriousWake \/ Done
    PROVE  IInv'
<1> USE DEF env
<1>1. CASE UNCHANGED vars
  <2>1. InPoll' /\ BeforeRace' /\ FallbackWaits' /\ PanicOnlyOnEmptyAnswer'
    BY <1>1 DEF IInv, vars, InPoll, BeforeRace, FallbackWaits, FamilyOver,
                PanicOnlyOnEmptyAnswer
  <2> QED BY <1>1, <2>1, RaceUnchanged DEF vars, IInv
<1>2. CASE Done
  BY <1>1, <1>2 DEF Done
<1>3. CASE Connect
  <2>1. BeforeRace' /\ InPoll'
    BY <1>3 DEF Connect, IInv, BeforeRace, InPoll
  <2>2. sock' = [i \in Pos |-> "none"] /\ cause' = "none"
    BY <1>3 DEF Connect, IInv, BeforeRace
  <2> QED BY <1>3, <2>1, <2>2, NoRaceInvNext DEF Connect
<1>4. CASE BeginPoll \/ SpuriousWake
  <2>1. UNCHANGED <<st, cause, answer, remote, fallback, sock, fate, timer,
                    delay, rslv>>
    BY <1>4 DEF BeginPoll, SpuriousWake
  <2>2. BeforeRace' /\ InPoll'
    BY <1>4 DEF BeginPoll, SpuriousWake, IInv, BeforeRace, InPoll, Pending
  <2>3. FallbackWaits' /\ PanicOnlyOnEmptyAnswer'
    BY <2>1 DEF IInv, FallbackWaits, FamilyOver, PanicOnlyOnEmptyAnswer
  <2> QED BY <2>1, <2>2, <2>3, RaceUnchanged DEF IInv
<1>5. CASE PollError
  <2>1. BeforeRace' /\ InPoll'
    BY <1>5 DEF PollError, Return, IInv, BeforeRace, InPoll
  <2>2. sock' = [i \in Pos |-> "none"]
    BY <1>5 DEF PollError, IInv, BeforeRace
  <2> QED BY <1>5, <2>1, <2>2, NoRaceInvNext DEF PollError, Return
<1>6. CASE PollLazyName
  <2>1. BeforeRace' /\ InPoll'
    BY <1>6 DEF PollLazyName, IInv, BeforeRace, InPoll
  <2>2. sock' = [i \in Pos |-> "none"] /\ cause' = "none"
    BY <1>6 DEF PollLazyName, IInv, BeforeRace
  <2> QED BY <1>6, <2>1, <2>2, NoRaceInvNext DEF PollLazyName
<1>7. CASE PollLazyLiteral
  <2>1. answer' # <<>>
    BY <1>7, LiteralAnswer DEF PollLazyLiteral
  <2>2. BeforeRace' /\ InPoll'
    BY <1>7, <2>1, SplitIdle
    DEF PollLazyLiteral, ConnectingTcpNew, IInv, BeforeRace, InPoll
  <2>3. sock' = [i \in Pos |-> "none"] /\ cause' = "none"
    BY <1>7 DEF PollLazyLiteral, IInv, BeforeRace
  <2> QED
    BY <1>7, <2>2, <2>3, RaceStartsNext DEF PollLazyLiteral, ConnectingTcpNew, Split
<1>8. CASE PollResolving
  <2>1. sock' = [i \in Pos |-> "none"] /\ cause = "none" /\ fallback = "None"
    BY <1>8 DEF PollResolving, IInv, BeforeRace
  <2>2. BeforeRace' /\ InPoll'
    BY <1>8, <2>1, SplitIdle
    DEF PollResolving, NotReady, Return, ConnectingTcpNew, IInv, BeforeRace, InPoll
  <2>3. CASE ConnectingTcpNew(answer) /\ UNCHANGED <<cause, pc, interest>>
    BY <1>8, <2>1, <2>2, <2>3, RaceStartsNext
    DEF PollResolving, ConnectingTcpNew, Split
  <2>4. CASE st' # "Connecting"
    <3>1. cause' # "connect" /\ st' # "Panic"
      BY <1>8, <2>1, <2>4 DEF PollResolving, NotReady, Return, ConnectingTcpNew
    <3> QED BY <2>1, <2>2, <2>4, <3>1, NoRaceInvNext
  <2> QED BY <1>8, <2>3, <2>4 DEF PollResolving, NotReady, Return
<1>9. CASE ResolverAnswers
  <2>1. BeforeRace' /\ InPoll' /\ st = "Resolving" /\ cause = "none"
    BY <1>9 DEF ResolverAnswers, Notify, IInv, BeforeRace, InPoll
  <2>2. sock' = [i \in Pos |-> "none"]
    BY <1>9, <2>1 DEF ResolverAnswers, IInv, BeforeRace
  <2> QED BY <1>9, <2>1, <2>2, NoRaceInvNext DEF ResolverAnswers
<1> QED
  BY <1>1, <1>2, <1>3, <1>4, <1>5, <1>6, <1>7, <1>8, <1>9
(* The side being polled is live and in order.                             *)
LEMMA PollingLive ==
    ASSUME TypeOK, IInv, NEW s \in Sides, Polling(s)
    PROVE  st = "Connecting" /\ Live(s) /\ SideOK(s)
<1>1. Live(s) /\ st = "Connecting"
  BY DEF Polling, Live, IInv, InPoll, Sides
<1> QED BY <1>1 DEF IInv

(* Two live sides own different families.                                  *)
LEMMA Rivals ==
    ASSUME TypeOK, IInv, NEW s \in Sides, NEW o \in Sides, s # o,
           Live(s), Live(o)
    PROVE  \A i \in Owned(s), j \in Owned(o) : answer[i] # answer[j]
  BY DEF IInv, Live, Roles, Sides

(* The side's current connection fails and its next address is tried.      *)
LEMMA StartNextInv ==
    ASSUME TypeOK, TypeOK', IInv, NEW s \in Sides, NEW i \in Pos,
           StartNext(s, i)
    PROVE  IInv'
<1> DEFINE c == remote[s].current
<1>1. /\ UNCHANGED <<st, cause, pc, rslv, answer, fallback, delay, fate, timer>>
      /\ i \in remote[s].addrs /\ \A j \in remote[s].addrs : i <= j
      /\ fate[i] # "nosock" /\ Polling(s) /\ Current(s) \in {"none", "failed"}
  BY DEF StartNext, Yields, env
<1>2. st = "Connecting" /\ Live(s) /\ SideOK(s)
  BY <1>1, PollingLive
<1>3. c = NoAddr \/ (c # NoAddr /\ c \in Pos /\ sock[c] = "failed")
  BY <1>1, <1>2, Shapes DEF Current, SideOK
<1>4. c \in Owned(s) \/ c = NoAddr
  BY DEF Owned
<1>5. /\ i \in DOMAIN answer /\ sock[i] = "none" /\ c < i /\ i > 0
      /\ remote[s].addrs \subseteq DOMAIN answer
      /\ DOMAIN answer \subseteq Pos
      /\ c # NoAddr => c \in DOMAIN answer
  BY <1>1, <1>2, Shapes DEF SideOK, Owned
<1>6. \A j \in Pos : sock'[j] = IF j = i THEN "pending"
                               ELSE IF j = c THEN "spent" ELSE sock[j]
  BY <1>3, <1>5, Shapes DEF StartNext, Yields, SpendCurrent
<1>7. /\ remote'[s].addrs = remote[s].addrs \ {i}
      /\ remote'[s].current = i
      /\ \A o \in Sides : o # s => remote'[o] = remote[o]
  BY Shapes DEF StartNext, Yields
<1>8. /\ Owned(s)' = remote[s].addrs
      /\ Owned(s) = Owned(s)' \cup ({c} \ {NoAddr})
      /\ \A o \in Sides : o # s => Owned(o)' = Owned(o)
  BY <1>1, <1>5, <1>7 DEF Owned, NoAddr
<1>9. \A o \in Sides : Live(o)' <=> Live(o)
  BY <1>1 DEF Live
<1>10. \A j \in DOMAIN answer : answer[j] = answer[i] /\ j < i /\ j # c
          => sock[j] = "spent" /\ fate[j] = "refuse"
  <2> SUFFICES ASSUME NEW j \in DOMAIN answer, answer[j] = answer[i], j < i, j # c
              PROVE  sock[j] = "spent" /\ fate[j] = "refuse"
    OBVIOUS
  <2>1. j \in Nat /\ i \in Nat
    BY <1>5, Shapes
  <2>2. j \notin Owned(s) /\ i \in Owned(s)
    BY <1>1, <1>8, <2>1
  <2> QED BY <1>2, <2>2 DEF SideOK
<1>11. c # NoAddr => fate[c] = "refuse" /\ answer[c] = answer[i]
  BY <1>1, <1>2, <1>3, <1>4, <1>5, <1>8 DEF SideOK, IInv, SockFate
<1>12. \A j \in Pos : sock[j] = "spent" => sock'[j] = "spent"
  BY <1>3, <1>5, <1>6
<1>13. \A f : FamilyOver(f) => FamilyOver(f)'
  BY <1>1, <1>12, OverStays
<1>14. BeforeRace' /\ InPoll' /\ FailureIsHonest' /\ PanicOnlyOnEmptyAnswer'
  <2>1. BeforeRace' /\ FailureIsHonest' /\ PanicOnlyOnEmptyAnswer'
    BY <1>1, <1>2 DEF IInv, BeforeRace, FailureIsHonest, PanicOnlyOnEmptyAnswer
  <2>2. delay = "armed" => remote'["fallback"] = remote["fallback"]
    BY <1>1, <1>7 DEF IInv, InPoll, Polling, Sides
  <2> QED BY <1>1, <2>1, <2>2 DEF IInv, InPoll
<1>15. SockFate'
  <2> SUFFICES ASSUME NEW j \in Pos, sock'[j] # "none"
              PROVE  /\ j \in DOMAIN answer /\ fate[j] # "nosock"
                     /\ sock'[j] = "connected" => fate[j] = "accept"
                     /\ sock'[j] = "failed" => fate[j] = "refuse"
    BY <1>1 DEF SockFate
  <2>1. CASE j = i
    BY <1>1, <1>5, <1>6, <2>1
  <2>2. CASE j # i /\ j = c
    BY <1>3, <1>5, <1>6, <1>11, <2>2, Shapes
  <2>3. CASE j # i /\ j # c
    BY <1>6, <2>3 DEF IInv, SockFate
  <2> QED BY <2>1, <2>2, <2>3
<1>16. SideOK(s)'
  <2>1. Owned(s)' \subseteq DOMAIN answer'
    BY <1>1, <1>5, <1>8
  <2>2. \A j \in remote'[s].addrs : sock'[j] = "none" /\ remote'[s].current < j
    BY <1>1, <1>2, <1>5, <1>6, <1>7, Shapes DEF SideOK
  <2>3. sock'[remote'[s].current] \in {"pending", "connected", "failed"}
    BY <1>6, <1>7
  <2>4. \A a \in Owned(s)', j \in DOMAIN answer' :
          IF j \in Owned(s)'
          THEN answer'[j] = answer'[a]
          ELSE answer'[j] = answer'[a] =>
                  j < a /\ sock'[j] = "spent" /\ fate'[j] = "refuse"
    <3> SUFFICES ASSUME NEW a \in Owned(s)', NEW j \in DOMAIN answer
                PROVE  IF j \in Owned(s)' THEN answer[j] = answer[a]
                       ELSE answer[j] = answer[a] =>
                             j < a /\ sock'[j] = "spent" /\ fate[j] = "refuse"
      BY <1>1
    <3>1. CASE j \in Owned(s)'
      BY <1>2, <1>5, <1>8, <3>1 DEF SideOK
    <3>2. CASE j = c
      BY <1>2, <1>3, <1>5, <1>6, <1>8, <1>11, <3>2, Shapes DEF SideOK
    <3>3. CASE j \notin Owned(s)
      BY <1>1, <1>2, <1>5, <1>8, <1>12, <3>3 DEF SideOK
    <3> QED BY <1>8, <3>1, <3>2, <3>3
  <2>5. Owned(s)' # {}
    BY <1>1, <1>8
  <2> QED BY <2>1, <2>2, <2>3, <2>4, <2>5 DEF SideOK
<1>17. ASSUME NEW o \in Sides, o # s, Live(o) PROVE SideOK(o)'
  <2>1. SideOK(o) /\ i \notin Owned(o) /\ c \notin Owned(o)
    <3>1. SideOK(o) /\ i \in Owned(s)
      BY <1>1, <1>8, <1>17 DEF IInv
    <3>2. \A j \in Owned(o) : answer[i] # answer[j] /\ (c # NoAddr => answer[c] # answer[j])
      BY <1>2, <1>4, <1>17, <3>1, Rivals
    <3>3. NoAddr \notin Owned(o)
      BY Shapes DEF Owned
    <3> QED BY <3>1, <3>2, <3>3
  <2>2. \A j \in Owned(o) : sock'[j] = sock[j]
    BY <1>5, <1>6, <2>1 DEF SideOK
  <2>3. Owned(o)' = Owned(o) /\ remote'[o] = remote[o]
    BY <1>7, <1>8, <1>17
  <2>4. remote[o].addrs \subseteq Owned(o) /\ (remote[o].current # NoAddr => remote[o].current \in Owned(o))
    BY DEF Owned
  <2>5. \A j \in Pos : sock[j] = "spent" => sock'[j] = "spent"
    BY <1>12
  <2> QED BY <1>1, <1>5, <2>1, <2>2, <2>3, <2>4, <2>5 DEF SideOK
<1>18. (\A o \in Sides : Live(o) => SideOK(o))'
  BY <1>9, <1>16, <1>17
<1>19. Roles'
  BY <1>1, <1>2, <1>8, <1>13 DEF IInv, Roles, Sides
<1>20. Accounted'
  <2> SUFFICES ASSUME NEW j \in DOMAIN answer
              PROVE  \/ \E o \in Sides :
                           Live(o)' /\ \E k \in Owned(o)' : answer[k] = answer[j]
                     \/ FamilyOver(answer[j])'
                     \/ timer = "broken" /\ answer[j] # answer[1]
    BY <1>1 DEF Accounted
  <2>1. ASSUME NEW o \in Sides, Live(o), NEW k \in Owned(o), answer[k] = answer[j]
        PROVE  \E p \in Sides :
                  Live(p)' /\ \E m \in Owned(p)' : answer[m] = answer[j]
    <3>1. CASE o # s
      BY <1>8, <1>9, <2>1, <3>1
    <3>2. CASE o = s
      <4>1. i \in Owned(s)' /\ answer[i] = answer[k]
        BY <1>1, <1>2, <1>5, <1>8, <2>1, <3>2 DEF SideOK
      <4> QED BY <1>2, <1>9, <2>1, <4>1
    <3> QED BY <3>1, <3>2
  <2>2. \/ \E o \in Sides : Live(o) /\ \E k \in Owned(o) : answer[k] = answer[j]
        \/ FamilyOver(answer[j])
        \/ timer = "broken" /\ answer[j] # answer[1]
    BY <1>2 DEF IInv, Accounted
  <2>3. FamilyOver(answer[j]) => FamilyOver(answer[j])'
    BY <1>1, <1>13
  <2> QED BY <2>1, <2>2, <2>3
<1>21. NoneForgotten'
  BY <1>1, <1>2, <1>6, <1>7 DEF IInv, NoneForgotten, Live, Sides
<1>22. InOrder'
  BY <1>1, <1>3, <1>5, <1>6, <1>10, <1>11, <1>12, Shapes DEF IInv, InOrder
<1>23. FallbackWaits'
  <2>1. answer[i] # answer[1] => delay = "elapsed" \/ FamilyOver(answer[1])
    <3>1. CASE s = "preferred"
      BY <1>1, <1>2, <1>8, <3>1 DEF IInv, Roles
    <3>2. CASE s = "fallback"
      BY <1>1, <3>2 DEF IInv, InPoll, Polling
    <3> QED BY <3>1, <3>2 DEF Sides
  <2>2. \A j \in DOMAIN answer : sock'[j] # "none" => j = i \/ sock[j] # "none"
    BY <1>3, <1>5, <1>6, Shapes
  <2> QED BY <1>1, <1>5, <1>13, <2>1, <2>2 DEF IInv, FallbackWaits
<1> QED
  BY <1>14, <1>15, <1>18, <1>19, <1>20, <1>21, <1>22, <1>23 DEF IInv
(* When a side has nothing left to try, its family is over.                *)
LEMMA SideEnds ==
    ASSUME TypeOK, IInv, NEW s \in Sides, Polling(s),
           UNCHANGED <<answer, fate>>, sock' = SpendCurrent(s),
           \/ /\ Current(s) \in {"none", "failed"}
              /\ \E i \in remote[s].addrs :
                    fate[i] = "nosock" /\ \A j \in remote[s].addrs : i <= j
           \/ Current(s) = "failed" /\ remote[s].addrs = {}
    PROVE  /\ Owned(s) # {}
           /\ \A i \in Owned(s) : FamilyOver(answer[i])'
           /\ remote[s].current # NoAddr => sock[remote[s].current] = "failed"
<1> DEFINE c == remote[s].current
<1>1. st = "Connecting" /\ Live(s) /\ SideOK(s)
  BY PollingLive
<1>2. c = NoAddr \/ (c # NoAddr /\ c \in Pos /\ sock[c] = "failed")
  BY <1>1, Shapes DEF Current, SideOK
<1>3. /\ Owned(s) = remote[s].addrs \cup ({c} \ {NoAddr})
      /\ Owned(s) \subseteq DOMAIN answer
      /\ DOMAIN answer \subseteq Pos
  BY <1>1, Shapes DEF SideOK, Owned
<1>4. \A j \in Pos : sock'[j] = IF j = c THEN "spent" ELSE sock[j]
  BY <1>2, Shapes DEF SpendCurrent
<1>5. \A i \in Owned(s), j \in DOMAIN answer :
         answer[j] = answer[i] /\ j \notin remote[s].addrs => sock'[j] = "spent"
  BY <1>1, <1>3, <1>4 DEF SideOK
<1>6. CASE \E i \in remote[s].addrs :
              fate[i] = "nosock" /\ \A j \in remote[s].addrs : i <= j
  <2>1. PICK i \in remote[s].addrs :
              fate[i] = "nosock" /\ \A j \in remote[s].addrs : i <= j
    BY <1>6
  <2>2. \A j \in Owned(s) : answer[j] = answer[i]
    BY <1>1, <1>3, <2>1 DEF SideOK
  <2>3. PICK n \in Nat : DOMAIN answer = 1..n
    BY Shapes, MaxAddrsAssumption
  <2>4. i \in 1..n /\ i \in Owned(s)
    BY <1>3, <2>3
  <2>5. \A m \in 1..(i - 1) : answer[m] = answer[i] => sock'[m] = "spent"
    BY <1>5, <2>1, <2>3, <2>4
  <2>6. FamilyOver(answer[i])'
    BY <1>5, <2>1, <2>3, <2>4, <2>5 DEF FamilyOver
  <2> QED BY <1>2, <1>3, <2>2, <2>4, <2>6
<1>7. CASE Current(s) = "failed" /\ remote[s].addrs = {}
  <2>1. c # NoAddr /\ Owned(s) = {c}
    BY <1>3, <1>7 DEF Current
  <2>2. ASSUME NEW i \in Owned(s) PROVE FamilyOver(answer[i])'
    BY <1>3, <1>5, <1>7, <2>2 DEF FamilyOver
  <2> QED BY <1>2, <2>1, <2>2
<1> QED BY <1>6, <1>7

(* A side ends in an error: the other one goes on, or the future fails.    *)
LEMMA RemoteErrInv ==
    ASSUME TypeOK, TypeOK', IInv, NEW s \in Sides, Polling(s), RemoteErr(s),
           UNCHANGED <<rslv, answer, delay, fate, timer>>,
           sock' = SpendCurrent(s), Owned(s) # {},
           \A i \in Owned(s) : FamilyOver(answer[i])',
           remote[s].current # NoAddr => sock[remote[s].current] = "failed"
    PROVE  IInv'
<1> DEFINE c == remote[s].current
<1>1. st = "Connecting" /\ Live(s) /\ SideOK(s)
  BY PollingLive
<1>2. /\ c \in Owned(s) \/ c = NoAddr
      /\ Owned(s) \subseteq DOMAIN answer
      /\ DOMAIN answer \subseteq Pos
      /\ NoAddr \notin Pos
  BY <1>1, Shapes DEF SideOK, Owned
<1>3. \A j \in Pos : sock'[j] = IF j = c THEN "spent" ELSE sock[j]
  BY <1>2, Shapes DEF SpendCurrent
<1>4. c # NoAddr => c \in DOMAIN answer /\ sock[c] = "failed" /\ fate[c] = "refuse"
  BY <1>2 DEF IInv, SockFate
<1>5. \A j \in Pos : sock[j] = "spent" => sock'[j] = "spent"
  BY <1>3
<1>6. \A f : FamilyOver(f) => FamilyOver(f)'
  BY <1>5, OverStays
<1>7. SockFate'
  <2> SUFFICES ASSUME NEW j \in Pos, sock'[j] # "none"
              PROVE  /\ j \in DOMAIN answer /\ fate[j] # "nosock"
                     /\ sock'[j] = "connected" => fate[j] = "accept"
                     /\ sock'[j] = "failed" => fate[j] = "refuse"
    BY DEF SockFate
  <2> QED BY <1>2, <1>3, <1>4 DEF IInv, SockFate
<1>8. \A j \in DOMAIN answer : sock'[j] # "none" => sock[j] # "none"
  BY <1>2, <1>3, <1>4
<1>9. InOrder'
  BY <1>2, <1>5, <1>8 DEF IInv, InOrder
<1>10. FallbackWaits'
  BY <1>6, <1>8 DEF IInv, FallbackWaits
<1>11. ASSUME NEW o \in Sides, o # s, Live(o)
       PROVE  /\ SideOK(o) /\ \A j \in Owned(o) : sock'[j] = sock[j]
              /\ remote[o].addrs \subseteq Owned(o)
              /\ remote[o].current # NoAddr => remote[o].current \in Owned(o)
  <2>1. SideOK(o) /\ NoAddr \notin Owned(o)
    BY <1>11, Shapes DEF IInv, Owned
  <2>2. c \notin Owned(o)
    BY <1>1, <1>2, <1>11, <2>1, Rivals
  <2>3. Owned(o) \subseteq Pos
    BY <1>2, <2>1 DEF SideOK
  <2> QED BY <1>3, <2>1, <2>2, <2>3 DEF Owned
<1>12. CASE s = "preferred" /\ fallback = "Some"
  <2> DEFINE o == "fallback"
  <2>1. /\ remote' = [remote EXCEPT !["preferred"] = remote["fallback"]]
        /\ fallback' = "None" /\ UNCHANGED <<st, cause, pc>>
    BY <1>12 DEF RemoteErr
  <2>2. Live(o) /\ o # s /\ o \in Sides /\ remote'["preferred"] = remote[o]
    BY <1>1, <1>12, <2>1, Shapes DEF Live, Sides
  <2>3. Owned("preferred")' = Owned(o)
    BY <2>2 DEF Owned
  <2>4. SideOK("preferred")'
    BY <1>2, <1>5, <1>11, <2>2, <2>3 DEF SideOK
  <2>5. (\A p \in Sides : Live(p) => SideOK(p))'
    BY <2>1, <2>4 DEF Live, Sides
  <2>6. FamilyOver(answer[1])'
    BY <1>1, <1>12 DEF IInv, Roles
  <2>7. Roles'
    BY <2>1, <2>6 DEF Roles
  <2>8. Accounted'
    <3> SUFFICES ASSUME NEW j \in DOMAIN answer
                PROVE  \/ \E p \in Sides :
                             Live(p)' /\ \E k \in Owned(p)' : answer[k] = answer[j]
                       \/ FamilyOver(answer[j])'
                       \/ timer = "broken" /\ answer[j] # answer[1]
      BY DEF Accounted
    <3>1. \/ \E p \in Sides : Live(p) /\ \E k \in Owned(p) : answer[k] = answer[j]
          \/ FamilyOver(answer[j])
          \/ timer = "broken" /\ answer[j] # answer[1]
      BY <1>1 DEF IInv, Accounted
    <3>2. Live("preferred")' /\ "preferred" \in Sides
      BY <1>1, <2>1 DEF Live, Sides
    <3>3. FamilyOver(answer[j]) => FamilyOver(answer[j])'
      BY <1>6
    <3>4. ASSUME NEW k \in Owned("preferred"), answer[k] = answer[j]
          PROVE  FamilyOver(answer[j])'
      BY <1>12, <3>4
    <3> QED BY <2>3, <3>1, <3>2, <3>3, <3>4 DEF Sides
  <2>9. NoneForgotten'
    BY <1>1, <1>3, <1>12, <2>1, <2>2 DEF IInv, NoneForgotten
  <2>10. BeforeRace' /\ InPoll' /\ FailureIsHonest' /\ PanicOnlyOnEmptyAnswer'
    BY <1>1, <1>12, <2>1
    DEF IInv, BeforeRace, InPoll, FailureIsHonest, PanicOnlyOnEmptyAnswer, Polling
  <2> QED
    BY <1>7, <1>9, <1>10, <2>5, <2>7, <2>8, <2>9, <2>10 DEF IInv
<1>13. CASE s = "preferred" /\ fallback = "None"
  <2>1. /\ st' = "Err" /\ cause' = "connect" /\ pc' = "parked"
        /\ UNCHANGED <<remote, fallback>>
    BY <1>13 DEF RemoteErr, Return
  <2>2. FailureIsHonest'
    <3> SUFFICES ASSUME NEW j \in DOMAIN answer
                PROVE  \/ FamilyOver(answer[j])'
                       \/ timer = "broken" /\ answer[j] # answer[1]
      BY DEF FailureIsHonest
    <3>1. \/ \E p \in Sides : Live(p) /\ \E k \in Owned(p) : answer[k] = answer[j]
          \/ FamilyOver(answer[j])
          \/ timer = "broken" /\ answer[j] # answer[1]
      BY <1>1 DEF IInv, Accounted
    <3>2. \A p \in Sides : Live(p) => p = s
      BY <1>13 DEF Live
    <3>3. FamilyOver(answer[j]) => FamilyOver(answer[j])'
      BY <1>6
    <3>4. ASSUME NEW k \in Owned(s), answer[k] = answer[j]
          PROVE  FamilyOver(answer[j])'
      BY <3>4
    <3> QED BY <3>1, <3>2, <3>3, <3>4
  <2>3. BeforeRace' /\ InPoll' /\ PanicOnlyOnEmptyAnswer'
    BY <1>1, <1>13, <2>1 DEF IInv, BeforeRace, InPoll, PanicOnlyOnEmptyAnswer
  <2>4. (\A p \in Sides : Live(p) => SideOK(p))' /\ Roles' /\ Accounted'
        /\ NoneForgotten'
    BY <2>1 DEF Live, Roles, Accounted, NoneForgotten
  <2> QED BY <1>7, <1>9, <1>10, <2>2, <2>3, <2>4 DEF IInv
<1>14. CASE s = "fallback"
  <2> DEFINE o == "preferred"
  <2>1. fallback' = "None" /\ pc' = "parked" /\ UNCHANGED <<st, cause, remote>>
    BY <1>14 DEF RemoteErr
  <2>2. Live(o) /\ o # s /\ o \in Sides /\ fallback = "Some"
    BY <1>1, <1>14 DEF Live, Sides
  <2>3. Owned(o)' = Owned(o)
    BY <2>1 DEF Owned
  <2>4. SideOK(o)'
    BY <1>2, <1>5, <1>11, <2>1, <2>2, <2>3 DEF SideOK
  <2>5. (\A p \in Sides : Live(p) => SideOK(p))'
    BY <2>1, <2>4 DEF Live, Sides
  <2>6. Roles'
    BY <1>1, <2>1, <2>2, <2>3 DEF IInv, Roles
  <2>7. Accounted'
    <3> SUFFICES ASSUME NEW j \in DOMAIN answer
                PROVE  \/ \E p \in Sides :
                             Live(p)' /\ \E k \in Owned(p)' : answer[k] = answer[j]
                       \/ FamilyOver(answer[j])'
                       \/ timer = "broken" /\ answer[j] # answer[1]
      BY DEF Accounted
    <3>1. \/ \E p \in Sides : Live(p) /\ \E k \in Owned(p) : answer[k] = answer[j]
          \/ FamilyOver(answer[j])
          \/ timer = "broken" /\ answer[j] # answer[1]
      BY <1>1 DEF IInv, Accounted
    <3>2. Live(o)'
      BY <1>1, <2>1 DEF Live
    <3>3. FamilyOver(answer[j]) => FamilyOver(answer[j])'
      BY <1>6
    <3>4. ASSUME NEW k \in Owned(s), answer[k] = answer[j]
          PROVE  FamilyOver(answer[j])'
      BY <3>4
    <3> QED BY <1>14, <2>2, <2>3, <3>1, <3>2, <3>3, <3>4 DEF Sides
  <2>8. NoneForgotten'
    BY <1>1, <1>3, <1>14, <2>1 DEF IInv, NoneForgotten
  <2>9. BeforeRace' /\ InPoll' /\ FailureIsHonest' /\ PanicOnlyOnEmptyAnswer'
    BY <1>1, <2>1
    DEF IInv, BeforeRace, InPoll, FailureIsHonest, PanicOnlyOnEmptyAnswer
  <2> QED
    BY <1>7, <1>9, <1>10, <2>5, <2>6, <2>7, <2>8, <2>9 DEF IInv
<1> QED BY <1>12, <1>13, <1>14 DEF Sides, TypeOK
(* The other steps of the race.                                            *)
LEMMA RaceInv ==
    ASSUME TypeOK, TypeOK', IInv,
           \/ \E s \in Sides : PollRemote(s)
           \/ PollDelay \/ DelayElapses \/ TimerFails
           \/ \E i \in Pos : SocketDecides(i)
    PROVE  IInv'
<1> USE DEF env
<1>1. ASSUME NEW s \in Sides, NEW i \in Pos, StartNext(s, i) PROVE IInv'
  BY <1>1, StartNextInv
<1>2. ASSUME NEW s \in Sides, NEW i \in Pos, StartFails(s, i) PROVE IInv'
  BY <1>2, SideEnds, RemoteErrInv DEF StartFails, Yields
<1>3. ASSUME NEW s \in Sides, Exhausted(s) PROVE IInv'
  BY <1>3, SideEnds, RemoteErrInv DEF Exhausted
<1>4. ASSUME NEW s \in Sides, RemotePanics(s) PROVE IInv'
  <2>1. st = "Connecting" /\ Live(s) /\ SideOK(s)
    BY <1>4, PollingLive DEF RemotePanics
  <2>2. Owned(s) = {}
    BY <1>4, <2>1 DEF RemotePanics, PanicOf, Current, SideOK, Owned
  <2>3. answer = <<>> /\ rslv = "done"
    BY <2>1, <2>2 DEF SideOK, IInv, BeforeRace
  <2>4. /\ st' = "Panic" /\ pc' = "parked" /\ cause' # "connect"
        /\ UNCHANGED <<rslv, answer, remote, fallback, delay, sock, fate, timer>>
    BY <1>4 DEF RemotePanics, Return, PanicOf
  <2>5. BeforeRace' /\ InPoll' /\ PanicOnlyOnEmptyAnswer' /\ FailureIsHonest'
    BY <2>1, <2>3, <2>4
    DEF IInv, BeforeRace, InPoll, PanicOnlyOnEmptyAnswer, FailureIsHonest
  <2>6. SockFate' /\ InOrder' /\ FallbackWaits'
    BY <2>4 DEF IInv, SockFate, InOrder, FallbackWaits, FamilyOver
  <2>7. (\A p \in Sides : Live(p) => SideOK(p))' /\ Roles' /\ Accounted'
        /\ NoneForgotten'
    BY <2>4 DEF Live, Roles, Accounted, NoneForgotten
  <2> QED BY <2>5, <2>6, <2>7 DEF IInv
<1>5. ASSUME NEW s \in Sides, CurrentNotReady(s) PROVE IInv'
  <2>1. UNCHANGED <<st, cause, rslv, answer, remote, fallback, sock, fate,
                    timer, delay>>
    BY <1>5 DEF CurrentNotReady
  <2>2. BeforeRace' /\ InPoll' /\ FallbackWaits' /\ PanicOnlyOnEmptyAnswer'
    BY <1>5, <2>1
    DEF CurrentNotReady, Polling, IInv, BeforeRace, InPoll, FallbackWaits,
        FamilyOver, PanicOnlyOnEmptyAnswer
  <2> QED BY <2>1, <2>2, RaceUnchanged DEF IInv
<1>6. ASSUME NEW s \in Sides, CurrentReady(s) PROVE IInv'
  <2> DEFINE c == remote[s].current
  <2>1. /\ c # NoAddr /\ c \in Pos /\ sock[c] = "connected"
        /\ st = "Connecting"
    BY <1>6, Shapes DEF CurrentReady, Current, Polling
  <2>2. \A j \in Pos : sock'[j] = IF j = c THEN "spent" ELSE sock[j]
    BY <1>6, <2>1, Shapes DEF CurrentReady, SpendCurrent
  <2>3. /\ st' \in {"Ok", "Err"} /\ cause' \in {"none", "sockopt"}
        /\ pc' = "parked" /\ fallback' = "None"
        /\ UNCHANGED <<rslv, answer, fate, timer, delay>>
    BY <1>6 DEF CurrentReady, Return
  <2>4. \A j \in Pos : sock[j] = "spent" => sock'[j] = "spent"
    BY <2>2
  <2>5. \A j \in Pos : sock'[j] # "none" => sock[j] # "none"
    BY <2>1, <2>2
  <2>6. DOMAIN answer \subseteq Pos
    BY Shapes
  <2>7. \A f : FamilyOver(f) => FamilyOver(f)'
    BY <2>3, <2>4, OverStays
  <2>8. SockFate'
    <3> SUFFICES ASSUME NEW j \in Pos, sock'[j] # "none"
                PROVE  /\ j \in DOMAIN answer /\ fate[j] # "nosock"
                       /\ sock'[j] = "connected" => fate[j] = "accept"
                       /\ sock'[j] = "failed" => fate[j] = "refuse"
      BY <2>3 DEF SockFate
    <3> QED BY <2>2, <2>5 DEF IInv, SockFate
  <2>9. InOrder'
    BY <2>3, <2>4, <2>5, <2>6 DEF IInv, InOrder
  <2>10. FallbackWaits'
    BY <2>3, <2>5, <2>6, <2>7 DEF IInv, FallbackWaits
  <2>11. (\A p \in Sides : Live(p) => SideOK(p))' /\ Roles' /\ Accounted'
         /\ NoneForgotten'
    BY <2>3 DEF Live, Roles, Accounted, NoneForgotten
  <2>12. BeforeRace' /\ InPoll' /\ PanicOnlyOnEmptyAnswer' /\ FailureIsHonest'
    BY <2>1, <2>3
    DEF IInv, BeforeRace, InPoll, PanicOnlyOnEmptyAnswer, FailureIsHonest
  <2> QED BY <2>8, <2>9, <2>10, <2>11, <2>12 DEF IInv
<1>7. CASE PollDelay
  <2>1. UNCHANGED <<st, cause, rslv, answer, remote, sock, fate, timer, delay>>
        /\ st = "Connecting" /\ fallback = "Some"
    BY <1>7 DEF PollDelay, IInv, InPoll
  <2>2. BeforeRace' /\ InPoll' /\ FallbackWaits' /\ PanicOnlyOnEmptyAnswer'
    BY <1>7, <2>1
    DEF PollDelay, NotReady, IInv, BeforeRace, InPoll, FallbackWaits, FamilyOver,
        PanicOnlyOnEmptyAnswer
  <2>3. CASE UNCHANGED fallback
    BY <2>1, <2>2, <2>3, RaceUnchanged DEF IInv
  <2>4. CASE fallback' = "None" /\ timer = "broken" /\ delay = "armed"
    <3>1. Live("preferred")' /\ ~Live("fallback")'
      BY <2>1, <2>4 DEF Live
    <3>2. Owned("preferred")' = Owned("preferred")
      BY <2>1 DEF Owned
    <3>3. SideOK("preferred")
      BY <2>1 DEF IInv, Live, Sides
    <3>4. SideOK("preferred")'
      BY <2>1, <3>3 DEF SideOK, Owned
    <3>5. (\A p \in Sides : Live(p) => SideOK(p))'
      BY <3>1, <3>4 DEF Sides
    <3>6. Roles'
      BY <2>1, <2>4, <3>2 DEF IInv, Roles
    <3>7. Accounted'
      <4> SUFFICES ASSUME NEW j \in DOMAIN answer
                  PROVE  \/ \E p \in Sides :
                               Live(p)' /\ \E k \in Owned(p)' : answer[k] = answer[j]
                         \/ FamilyOver(answer[j])'
                         \/ timer = "broken" /\ answer[j] # answer[1]
        BY <2>1 DEF Accounted
      <4>1. \/ \E p \in Sides : Live(p) /\ \E k \in Owned(p) : answer[k] = answer[j]
            \/ FamilyOver(answer[j])
            \/ timer = "broken" /\ answer[j] # answer[1]
        BY <2>1 DEF IInv, Accounted
      <4>2. FamilyOver(answer[j]) => FamilyOver(answer[j])'
        BY <2>1 DEF FamilyOver
      <4>3. \A k \in Owned("fallback") : answer[k] # answer[1]
        BY <2>1 DEF IInv, Roles
      <4> QED BY <2>4, <3>1, <3>2, <4>1, <4>2, <4>3 DEF Sides
    <3>8. SockFate' /\ InOrder' /\ FailureIsHonest'
      BY <2>1 DEF IInv, SockFate, InOrder, FailureIsHonest, FamilyOver, BeforeRace
    <3>9. NoneForgotten'
      <4>1. remote["fallback"].current \notin Pos
        BY <2>1, <2>4, Shapes DEF IInv, InPoll
      <4> QED BY <2>1, <2>4, <4>1 DEF IInv, NoneForgotten
    <3> QED BY <2>2, <3>5, <3>6, <3>7, <3>8, <3>9 DEF IInv
  <2> QED BY <1>7, <2>3, <2>4 DEF PollDelay, NotReady
<1>8. CASE DelayElapses
  <2>1. UNCHANGED <<st, cause, pc, rslv, answer, remote, fallback, sock, fate, timer>>
        /\ delay' = "elapsed"
    BY <1>8 DEF DelayElapses
  <2>2. BeforeRace' /\ InPoll' /\ FallbackWaits' /\ PanicOnlyOnEmptyAnswer'
    BY <2>1
    DEF IInv, BeforeRace, InPoll, FallbackWaits, PanicOnlyOnEmptyAnswer
  <2> QED BY <2>1, <2>2, RaceUnchanged DEF IInv
<1>10. CASE TimerFails
  <2>1. UNCHANGED <<st, cause, pc, rslv, answer, remote, fallback, delay, sock, fate>>
        /\ timer' = "broken"
    BY <1>10 DEF TimerFails
  <2>2. BeforeRace' /\ InPoll' /\ PanicOnlyOnEmptyAnswer'
    BY <2>1 DEF IInv, BeforeRace, InPoll, PanicOnlyOnEmptyAnswer
  <2>3. FallbackWaits'
    BY <2>1 DEF IInv, FallbackWaits, FamilyOver
  <2> QED BY <2>1, <2>2, <2>3, RaceUnchanged DEF IInv
<1>9. ASSUME NEW i \in Pos, SocketDecides(i) PROVE IInv'
  <2>1. /\ UNCHANGED <<st, cause, pc, rslv, answer, remote, fallback, delay, fate,
                       timer>>
        /\ st = "Connecting" /\ sock[i] = "pending"
    BY <1>9 DEF SocketDecides
  <2>2. \A j \in Pos : j # i => sock'[j] = sock[j]
    BY <1>9, Shapes DEF SocketDecides
  <2>3. \/ sock'[i] = "connected" /\ fate[i] = "accept"
        \/ sock'[i] = "failed" /\ fate[i] = "refuse"
    BY <1>9, Shapes DEF SocketDecides
  <2>4. /\ \A j \in Pos : sock[j] = "spent" <=> sock'[j] = "spent"
        /\ \A j \in Pos : sock[j] = "none" <=> sock'[j] = "none"
        /\ DOMAIN answer \subseteq Pos
    BY <2>1, <2>2, <2>3, Shapes
  <2>5. \A f : FamilyOver(f) => FamilyOver(f)'
    BY <2>1, <2>4, OverStays
  <2>6. BeforeRace' /\ InPoll' /\ PanicOnlyOnEmptyAnswer' /\ FailureIsHonest'
    BY <2>1 DEF IInv, BeforeRace, InPoll, PanicOnlyOnEmptyAnswer, FailureIsHonest
  <2>7. SockFate'
    BY <2>1, <2>2, <2>3 DEF IInv, SockFate
  <2>8. ASSUME NEW s \in Sides, Live(s)' PROVE SideOK(s)'
    <3>1. SideOK(s) /\ Owned(s)' = Owned(s)
      BY <2>1, <2>8 DEF IInv, Live, Owned
    <3>2. remote[s].current # NoAddr =>
             sock'[remote[s].current] \in {"pending", "connected", "failed"}
      BY <2>2, <2>3, <3>1, Shapes DEF SideOK
    <3> QED BY <2>1, <2>4, <3>1, <3>2, Shapes DEF SideOK
  <2>9. Roles'
    BY <2>1, <2>5 DEF IInv, Roles, Owned
  <2>10. Accounted'
    BY <2>1, <2>5 DEF IInv, Accounted, Live, Owned
  <2>11. NoneForgotten'
    BY <2>1, <2>2 DEF IInv, NoneForgotten
  <2>12. InOrder'
    BY <2>1, <2>4 DEF IInv, InOrder
  <2>13. FallbackWaits'
    BY <2>1, <2>4, <2>5 DEF IInv, FallbackWaits
  <2> QED
    BY <2>6, <2>7, <2>8, <2>9, <2>10, <2>11, <2>12, <2>13 DEF IInv
<1> QED
  BY <1>1, <1>2, <1>3, <1>4, <1>5, <1>6, <1>7, <1>8, <1>9, <1>10 DEF PollRemote
(* Every step keeps IInv.                                                  *)
LEMMA StepInv == TypeOK /\ IInv /\ [Next]_vars => IInv'
<1> SUFFICES ASSUME TypeOK, IInv, [Next]_vars PROVE IInv'
  OBVIOUS
<1>1. TypeOK'
  BY StepType
<1> QED BY <1>1, QuietInv, RaceInv DEF Next, PollStep

(* IInv is an invariant, inductive relative to TypeOK.                     *)
THEOREM Inductive == Spec => []IInv
<1>1. Init => TypeOK /\ IInv
  BY InitType, InitInv
<1>2. TypeOK /\ IInv /\ [Next]_vars => (TypeOK /\ IInv)'
  BY StepType, StepInv
<1> QED BY <1>1, <1>2, PTL DEF Spec

(* A connect error is never returned while a family is still untried.      *)
THEOREM Honest == Spec => []FailureIsHonest
<1>1. IInv => FailureIsHonest
  BY DEF IInv
<1> QED BY <1>1, Inductive, PTL

(* The fallback family waits for its delay or the preferred family's end.  *)
THEOREM Waits == Spec => []FallbackWaits
<1>1. IInv => FallbackWaits
  BY DEF IInv
<1> QED BY <1>1, Inductive, PTL

(* Addresses of one family are tried one at a time and in order.           *)
THEOREM Ordered == Spec => []InOrder
<1>1. IInv => InOrder
  BY DEF IInv
<1> QED BY <1>1, Inductive, PTL

(* No connection of the race is left without a side that polls it.         *)
THEOREM Remembered == Spec => []NoneForgotten
<1>1. IInv => NoneForgotten
  BY DEF IInv
<1> QED BY <1>1, Inductive, PTL

(* Only an empty answer makes the future panic.                            *)
THEOREM NoOtherPanic == Spec => []PanicOnlyOnEmptyAnswer
<1>1. IInv => PanicOnlyOnEmptyAnswer
  BY DEF IInv
<1> QED BY <1>1, Inductive, PTL
-----------------------------------------------------------------------------
(* The contract of Resolve, which the future relies on                     *)

(* Outside Resolving the future's steps are nobody's business but its own. *)
LEMMA LookupElsewhere ==
    ASSUME TypeOK, TypeOK', st # "Resolving", st' # "Resolving", rslv' = rslv,
           Resolver \in interest' <=> Resolver \in interest
    PROVE  Lookup!Next
<1>1. LookupState \in {"none", "over"} /\ LookupState' = LookupState
  BY DEF LookupState
<1>2. LookupWaker' = LookupWaker
  BY DEF LookupWaker
<1>3. LookupTask' \in {"idle", "notified"}
  BY DEF LookupTask, TypeOK
<1> QED
  BY <1>1, <1>2, <1>3 DEF Lookup!Next, Lookup!Elsewhere, Lookup!Tasks

(* Waking the task, or nothing at all, is always allowed.                  *)
LEMMA LookupWakes ==
    ASSUME TypeOK, UNCHANGED <<rslv, interest, pc>>, st' = st \/ rslv = "none",
           task' = "notified" \/ task' = task \/ pc # "parked"
    PROVE  Lookup!Next \/ UNCHANGED Lookup!vars
<1>1. LookupState' = LookupState /\ LookupWaker' = LookupWaker
  BY DEF LookupState, LookupWaker
<1>2. LookupTask' = "notified" \/ LookupTask' = LookupTask
  BY DEF LookupTask
<1> QED
  BY <1>1, <1>2 DEF Lookup!Next, Lookup!Wake, Lookup!vars

(* The sources of events other than the resolver are not the resolver.     *)
LEMMA OtherSources == Timer # Resolver /\ \A i : Socket(i) # Resolver
  BY DEF Timer, Resolver, Socket

(* Every step is one of the contract, or none.                             *)
LEMMA StepLookup ==
    ASSUME TypeOK, TypeOK', IInv, [Next]_vars
    PROVE  Lookup!Next \/ UNCHANGED Lookup!vars
<1>0. /\ st \in {"New", "Lazy", "Error"} => rslv = "none"
      /\ rslv = "pending" => st = "Resolving"
      /\ st = "Resolving" => fallback = "None"
      /\ st = "New" => pc = "parked"
      /\ pc = "delay" => st = "Connecting"
  BY DEF IInv, BeforeRace, InPoll
<1>1. CASE UNCHANGED vars \/ Done \/ SpuriousWake
  BY <1>1, LookupWakes DEF vars, Done, SpuriousWake, env
<1>2. CASE Connect
  BY <1>0, <1>2, LookupWakes DEF Connect
<1>3. CASE BeginPoll
  <2>1. UNCHANGED <<LookupState, LookupWaker, LookupTask>>
    BY <1>3 DEF BeginPoll, LookupState, LookupWaker, LookupTask
  <2> QED BY <2>1 DEF Lookup!vars
<1>4. CASE PollError
  BY <1>0, <1>4, LookupElsewhere DEF PollError, Return
<1>5. CASE PollLazyLiteral
  BY <1>0, <1>5, LookupElsewhere DEF PollLazyLiteral, ConnectingTcpNew
<1>6. CASE PollLazyName
  <2>1. LookupState = "none" /\ LookupState' = "pending"
    BY <1>0, <1>6 DEF PollLazyName, LookupState
  <2>2. LookupWaker' = LookupWaker /\ LookupTask' = "notified"
    BY <1>6 DEF PollLazyName, LookupWaker, LookupTask
  <2> QED BY <2>1, <2>2 DEF Lookup!Next, Lookup!Ask
<1>7. CASE PollResolving
  <2>1. /\ st = "Resolving" /\ pc = "poll" /\ rslv' = rslv /\ task' = task
        /\ LookupTask = "notified" /\ LookupState = rslv
        /\ LookupTask' \in {"idle", "notified"}
    BY <1>7 DEF PollResolving, LookupTask, LookupState, TypeOK
  <2>2. CASE rslv = "pending" /\ NotReady(Resolver) /\ st' = st
    <3>1. LookupState' = "pending" /\ LookupWaker' = "held"
      BY <2>1, <2>2 DEF NotReady, LookupState, LookupWaker
    <3> QED BY <2>1, <2>2, <3>1 DEF Lookup!Next, Lookup!Wait, Lookup!Tasks
  <2>3. CASE rslv \in {"failed", "done"} /\ st' # "Resolving" /\ interest' = interest
    <3>1. LookupState' = "over" /\ LookupWaker' = LookupWaker
      BY <2>1, <2>3 DEF LookupState, LookupWaker
    <3> QED BY <2>1, <2>3, <3>1 DEF Lookup!Next, Lookup!Take, Lookup!Tasks, Lookup!Answered
  <2> QED BY <1>7, <2>2, <2>3 DEF PollResolving, Return, ConnectingTcpNew
<1>8. ASSUME NEW s \in Sides, PollRemote(s) PROVE Lookup!Next
  <2>1. st = "Connecting" /\ rslv' = rslv
    BY <1>8 DEF PollRemote, StartNext, StartFails, Exhausted, RemotePanics,
                CurrentNotReady, CurrentReady, Polling
  <2>2. st' # "Resolving"
    BY <1>8, <2>1 DEF PollRemote, StartNext, StartFails, Exhausted, RemotePanics,
                      CurrentNotReady, CurrentReady, RemoteErr, Return
  <2>3. interest' = interest \/ interest' = interest \cup {Socket(remote[s].current)}
    BY <1>8 DEF PollRemote, StartNext, StartFails, Exhausted, RemotePanics,
                CurrentNotReady, CurrentReady
  <2>4. Resolver \in interest' <=> Resolver \in interest
    BY <2>3, OtherSources
  <2> QED BY <2>1, <2>2, <2>4, LookupElsewhere
<1>9. CASE PollDelay
  <2>1. st = "Connecting" /\ st' = st /\ rslv' = rslv
    BY <1>0, <1>9 DEF PollDelay
  <2>2. interest' = interest \/ interest' = interest \cup {Timer}
    BY <1>9 DEF PollDelay, NotReady
  <2>3. Resolver \in interest' <=> Resolver \in interest
    BY <2>2, OtherSources
  <2> QED BY <2>1, <2>3, LookupElsewhere
<1>10. CASE ResolverAnswers
  <2>1. /\ st = "Resolving" /\ st' = st /\ pc' = pc /\ rslv = "pending"
        /\ rslv' \in {"failed", "done"}
    BY <1>0, <1>10 DEF ResolverAnswers
  <2>2. LookupState = "pending" /\ LookupState' \in {"failed", "done"}
    BY <2>1 DEF LookupState
  <2>3. LookupWaker' = "none"
    BY <1>10 DEF ResolverAnswers, Notify, LookupWaker
  <2>4. LookupTask' = IF LookupWaker = "held" THEN "notified" ELSE LookupTask
    BY <1>10, <2>1 DEF ResolverAnswers, Notify, LookupWaker, LookupTask
  <2> QED BY <2>2, <2>3, <2>4 DEF Lookup!Next, Lookup!Answer, Lookup!Answered
<1>11. ASSUME NEW i \in Pos, SocketDecides(i) PROVE Lookup!Next
  <2>1. st = "Connecting" /\ st' = st /\ rslv' = rslv /\ interest' = interest \ {Socket(i)}
    BY <1>11 DEF SocketDecides, Notify
  <2>2. Resolver \in interest' <=> Resolver \in interest
    BY <2>1, OtherSources
  <2> QED BY <2>1, <2>2, LookupElsewhere
<1>12. CASE DelayElapses \/ TimerFails
  <2>1. st # "Resolving" /\ st' = st /\ rslv' = rslv /\ interest' = interest \ {Timer}
    BY <1>0, <1>12 DEF DelayElapses, TimerFails, Notify
  <2>2. Resolver \in interest' <=> Resolver \in interest
    BY <2>1, OtherSources
  <2> QED BY <2>1, <2>2, LookupElsewhere
<1> QED
  BY <1>1, <1>2, <1>3, <1>4, <1>5, <1>6, <1>7, <1>8, <1>9, <1>10, <1>11, <1>12
  DEF Next, PollStep

(* The future keeps to the contract of Resolve (KeepsResolveContract).     *)
THEOREM KeepsResolve == Spec => KeepsResolveContract
<1>1. Init => Lookup!Init
  BY DEF Init, Lookup!Init, Lookup!Tasks, LookupState, LookupWaker, LookupTask
<1>2. TypeOK /\ TypeOK' /\ IInv /\ [Next]_vars => [Lookup!Next]_Lookup!vars
  BY StepLookup
<1> QED
  BY <1>1, <1>2, TypeCorrect, Inductive, PTL DEF Spec, KeepsResolveContract, Lookup!Spec

-----------------------------------------------------------------------------
(* The refinement of Dial                                                  *)

(* Every step keeps Staged.                                                *)
LEMMA StepStaged == TypeOK /\ IInv /\ Staged /\ [Next]_vars => Staged'
<1> SUFFICES ASSUME TypeOK, IInv, Staged, [Next]_vars PROVE Staged'
  OBVIOUS
<1> USE DEF env, BeforeTheRace
<1>0. /\ rslv = "pending" => st = "Resolving"
      /\ st \in {"New", "Lazy", "Error"} => rslv = "none"
      /\ st = "Resolving" => fallback = "None"
  BY DEF IInv, BeforeRace
<1>1. CASE UNCHANGED vars \/ Done \/ SpuriousWake \/ BeginPoll
  <2>1. UNCHANGED <<st, rslv, answer, fallback, delay, sock>>
    BY <1>1 DEF vars, Done, SpuriousWake, BeginPoll
  <2> QED BY <2>1 DEF Staged
<1>2. CASE Connect \/ PollError
  <2>1. UNCHANGED <<rslv, answer, fallback, delay, sock>> /\ fallback = "None"
    BY <1>2 DEF Connect, PollError, IInv, BeforeRace
  <2> QED BY <1>2, <2>1 DEF Connect, PollError, Return, Staged
<1>3. ASSUME NEW ans \in Answers \cup {<<>>}, ConnectingTcpNew(ans), answer' = ans,
             sock' = [i \in Pos |-> "none"]
      PROVE  Staged'
  <2>1. fallback' = "Some" => answer' # <<>>
    BY <1>3 DEF ConnectingTcpNew, Split, Sides
  <2>2. \A i \in DOMAIN answer' : sock'[i] = "none"
    BY <1>3, AnswerPos
  <2> QED BY <1>3, <2>1, <2>2 DEF ConnectingTcpNew, Staged
<1>4. CASE PollLazyLiteral
  <2>1. sock' = [i \in Pos |-> "none"]
    BY <1>4 DEF PollLazyLiteral, IInv, BeforeRace
  <2> QED BY <1>3, <1>4, <2>1, LiteralAnswer DEF PollLazyLiteral
<1>5. CASE PollLazyName
  BY <1>0, <1>5 DEF PollLazyName, Staged
<1>6. CASE PollResolving
  <2>1. sock' = [i \in Pos |-> "none"] /\ answer' = answer /\ answer \in Answers \cup {<<>>}
    BY <1>6 DEF PollResolving, IInv, BeforeRace, TypeOK
  <2>2. CASE ConnectingTcpNew(answer)
    BY <1>3, <2>1, <2>2
  <2>3. CASE UNCHANGED <<fallback, delay, rslv>> /\ st' \in {"Resolving", "Err"}
    BY <1>0, <1>6, <2>1, <2>3 DEF Staged, PollResolving
  <2> QED BY <1>6, <2>2, <2>3 DEF PollResolving, NotReady, Return
<1>7. CASE ResolverAnswers
  BY <1>0, <1>7 DEF ResolverAnswers, Staged
<1>8. ASSUME NEW s \in Sides, PollRemote(s) PROVE Staged'
  <2>1. st = "Connecting" /\ UNCHANGED <<rslv, answer, delay>>
    BY <1>8 DEF PollRemote, StartNext, StartFails, Exhausted, RemotePanics,
                CurrentNotReady, CurrentReady, Polling
  <2>2. CASE fallback' = "None"
    <3>1. st' \in {"Connecting", "Ok", "Err", "Panic"}
      BY <1>8, <2>1 DEF PollRemote, StartNext, StartFails, Exhausted, RemotePanics,
                CurrentNotReady, CurrentReady, RemoteErr, Return
    <3> QED BY <2>1, <2>2, <3>1 DEF Staged
  <2>3. ASSUME NEW i \in Pos, StartNext(s, i), fallback' = "Some" PROVE Staged'
    <3>1. UNCHANGED <<st, fallback>> /\ fallback = "Some" /\ Polling(s) /\ Yields(s, i)
      BY <2>3 DEF StartNext
    <3>2. CASE delay = "elapsed"
      BY <2>1, <3>1, <3>2 DEF Staged
    <3>3. CASE delay # "elapsed"
      <4>1. s = "preferred"
        BY <3>1, <3>3 DEF Polling, IInv, InPoll, Sides
      <4>2. i \in Owned("preferred")
        BY <3>1, <4>1 DEF Yields, Owned
      <4>3. answer[i] = answer[1]
        BY <2>1, <3>1, <4>2 DEF IInv, Roles
      <4>4. \A j \in Pos : j # i => sock'[j] = sock[j] \/ sock[j] # "none"
        <5>1. remote[s].current # NoAddr => sock[remote[s].current] # "none"
          BY <3>1, PollingLive DEF SideOK
        <5> QED BY <2>3, <5>1, Shapes DEF StartNext, SpendCurrent
      <4> QED BY <2>1, <3>1, <4>3, <4>4, Shapes DEF Staged
    <3> QED BY <3>2, <3>3
  <2>4. CASE CurrentNotReady(s)
    BY <2>1, <2>4 DEF CurrentNotReady, Staged
  <2>5. CASE RemotePanics(s)
    <3>1. SideOK(s) /\ Owned(s) = {}
      BY <2>5, PollingLive DEF RemotePanics, PanicOf, Current, SideOK, Owned
    <3>2. fallback # "Some"
      BY <3>1 DEF SideOK, Staged
    <3> QED BY <2>5, <2>1, <3>2 DEF RemotePanics, Return, Staged
  <2> QED
    BY <1>8, <2>1, <2>2, <2>3, <2>4, <2>5, StepType
    DEF PollRemote, StartFails, Exhausted, CurrentReady, RemoteErr, TypeOK
<1>9. CASE PollDelay
  BY <1>9 DEF PollDelay, NotReady, Staged
<1>10. ASSUME NEW i \in Pos, SocketDecides(i) PROVE Staged'
  <2>1. \A j \in Pos : sock[j] = "none" => sock'[j] = "none"
    BY <1>10, Shapes DEF SocketDecides
  <2> QED BY <1>10, <2>1, Shapes DEF SocketDecides, Staged
<1>11. CASE DelayElapses \/ TimerFails
  BY <1>11 DEF DelayElapses, TimerFails, Staged
<1> QED
  BY <1>1, <1>2, <1>4, <1>5, <1>6, <1>7, <1>8, <1>9, <1>10, <1>11
  DEF Next, PollStep

(* Staged holds throughout.                                                *)
LEMMA AlwaysStaged == Spec => []Staged
<1>1. Init => Staged
  BY DEF Init, Staged, BeforeTheRace
<1> QED BY <1>1, StepStaged, TypeCorrect, Inductive, PTL DEF Spec

(* The families of the race are those of the addresses of live sides.      *)
LEMMA Racers ==
    TypeOK /\ IInv /\ st = "Connecting" =>
        \A f : f \in Racing <=>
                  \E s \in Sides : Live(s) /\ \E k \in Owned(s) : answer[k] = f
<1> SUFFICES ASSUME TypeOK, IInv, st = "Connecting", NEW f
             PROVE  f \in Racing <=>
                      \E s \in Sides : Live(s) /\ \E k \in Owned(s) : answer[k] = f
  OBVIOUS
<1>1. \A s \in Sides : Live(s) <=> (s = "preferred" \/ fallback = "Some")
  BY DEF Live
<1>2. \A s \in Sides : Live(s) => Owned(s) \subseteq DOMAIN answer
  BY DEF IInv, SideOK
<1>3. NoAddr \notin DOMAIN answer
  BY Shapes
<1>4. \A s \in Sides, j \in DOMAIN answer :
         j \in remote[s].addrs \cup {remote[s].current} <=> j \in Owned(s)
  BY <1>3 DEF Owned
<1> QED BY <1>1, <1>2, <1>4 DEF Racing

(* The same, of the state after a step.                                    *)
LEMMA RacersNext ==
    (TypeOK /\ IInv /\ st = "Connecting")' =>
        \A f : f \in Racing' <=>
                  \E s \in Sides : Live(s)' /\ \E k \in Owned(s)' : answer'[k] = f
<1>1. (TypeOK /\ IInv /\ st = "Connecting" =>
        \A f : f \in Racing <=>
                  \E s \in Sides : Live(s) /\ \E k \in Owned(s) : answer[k] = f)'
  BY Racers, PTL
<1> QED BY <1>1

(* In the race Dial sees the answer, and the families that are given up.   *)
LEMMA InRace ==
    ASSUME st = "Connecting"
    PROVE  /\ ~BeforeTheRace /\ Phase = "race" /\ Known = answer
           /\ NoSockets = {i \in DOMAIN answer : fate[i] = "nosock"}
           /\ Trying = {i \in Pos : sock[i] \in {"pending", "connected"}}
           /\ Accepted = {i \in Pos : sock[i] = "connected"}
           /\ GivenUp = {answer[i] : i \in DOMAIN answer} \ Racing
  BY DEF BeforeTheRace, Phase, Known, NoSockets, Trying, Accepted, GivenUp

(* Before it, nothing.                                                     *)
LEMMA AheadOfRace ==
    ASSUME TypeOK, IInv, Staged, BeforeTheRace
    PROVE  /\ Phase = "idle" /\ Known = <<>> /\ NoSockets = {} /\ Late = "no"
           /\ Trying = {} /\ Accepted = {} /\ Refusals = {} /\ GivenUp = {}
<1>1. \A i \in DOMAIN answer : sock[i] = "none"
  BY Shapes DEF IInv, BeforeRace, BeforeTheRace
<1> QED
  BY <1>1 DEF BeforeTheRace, Phase, Known, NoSockets, Late, Trying, Accepted, Refusals,
              GivenUp, Staged

(* The same, of the state after a step.                                    *)
LEMMA AheadOfRaceNext ==
    ASSUME TypeOK', IInv', Staged', BeforeTheRace'
    PROVE  /\ Phase' = "idle" /\ Known' = <<>> /\ NoSockets' = {} /\ Late' = "no"
           /\ Trying' = {} /\ Accepted' = {} /\ Refusals' = {} /\ GivenUp' = {}
<1>1. \A i \in DOMAIN answer' : sock'[i] = "none"
  <2>1. DOMAIN answer' \subseteq Pos
    BY AnswerPos DEF TypeOK
  <2> QED BY <2>1 DEF IInv, BeforeRace, BeforeTheRace
<1> QED
  BY <1>1 DEF BeforeTheRace, Phase, Known, NoSockets, Late, Trying, Accepted, Refusals,
              GivenUp, Staged

(* A step that leaves the race's variables alone is none of Dial's.        *)
LEMMA DialUnchanged ==
    ASSUME UNCHANGED <<st, answer, remote, fallback, delay, sock, fate, timer>>
    PROVE  UNCHANGED Attempt!vars
  BY DEF Attempt!vars, Phase, Known, NoSockets, Late, Trying, Accepted, Refusals, GivenUp,
         BeforeTheRace, Racing

(* The race starts with every family in it.                                *)
LEMMA DialBegins ==
    ASSUME TypeOK, TypeOK', IInv, IInv', Staged, BeforeTheRace, timer' = timer,
           ConnectingTcpNew(answer'), sock' = sock
    PROVE  Attempt!Begin
<1>1. /\ Phase = "idle" /\ Late = "no" /\ Trying = {} /\ Accepted = {} /\ Refusals = {}
      /\ GivenUp = {}
  BY AheadOfRace
<1>2. st' = "Connecting" /\ remote' = Split(answer') /\ Late' = "no"
  BY DEF ConnectingTcpNew, Late
<1>3. Phase' = "race" /\ Known' = answer'
      /\ NoSockets' = {i \in DOMAIN answer' : fate'[i] = "nosock"}
  BY <1>2 DEF Phase, Known, NoSockets, BeforeTheRace
<1>4. sock' = [i \in Pos |-> "none"] /\ DOMAIN answer' \subseteq Pos
  BY AnswerPos DEF IInv, BeforeRace, BeforeTheRace, TypeOK
<1>5. Trying' = {} /\ Accepted' = {} /\ Refusals' = {}
  BY <1>4 DEF Trying, Accepted, Refusals
<1>6. answer' \in Answers
  <2>1. <<>> \in Answers
    <3>1. <<>> \in [1..0 -> Family]
      OBVIOUS
    <3>2. 0 \in 0..MaxAddrs
      BY MaxAddrsAssumption
    <3> QED BY <3>1, <3>2 DEF Answers
  <2> QED BY <2>1 DEF TypeOK
<1>7. GivenUp' = {}
  <2>1. ASSUME NEW i \in DOMAIN answer' PROVE answer'[i] \in Racing'
    <3>1. CASE answer'[i] = answer'[1]
      BY <1>2, <3>1 DEF Racing, Split, Sides
    <3>2. CASE answer'[i] # answer'[1]
      <4>1. i \in remote'["fallback"].addrs /\ fallback' = "Some"
        BY <1>2, <3>2 DEF Split, Sides, ConnectingTcpNew
      <4> QED BY <4>1 DEF Racing, Sides
    <3> QED BY <3>1, <3>2
  <2> QED BY <2>1 DEF GivenUp
<1> QED BY <1>1, <1>2, <1>3, <1>5, <1>6, <1>7 DEF Attempt!Begin

(* The next address of a family is tried in its turn.                      *)
LEMMA DialTries ==
    ASSUME TypeOK, TypeOK', IInv, IInv', NEW s \in Sides, NEW i \in Pos,
           StartNext(s, i)
    PROVE  i \in DOMAIN Known /\ Attempt!Try(i)
<1> DEFINE c == remote[s].current
<1>1. /\ UNCHANGED <<st, answer, fallback, delay, fate, timer>>
      /\ i \in remote[s].addrs /\ \A j \in remote[s].addrs : i <= j
      /\ fate[i] # "nosock" /\ Polling(s) /\ Current(s) \in {"none", "failed"}
  BY DEF StartNext, Yields, env
<1>2. st = "Connecting" /\ Live(s) /\ SideOK(s) /\ i \in Owned(s)
  BY <1>1, PollingLive DEF Owned
<1>3. c = NoAddr \/ (c # NoAddr /\ c \in Pos /\ sock[c] = "failed")
  BY <1>1, <1>2, Shapes DEF Current, SideOK
<1>4. /\ i \in DOMAIN answer /\ sock[i] = "none" /\ c < i /\ i > 0
      /\ DOMAIN answer \subseteq Pos /\ c # NoAddr => c \in Owned(s)
  BY <1>1, <1>2, Shapes DEF SideOK, Owned
<1>5. \A j \in Pos : sock'[j] = IF j = i THEN "pending"
                               ELSE IF j = c THEN "spent" ELSE sock[j]
  BY <1>3, <1>4, Shapes DEF StartNext, Yields, SpendCurrent
<1>6. c # NoAddr => fate[c] = "refuse" /\ c \in DOMAIN answer
  BY <1>3 DEF IInv, SockFate
<1>7. Trying' = Trying \cup {i} /\ i \notin Trying
  <2>1. \A j \in Pos : sock'[j] \in {"pending", "connected"} <=>
                      j = i \/ sock[j] \in {"pending", "connected"}
    BY <1>3, <1>5, Shapes
  <2> QED BY <1>1, <1>2, <1>4, <2>1 DEF Trying
<1>8. Refusals' = Refusals /\ i \notin Refusals
  BY <1>1, <1>3, <1>4, <1>5, <1>6, Shapes DEF Refusals
<1>17. Accepted' = Accepted
  <2>1. \A j \in Pos : sock'[j] = "connected" <=> sock[j] = "connected"
    BY <1>3, <1>4, <1>5, Shapes
  <2> QED BY <1>1, <2>1 DEF Accepted
<1>9. /\ Owned(s)' \subseteq Owned(s) /\ i \in Owned(s)'
      /\ \A o \in Sides : o # s => Owned(o)' = Owned(o)
      /\ \A o \in Sides : Live(o)' <=> Live(o)
  <2>1. /\ remote'[s].addrs = remote[s].addrs \ {i}
        /\ remote'[s].current = i
        /\ \A o \in Sides : o # s => remote'[o] = remote[o]
    BY Shapes DEF StartNext, Yields
  <2> QED BY <1>1, <1>4, <2>1 DEF Owned, Live, NoAddr
<1>10. \A k \in Owned(s) : answer[k] = answer[i]
  BY <1>2 DEF SideOK
<1>11. \A f : f \in Racing' <=> f \in Racing
  BY <1>1, <1>2, <1>9, <1>10, Racers, RacersNext
<1>12. GivenUp' = GivenUp /\ answer[i] \notin GivenUp
  <2>1. answer[i] \in Racing
    BY <1>2, Racers
  <2> QED BY <1>1, <1>11, <2>1 DEF GivenUp
<1>13. \A j \in DOMAIN answer : answer[j] = answer[i] => j \notin Trying
  <2> SUFFICES ASSUME NEW j \in DOMAIN answer, answer[j] = answer[i], j \in Trying
              PROVE  FALSE
    OBVIOUS
  <2>1. sock[j] \in {"pending", "connected"} /\ j \in Pos
    BY <1>2, InRace
  <2>2. PICK o \in Sides : Live(o) /\ j = remote[o].current
    BY <1>2, <2>1 DEF IInv, NoneForgotten, Live, Sides
  <2>3. j \in Owned(o)
    BY <2>1, <2>2, Shapes DEF Owned
  <2>4. o = s
    BY <1>2, <2>2, <2>3, Rivals
  <2> QED BY <1>3, <2>1, <2>2, <2>4, Shapes
<1>14. \A j \in DOMAIN answer : answer[j] = answer[i] /\ j < i => j \in Refusals
  <2> SUFFICES ASSUME NEW j \in DOMAIN answer, answer[j] = answer[i], j < i
              PROVE  j \in Refusals
    OBVIOUS
  <2>1. j \in Nat /\ i \in Nat
    BY <1>4, Shapes
  <2>2. j \notin remote[s].addrs
    BY <1>1, <2>1
  <2>3. CASE j = c
    BY <1>3, <1>4, <1>6, <2>3, Shapes DEF Refusals
  <2>4. CASE j # c
    BY <1>2, <2>2, <2>4 DEF SideOK, Owned, Refusals
  <2> QED BY <2>3, <2>4
<1>15. answer[i] # answer[1] => Late = "yes" \/ answer[1] \in GivenUp
  <2>1. CASE s = "fallback"
    BY <1>1, <2>1 DEF IInv, InPoll, Polling, Late
  <2>2. CASE s = "preferred" /\ answer[i] # answer[1]
    <3>1. fallback = "None"
      BY <1>2, <2>2 DEF IInv, Roles
    <3>2. answer[1] \notin Racing
      BY <1>2, <1>10, <2>2, <3>1, Racers DEF Live, Sides
    <3>3. 1 \in DOMAIN answer
      BY <1>4, Shapes
    <3> QED BY <1>2, <3>2, <3>3, InRace
  <2> QED BY <2>1, <2>2 DEF Sides
<1>16. /\ Phase = "race" /\ Known = answer
       /\ NoSockets = {j \in DOMAIN answer : fate[j] = "nosock"}
       /\ UNCHANGED <<Phase, Known, NoSockets, timer, Late>>
  BY <1>1, <1>2, InRace DEF Phase, Known, NoSockets, Late, BeforeTheRace
<1> QED
  BY <1>1, <1>4, <1>7, <1>8, <1>12, <1>13, <1>14, <1>15, <1>16, <1>17
  DEF Attempt!Try, Attempt!Of

(* A side that ends has nothing under way, and what it owns next cannot be *)
(* tried: Dial lets its family end.                                        *)
LEMMA DialCanEnd ==
    ASSUME TypeOK, IInv, NEW s \in Sides, Polling(s),
           \/ /\ Current(s) \in {"none", "failed"}
              /\ \E i \in remote[s].addrs :
                    fate[i] = "nosock" /\ \A j \in remote[s].addrs : i <= j
           \/ Current(s) = "failed" /\ remote[s].addrs = {},
           NEW a \in Owned(s)
    PROVE  Attempt!CanEnd(answer[a])
<1> DEFINE c == remote[s].current
           f == answer[a]
<1>1. st = "Connecting" /\ Live(s) /\ SideOK(s)
  BY PollingLive
<1>2. c = NoAddr \/ (c # NoAddr /\ c \in Pos /\ sock[c] = "failed" /\ c \in Owned(s))
  BY <1>1, Shapes DEF Current, SideOK, Owned
<1>3. /\ Owned(s) \subseteq DOMAIN answer /\ DOMAIN answer \subseteq Pos
      /\ \A k \in Owned(s) : answer[k] = f
  BY <1>1, Shapes DEF SideOK
<1>4. \A j \in DOMAIN answer : answer[j] = f /\ j \notin remote[s].addrs => j \in Refusals
  <2> SUFFICES ASSUME NEW j \in DOMAIN answer, answer[j] = f, j \notin remote[s].addrs
              PROVE  j \in Refusals
    OBVIOUS
  <2>1. CASE j = c
    BY <1>2, <1>3, <2>1, Shapes DEF Refusals, IInv, SockFate
  <2>2. CASE j # c
    BY <1>1, <2>2 DEF SideOK, Owned, Refusals
  <2> QED BY <2>1, <2>2
<1>5. \A j \in DOMAIN answer : answer[j] = f => j \notin Trying
  <2> SUFFICES ASSUME NEW j \in DOMAIN answer, answer[j] = f, j \in Trying
              PROVE  FALSE
    OBVIOUS
  <2>1. sock[j] \in {"pending", "connected"} /\ j \in Pos
    BY <1>1, InRace
  <2>2. PICK o \in Sides : Live(o) /\ j = remote[o].current
    BY <1>1, <2>1 DEF IInv, NoneForgotten, Live, Sides
  <2>3. j \in Owned(o)
    BY <2>1, <2>2, Shapes DEF Owned
  <2>4. o = s
    BY <1>1, <2>2, <2>3, Rivals
  <2> QED BY <1>2, <2>1, <2>2, <2>4, Shapes
<1>6. \A i \in DOMAIN answer : answer[i] = f /\ i \notin Refusals =>
         \E k \in DOMAIN answer :
            /\ answer[k] = f /\ fate[k] = "nosock" /\ k <= i
            /\ \A j \in DOMAIN answer : answer[j] = f /\ j < k => j \in Refusals
  <2> SUFFICES ASSUME NEW i \in DOMAIN answer, answer[i] = f, i \notin Refusals
              PROVE  \E k \in DOMAIN answer :
                        /\ answer[k] = f /\ fate[k] = "nosock" /\ k <= i
                        /\ \A j \in DOMAIN answer : answer[j] = f /\ j < k => j \in Refusals
    OBVIOUS
  <2>1. i \in remote[s].addrs
    BY <1>4
  <2>2. PICK k \in remote[s].addrs :
           fate[k] = "nosock" /\ \A j \in remote[s].addrs : k <= j
    BY <2>1
  <2>3. k \in DOMAIN answer /\ answer[k] = f
    BY <1>3 DEF Owned
  <2>4. \A j \in DOMAIN answer : j \in Nat
    BY <1>3, Shapes
  <2>5. \A j \in DOMAIN answer : answer[j] = f /\ j < k => j \in Refusals
    BY <1>4, <2>2, <2>3, <2>4
  <2> QED BY <2>1, <2>2, <2>3, <2>5
<1>7. Known = answer /\ NoSockets = {i \in DOMAIN answer : fate[i] = "nosock"}
  BY <1>1, InRace
<1> QED BY <1>5, <1>6, <1>7 DEF Attempt!CanEnd, Attempt!Of

(* A side ends: its family is given up, or the attempt is lost.            *)
LEMMA DialEndsSide ==
    ASSUME TypeOK, TypeOK', IInv, IInv', NEW s \in Sides, Polling(s), RemoteErr(s),
           UNCHANGED <<answer, delay, fate, timer>>,
           sock' = SpendCurrent(s), Owned(s) # {},
           remote[s].current # NoAddr => sock[remote[s].current] = "failed",
           \A a \in Owned(s) : Attempt!CanEnd(answer[a])
    PROVE  Attempt!Next
<1> DEFINE c == remote[s].current
<1>1. st = "Connecting" /\ Live(s) /\ SideOK(s)
  BY PollingLive
<1>2. PICK a \in Owned(s) : TRUE
  OBVIOUS
<1>3. /\ a \in DOMAIN answer /\ DOMAIN answer \subseteq Pos
      /\ \A k \in Owned(s) : answer[k] = answer[a]
  BY <1>1, Shapes DEF SideOK
<1>4. \A j \in Pos : sock'[j] = IF j = c THEN "spent" ELSE sock[j]
  BY Shapes DEF SpendCurrent
<1>5. Refusals' = Refusals
  BY <1>3, <1>4, Shapes DEF Refusals
<1>6. \A j \in Pos : /\ sock'[j] \in {"pending", "connected"} <=>
                         sock[j] \in {"pending", "connected"}
                     /\ sock'[j] = "connected" <=> sock[j] = "connected"
  BY <1>4, Shapes
<1>7. Late' = Late
  BY DEF Late
<1>8. answer[a] \in Racing /\ answer[a] \in Attempt!Families
  BY <1>1, <1>3, Racers, InRace DEF Attempt!Families
<1>9. CASE st' = "Connecting" /\ fallback = "Some" /\ fallback' = "None"
  <2>1. PICK o \in Sides : o # s
    BY DEF Sides
  <2>2. Live(o) /\ \A p \in Sides : p = s \/ p = o
    BY <1>1, <1>9, <2>1 DEF Live, Sides
  <2>3. Owned("preferred")' = Owned(o)
    BY <1>9, <2>1, Shapes DEF RemoteErr, Owned, Sides, Return
  <2>4. \A f : f \in Racing' <=> \E k \in Owned(o) : answer[k] = f
    BY <1>9, <2>3, RacersNext DEF Live, Sides
  <2>5. \A f : f \in Racing <=> f = answer[a] \/ f \in Racing'
    BY <1>1, <1>3, <2>2, <2>4, Racers
  <2>6. answer[a] \notin Racing'
    BY <1>1, <2>1, <2>2, <2>4, Rivals
  <2>7. /\ UNCHANGED <<Phase, Known, NoSockets, Trying, Accepted>>
    BY <1>1, <1>6, <1>9 DEF Phase, Known, NoSockets, Trying, Accepted, BeforeTheRace
  <2>8. GivenUp' = GivenUp \cup {answer[a]}
    BY <1>1, <1>3, <1>9, <2>5, <2>6 DEF GivenUp
  <2>9. PICK k \in Owned(o) : TRUE
    <3>1. answer # <<>>
      BY <1>3
    <3> QED BY <2>2, <3>1 DEF IInv, SideOK
  <2>10. k \in DOMAIN answer /\ answer[k] # answer[a] /\ answer[k] \in Racing
    BY <1>1, <2>1, <2>2, <2>4, <2>5, <2>9, Rivals DEF IInv, SideOK
  <2>11. Attempt!Families \ GivenUp # {answer[a]}
    BY <1>1, <2>10, InRace DEF Attempt!Families
  <2>12. Attempt!GiveUp(answer[a])
    BY <1>1, <1>5, <1>7, <2>7, <2>8, <2>11, InRace DEF Attempt!GiveUp
  <2> QED BY <1>8, <2>12 DEF Attempt!Next
<1>10. CASE s = "preferred" /\ fallback = "None" /\ st' = "Err"
  <2>1. \A f \in Attempt!Families : f \in GivenUp \/ Attempt!CanEnd(f)
    <3> SUFFICES ASSUME NEW f \in Attempt!Families, f \notin GivenUp
                PROVE  Attempt!CanEnd(f)
      OBVIOUS
    <3>1. f \in Racing
      BY <1>1, InRace DEF Attempt!Families
    <3>2. \E k \in Owned(s) : answer[k] = f
      BY <1>1, <1>10, <3>1, Racers DEF Live
    <3> QED BY <3>2
  <2>2. /\ Phase' = "err" /\ Trying' = {} /\ Accepted' = {} /\ GivenUp' = {}
        /\ UNCHANGED <<Known, NoSockets>>
    BY <1>1, <1>10 DEF Phase, Trying, Accepted, GivenUp, Known, NoSockets, BeforeTheRace
  <2>3. Attempt!Lose
    BY <1>1, <1>5, <1>7, <1>8, <2>1, <2>2, InRace DEF Attempt!Lose, Attempt!End
  <2> QED BY <2>3 DEF Attempt!Next
<1>11. s = "fallback" => fallback = "Some"
  BY <1>1 DEF Live
<1> QED BY <1>1, <1>9, <1>10, <1>11 DEF RemoteErr, Return, Sides

(* Each step of the future is a step of Dial, or none.                     *)
LEMMA StepDial ==
    ASSUME TypeOK, TypeOK', IInv, IInv', Staged, Staged', [Next]_vars
    PROVE  Attempt!Next \/ UNCHANGED Attempt!vars
<1> USE DEF env
<1>1. CASE UNCHANGED vars \/ Done \/ SpuriousWake \/ BeginPoll
  BY <1>1, DialUnchanged DEF vars, Done, SpuriousWake, BeginPoll
<1>2. ASSUME BeforeTheRace, BeforeTheRace', timer' = timer
      PROVE  UNCHANGED Attempt!vars
  BY <1>2, AheadOfRace, AheadOfRaceNext DEF Attempt!vars
<1>3. CASE Connect \/ PollLazyName \/ ResolverAnswers
  <2>1. rslv = "pending" => st = "Resolving"
    BY DEF IInv, BeforeRace
  <2> QED
    BY <1>2, <1>3, <2>1 DEF Connect, PollLazyName, ResolverAnswers, BeforeTheRace
<1>4. ASSUME BeforeTheRace, st' = "Err", rslv # "done",
             UNCHANGED <<rslv, answer, delay, sock, fate, timer>>
      PROVE  Attempt!Next
  <2>1. /\ Phase = "idle" /\ Known = <<>> /\ NoSockets = {} /\ Trying = {}
        /\ Accepted = {} /\ GivenUp = {} /\ answer = <<>>
    BY <1>4, AheadOfRace DEF Staged
  <2>2. /\ Phase' = "err" /\ Known' = <<>> /\ NoSockets' = {} /\ Trying' = {}
        /\ Accepted' = {} /\ GivenUp' = {}
    BY <1>4, <2>1 DEF Phase, Known, NoSockets, Trying, Accepted, GivenUp, BeforeTheRace
  <2>3. UNCHANGED <<Late, Refusals>>
    BY <1>4 DEF Late, Refusals
  <2>4. Attempt!Reject
    BY <1>4, <2>1, <2>2, <2>3 DEF Attempt!Reject
  <2> QED BY <2>4 DEF Attempt!Next
<1>5. CASE PollError
  <2>1. st = "Error" /\ rslv = "none"
    BY <1>5 DEF PollError, IInv, BeforeRace
  <2> QED BY <1>4, <1>5, <2>1 DEF PollError, Return, BeforeTheRace
<1>6. CASE PollLazyLiteral
  BY <1>6, DialBegins DEF PollLazyLiteral, BeforeTheRace, Attempt!Next
<1>7. CASE PollResolving
  <2>1. BeforeTheRace /\ UNCHANGED <<rslv, answer, sock, fate, timer>>
    BY <1>7 DEF PollResolving, BeforeTheRace
  <2>2. CASE UNCHANGED st
    BY <1>2, <2>1, <2>2 DEF BeforeTheRace
  <2>3. CASE rslv = "failed" /\ st' = "Err" /\ delay' = delay
    BY <1>4, <2>1, <2>3
  <2>4. CASE ConnectingTcpNew(answer)
    BY <2>1, <2>4, DialBegins DEF Attempt!Next
  <2> QED BY <1>7, <2>2, <2>3, <2>4 DEF PollResolving, Return
<1>8. ASSUME NEW s \in Sides, NEW i \in Pos, StartNext(s, i) PROVE Attempt!Next
  BY <1>8, DialTries DEF Attempt!Next
<1>9. ASSUME NEW s \in Sides, NEW i \in Pos, StartFails(s, i) PROVE Attempt!Next
  BY <1>9, SideEnds, DialCanEnd, DialEndsSide DEF StartFails, Yields
<1>10. ASSUME NEW s \in Sides, Exhausted(s) PROVE Attempt!Next
  BY <1>10, SideEnds, DialCanEnd, DialEndsSide DEF Exhausted
<1>11. ASSUME NEW s \in Sides, RemotePanics(s) PROVE Attempt!Next
  <2>1. st = "Connecting" /\ SideOK(s)
    BY <1>11, PollingLive DEF RemotePanics
  <2>2. answer = <<>>
    BY <1>11, <2>1 DEF RemotePanics, PanicOf, Current, SideOK, Owned
  <2>3. Phase = "race" /\ Known = <<>> /\ Attempt!Families = {}
    BY <2>1, <2>2, InRace DEF Attempt!Families
  <2>4. st' = "Panic" /\ UNCHANGED <<answer, delay, sock, fate, timer>>
    BY <1>11 DEF RemotePanics, Return
  <2>5. Phase' = "panic" /\ Trying' = {} /\ Accepted' = {} /\ GivenUp' = {}
    BY <2>4 DEF Phase, Trying, Accepted, GivenUp, BeforeTheRace
  <2>6. UNCHANGED <<Known, NoSockets, timer, Late, Refusals>>
    BY <2>1, <2>4 DEF Known, NoSockets, Late, Refusals, BeforeTheRace
  <2>7. Attempt!Panic
    BY <2>3, <2>5, <2>6 DEF Attempt!Panic, Attempt!End
  <2> QED BY <2>7 DEF Attempt!Next
<1>12. ASSUME NEW s \in Sides, CurrentNotReady(s) PROVE UNCHANGED Attempt!vars
  BY <1>12, DialUnchanged DEF CurrentNotReady
<1>13. ASSUME NEW s \in Sides, CurrentReady(s) PROVE Attempt!Next
  <2> DEFINE c == remote[s].current
  <2>1. /\ c # NoAddr /\ c \in Pos /\ sock[c] = "connected"
        /\ st = "Connecting"
    BY <1>13, Shapes DEF CurrentReady, Current, Polling
  <2>2. \A j \in Pos : sock'[j] = IF j = c THEN "spent" ELSE sock[j]
    BY <1>13, <2>1, Shapes DEF CurrentReady, SpendCurrent
  <2>3. fate[c] = "accept" /\ c \in Accepted /\ DOMAIN answer \subseteq Pos
    BY <2>1, InRace, Shapes DEF IInv, SockFate
  <2>4. st' \in {"Ok", "Err"} /\ UNCHANGED <<answer, delay, fate, timer>>
    BY <1>13 DEF CurrentReady, Return
  <2>5. Phase' \in {"ok", "err"} /\ Trying' = {} /\ Accepted' = {} /\ GivenUp' = {}
    BY <2>4 DEF Phase, Trying, Accepted, GivenUp, BeforeTheRace
  <2>6. UNCHANGED <<Known, NoSockets, timer, Late>>
    BY <2>1, <2>4 DEF Known, NoSockets, Late, BeforeTheRace
  <2>7. Refusals' = Refusals
    BY <2>1, <2>2, <2>3, <2>4 DEF Refusals
  <2>8. Attempt!Win
    BY <2>1, <2>3, <2>5, <2>6, <2>7, InRace DEF Attempt!Win, Attempt!End
  <2> QED BY <2>8 DEF Attempt!Next
<1>14. CASE PollDelay
  <2>1. /\ UNCHANGED <<st, answer, remote, delay, sock, fate, timer>>
        /\ st = "Connecting" /\ fallback = "Some"
    BY <1>14 DEF PollDelay, IInv, InPoll
  <2>2. CASE UNCHANGED fallback
    BY <2>1, <2>2, DialUnchanged
  <2>3. CASE fallback' = "None" /\ timer = "broken" /\ delay = "armed"
    <3>1. SideOK("preferred") /\ SideOK("fallback") /\ Live("preferred") /\ Live("fallback")
      BY <2>1 DEF IInv, Live, Sides
    <3>2. answer # <<>>
      BY <2>1 DEF Staged
    <3>3. PICK k \in Owned("preferred"), a \in Owned("fallback") : TRUE
      BY <3>1, <3>2 DEF SideOK
    <3>4. /\ k \in DOMAIN answer /\ a \in DOMAIN answer /\ answer[k] # answer[a]
          /\ answer[a] # answer[1]
          /\ \A j \in Owned("fallback") : answer[j] = answer[a]
      BY <2>1, <3>1, <3>3 DEF SideOK, IInv, Roles
    <3>5. /\ \A f : f \in Racing <=> f = answer[a] \/ \E j \in Owned("preferred") : answer[j] = f
          /\ \A f : f \in Racing' <=> \E j \in Owned("preferred") : answer[j] = f
      <4>1. Owned("preferred")' = Owned("preferred") /\ Live("preferred")' /\ ~Live("fallback")'
        BY <2>1, <2>3 DEF Owned, Live
      <4> QED BY <2>1, <3>1, <3>3, <3>4, <4>1, Racers, RacersNext DEF Sides
    <3>6. answer[a] \notin Racing'
      BY <3>1, <3>3, <3>5, Rivals DEF Sides
    <3>7. GivenUp' = GivenUp \cup {answer[a]}
      BY <2>1, <3>4, <3>5, <3>6 DEF GivenUp
    <3>8. \A j \in DOMAIN answer : answer[j] = answer[a] => j \notin Trying \cup Refusals
      <4>1. \A j \in DOMAIN answer : answer[j] = answer[a] => sock[j] = "none"
        BY <2>1, <2>3, <3>4 DEF Staged
      <4> QED BY <2>1, <4>1, InRace DEF Refusals
    <3>9. answer[k] \in Racing
      BY <3>3, <3>5
    <3>10. Attempt!Families \ GivenUp # {answer[a]} /\ answer[a] \in Attempt!Families
      BY <2>1, <3>4, <3>9, InRace DEF Attempt!Families
    <3>11. UNCHANGED <<Phase, Known, NoSockets, timer, Late, Trying, Accepted, Refusals>>
      BY <2>1 DEF Phase, Known, NoSockets, Late, Trying, Accepted, Refusals, BeforeTheRace
    <3>12. Attempt!GiveUp(answer[a])
      BY <2>1, <2>3, <3>4, <3>7, <3>8, <3>10, <3>11, InRace
      DEF Attempt!GiveUp, Attempt!Of
    <3> QED BY <3>10, <3>12 DEF Attempt!Next
  <2> QED BY <1>14, <2>2, <2>3 DEF PollDelay, NotReady
<1>15. ASSUME NEW i \in Pos, SocketDecides(i)
       PROVE  Attempt!Next
  <2>1. /\ UNCHANGED <<st, answer, remote, fallback, delay, fate, timer>>
        /\ st = "Connecting" /\ sock[i] = "pending" /\ i \in DOMAIN answer
    BY <1>15 DEF SocketDecides, IInv, SockFate
  <2>2. \A j \in Pos : j # i => sock'[j] = sock[j]
    BY <1>15, Shapes DEF SocketDecides
  <2>3. UNCHANGED <<Phase, Known, NoSockets, timer, Late, GivenUp>>
    BY <2>1 DEF Phase, Known, NoSockets, Late, GivenUp, Racing, BeforeTheRace
  <2>4. Phase = "race" /\ i \in Trying \ Accepted /\ Known = answer /\ DOMAIN answer \subseteq Pos
    BY <2>1, InRace, Shapes
  <2>5. CASE sock'[i] = "connected" /\ fate[i] = "accept"
    <3>1. Trying' = Trying
      BY <2>1, <2>2, <2>5 DEF Trying
    <3>2. Refusals' = Refusals
      BY <2>1, <2>2, <2>4, <2>5 DEF Refusals
    <3>3. Accepted' = Accepted \cup {i}
      BY <2>1, <2>2, <2>5 DEF Accepted
    <3>4. Attempt!Accept(i)
      BY <2>3, <2>4, <3>1, <3>2, <3>3 DEF Attempt!Accept
    <3> QED BY <2>1, <2>4, <3>4 DEF Attempt!Next
  <2>6. CASE sock'[i] = "failed" /\ fate[i] = "refuse"
    <3>1. Trying' = Trying \ {i}
      BY <2>1, <2>2, <2>6 DEF Trying
    <3>2. Refusals' = Refusals \cup {i}
      BY <2>1, <2>2, <2>4, <2>6 DEF Refusals
    <3>3. Accepted' = Accepted
      BY <2>1, <2>2, <2>6 DEF Accepted
    <3>4. Attempt!Refuse(i)
      BY <2>3, <2>4, <3>1, <3>2, <3>3 DEF Attempt!Refuse
    <3> QED BY <2>1, <2>4, <3>4 DEF Attempt!Next
  <2> QED BY <1>15, <2>5, <2>6, Shapes DEF SocketDecides
<1>16. CASE DelayElapses
  <2>1. /\ UNCHANGED <<st, answer, remote, fallback, sock, fate, timer>>
        /\ st = "Connecting" /\ timer = "works" /\ delay' = "elapsed"
    BY <1>16 DEF DelayElapses, Staged
  <2>2. UNCHANGED <<Phase, Known, NoSockets, timer, Trying, Accepted, Refusals, GivenUp>>
    BY <2>1 DEF Phase, Known, NoSockets, Trying, Accepted, Refusals, GivenUp, Racing,
                BeforeTheRace
  <2>3. Phase = "race" /\ Late' = "yes"
    BY <2>1, InRace DEF Late
  <2>4. Attempt!Elapse
    BY <2>1, <2>2, <2>3 DEF Attempt!Elapse
  <2> QED BY <2>4 DEF Attempt!Next
<1>17. CASE TimerFails
  <2>1. /\ UNCHANGED <<st, answer, remote, fallback, delay, sock, fate>>
        /\ st = "Connecting" /\ delay = "armed" /\ timer = "works" /\ timer' = "broken"
    BY <1>17 DEF TimerFails, Staged
  <2>2. UNCHANGED <<Phase, Known, NoSockets, Late, Trying, Accepted, Refusals, GivenUp>>
    BY <2>1 DEF Phase, Known, NoSockets, Late, Trying, Accepted, Refusals, GivenUp, Racing,
                BeforeTheRace
  <2>3. Phase = "race" /\ Late = "no"
    BY <2>1, InRace DEF Late
  <2>4. Attempt!TimerBreaks
    BY <2>1, <2>2, <2>3 DEF Attempt!TimerBreaks
  <2> QED BY <2>4 DEF Attempt!Next
<1> QED
  BY <1>1, <1>3, <1>5, <1>6, <1>7, <1>8, <1>9, <1>10, <1>11, <1>12, <1>13, <1>14,
     <1>15, <1>16, <1>17
  DEF Next, PollStep, PollRemote

(* The future implements Dial (ImplementsDial).                            *)
THEOREM Refines == Spec => ImplementsDial
<1>1. Init => Attempt!Init
  <2> SUFFICES ASSUME Init PROVE Attempt!Init
    OBVIOUS
  <2>1. BeforeTheRace /\ timer \in {"works", "broken"}
    BY DEF Init, BeforeTheRace
  <2>2. Staged
    BY DEF Init, Staged, BeforeTheRace
  <2>3. TypeOK /\ IInv
    BY InitType, InitInv
  <2> QED BY <2>1, <2>2, <2>3, AheadOfRace DEF Attempt!Init
<1>2. TypeOK /\ TypeOK' /\ IInv /\ IInv' /\ Staged /\ Staged' /\ [Next]_vars
         => [Attempt!Next]_Attempt!vars
  BY StepDial
<1> QED
  BY <1>1, <1>2, TypeCorrect, Inductive, AlwaysStaged, PTL
  DEF Spec, ImplementsDial, Attempt!Spec
-----------------------------------------------------------------------------
(* The event sources are different, and every socket is one of its own.    *)
LEMMA SourcesDiffer ==
    /\ Timer # Resolver
    /\ \A i : Socket(i) # Resolver /\ Socket(i) # Timer
    /\ \A i, j : Socket(i) = Socket(j) => i = j
  BY DEF Timer, Resolver, Socket

(* A side that keeps its remote, and whose connection is not touched, stays *)
(* watched as long as its socket keeps the waker.                          *)
LEMMA WatchStays ==
    ASSUME TypeOK, NEW s \in Sides, Watched(s), remote'[s] = remote[s],
           sock'[remote[s].current] = sock[remote[s].current],
           Socket(remote[s].current) \in interest'
    PROVE  Watched(s)'
  BY DEF Watched, Current

(* A source that is ready takes the waker of no other one.                 *)
LEMMA NotifyOthers ==
    ASSUME NEW src, Notify(src)
    PROVE  /\ \A o : o # src => (o \in interest' <=> o \in interest)
           /\ src \in interest => task' = "notified"
           /\ task = "notified" => task' = "notified"
  BY DEF Notify

(* The connection of the other side is not one that side s works on.       *)
LEMMA OwnConnections ==
    ASSUME TypeOK, IInv, NEW s \in Sides, NEW o \in Sides, s # o,
           Live(s), Live(o), Current(o) = "pending"
    PROVE  /\ remote[o].current \in Pos
           /\ remote[o].current # remote[s].current
           /\ remote[o].current \notin remote[s].addrs
<1>1. remote[o].current \in Pos /\ remote[o].current \in Owned(o)
  BY Shapes DEF Current, Owned
<1>2. remote[o].current \notin Owned(s)
  BY <1>1, Rivals
<1> QED BY <1>1, <1>2, Shapes DEF Owned

(* What the wakeups need of the rest of the state.                         *)
LEMMA WakeShapes ==
    ASSUME TypeOK, IInv
    PROVE  /\ st = "New" => pc = "parked"
           /\ pc \in {"delay", "fallback"} => st = "Connecting" /\ fallback = "Some"
           /\ pc = "fallback" => delay = "elapsed"
           /\ rslv = "pending" => st = "Resolving"
           /\ task \in {"idle", "notified"} /\ fallback \in {"Some", "None"}
           /\ fallback = "Some" => delay \in {"armed", "elapsed"}
  BY DEF IInv, BeforeRace, InPoll, TypeOK, Delays

(* The fallback side returns to the executor: the preferred side, passed    *)
(* before it, is still watched.                                            *)
LEMMA FallbackTurn ==
    ASSUME TypeOK, IInv, PreferredSeen, NEW i \in Pos,
           StartNext("fallback", i) \/ StartFails("fallback", i)
             \/ Exhausted("fallback") \/ CurrentNotReady("fallback")
    PROVE  task' = "notified" \/ Watched("preferred")'
<1>0. "fallback" \in Sides /\ "preferred" \in Sides
  BY DEF Sides
<1>1. /\ Polling("fallback") /\ task' = task /\ interest \subseteq interest'
      /\ remote'["preferred"] = remote["preferred"]
  BY <1>0, Shapes DEF StartNext, StartFails, Exhausted, CurrentNotReady, RemoteErr
<1>2. Live("fallback") /\ Live("preferred") /\ pc = "fallback"
  BY <1>0, <1>1, PollingLive DEF Polling, Live
<1>3. CASE task = "notified"
  BY <1>1, <1>3
<1>4. CASE Watched("preferred")
  <2> DEFINE c == remote["preferred"].current
  <2>1. c \in Pos /\ c # remote["fallback"].current /\ c \notin remote["fallback"].addrs
    BY <1>0, <1>2, <1>4, OwnConnections DEF Watched
  <2>2. sock'[c] = sock[c]
    BY <1>0, <2>1, Shapes
    DEF StartNext, StartFails, Exhausted, CurrentNotReady, Yields, SpendCurrent
  <2> QED BY <1>0, <1>1, <1>4, <2>2, WatchStays DEF Watched
<1> QED BY <1>2, <1>3, <1>4 DEF PreferredSeen

(* Every step keeps the wakeups: what it decides or leaves undecided either *)
(* notifies the task or still holds its waker.                             *)
LEMMA StepWakes ==
    ASSUME TypeOK, TypeOK', IInv, IInv', NoLostWakeup, PreferredSeen, [Next]_vars
    PROVE  NoLostWakeup' /\ PreferredSeen'
<1> USE DEF env
<1>0. "fallback" \in Sides /\ "preferred" \in Sides
  BY DEF Sides
<1>1. CASE UNCHANGED vars \/ Done
  BY <1>1 DEF vars, Done, NoLostWakeup, PreferredSeen, Watched, Current
<1>2. CASE Connect
  BY <1>2, WakeShapes DEF Connect, NoLostWakeup, PreferredSeen
<1>3. ASSUME pc' = "poll" PROVE NoLostWakeup' /\ PreferredSeen'
  BY <1>3 DEF NoLostWakeup, PreferredSeen
<1>4. ASSUME pc' = "parked", task' = "notified" \/ st' \notin Pending
      PROVE  NoLostWakeup' /\ PreferredSeen'
  BY <1>4 DEF NoLostWakeup, PreferredSeen
<1>5. CASE BeginPoll \/ PollLazyLiteral \/ PollLazyName
  BY <1>3, <1>5 DEF BeginPoll, PollLazyLiteral, PollLazyName
<1>6. CASE SpuriousWake \/ PollError
  BY <1>4, <1>6 DEF SpuriousWake, PollError, Return, Pending
<1>7. CASE PollResolving
  <2>1. CASE rslv = "pending" /\ NotReady(Resolver) /\ UNCHANGED <<st, rslv>>
    BY <1>7, <2>1 DEF PollResolving, NotReady, NoLostWakeup, PreferredSeen
  <2>2. CASE Return("Err", "resolve")
    BY <1>4, <2>2 DEF Return, Pending
  <2>3. CASE UNCHANGED pc
    BY <1>3, <1>7, <2>3 DEF PollResolving
  <2> QED BY <1>7, <2>1, <2>2, <2>3 DEF PollResolving
<1>8. ASSUME PollRemote("preferred") PROVE NoLostWakeup' /\ PreferredSeen'
  <2>1. pc = "poll" /\ st = "Connecting"
    BY <1>8 DEF PollRemote, Polling, StartNext, StartFails, Exhausted, RemotePanics,
                CurrentNotReady, CurrentReady
  <2>2. CASE CurrentNotReady("preferred")
    <3>1. Watched("preferred")'
      BY <2>2, Shapes DEF CurrentNotReady, Watched, Current
    <3>2. st' = "Connecting" /\ fallback' = fallback
          /\ pc' = IF fallback = "Some" THEN "delay" ELSE "parked"
      BY <2>1, <2>2 DEF CurrentNotReady
    <3> QED BY <3>1, <3>2 DEF NoLostWakeup, PreferredSeen
  <2>3. CASE ~CurrentNotReady("preferred")
    <3>1. pc' = "poll" \/ (pc' = "parked" /\ st' \notin Pending)
      BY <1>8, <2>1, <2>3
      DEF PollRemote, StartNext, StartFails, Exhausted, RemotePanics, CurrentReady,
          RemoteErr, Return, Pending
    <3> QED BY <1>3, <1>4, <3>1
  <2> QED BY <2>2, <2>3
<1>9. ASSUME PollRemote("fallback") PROVE NoLostWakeup' /\ PreferredSeen'
  <2>1. pc = "fallback" /\ st = "Connecting" /\ delay = "elapsed"
    BY <1>9, WakeShapes
    DEF PollRemote, Polling, StartNext, StartFails, Exhausted, RemotePanics,
        CurrentNotReady, CurrentReady
  <2>2. CASE RemotePanics("fallback") \/ CurrentReady("fallback")
    BY <1>4, <2>2 DEF RemotePanics, CurrentReady, Return, Pending
  <2>3. PICK i \in Pos : \/ StartNext("fallback", i) \/ StartFails("fallback", i)
                         \/ Exhausted("fallback") \/ CurrentNotReady("fallback")
                         \/ RemotePanics("fallback") \/ CurrentReady("fallback")
    <3>1. 1 \in Pos
      BY MaxAddrsAssumption DEF Pos
    <3> QED BY <1>9, <3>1 DEF PollRemote
  <2>4. CASE StartNext("fallback", i)
    <3>1. pc' = "fallback"
      BY <2>1, <2>4 DEF StartNext
    <3>2. task' = "notified" \/ Watched("preferred")'
      BY <2>4, FallbackTurn
    <3> QED BY <3>1, <3>2 DEF NoLostWakeup, PreferredSeen
  <2>5. CASE StartFails("fallback", i) \/ Exhausted("fallback")
    <3>1. pc' = "parked" /\ fallback' = "None" /\ st' = "Connecting"
      BY <2>1, <2>5 DEF StartFails, Exhausted, RemoteErr
    <3>2. task' = "notified" \/ Watched("preferred")'
      BY <2>5, FallbackTurn
    <3> QED BY <3>1, <3>2 DEF NoLostWakeup, PreferredSeen
  <2>6. CASE CurrentNotReady("fallback")
    <3>1. pc' = "parked" /\ delay' = "elapsed" /\ st' = "Connecting"
      BY <2>1, <2>6 DEF CurrentNotReady
    <3>2. task' = "notified" \/ Watched("preferred")'
      BY <2>6, FallbackTurn
    <3>3. Watched("fallback")'
      BY <2>6, Shapes DEF CurrentNotReady, Watched, Current
    <3> QED BY <3>1, <3>2, <3>3 DEF NoLostWakeup, PreferredSeen
  <2> QED BY <2>2, <2>3, <2>4, <2>5, <2>6
<1>10. CASE PollDelay
  <2>1. /\ pc = "delay" /\ st' = "Connecting" /\ fallback = "Some"
        /\ UNCHANGED <<task, delay, timer, remote, sock>> /\ interest \subseteq interest'
    BY <1>10, WakeShapes DEF PollDelay, NotReady
  <2>2. task' = "notified" \/ Watched("preferred")'
    BY <1>0, <2>1, WatchStays DEF PreferredSeen, Watched
  <2>3. CASE pc' = "fallback"
    BY <2>2, <2>3 DEF NoLostWakeup, PreferredSeen
  <2>4. CASE delay = "armed" /\ timer = "works" /\ NotReady(Timer)
    BY <2>1, <2>2, <2>4 DEF NotReady, NoLostWakeup, PreferredSeen
  <2>5. CASE fallback' = "None" /\ pc' = "parked"
    BY <2>1, <2>2, <2>5 DEF NoLostWakeup, PreferredSeen
  <2> QED BY <1>10, <2>3, <2>4, <2>5 DEF PollDelay
<1>11. CASE ResolverAnswers
  <2>1. /\ st = "Resolving" /\ st' = st /\ pc' = pc /\ Notify(Resolver)
        /\ pc \notin {"delay", "fallback"}
    BY <1>11, WakeShapes DEF ResolverAnswers
  <2> QED BY <2>1, WakeShapes, NotifyOthers DEF NoLostWakeup, PreferredSeen
<1>12. ASSUME NEW i \in Pos, SocketDecides(i) PROVE NoLostWakeup' /\ PreferredSeen'
  <2>1. /\ st = "Connecting" /\ Notify(Socket(i))
        /\ UNCHANGED <<st, pc, remote, fallback, delay, timer>>
    BY <1>12 DEF SocketDecides
  <2>2. \A s \in Sides : Watched(s) => task' = "notified" \/ Watched(s)'
    <3> SUFFICES ASSUME NEW s \in Sides, Watched(s)
                PROVE  task' = "notified" \/ Watched(s)'
      OBVIOUS
    <3>1. CASE remote[s].current = i
      BY <2>1, <3>1, NotifyOthers DEF Watched
    <3>2. CASE remote[s].current # i
      <4>1. remote[s].current \in Pos
        BY Shapes DEF Watched, Current
      <4>2. sock'[remote[s].current] = sock[remote[s].current]
        BY <1>12, <3>2, <4>1, Shapes DEF SocketDecides
      <4>3. Socket(remote[s].current) \in interest'
        BY <2>1, <3>2, NotifyOthers, SourcesDiffer DEF Watched
      <4> QED BY <2>1, <4>2, <4>3, WatchStays
    <3> QED BY <3>1, <3>2
  <2>3. task = "notified" => task' = "notified"
    BY <2>1, NotifyOthers
  <2>4. Timer \in interest => Timer \in interest'
    BY <2>1, NotifyOthers, SourcesDiffer
  <2>5. PreferredSeen'
    BY <1>0, <2>1, <2>2, <2>3 DEF PreferredSeen
  <2>6. NoLostWakeup'
    BY <1>0, <2>1, <2>2, <2>3, <2>4, WakeShapes DEF NoLostWakeup
  <2> QED BY <2>5, <2>6
<1>13. CASE DelayElapses \/ TimerFails
  <2>1. /\ fallback = "Some" /\ delay = "armed" /\ Notify(Timer)
        /\ UNCHANGED <<st, pc, remote, fallback, sock, rslv>>
    BY <1>13 DEF DelayElapses, TimerFails
  <2>2. task = "notified" => task' = "notified"
    BY <2>1, NotifyOthers
  <2>3. Watched("preferred") => Watched("preferred")'
    BY <1>0, <2>1, NotifyOthers, SourcesDiffer, WatchStays DEF Watched
  <2>4. PreferredSeen'
    BY <2>1, <2>2, <2>3 DEF PreferredSeen
  <2>5. NoLostWakeup'
    <3>1. st = "Resolving" => fallback = "None"
      BY DEF IInv, BeforeRace
    <3>2. st \in Pending /\ pc = "parked" => task' = "notified"
      BY <2>1, <2>2, <3>1, NotifyOthers, WakeShapes DEF NoLostWakeup
    <3> QED BY <1>4, <2>1, <3>2 DEF NoLostWakeup
  <2> QED BY <2>4, <2>5
<1> QED
  BY <1>1, <1>2, <1>5, <1>6, <1>7, <1>8, <1>9, <1>10, <1>11, <1>12, <1>13
  DEF Next, PollStep, Sides

(* A wakeup is never lost (NoLostWakeup): the task of a future that is      *)
(* pending is notified, or asleep with its waker at every source that can   *)
(* let the future go on.                                                   *)
THEOREM NeverLost == Spec => []NoLostWakeup
<1>1. Init => NoLostWakeup /\ PreferredSeen
  BY DEF Init, NoLostWakeup, PreferredSeen, Pending
<1>2. /\ TypeOK /\ TypeOK' /\ IInv /\ IInv' /\ NoLostWakeup /\ PreferredSeen
      /\ [Next]_vars
      => NoLostWakeup' /\ PreferredSeen'
  BY StepWakes
<1> QED BY <1>1, <1>2, TypeCorrect, Inductive, PTL DEF Spec
-----------------------------------------------------------------------------
(* The addresses that are left can be counted, and are at most MaxAddrs.    *)
LEMMA PosCard ==
    ASSUME NEW S \in SUBSET Pos
    PROVE  /\ Cardinality(S) \in 0..MaxAddrs
           /\ \A i \in S : Cardinality(S \ {i}) = Cardinality(S) - 1
<1>1. IsFiniteSet(Pos) /\ Cardinality(Pos) = MaxAddrs
  BY FS_Interval, MaxAddrsAssumption DEF Pos
<1>2. IsFiniteSet(S) /\ Cardinality(S) <= MaxAddrs
  BY <1>1, FS_Subset
<1>3. Cardinality(S) \in Nat
  BY <1>2, FS_CardinalityType
<1>4. \A i \in S : Cardinality(S \ {i}) = Cardinality(S) - 1
  BY <1>2, FS_RemoveElement
<1> QED BY <1>2, <1>3, <1>4, MaxAddrsAssumption

(* The addresses that either side has left, in a state that is well typed.  *)
LEMMA LeftCard ==
    TypeOK => /\ Cardinality(remote["preferred"].addrs) \in 0..MaxAddrs
              /\ Cardinality(remote["fallback"].addrs) \in 0..MaxAddrs
<1> SUFFICES ASSUME TypeOK
             PROVE  /\ Cardinality(remote["preferred"].addrs) \in 0..MaxAddrs
                    /\ Cardinality(remote["fallback"].addrs) \in 0..MaxAddrs
  OBVIOUS
<1>1. remote["preferred"].addrs \subseteq Pos /\ remote["fallback"].addrs \subseteq Pos
  BY Shapes DEF Sides
<1> QED BY <1>1, PosCard

(* The same, of the state after a step.                                    *)
LEMMA LeftCardNext ==
    TypeOK' => /\ Cardinality(remote'["preferred"].addrs) \in 0..MaxAddrs
               /\ Cardinality(remote'["fallback"].addrs) \in 0..MaxAddrs
<1>1. (TypeOK => /\ Cardinality(remote["preferred"].addrs) \in 0..MaxAddrs
                 /\ Cardinality(remote["fallback"].addrs) \in 0..MaxAddrs)'
  BY LeftCard, PTL
<1> QED BY <1>1

(* The turns that a poll in the race has left, once pc is given.           *)
LEMMA RaceLeft ==
    st = "Connecting" =>
        StepsLeft = 3 * (Cardinality(remote["preferred"].addrs)
                           + (IF fallback = "Some"
                              THEN Cardinality(remote["fallback"].addrs) + 1 ELSE 0))
                      + (IF pc = "poll" THEN 2 ELSE IF pc = "delay" THEN 1 ELSE 0)
  BY DEF StepsLeft

(* The same, of the state after a step.                                    *)
LEMMA RaceLeftNext ==
    (st = "Connecting" =>
        StepsLeft = 3 * (Cardinality(remote["preferred"].addrs)
                           + (IF fallback = "Some"
                              THEN Cardinality(remote["fallback"].addrs) + 1 ELSE 0))
                      + (IF pc = "poll" THEN 2 ELSE IF pc = "delay" THEN 1 ELSE 0))'
  BY RaceLeft, PTL

(* A race that starts has fewer turns left than the lookup it ends.        *)
LEMMA RaceLeftBound ==
    TypeOK' /\ st' = "Connecting" => StepsLeft' <= 6 * MaxAddrs + 5
<1> SUFFICES ASSUME TypeOK', st' = "Connecting"
             PROVE  StepsLeft' <= 6 * MaxAddrs + 5
  OBVIOUS
<1> DEFINE p == Cardinality(remote'["preferred"].addrs)
           f == Cardinality(remote'["fallback"].addrs)
<1>1. p \in 0..MaxAddrs /\ f \in 0..MaxAddrs
  BY LeftCardNext
<1>2. StepsLeft' = 3 * (p + (IF fallback' = "Some" THEN f + 1 ELSE 0))
                     + (IF pc' = "poll" THEN 2 ELSE IF pc' = "delay" THEN 1 ELSE 0)
  BY RaceLeftNext
<1> HIDE DEF p, f
<1> QED BY <1>1, <1>2, MaxAddrsAssumption

(* A turn of the race that does not end the poll leaves fewer to come: an   *)
(* address less, a side less, or a place further on.                       *)
LEMMA RemoteTurn ==
    ASSUME TypeOK, TypeOK', IInv, NEW s \in Sides, PollRemote(s), pc' # "parked"
    PROVE  StepsLeft' < StepsLeft
<1> USE DEF env
<1> DEFINE p == Cardinality(remote["preferred"].addrs)
           f == Cardinality(remote["fallback"].addrs)
           q == Cardinality(remote'["preferred"].addrs)
           g == Cardinality(remote'["fallback"].addrs)
<1>1. p \in Nat /\ f \in Nat /\ q \in Nat /\ g \in Nat
  BY LeftCard, LeftCardNext
<1>2. Polling(s)
  BY DEF PollRemote, StartNext, StartFails, Exhausted, RemotePanics, CurrentNotReady,
         CurrentReady
<1>3. st = "Connecting" /\ Live(s) /\ pc = IF s = "preferred" THEN "poll" ELSE "fallback"
  BY <1>2, PollingLive DEF Polling
<1>4. StepsLeft = 3 * (p + (IF fallback = "Some" THEN f + 1 ELSE 0))
                    + (IF pc = "poll" THEN 2 ELSE IF pc = "delay" THEN 1 ELSE 0)
  BY <1>3, RaceLeft
<1>5. st' = "Connecting" =>
        StepsLeft' = 3 * (q + (IF fallback' = "Some" THEN g + 1 ELSE 0))
                       + (IF pc' = "poll" THEN 2 ELSE IF pc' = "delay" THEN 1 ELSE 0)
  BY RaceLeftNext
<1>6. s = "fallback" => fallback = "Some"
  BY <1>3 DEF Live
<1>7. ASSUME NEW i \in Pos, StartNext(s, i) PROVE StepsLeft' < StepsLeft
  <2>1. UNCHANGED <<st, pc, fallback>> /\ i \in remote[s].addrs
        /\ remote' = [remote EXCEPT ![s] = [addrs |-> remote[s].addrs \ {i}, current |-> i]]
    BY <1>7 DEF StartNext, Yields
  <2>2. Cardinality(remote[s].addrs \ {i}) = Cardinality(remote[s].addrs) - 1
    BY <2>1, PosCard, Shapes
  <2>3. CASE s = "preferred"
    <3>1. remote'["preferred"].addrs = remote["preferred"].addrs \ {i}
          /\ remote'["fallback"] = remote["fallback"]
      BY <2>1, <2>3, Shapes DEF Sides
    <3>2. q = p - 1 /\ g = f
      BY <2>2, <2>3, <3>1
    <3> HIDE DEF p, f, q, g
    <3> QED BY <1>1, <1>3, <1>4, <1>5, <2>1, <3>2
  <2>4. CASE s = "fallback"
    <3>1. remote'["fallback"].addrs = remote["fallback"].addrs \ {i}
          /\ remote'["preferred"] = remote["preferred"]
      BY <2>1, <2>4, Shapes DEF Sides
    <3>2. g = f - 1 /\ q = p
      BY <2>2, <2>4, <3>1
    <3> HIDE DEF p, f, q, g
    <3> QED BY <1>1, <1>3, <1>4, <1>5, <1>6, <2>1, <2>4, <3>2
  <2> QED BY <2>3, <2>4 DEF Sides
<1>8. CASE RemoteErr(s)
  <2>1. /\ s = "preferred" /\ fallback = "Some" /\ fallback' = "None"
        /\ UNCHANGED <<st, pc>>
        /\ remote' = [remote EXCEPT !["preferred"] = remote["fallback"]]
    BY <1>8 DEF RemoteErr, Return
  <2>2. q = f
    BY <2>1, Shapes DEF Sides
  <2> HIDE DEF p, f, q, g
  <2> QED BY <1>1, <1>3, <1>4, <1>5, <2>1, <2>2
<1>9. CASE CurrentNotReady(s)
  <2>1. /\ s = "preferred" /\ pc' = "delay" /\ UNCHANGED <<st, remote, fallback>>
    BY <1>9 DEF CurrentNotReady
  <2>2. p = q /\ f = g
    BY <2>1
  <2> HIDE DEF p, f, q, g
  <2> QED BY <1>1, <1>3, <1>4, <1>5, <2>1, <2>2
<1>10. CASE RemotePanics(s) \/ CurrentReady(s)
  BY <1>10 DEF RemotePanics, CurrentReady, Return
<1> QED
  BY <1>7, <1>8, <1>9, <1>10 DEF PollRemote, StartFails, Exhausted

(* So does every step of poll.                                             *)
LEMMA PollTurn ==
    ASSUME TypeOK, TypeOK', IInv, PollStep, pc' # "parked"
    PROVE  StepsLeft' < StepsLeft
<1> USE DEF env
<1>1. CASE PollError
  BY <1>1 DEF PollError, Return
<1>2. CASE PollLazyName
  BY <1>2, MaxAddrsAssumption DEF PollLazyName, StepsLeft
<1>3. ASSUME st \in {"Lazy", "Resolving"}, st' = "Connecting" PROVE StepsLeft' < StepsLeft
  <2>1. StepsLeft \in {6 * MaxAddrs + 7, 6 * MaxAddrs + 6}
    BY <1>3 DEF StepsLeft
  <2>2. StepsLeft' <= 6 * MaxAddrs + 5 /\ StepsLeft' \in Int
    <3>1. StepsLeft' = 3 * (Cardinality(remote'["preferred"].addrs)
                              + (IF fallback' = "Some"
                                 THEN Cardinality(remote'["fallback"].addrs) + 1 ELSE 0))
                         + (IF pc' = "poll" THEN 2 ELSE IF pc' = "delay" THEN 1 ELSE 0)
      BY <1>3, RaceLeftNext
    <3> QED BY <1>3, <3>1, RaceLeftBound, LeftCardNext
  <2> QED BY <2>1, <2>2, MaxAddrsAssumption
<1>4. CASE PollLazyLiteral
  BY <1>3, <1>4 DEF PollLazyLiteral, ConnectingTcpNew
<1>5. CASE PollResolving
  BY <1>3, <1>5 DEF PollResolving, ConnectingTcpNew, NotReady, Return
<1>6. ASSUME NEW s \in Sides, PollRemote(s) PROVE StepsLeft' < StepsLeft
  BY <1>6, RemoteTurn
<1>7. CASE PollDelay
  <2>1. pc = "delay" /\ pc' = "fallback" /\ UNCHANGED <<st, remote, fallback>>
    BY <1>7 DEF PollDelay, NotReady
  <2>2. st = "Connecting"
    BY <2>1, WakeShapes
  <2> DEFINE p == Cardinality(remote["preferred"].addrs)
             f == Cardinality(remote["fallback"].addrs)
             u == 3 * (p + (IF fallback = "Some" THEN f + 1 ELSE 0))
  <2>3. StepsLeft = u + 1 /\ StepsLeft' = u
    BY <2>1, <2>2, RaceLeft, RaceLeftNext, LeftCard
  <2>4. u \in Nat
    BY LeftCard
  <2> HIDE DEF u
  <2> QED BY <2>3, <2>4
<1> QED BY <1>1, <1>2, <1>4, <1>5, <1>6, <1>7 DEF PollStep

(* What happens while poll runs leaves it as many turns as before.         *)
LEMMA OthersTurn ==
    ASSUME TypeOK, IInv, Next, ~PollStep, pc # "parked"
    PROVE  StepsLeft' = StepsLeft
<1>1. UNCHANGED <<st, pc, remote, fallback>>
  BY WakeShapes
  DEF Next, Connect, BeginPoll, ResolverAnswers, SocketDecides, DelayElapses,
      TimerFails, SpuriousWake, Done, vars
<1> QED BY <1>1 DEF StepsLeft

(* Every call of poll ends (PollEnds): no turn of its loops leaves as many  *)
(* to come as there were, and the environment adds none.                   *)
THEOREM Ends == Spec => PollEnds
<1> DEFINE Turn ==
             pc # "parked" => \/ pc' = "parked"
                              \/ StepsLeft' < StepsLeft
                              \/ ~PollStep /\ StepsLeft' = StepsLeft
<1>1. ASSUME TypeOK, TypeOK', IInv, Next PROVE Turn
  <2> SUFFICES ASSUME pc # "parked", pc' # "parked"
              PROVE  StepsLeft' < StepsLeft \/ (~PollStep /\ StepsLeft' = StepsLeft)
    OBVIOUS
  <2>1. CASE PollStep
    <3>1. StepsLeft' < StepsLeft
      BY <1>1, <2>1, PollTurn
    <3> QED BY <3>1
  <2>2. CASE ~PollStep
    <3>1. StepsLeft' = StepsLeft
      BY <1>1, <2>2, OthersTurn
    <3> QED BY <2>2, <3>1
  <2> QED BY <2>1, <2>2
<1>2. TypeOK /\ TypeOK' /\ IInv /\ [Next]_vars => [Turn]_vars
  <2> HIDE DEF Turn
  <2> QED BY <1>1
<1> QED BY <1>2, TypeCorrect, Inductive, PTL DEF Spec, PollEnds
=============================================================================
