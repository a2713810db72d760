-------------------------------- MODULE Dial --------------------------------
(***************************************************************************)
(* What a connection attempt promises, without how it is polled: the       *)
(* addresses of each family are tried in order, one at a time; the family  *)
(* of the first address leads, and the other one may join when it is late  *)
(* or the first is given up; the attempt ends with a connection or when    *)
(* both families are given up.  HttpConnecting implements this.            *)
(***************************************************************************)
EXTENDS Naturals

CONSTANTS
    Answers     \* the answers a resolver may give: sequences of families

VARIABLES
    phase,      \* idle, race, or how the attempt ended
    answer,     \* families of the addresses to try
    nosock,     \* addresses for which no socket can be made
    timer,      \* does the timer work?
    late,       \* has the time of the first family alone passed?
    trying,     \* addresses being connected to
    accepted,   \* those of them that have accepted
    refused,    \* addresses that refused
    closed      \* families given up

vars == <<phase, answer, nosock, timer, late, trying, accepted, refused, closed>>

Init ==
    /\ phase = "idle"
    /\ answer = <<>> /\ nosock = {}
    /\ timer \in {"works", "broken"} /\ late = "no"
    /\ trying = {} /\ accepted = {} /\ refused = {} /\ closed = {}

Of(f) == {i \in DOMAIN answer : answer[i] = f}
Families == {answer[i] : i \in DOMAIN answer}

\* The Uri is refused, or its host cannot be resolved.
Reject ==
    /\ phase = "idle"
    /\ phase' = "err"
    /\ UNCHANGED <<answer, nosock, timer, late, trying, accepted, refused, closed>>

\* The host is resolved.
Begin ==
    /\ phase = "idle"
    /\ phase' = "race"
    /\ answer' \in Answers
    /\ nosock' \in SUBSET DOMAIN answer'
    /\ UNCHANGED <<timer, late, trying, accepted, refused, closed>>

\* The delay has passed, which takes a timer that works.
Elapse ==
    /\ phase = "race" /\ timer = "works"
    /\ late' = "yes"
    /\ UNCHANGED <<phase, answer, nosock, timer, trying, accepted, refused, closed>>

\* The timer fails before that.
TimerBreaks ==
    /\ phase = "race" /\ timer = "works" /\ late = "no"
    /\ timer' = "broken"
    /\ UNCHANGED <<phase, answer, nosock, late, trying, accepted, refused, closed>>

\* Nothing of the family is being tried, and what comes next cannot be.
CanEnd(f) ==
    /\ Of(f) \cap trying = {}
    /\ \A i \in Of(f) \ refused :
          \E k \in Of(f) \cap nosock :
              k <= i /\ \A j \in Of(f) : j < k => j \in refused

\* The next address of a family is tried.
Try(i) ==
    /\ phase = "race" /\ answer[i] \notin closed
    /\ i \notin trying \cup refused \cup nosock
    /\ Of(answer[i]) \cap trying = {}
    /\ \A j \in Of(answer[i]) : j < i => j \in refused
    /\ answer[i] # answer[1] => late = "yes" \/ answer[1] \in closed
    /\ trying' = trying \cup {i}
    /\ UNCHANGED <<phase, answer, nosock, timer, late, accepted, refused, closed>>

\* An address that is tried accepts, or refuses.
Accept(i) ==
    /\ phase = "race" /\ i \in trying \ accepted
    /\ accepted' = accepted \cup {i}
    /\ UNCHANGED <<phase, answer, nosock, timer, late, trying, refused, closed>>

Refuse(i) ==
    /\ phase = "race" /\ i \in trying \ accepted
    /\ trying' = trying \ {i} /\ refused' = refused \cup {i}
    /\ UNCHANGED <<phase, answer, nosock, timer, late, accepted, closed>>

\* A family is given up while the other one goes on.
GiveUp(f) ==
    /\ phase = "race" /\ Families \ closed # {f}
    /\ \/ CanEnd(f)
       \/ timer = "broken" /\ f # answer[1] /\ Of(f) \cap (trying \cup refused) = {}
    /\ closed' = closed \cup {f}
    /\ UNCHANGED <<phase, answer, nosock, timer, late, trying, accepted, refused>>

\* The attempt ends; what is still being tried is dropped.
End(how) ==
    /\ phase' = how
    /\ trying' = {} /\ accepted' = {} /\ closed' = {}
    /\ UNCHANGED <<answer, nosock, timer, late, refused>>

\* An address has accepted; setting up its socket may still fail.
Win ==
    /\ phase = "race" /\ accepted # {}
    /\ \E how \in {"ok", "err"} : End(how)

\* All families are given up.
Lose ==
    /\ phase = "race" /\ Families # {}
    /\ \A f \in Families : f \in closed \/ CanEnd(f)
    /\ End("err")

\* There is no address at all.
Panic ==
    /\ phase = "race" /\ Families = {}
    /\ End("panic")

Next ==
    \/ Reject \/ Begin \/ Elapse \/ TimerBreaks \/ Win \/ Lose \/ Panic
    \/ \E i \in DOMAIN answer : Try(i) \/ Accept(i) \/ Refuse(i)
    \/ \E f \in Families : GiveUp(f)

Spec == Init /\ [][Next]_vars
=============================================================================
