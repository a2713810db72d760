------------------------ MODULE CAresResolverProofs ------------------------
(***************************************************************************)
(* Proofs about CAresResolver, for any tasks, names, times and versions.   *)
(***************************************************************************)
EXTENDS CAresResolver, TLAPS

(* Every initial state is well typed.                                      *)
LEMMA InitType == Init => TypeOK
<1> SUFFICES ASSUME Init PROVE TypeOK
  OBVIOUS
<1>1. now \in Times /\ zone \in [Names -> Versions]
  BY BoundsAssumption DEF Init, Times, Versions
<1>2. DOMAIN cache = {}
  BY DEF Init
<1>3. fut \in [Tasks -> Futures]
  BY DEF Init
<1> QED BY <1>1, <1>2, <1>3 DEF TypeOK

(* The cache after a future was polled with an answer.                     *)
LEMMA AddCache ==
    ASSUME NEW t \in Tasks, PollAnswered(t)
    PROVE  /\ DOMAIN cache' = DOMAIN cache \cup {fut[t].name}
           /\ cache'[fut[t].name] = [addrs |-> fut[t].addrs, at |-> now]
           /\ \A m \in DOMAIN cache : m # fut[t].name => cache'[m] = cache[m]
  BY DEF PollAnswered, Add

(* One step keeps every variable's type.                                   *)
LEMMA StepType == TypeOK /\ [Next]_vars => TypeOK'
<1> SUFFICES ASSUME TypeOK, [Next]_vars PROVE TypeOK'
  OBVIOUS
<1>0. /\ now \in Times /\ zone \in [Names -> Versions]
      /\ DOMAIN cache \subseteq Names
      /\ \A n \in DOMAIN cache : cache[n] \in Entries
      /\ fut \in [Tasks -> Futures]
  BY DEF TypeOK
<1>1. CASE UNCHANGED vars
  BY <1>1 DEF vars, TypeOK
<1>2. ASSUME NEW t \in Tasks, NEW n \in Names, Lookup(t, n) PROVE TypeOK'
  <2>1. fut[t] \in Futures /\ (Visible(n) => cache[n].addrs \in Answers)
    BY <1>0 DEF Visible, Entries
  <2>2. fut' \in [Tasks -> Futures]
    BY <1>0, <1>2, <2>1 DEF Lookup, Futures, Stages
  <2> QED BY <1>0, <1>2, <2>2 DEF Lookup, TypeOK
<1>3. ASSUME NEW t \in Tasks,
             QueryA(t) \/ PollFailed(t) \/ PollCached(t) \/ Drop(t)
      PROVE  TypeOK'
  <2>1. fut' \in [Tasks -> Futures]
    BY <1>0, <1>3 DEF QueryA, PollFailed, PollCached, Drop, Futures, Stages
  <2> QED BY <1>0, <1>3, <2>1 DEF QueryA, PollFailed, PollCached, Drop, TypeOK
<1>4. ASSUME NEW t \in Tasks, PollAnswered(t) PROVE TypeOK'
  <2>1. fut' \in [Tasks -> Futures] /\ UNCHANGED <<now, zone>>
    BY <1>0, <1>4 DEF PollAnswered, Futures, Stages
  <2>2. fut[t].name \in Names /\ fut[t].addrs \in Answers
    BY <1>0 DEF Futures
  <2>3. /\ DOMAIN cache' = DOMAIN cache \cup {fut[t].name}
        /\ cache'[fut[t].name] = [addrs |-> fut[t].addrs, at |-> now]
        /\ \A m \in DOMAIN cache : m # fut[t].name => cache'[m] = cache[m]
    BY <1>4, AddCache
  <2>4. [addrs |-> fut[t].addrs, at |-> now] \in Entries
    BY <1>0, <2>2 DEF Entries
  <2> QED BY <1>0, <2>1, <2>2, <2>3, <2>4 DEF TypeOK
<1>5. ASSUME NEW t \in Tasks, DnsAnswers(t) PROVE TypeOK'
  <2>1. [name |-> fut[t].name, version |-> zone[fut[t].name]] \in Answers
    BY <1>0 DEF Futures, Answers
  <2>2. fut' \in [Tasks -> Futures]
    BY <1>0, <1>5, <2>1 DEF DnsAnswers, Futures, Stages
  <2> QED BY <1>0, <1>5, <2>2 DEF DnsAnswers, TypeOK
<1>6. ASSUME NEW n \in Names, RecordChanges(n) PROVE TypeOK'
  <2>1. zone' \in [Names -> Versions]
    BY <1>0, <1>6, BoundsAssumption DEF RecordChanges, Versions
  <2> QED BY <1>0, <1>6, <2>1 DEF RecordChanges, TypeOK
<1>7. CASE Tick
  <2>1. now' \in Times
    BY <1>0, <1>7, BoundsAssumption DEF Tick, Times
  <2> QED BY <1>0, <1>7, <2>1 DEF Tick, TypeOK
<1> QED BY <1>1, <1>2, <1>3, <1>4, <1>5, <1>6, <1>7 DEF Next, Poll

(* Type correctness of the caching resolver.                               *)
THEOREM TypeCorrect == Spec => []TypeOK
<1> QED BY InitType, StepType, PTL DEF Spec

(* The clock has reached every stamp and every lookup's time.              *)
Clock ==
    /\ \A n \in DOMAIN cache : cache[n].at <= now
    /\ \A t \in Tasks : fut[t].asked <= now

(* Each step keeps the lookups that are open older than the entries.       *)
LEMMA StepMisses ==
    TypeOK /\ Clock /\ MissesPredateEntry /\ [Next]_vars
        => Clock' /\ MissesPredateEntry'
<1> SUFFICES ASSUME TypeOK, Clock, MissesPredateEntry, [Next]_vars
             PROVE  Clock' /\ MissesPredateEntry'
  OBVIOUS
<1>0. /\ now \in Nat /\ DOMAIN cache \subseteq Names
      /\ \A n \in DOMAIN cache : cache[n].at \in Nat
      /\ fut \in [Tasks -> Futures]
      /\ \A t \in Tasks : fut[t].asked \in Nat
  BY BoundsAssumption DEF TypeOK, Times, Entries, Futures
<1>1. CASE UNCHANGED vars
  BY <1>1 DEF vars, Clock, MissesPredateEntry, Open
<1>2. ASSUME NEW t \in Tasks, NEW n \in Names, Lookup(t, n)
      PROVE  Clock' /\ MissesPredateEntry'
  <2>1. /\ UNCHANGED <<now, cache>>
        /\ \A u \in Tasks : u # t => fut'[u] = fut[u]
        /\ fut'[t].name = n /\ fut'[t].asked = now
        /\ fut'[t].stage = IF Visible(n) THEN "cached" ELSE "missed"
    BY <1>0, <1>2 DEF Lookup
  <2>2. ~Visible(n) /\ n \in DOMAIN cache => now <= cache[n].at
    BY <1>0 DEF Visible
  <2> QED BY <1>0, <2>1, <2>2 DEF Clock, MissesPredateEntry, Open
<1>3. ASSUME NEW t \in Tasks,
             QueryA(t) \/ PollFailed(t) \/ PollCached(t) \/ Drop(t) \/ DnsAnswers(t)
      PROVE  Clock' /\ MissesPredateEntry'
  <2>1. /\ UNCHANGED <<now, cache>>
        /\ \A u \in Tasks : u # t => fut'[u] = fut[u]
        /\ fut'[t].name = fut[t].name /\ fut'[t].asked = fut[t].asked
    BY <1>0, <1>3 DEF QueryA, PollFailed, PollCached, Drop, DnsAnswers, Futures
  <2>2. fut'[t].stage \in {"missed", "query", "answered"} =>
           fut[t].stage \in {"missed", "query", "answered"}
    BY <1>0, <1>3 DEF QueryA, PollFailed, PollCached, Drop, DnsAnswers, Futures
  <2> QED BY <2>1, <2>2 DEF Clock, MissesPredateEntry, Open
<1>4. ASSUME NEW t \in Tasks, PollAnswered(t) PROVE Clock' /\ MissesPredateEntry'
  <2>1. /\ UNCHANGED now
        /\ \A u \in Tasks : u # t => fut'[u] = fut[u]
        /\ fut'[t].stage = "idle" /\ fut'[t].asked = fut[t].asked
    BY <1>0, <1>4 DEF PollAnswered, Futures
  <2>2. /\ DOMAIN cache' = DOMAIN cache \cup {fut[t].name}
        /\ cache'[fut[t].name] = [addrs |-> fut[t].addrs, at |-> now]
        /\ \A m \in DOMAIN cache : m # fut[t].name => cache'[m] = cache[m]
    BY <1>4, AddCache
  <2> QED BY <1>0, <2>1, <2>2 DEF Clock, MissesPredateEntry, Open
<1>5. CASE Tick \/ \E n \in Names : RecordChanges(n)
  BY <1>0, <1>5 DEF Tick, RecordChanges, Clock, MissesPredateEntry, Open
<1> QED BY <1>1, <1>2, <1>3, <1>4, <1>5 DEF Next, Poll

(* No task asks the DNS for a name after its entry could be seen.          *)
THEOREM MissesOld == Spec => [](TypeOK /\ Clock /\ MissesPredateEntry)
<1>1. Init => TypeOK /\ Clock /\ MissesPredateEntry
  <2> SUFFICES ASSUME Init PROVE TypeOK /\ Clock /\ MissesPredateEntry
    OBVIOUS
  <2>1. DOMAIN cache = {} /\ now = 0 /\ \A t \in Tasks : fut[t].asked = 0
    BY DEF Init
  <2> QED BY <2>1, InitType DEF Clock, MissesPredateEntry
<1>2. TypeOK /\ Clock /\ MissesPredateEntry /\ [Next]_vars
         => (TypeOK /\ Clock /\ MissesPredateEntry)'
  BY StepType, StepMisses
<1> QED BY <1>1, <1>2, PTL DEF Spec

(* A settled name stays settled, with the entry it has.                    *)
THEOREM NeverExpires == Spec => Frozen
<1>1. TypeOK /\ [Next]_vars =>
         [\A n \in Names : Settled(n) => Settled(n)' /\ cache'[n] = cache[n]]_vars
  <2> SUFFICES ASSUME TypeOK, Next, NEW n \in Names, Settled(n)
              PROVE  Settled(n)' /\ cache'[n] = cache[n]
    OBVIOUS
  <2>0. /\ now \in Nat /\ fut \in [Tasks -> Futures]
        /\ n \in DOMAIN cache /\ cache[n].at \in Nat /\ cache[n].at < now
        /\ \A t \in Tasks : ~Open(t, n)
    BY BoundsAssumption DEF TypeOK, Times, Entries, Settled, Visible
  <2>1. ASSUME NEW t \in Tasks, NEW m \in Names, Lookup(t, m)
        PROVE  Settled(n)' /\ cache'[n] = cache[n]
    <3>1. /\ UNCHANGED <<now, cache>>
          /\ \A u \in Tasks : u # t => fut'[u] = fut[u]
          /\ fut'[t].name = m
          /\ fut'[t].stage = IF Visible(m) THEN "cached" ELSE "missed"
      BY <2>0, <2>1 DEF Lookup
    <3>2. Visible(n)
      BY DEF Settled
    <3> QED BY <2>0, <3>1, <3>2 DEF Settled, Visible, Open
  <2>2. ASSUME NEW t \in Tasks,
               QueryA(t) \/ PollFailed(t) \/ PollCached(t) \/ Drop(t) \/ DnsAnswers(t)
        PROVE  Settled(n)' /\ cache'[n] = cache[n]
    <3>1. /\ UNCHANGED <<now, cache>>
          /\ \A u \in Tasks : u # t => fut'[u] = fut[u]
          /\ fut'[t].name = fut[t].name
      BY <2>0, <2>2 DEF QueryA, PollFailed, PollCached, Drop, DnsAnswers, Futures
    <3>2. fut'[t].stage \in {"missed", "query", "answered"} =>
             fut[t].stage \in {"missed", "query", "answered"}
      BY <2>0, <2>2 DEF QueryA, PollFailed, PollCached, Drop, DnsAnswers, Futures
    <3> QED BY <2>0, <3>1, <3>2 DEF Settled, Visible, Open
  <2>3. ASSUME NEW t \in Tasks, PollAnswered(t)
        PROVE  Settled(n)' /\ cache'[n] = cache[n]
    <3>1. /\ UNCHANGED now
          /\ \A u \in Tasks : u # t => fut'[u] = fut[u]
          /\ fut'[t].stage = "idle"
          /\ fut[t].name # n
      BY <2>0, <2>3 DEF PollAnswered, Futures, Open
    <3>2. DOMAIN cache' = DOMAIN cache \cup {fut[t].name} /\ cache'[n] = cache[n]
      BY <2>0, <2>3, <3>1, AddCache
    <3> QED BY <2>0, <3>1, <3>2 DEF Settled, Visible, Open
  <2>4. CASE Tick \/ \E m \in Names : RecordChanges(m)
    BY <2>0, <2>4 DEF Tick, RecordChanges, Settled, Visible, Open
  <2> QED BY <2>1, <2>2, <2>3, <2>4 DEF Next, Poll
<1> QED BY <1>1, TypeCorrect, PTL DEF Spec, Frozen

-----------------------------------------------------------------------------
(* Answers stay with their names                                           *)

(* What is kept or handed out is an answer the DNS gave for its name.      *)
Given ==
    /\ \A n \in DOMAIN cache :
          cache[n].addrs.name = n /\ cache[n].addrs.version <= zone[n]
    /\ \A t \in Tasks : fut[t].stage \in {"answered", "cached"} =>
          /\ fut[t].addrs.name = fut[t].name
          /\ fut[t].addrs.version <= zone[fut[t].name]

(* The versions are numbers.                                               *)
LEMMA Numbers ==
    ASSUME TypeOK
    PROVE  /\ \A n \in Names : zone[n] \in Nat
           /\ \A n \in DOMAIN cache : n \in Names /\ cache[n].addrs.version \in Nat
           /\ \A t \in Tasks : fut[t].name \in Names /\ fut[t].addrs.version \in Nat
<1>1. Versions \subseteq Nat
  BY BoundsAssumption DEF Versions
<1>2. \A a \in Answers : a.version \in Nat
  BY <1>1 DEF Answers
<1>3. \A e \in Entries : e.addrs \in Answers
  BY DEF Entries
<1>4. \A f \in Futures : f.addrs \in Answers /\ f.name \in Names
  BY DEF Futures
<1> QED
  BY <1>1, <1>2, <1>3, <1>4 DEF TypeOK

LEMMA StepGiven == TypeOK /\ Given /\ [Next]_vars => Given'
<1> SUFFICES ASSUME TypeOK, Given, [Next]_vars PROVE Given'
  OBVIOUS
<1>0. /\ DOMAIN cache \subseteq Names /\ fut \in [Tasks -> Futures]
      /\ \A t \in Tasks : fut[t].name \in Names
  BY DEF TypeOK, Futures
<1>1. CASE UNCHANGED vars
  BY <1>1 DEF vars, Given
<1>2. ASSUME NEW t \in Tasks, NEW n \in Names, Lookup(t, n) PROVE Given'
  <2>1. /\ UNCHANGED <<zone, cache>>
        /\ \A u \in Tasks : u # t => fut'[u] = fut[u]
        /\ fut'[t].name = n
        /\ fut'[t].stage = IF Visible(n) THEN "cached" ELSE "missed"
        /\ Visible(n) => fut'[t].addrs = cache[n].addrs
    BY <1>0, <1>2 DEF Lookup
  <2>2. Visible(n) => n \in DOMAIN cache
    BY DEF Visible
  <2> QED BY <2>1, <2>2 DEF Given
<1>3. ASSUME NEW t \in Tasks, QueryA(t) \/ PollFailed(t) \/ PollCached(t) \/ Drop(t)
      PROVE  Given'
  <2>1. /\ UNCHANGED <<zone, cache>>
        /\ \A u \in Tasks : u # t => fut'[u] = fut[u]
        /\ fut'[t].stage \in {"idle", "query"}
    BY <1>0, <1>3 DEF QueryA, PollFailed, PollCached, Drop, Futures
  <2> QED BY <2>1 DEF Given
<1>4. ASSUME NEW t \in Tasks, PollAnswered(t) PROVE Given'
  <2>1. /\ UNCHANGED zone /\ fut[t].stage = "answered"
        /\ \A u \in Tasks : u # t => fut'[u] = fut[u]
        /\ fut'[t].stage = "idle"
    BY <1>0, <1>4 DEF PollAnswered, Futures
  <2>2. /\ DOMAIN cache' = DOMAIN cache \cup {fut[t].name}
        /\ cache'[fut[t].name] = [addrs |-> fut[t].addrs, at |-> now]
        /\ \A m \in DOMAIN cache : m # fut[t].name => cache'[m] = cache[m]
    BY <1>4, AddCache
  <2> QED BY <2>1, <2>2 DEF Given
<1>5. ASSUME NEW t \in Tasks, DnsAnswers(t) PROVE Given'
  <2>1. /\ UNCHANGED <<zone, cache>>
        /\ \A u \in Tasks : u # t => fut'[u] = fut[u]
        /\ fut'[t].name = fut[t].name
        /\ fut'[t].stage \in {"answered", "failed"}
        /\ fut'[t].stage = "answered" =>
              fut'[t].addrs = [name |-> fut[t].name, version |-> zone[fut[t].name]]
    BY <1>0, <1>5 DEF DnsAnswers, Futures
  <2>2. zone[fut[t].name] \in Nat
    BY Numbers
  <2> QED BY <2>1, <2>2 DEF Given
<1>6. ASSUME NEW n \in Names, RecordChanges(n) PROVE Given'
  <2>1. /\ UNCHANGED <<cache, fut>>
        /\ \A m \in Names : zone'[m] = IF m = n THEN zone[m] + 1 ELSE zone[m]
    BY <1>6 DEF RecordChanges, TypeOK
  <2>2. \A m \in Names : zone[m] \in Nat /\ zone'[m] \in Nat /\ zone[m] <= zone'[m]
    BY <2>1, Numbers
  <2>3. \A v, a, b \in Nat : v <= a /\ a <= b => v <= b
    OBVIOUS
  <2>4. \A m \in DOMAIN cache : cache[m].addrs.version <= zone'[m]
    BY <2>2, <2>3, Numbers DEF Given
  <2>5. \A t \in Tasks : fut[t].stage \in {"answered", "cached"} =>
           fut[t].addrs.version <= zone'[fut[t].name]
    BY <2>2, <2>3, Numbers DEF Given
  <2> QED BY <2>1, <2>4, <2>5 DEF Given
<1>7. CASE Tick
  BY <1>7 DEF Tick, Given
<1> QED
  BY <1>1, <1>2, <1>3, <1>4, <1>5, <1>6, <1>7 DEF Next, Poll

(* However lookups interleave, every answer stays with its name.           *)
THEOREM Own == Spec => []OwnAnswers
<1>1. Init => TypeOK /\ Given
  <2> SUFFICES ASSUME Init PROVE TypeOK /\ Given
    OBVIOUS
  <2>1. DOMAIN cache = {} /\ \A t \in Tasks : fut[t].stage = "idle"
    BY DEF Init
  <2> QED BY <2>1, InitType DEF Given
<1>2. TypeOK /\ Given /\ [Next]_vars => (TypeOK /\ Given)'
  BY StepType, StepGiven
<1>3. Given => OwnAnswers
  BY DEF Given, OwnAnswers
<1> QED BY <1>1, <1>2, <1>3, PTL DEF Spec
=============================================================================
