--------------------------- MODULE CAresResolver ---------------------------
(***************************************************************************)
(* The caching resolver of src/http/ares.rs, shared by the tasks that      *)
(* connect: CAresResolverImpl::resolve looks the name up in ResolverCache  *)
(* and asks the DNS when that fails; the future it returns fills the cache *)
(* when it is polled with an answer.                                       *)
(*                                                                         *)
(* The DNS holds one record per name, which changes from version to        *)
(* version; an answer is the name asked for and the version given.         *)
(***************************************************************************)
EXTENDS Naturals

CONSTANTS
    Tasks,      \* the tasks that resolve names
    Names,      \* the names they resolve
    MaxTime,    \* bound: last value of the clock
    MaxVersion  \* bound: last version of a record

ASSUME BoundsAssumption == MaxTime \in Nat /\ MaxVersion \in Nat

VARIABLES
    now,        \* Instant::now()
    zone,       \* environment: the version of each record in the DNS
    cache,      \* ResolverCache.cache, a map from names to entries
    fut         \* the lookup of each task

vars == <<now, zone, cache, fut>>

Times == 0..MaxTime
Versions == 0..MaxVersion
Answers == [name : Names, version : Versions]
Entries == [addrs : Answers, at : Times]

\* missed: between lookup and query_a; query, answered, failed: FromResolver
\* and how far its CAresFuture is; cached: FromCache; idle: no future, or
\* one that is Done.
Stages == {"idle", "missed", "query", "answered", "failed", "cached"}

\* A lookup: its stage, the name, when the cache was looked at, and the
\* answer that the future holds or handed out.
Futures == [stage : Stages, name : Names, asked : Times, addrs : Answers]

Init ==
    /\ now = 0
    /\ zone = [n \in Names |-> 0]
    /\ cache = [n \in {} |-> 0]
    /\ fut \in [Tasks -> {f \in Futures : /\ f.stage = "idle" /\ f.asked = 0
                                          /\ f.addrs = [name |-> f.name, version |-> 0]}]

-----------------------------------------------------------------------------
(* ResolverCache                                                           *)

\* Mutation: an entry counts until the clock has moved past its time.
VisibleUntil(n) == n \in DOMAIN cache /\ now <= cache[n].at

\* Mutation: an entry also expires.
VisibleExpiring(n) ==
    n \in DOMAIN cache /\ cache[n].at < now /\ now <= cache[n].at + 1

\* lookup: an entry counts once the clock has moved past the time at which
\* it was added.
Visible(n) == n \in DOMAIN cache /\ cache[n].at < now

\* Mutation: the answer replaces every entry.
AddToAll(n, addrs) ==
    cache' = [m \in DOMAIN cache \cup {n} |-> [addrs |-> addrs, at |-> now]]

\* add: insert or replace the entry, stamped with the present time.
Add(n, addrs) ==
    cache' = [m \in DOMAIN cache \cup {n} |->
                 IF m = n THEN [addrs |-> addrs, at |-> now] ELSE cache[m]]

-----------------------------------------------------------------------------
(* CAresResolverImpl::resolve                                              *)

\* The lookup under the cache's lock: a hit is copied into the future.
Lookup(t, n) ==
    /\ fut[t].stage = "idle"
    /\ fut' = [fut EXCEPT ![t] =
                  [stage |-> IF Visible(n) THEN "cached" ELSE "missed",
                   name  |-> n,
                   asked |-> now,
                   addrs |-> IF Visible(n) THEN cache[n].addrs ELSE @.addrs]]
    /\ UNCHANGED <<now, zone, cache>>

\* After a miss, with the lock released, the DNS is asked.
QueryA(t) ==
    /\ fut[t].stage = "missed"
    /\ fut' = [fut EXCEPT ![t].stage = "query"]
    /\ UNCHANGED <<now, zone, cache>>

-----------------------------------------------------------------------------
(* CAresResolverFuture::poll; a query without an answer stays as it is     *)

PollAnswered(t) ==
    /\ fut[t].stage = "answered"
    /\ Add(fut[t].name, fut[t].addrs)
    /\ fut' = [fut EXCEPT ![t].stage = "idle"]
    /\ UNCHANGED <<now, zone>>

PollFailed(t) ==
    /\ fut[t].stage = "failed"
    /\ fut' = [fut EXCEPT ![t].stage = "idle"]
    /\ UNCHANGED <<now, zone, cache>>

PollCached(t) ==
    /\ fut[t].stage = "cached"
    /\ fut' = [fut EXCEPT ![t].stage = "idle"]
    /\ UNCHANGED <<now, zone, cache>>

\* The connection is given up: its future is dropped, and the query with it.
Drop(t) ==
    /\ fut[t].stage \notin {"idle", "missed"}
    /\ fut' = [fut EXCEPT ![t].stage = "idle"]
    /\ UNCHANGED <<now, zone, cache>>

-----------------------------------------------------------------------------
(* The environment                                                         *)

\* The DNS answers a query with the record it has now, or it fails.
DnsAnswers(t) ==
    /\ fut[t].stage = "query"
    /\ \/ fut' = [fut EXCEPT ![t].stage = "answered",
                             ![t].addrs = [name |-> fut[t].name,
                                           version |-> zone[fut[t].name]]]
       \/ fut' = [fut EXCEPT ![t].stage = "failed"]
    /\ UNCHANGED <<now, zone, cache>>

RecordChanges(n) ==
    /\ zone[n] < MaxVersion
    /\ zone' = [zone EXCEPT ![n] = @ + 1]
    /\ UNCHANGED <<now, cache, fut>>

Tick ==
    /\ now < MaxTime
    /\ now' = now + 1
    /\ UNCHANGED <<zone, cache, fut>>

Poll(t) == PollAnswered(t) \/ PollFailed(t) \/ PollCached(t)

Next ==
    \/ \E t \in Tasks, n \in Names : Lookup(t, n)
    \/ \E t \in Tasks : QueryA(t) \/ Poll(t) \/ Drop(t) \/ DnsAnswers(t)
    \/ \E n \in Names : RecordChanges(n)
    \/ Tick

Spec == Init /\ [][Next]_vars

-----------------------------------------------------------------------------
(* Properties                                                              *)

\* Every variable keeps its type.
TypeOK ==
    /\ now \in Times
    /\ zone \in [Names -> Versions]
    /\ DOMAIN cache \subseteq Names
    /\ \A n \in DOMAIN cache : cache[n] \in Entries
    /\ fut \in [Tasks -> Futures]

\* A lookup is under way whose answer may still enter the cache.
Open(t, n) == fut[t].name = n /\ fut[t].stage \in {"missed", "query", "answered"}

\* Every answer in the cache or handed to a task is one that the DNS gave
\* for the very name it is kept or was asked under, however the lookups of
\* several tasks interleave.
OwnAnswers ==
    /\ \A n \in DOMAIN cache :
          cache[n].addrs.name = n /\ cache[n].addrs.version <= zone[n]
    /\ \A t \in Tasks : fut[t].stage \in {"answered", "cached"} =>
          fut[t].addrs.name = fut[t].name

\* A task asks the DNS for a name in the cache only if it looked for the
\* name no later than the entry was stamped.
MissesPredateEntry ==
    \A t \in Tasks, n \in DOMAIN cache :
        Open(t, n) => fut[t].asked <= cache[n].at

\* A name whose entry can be seen and that no open lookup may replace.
Settled(n) == Visible(n) /\ \A t \in Tasks : ~Open(t, n)

\* Entries do not expire: once settled, a name is never asked for again and
\* its entry never changes, whatever becomes of its record in the DNS.
Frozen ==
    [][\A n \in Names : Settled(n) => Settled(n)' /\ cache'[n] = cache[n]]_vars
=============================================================================
