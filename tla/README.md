# A TLA+ model of simple-http

simple-http is a small HTTP/1.0 client in Rust: a `Client` that sends one
request per connection, connectors for plain TCP, TLS and proxies, and DNS
resolvers. Everything is a future polled by an executor. This directory models
the client's control, checks it with TLC on small instances, and proves the
safety properties of every component, and the refinements between them, with
TLAPS. Paths below are relative to the repository's root.

## 1. Inventory

| Component (source) | State | Operations | Correct when |
|---|---|---|---|
| `HttpConnector`, `HttpConnecting` (`src/http/mod.rs`) | `State` of the future; the two `ConnectingTcpRemote`s, each with the addresses left and the current `ConnectFuture`; the fallback's `Delay` | `connect`, `poll` | addresses are tried in order, one at a time per family; the fallback waits; a failure means both families failed; no wakeup is lost |
| `IpAddrs`, `Resolve` (`src/http/dns.rs`) | the addresses not yet yielded | `try_parse`, `split_by_preference`, `is_empty`, `next` | every address is on exactly one side, in order |
| `GaiResolver` (`src/http/dns.rs`) | a handle to a thread pool; per lookup a job and a oneshot channel | `new`, `resolve`, `GaiFuture::poll`, `GaiTask::poll` | every lookup that is waited for is one job and is answered; lookups that hang block no others while threads are left |
| `TokioThreadpoolGaiResolver` (`src/http/dns.rs`) | the name | `resolve`, `poll` | waits for a permit without losing its place or its wakeup |
| `CAresResolver`, `ResolverCache` (`src/http/ares.rs`) | a map from names to addresses and an `Instant`, behind a mutex shared by all clones | `resolve`, `poll`, `lookup`, `add` | an answer stays with its name; what a hit means |
| `Client::request` (`src/lib.rs`) | the connection, the 4096-byte head buffer and `left` | `request`, `build_req` | returns a response only for a complete head; fails only for a reason; hands the rest of the buffer to the body |
| `Body` (`src/body.rs`) | `rest`, `counter`, `content_length`, `drained` | `new`, `poll_next` | yields the reply's bytes after the head, each once, in order; ends |
| `Tunnel` (`src/proxy/tunnel.rs`) | the request's cursor, then the reply read so far | `new`, `with_stream`, `poll` | established only by a complete 200 reply; completes |
| `Proxy`, `Intercept`, `ProxyConnector` (`src/proxy/mod.rs`) | the list of proxies with their headers; the TLS connector, if any | `add_proxy`, `set_authorization`, `set_header`, `set_tls`, `with_connector`, `http_headers`, `connect` | the first matching proxy is used and gets its credentials; https is secured end to end |
| `HttpsConnector`, `Handshaking` (`src/https/client.rs`) | `force_https`, the inner connector | `https_only`, `connect`, `poll` | https is secured for its host; nothing in the clear when forced; a handshake that blocks is resumed, never polled after it ended |
| `Destination` (`src/connect.rs`) | a `Uri` | `set_scheme`, `set_host`, `set_port` | each setter keeps the other parts |
| `httparse` (`src/httparse.rs`) | none | `parse_status`, `parse_header`, `parse_headers` | every head is parsed or refused; which ones panic |
| `Request`, `RequestBuilder` (`src/request.rs`) | method, version, Uri, headers, body | `new`, setters, `done`, `body` | no setter loses what another collected; the head names one host |
| `Response`, `HeaderMap` (`src/response.rs`) | status, values by name | `new`, `get` | the status is valid; the length used is the length seen |
| `MaybeHttpsStream`, `TlsStream`, `ProxyStream` (`src/https/stream.rs`, `src/proxy/stream.rs`) | the wrapped stream | reads, writes, `shutdown` | layers are closed once each, from the outside in |

**How they interact.** `Client::request` calls `connect` of the connector it was
built with: usually `ProxyConnector` over `HttpsConnector` over
`HttpConnector`, each passing on a `Destination`. `HttpConnecting` asks a
resolver, splits the answer by family and races two lists of sockets. The
stream goes back up, getting a TLS layer, a tunnel and another TLS layer on the
way where they apply. `request` then owns it, writes and reads the head on it
and moves it into the `Body`. The only state shared between connections is the
resolver's cache.

**What is hard.** The race: three event sources (two sockets and a timer), a
fallback that `poll` takes out of its `Option` and has to put back, and a task
that only runs when something it polled wakes it. The exchange: the same bytes
arrive cut up in any way, around a fixed buffer, a counter that leaves out what
came with the head and an unsigned subtraction. The resolver: tasks that miss
together and fill the cache in any order. The tunnel: a test for the end of the
reply that depends on where reads stop. The stack: two host names, two ports
and two schemes in one `Destination`. Closing: a `shutdown` that blocks is called
again from the outermost layer. The parser: lengths subtracted from without a
look. PROJECT.json lists these as hazards, with
their lines and the properties aimed at them.

## 2. Plan

Done, in this order, the most important first:

1. `HttpConnecting`, with its safety properties proved;
2. `Exchange` (request and body), likewise;
3. `CAresResolver`, likewise;
4. `Tunnel` and `Connector`, likewise;
5. `HttpParse` and `Request`: the two heads, as received and as sent, likewise;
6. `Resolve`, the contract of a lookup; `GaiResolver` and `ThreadpoolGai`, proved
   to keep it, and `HttpConnecting`, proved to use it as it allows;
7. `Dial`, an abstract connection attempt, which `HttpConnecting` is proved to
   implement;
8. `Handshake` and `Streams`, with their safety properties proved.

Every invariant, action property and refinement that a passing run checks is
also a theorem. What has no theorem is liveness, which is out of the prover's
reach; the safety facts that it rests on (no wakeup is lost, polls end, nobody
waits for everybody) are proved (section 5).

## 3. The modules

Each component `M` has its specification `M.tla`, an `MCM.tla` that TLC runs
with one or more `.cfg` files, and theorems in an `MProofs.tla`, three of which
hold those of a second component through an `INSTANCE`: `HttpParseProofs` those of
`Request` (`Asking`), `GaiResolverProofs` those of `ThreadpoolGai` (`Pool`) and
`HandshakeProofs` those of `Streams` (`Closing`). `Request` and `Streams` extend a
module with what their properties speak of, apart from the actions: `RequestHead`
(a request and its head on the wire) and `Wire` (the layers of a stream and the
records on TCP). `Resolve` and `Dial` are abstract specifications that others
implement. A
definition whose comment begins with "Mutation" is a broken variant of the one
after it: substituted for it, it makes the property named in PROJECT.json fail,
which shows that the property depends on that code.

### HttpConnecting

One call of `HttpConnector::connect` and the future it returns. `st` is the
future's `State`, or how it completed. A call of `poll` is a sequence of steps,
one per turn of the loops in the code; `pc` is where `poll` is (`poll`: in
`HttpConnecting::poll` or the preferred remote, `delay`, `fallback`) or
`parked` after `NotReady`. Addresses are the positions of the resolver's
answer, so an `IpAddrs` is the set of positions left and `next` takes the
least. `remote`, `fallback` and `delay` are the fields of `ConnectingTcp`;
`sock` holds the `ConnectFuture` of each address, `spent` once polling it has
handed out its result.

| Action | Code |
|---|---|
| `Connect`, `PollError` | `connect`, `invalid_url`, `State::Error` |
| `PollLazyLiteral`, `PollLazyName`, `PollResolving` | `State::Lazy`, `State::Resolving`, `ConnectingTcp::new` |
| `StartNext`, `StartFails`, `Exhausted`, `RemotePanics` | `ConnectingTcpRemote::poll` and `connect()`; the error goes through `RemoteErr`, the `Err` arms of `ConnectingTcp::poll` |
| `CurrentNotReady`, `PollDelay`, `CurrentReady` | the other arms of `ConnectingTcp::poll`, and the end of `HttpConnecting::poll` |
| `ResolverAnswers`, `SocketDecides`, `DelayElapses`, `TimerFails`, `SpuriousWake`, `BeginPoll` | resolver, kernel, timer, executor |

The task is polled only when notified, and notified only by a source that holds
its waker (`interest`), so a lost wakeup is a behaviour of the model. The
environment moves between any two steps, also in the middle of a `poll`. The timer
may fail from the start, so that the first poll of the delay errs, or while the
delay is waited for (`TimerFails`), which notifies the task.

### Dial and Resolve

`Dial` is happy eyeballs without futures: addresses of a family one after the
other, the second family when the first is late or over, an end when an address
has accepted or nothing is left. `ImplementsDial` maps the race to it: what is
being tried are the undecided or established sockets that were not polled to their
end, of which the established ones have accepted, and a family is closed once no
side of the race owns it. `Win` needs an address that has accepted, so success is
tied to one by the abstraction itself.

`Resolve` is one lookup with its waker: whoever polls is told `NotReady` only
after leaving a waker, and an answer wakes whoever left one. `GaiResolver` and
`ThreadpoolGai` keep it for each of their lookups, and `HttpConnecting` polls
its resolver as it allows (`KeepsResolveContract`). This composes them: the
race needs of a resolver no more than the contract says.

### Exchange

`Client::request` from `connect` to the `Response`, then `Body::poll_next` until
it ends. Bytes are numbered: the reply is `1..total`, its head `1..head`, and
counters say how far each side has come. `rest`, `counter` and `drained` are
the fields of `Body`; `item` is the range of bytes it last yielded. The peer
and the two socket buffers are the environment: the peer may reply before it
has read the request, close, reset or keep the connection, send too much or too
little, and announce any `content-length`. What `parse_headers` makes of a
complete head is part of the choice of reply (`ok`, `error`, `panic`).

### CAresResolver

Tasks sharing one `ResolverCache`. `Lookup` is what happens under the cache's
lock, `QueryA` the query made after it is released, `PollAnswered` the poll
that fills the cache, `PollFailed` and `PollCached` the other outcomes. The
clock (`now`) and the records in the DNS (`zone`) move on their own.

### Tunnel

`Tunnel::poll`: `Write` and `WriteFails` in `TunnelState::Writing`, `Read`,
`ReadEof` and `ReadFails` in `Reading`. The reply is a length, a status and the
positions at which blank lines end; `Verdict` is what `poll` makes of a prefix.

### Connector

The stack of connectors. It is configured (`AddProxy`, `SetAuthorization`,
`SetHeader`, `SetTls`, `WithConnector`; `Init` is `new` or `unsecured`), then followed through one connection: `Connect`
picks the proxy and makes its `Destination`, `Dialled`, `InnerSecured`,
`Tunnelled` and `TunnelSecured` add the layers of the stream, `StepFails` stands
for any of these failing. How a socket is connected and a tunnel set up is in
the modules above. A proxy's `authorized` is a record for the properties: were
credentials given and not replaced since.

### HttpParse

From the bytes of a head to the `Response`. A status line is what `parse_status`
looks at: the length of its first word, whether it says HTTP, the number of
words, and the first bytes of the code. Header lines are words over a space, a
colon, a digit, and a name in upper and lower case; `Ltrim` and `RtrimTo` follow
the loops of `ltrim` and `rtrim` byte by byte, `RtrimTo` with the overflow of
`val.len() - 1` as it panics or wraps (`build`); `HeaderMapNew` is the loop of
`HeaderMap::new`, which collects the values of each name (`Push`). `ParseStatus`, `ParseHeader`
and `Respond` are the items of the iterator and what `request` does with them.
In `Exchange` the outcome of all this is the choice `ok`, `error` or `panic`.

### Request

`New`, or the builder's `Version`, `Uri` and `Header` in any order and then
`Build` (`body`) or `BuildEmpty` (`done`, the same without a body); `Connect` is refused as `HttpConnector::connect` refuses, and `BuildReq`
makes the head, copying the caller's headers one by one (`Copied`). `asked` records
what the caller gave.

### GaiResolver and ThreadpoolGai

`GaiResolver`: `Resolve` queues a job, `TakeJob` and `Finish` are the threads
(`GaiTask::poll`, `GaiBlocking::poll`), `PollNotReady` and `PollReady` the
future. `Drop` gives a lookup up, `DropHandle` drops the resolver, upon which
the pool queues one message per thread that ends it. `ThreadpoolGai`: `poll`
calls `blocking`, which runs `getaddrinfo` if there is a permit (`PollBlocks`),
puts the task in line (`PollNotReady`), or fails outside the threadpool runtime
(`PollOutside`). In both, `hang` are the lookups for which `getaddrinfo` does not
return.

### Handshake

`HttpsConnecting` for an https Uri: `PollConnecting` while the inner connector
is not ready, `StartHandshake` (the first attempt, in `connect`'s closure), then
`Handshaking::poll`: `PollBlocked` tries again, `PollDecided` returns what the
first attempt gave. A handshake is a number of messages of the peer.

### Streams

`shutdown` of a `ProxyStream` over a `MaybeHttpsStream` over TCP, each layer
TLS or not. `at` is the layer whose `shutdown` is running; `PassOn` is a layer
without TLS, `Notify` the first `native_tls` shutdown of a layer, `NotifyAgain` a
later one, which in some TLS libraries waits for the peer's answer, and
`NotifyFails` an error. `wire` are the records that reached TCP. `ShutdownTcp` does
nothing, like `shutdown` of tokio's `TcpStream`: the end of the TCP stream goes out when
the caller drops the stream (`Drop`). Nothing in the crate calls `shutdown`; the
model is that of a caller who does, until it is ready, and then drops the stream.
One who drops it before that closes the socket without the goodbyes left.

## 4. What TLC checks

| Run | Checks | Instance |
|---|---|---|
| `race` | `FailureIsHonest`, `NoLostWakeup`, `PanicOnlyOnEmptyAnswer`, `ImplementsDial`, `KeepsResolveContract`, `ReachableConnects`, `Terminates` | up to 3 addresses |
| `race_empty_answer` | `ErrAlwaysRecorded`, which is violated | up to 2 addresses |
| `exchange` | `NoGap`, `BodyBound`, `EndIsWhole`, `PanicOnlyOnExcess`, `BrokenIsHonest`, `RequestReturns`, `BodyEnds` | buffers of 3 and 2 bytes, replies of up to 5 |
| `resolver` | `OwnAnswers`, `MissesPredateEntry`, `Frozen` | 2 tasks, 2 names, 3 instants, 2 versions |
| `tunnel` | `EstablishedIsComplete`, `FailureIsHonest`, `Establishes`, `Completes` | replies of up to 5 bytes |
| `connector` | `EndToEnd`, `FirstHop`, `NothingInTheClear`, `Authenticated` | 2 hosts; 1 proxy with ports and headers, 2 without |
| `http_parse` | `TameLinesParse`, `PanicsExactly`, `LengthsAgree`, `StatusIsSafe` | all shapes of status lines, header lines of 7 characters together |
| `request` | `HeadAsAsked`, `HostIsThere` | 2 hosts, up to 3 headers |
| `gai` | `OneJob`, `KeepsContract`, `Served` | 3 lookups, 2 threads |
| `threadpool` | `KeepsContract`, `Served` | 3 lookups, 2 permits |
| `handshake` | `OutcomeIsHonest`, `Ends` | 3 messages |
| `streams` | `ClosesInOrder`, `ShutdownEnds` | 3 records of data, room for 2 |

Type invariants (`TypeOK`), `FallbackWaits` and `InOrder` of the race, which
`ImplementsDial` contains, and its `NoneForgotten` are proved rather than run. So are the facts that liveness rests on: `PollEnds` of the race,
`NoLostWakeup` of `Handshake` and `Streams`, `SleepsInLine` of `ThreadpoolGai`,
`NoStandoff` of `Exchange` and `Tunnel`, and `Advances` of `Tunnel`. They hold on the
instances of the table too; adding them to a `.cfg` checks them again.

**The race.** A connect error means both families are over, and only a failing
timer lets the fallback go untried. "Over" includes what the code does when a
socket cannot be made: `?` leaves `poll`, and the addresses after that one are
not tried. The timer fails at any time before the delay has passed; `ReachableConnects`
then promises only what the preferred family leads to. An address is tried only after all earlier ones of its family were
refused. These are guards of `Dial`, so `ImplementsDial` checks them along with
the rest. A family that leads to an accepting address connects even if the other
one hangs. A parked task has left its waker with everything that could move it:
the resolver, or the connection of each side that is polled and, until the
fallback's turn, its timer; what happens while `poll` runs notifies it
(`NoLostWakeup`).

**A flaw.** `race_empty_answer` shows that a resolver which answers with no
address makes the connection panic: `ConnectingTcpRemote::poll` expects an
error to have been recorded ("missing connect error", `src/http/mod.rs:335`).
`PanicOnlyOnEmptyAnswer` shows that nothing else reaches that panic.

**The exchange.** The body is contiguous and ends honestly, but the checks also
say what the code does not promise: `content_length` is not counted from the
head on (`BodyBound` has `restTo`), a reply that is too long makes the
subtraction in `poll_next` overflow (`PanicOnlyOnExcess` says only then), and a
peer that closes early ends the body like a complete one (`EndIsWhole` has
`Closed`). `RequestReturns` assumes `Unblocked`: since the whole request is
written before anything is read, a peer that replies early with more than the
connection holds, and does not read meanwhile, blocks both sides for ever.
Without that assumption TLC finds this deadlock.

**The resolver.** A visible entry is never asked for again and never changes
(`Frozen`): the comparison in `lookup` makes entries visible once their stamp is
in the past and never invalid.

**The tunnel.** A reply that is only a head establishes the tunnel however it
is cut up. `EstablishedIsComplete` promises no more for a proxy that sends
bytes right after its head: the tunnel then swallows them or goes on waiting,
and `Establishes` leaves such replies out.

**The stack.** https is secured end to end for the destination's host whenever
the connector in charge has TLS. `NothingInTheClear` is about the first hop:
with `https_only` the check is applied to the proxy's `Destination`, so an http
Uri may go through an https proxy. Credentials reach the proxy unless
`set_header` replaced them later (`Authenticated`).

**The parser.** `rtrim` cuts two bytes for every space at the end. So a name or
value is parsed as one would expect if it is not empty and ends in an even
number of spaces (`TameLinesParse`), and `PanicsExactly` says which lines panic:
those with a part in which every other byte from the end is a space, always if
its length is odd, and only where overflow is checked if it is even; an empty
value is the shortest of these. A status line panics only if its first word has
fewer than five bytes, and a code that is accepted never fails in
`Response::new` (`StatusIsSafe`). The `content_length` of the body is the first that is a number;
`LengthsAgree` states it in terms of the `HeaderMap` the caller is given: the body
has the first number among its values for `content-length`, none if there is none,
and so what `get` returns if that is a number. If it is not, a later value that is
one cuts the body without `get` showing it.

**The request.** The head names the host that is connected to, once, and every
other header as given. A `Connection` header of the caller's is sent besides
`Connection: close`; `HeadAsAsked` states all of this. The `unwrap` of the host is
safe because `connect` has refused a Uri without one (`HostIsThere`).

**Lookups.** No job is lost when lookups are given up or the resolver is dropped
before its lookups end (`OneJob`). `Served` assumes fewer hanging lookups than
threads or permits; with as many, all others wait for ever, since neither
resolver has a time limit.

**Handshake and shutdown.** The `expect` in `Handshaking::poll` never panics. A
silent peer is waited for without limit (`Ends` leaves it out). `shutdown` sends
each `close_notify` once and in order, before the end of the TCP stream. It ends whenever the peer reads, with one
exception that `ShutdownEnds` names: with two layers of TLS and a library that
waits for an answer on the second call, a shutdown that blocks in the inner
layer starts over at the outer one and then depends on that layer's peer
answering.

### Bounds

Three addresses allow two of one family with one of the other in every order,
which is what the order within a family, the switch to the fallback and the
dropping of a side need. Byte counts: the head's buffer is larger than a read
of the body and smaller than the longest reply, so heads end before, at and
after its end; two reads of the body pass `content_length` by one or more; the
connection holds less than a reply and less than a request. Two tasks and two
names let lookups of the same and of different names overlap; three instants
let an entry be added, seen and still be there later. Replies of five bytes to
a `CONNECT` have room for a status, two separate blank lines and a byte behind
them. Two proxies are needed for the order of matches; with one proxy
there are explicit ports and headers set one by one too (`OneOrPlain`). Seven
characters of header lines are a name and a value of up to five, on which rtrim's loop takes two turns and ends on both parities, or
two content-lengths that are different numbers; after the first line only one
status is followed further (`OneStatus`), since nothing that comes later looks at
it. A status code's bytes lie on both sides
of every bound that is tested. Three lookups on two threads (or permits) put
one in the queue behind two that run or hang. Three messages of a handshake
arrive before, between and during attempts. A connection with room for two
records is full of data, or of one close_notify and data, when a layer wants to
say goodbye. Hosts, and the resolver's tasks and names, are symmetric;
symmetry is used only in runs without liveness.

### Fairness

An executor polls a task that was notified, and `poll` runs to its end
(`BeginPoll`, `PollStep`, `ClientStep`, `Poll`): this is what an executor is
for. Lookups end, timers that work elapse and connections that do not hang are
decided (`ResolverAnswers`, `DelayElapses`, `SocketDecides`): the
operating system and c-ares have time limits of their own; hanging addresses
are chosen in `fate`, and no property promises anything for them alone. A
request's body ends: `StreamEnds` is strongly fair because the stream is asked
again after every chunk, and a finite stream does not put off its end for
ever. Peers and proxies go on until the reply they chose is sent; a peer that
keeps the connection open does nothing after that. Threads of the pool take jobs
and `getaddrinfo` returns unless the lookup hangs (`TakeJob`, `Finish`,
`LookupReturns`). The peer of a TLS connection reads (`PeerReads`), sends the
messages it has chosen to (`PeerSends`) and answers a close_notify if it is
willing (`PeerAnswers`). `SpuriousWake`, `Wake`, `Reset`, `TimerFails` and `Drop` have no
fairness.

## 5. What TLAPS proves

All theorems hold for every value of the constants, from the assumptions named
in the modules (sizes are positive naturals, bounds are naturals).

**HttpConnectingProofs.** `TypeCorrect`, then `Inductive: Spec => []IInv`, from
which `Honest`, `Waits`, `Ordered`, `Remembered` and `NoOtherPanic` follow. The
properties are not inductive: they speak of addresses and sockets, and what
keeps them true is which side of the race owns which addresses. `IInv` adds
`SideOK` (a live side owns untried addresses and the one being tried before
them; every other address of that family was refused), `Roles` (the preferred
side holds the first family as long as there is a fallback, and the other one
only once the first is over), `Accounted` (a family that no side owns is over,
or went with the timer), and where `poll` is (`BeforeRace`, `InPoll`). Every
action has its lemma; those in which a side ends share `SideEnds` and
`RemoteErrInv`.

`KeepsResolve` and `Refines` are the two refinements, `KeepsResolveContract` and
`ImplementsDial`, from `IInv` and `Staged` (nothing of the race before it begins;
while the delay runs, no address of the fallback is touched). Each action of the
race is matched with a step of `Dial`: `StartNext` with `Try`, the kernel's refusal
with `Refuse` and its acceptance with `Accept`, the end of a side (`StartFails`, `Exhausted`) with `GiveUp` or, when it
is the last, `Lose`, `CurrentReady` with `Win`, `DelayElapses` with `Elapse`, `TimerFails`
with `TimerBreaks`, and the poll of a delay that has failed with giving up the fallback;
the others with no step.

`NeverLost` is `NoLostWakeup`. By itself it says nothing of the middle of a `poll`;
`PreferredSeen` adds that once `poll` has gone past the preferred side, to the timer
or the fallback, that side's connection holds the waker or the task was notified
meanwhile. `Ends` is `PollEnds`: each step of a `poll` parks it or lowers `StepsLeft`,
a bound made of the addresses both sides have left, and the environment leaves it
as it is. So the loops of the three `poll` functions do not spin, for any answer.

**ExchangeProofs.** `Inductive: Spec => [](TypeOK /\ IInv)` gives `Bounded`,
`Whole`, `NoOtherPanic` and `Honest`; `Contiguous` proves the action property
`NoGap` from it. The invariant relates the counters: `Stream` (client behind
peer), `Reading` (an incomplete head is in the buffer), `Counting`
(`got = restTo + counter`, and the last byte yielded is `got`, or where
`content_length` cut it off).

`NeverStuck` is `NoStandoff`: in no state from which `RequestReturns` or `BodyEnds`
promises an end are the client and the peer both waiting. `ClientCanMove` and
`PeerCanMove` spell out when an action of theirs can be taken. The invariant `Turns`
is added: a peer that waits for the request begins its reply when all of it is out,
so while the client still writes, only an early reply can be under way, and `Unblocked`
says that the connection can hold it.

**CAresResolverProofs.** `TypeCorrect`; `Own`, with the invariant that what is
stored, waited for or returned under a name was answered for it; `MissesOld`, with the invariant that
nothing is stamped later than now; `NeverExpires`, the action property
`Frozen`.

**TunnelProofs.** `Inductive: Spec => [](TypeOK /\ IInv)` gives `Complete` and
`Honest`. The strengthening that matters is in `Progress`: while a 200 reply is
being read, no read has stopped at the end of a blank line; so when the proxy
closes after a reply that is only a head, `poll` is not still reading it.

`NeverStuck` (`NoStandoff`) and `Finite` (`Advances`) are what `Establishes` and
`Completes` rest on: until the future is decided it or the proxy can move, and every
step lowers `Left`, the bytes and decisions that are left, so there are finitely
many. `Undecided` is the invariant that was missing: a status that is not 200 is
never read past.

**ConnectorProofs.** `Inductive: Spec => [](TypeOK /\ IInv)` gives `Secured`,
`Routes`, `Enforced` and `Credentials`, for any number of hosts, ports, headers
and proxies. `IInv` says what the layers of a stream are at each place (`Height`,
`Built`: TCP to the target, TLS for the target if the inner connector has it,
the tunnel to the destination with the proxy's headers, TLS for the
destination), that the target is the one `MatchProxy` picked (`Routed`), that
nothing refused was dialled (`Allowed`), and where credentials are (`Credited`).

**GaiResolverProofs.** `Inductive` gives `NoneLost`, from `Jobs` (a job has sent
nothing), `Single`, `Present` and `ClosesLast` (no job is queued behind the end
of the pool). `Implements` is the refinement: every lookup of `GaiResolver`
takes steps of `Resolve` or none, for any number of lookups and threads.
`PoolImplements` is the same for `ThreadpoolGai` and any number of permits; its
invariant says that those in line are queued, each once, that a task which was
blocks is being polled, and that a lookup which is under way belongs to a future
that was not dropped; so the permit that `Drop` or `LookupReturns` hands on goes to
a lookup that still wants it, with its wakeup. `PoolSleeps` is `SleepsInLine`: a task
sleeps only in line and while every permit is taken, and no more are taken than
there are. The strengthening, `Full`, counts: as long as anyone is in line, the
lookups that run and those that were handed a permit are as many as the permits.

**HttpParseProofs.** The loops of the parser are recursive functions on their
number of turns. Each is shown to exist, and then to have a closed form or keep
an invariant, by taking the least turn at which it would not (`Least`, from the
well-foundedness of `<`). `RtrimIs`: `rtrim` stops at the last byte that is not a
space among every other one from the end. `RtrimPanics`: it panics iff there is
none, at odd lengths always, at even ones where overflow is checked. `LtrimIs`:
`ltrim` stops at the first that is not a space. `MapCollects`: the values
the `HeaderMap` collects for a name have the same first number as the headers
that give it, and `get` is the first of them. From these, and `Reading` (lines and headers are
words, and a status that was accepted passes `from_u16`), follow `TameParse`,
`Panics`, `Lengths` and `StatusSafe`, for lines of any length and any number of
them. For `Request`, `CopyAll` is the loop of `build_req`: a header that is sent
stands behind as many others as are sent before it. With the invariant that the
request's headers are those that were asked for, and that a Uri which was
connected to has a host, it gives `AsAsked` and `HostThere`, which are `HeadAsAsked`
and `HostIsThere`.

**HandshakeProofs.** `Inductive` gives `Honest`, for handshakes of
any length. The strengthening, `Carried`, says what `inner` stands for between
two polls. `Closes` is `ClosesInOrder` of `Streams`, for any amount of data. The
invariant adds where `shutdown` is: the TLS layers above the one that is running
have said goodbye, and all of them once it has ended; nothing but data is on the wire
before the first call, and the end of the stream only after the last. `NeverLost` and `ShutdownWakes` are
`NoLostWakeup` of the two: the first follows from where messages can arrive, the
second needs that only layers of TLS say goodbye (`Goodbyes`), since those are the
ones whose peer may answer.

The theorems `TypeCorrect` of `ExchangeProofs` and `TunnelProofs` state the type
invariant that their inductive invariants contain.

Model-checked only: the liveness properties (`ReachableConnects`, `Terminates`,
`RequestReturns`, `BodyEnds`, `Establishes`, `Completes`, `Served`, `Ends`,
`ShutdownEnds`), since fairness and `ENABLED` are out of the prover's reach: the
prover shows that the waker is in place, that a `poll` ends or that someone can move,
and TLC that under fairness the end is reached. The
refinements are proved for the abstract specifications as they stand, which
have no fairness of their own.

## 6. Not modelled

- Options that nothing in the crate sets: `local_address`, `reuse_address`,
  `keep_alive_timeout`, and a `happy_eyeballs_timeout` of `None`; the bind that
  only Windows needs.
- Contents: names, header values and bodies are model values or lengths, but for
  the header lines of `HttpParse`. The text that `tunnel::new` writes is a length;
  its panic on a header value that is not text is left out.
- Line ends within a header's name or value given by the caller, and the bytes
  of the reason phrase.
- An executor other than a `CpuPool` under `GaiResolver` (`new_with_executor`):
  one that refuses a task would make `oneshot::spawn` fail the lookup.
- Setters of `Destination` called on a Uri without a host, which nothing in the
  crate does. `read`, `flush` and the buffer methods of the streams, which pass
  the call on to the layer below.
- The parsing of hosts and of addresses in brackets, which is the `http`
  crate's; a `Uri` with a scheme always has a host.
- Poisoning of the cache's mutex: no code panics while it holds the lock.
- `Connected`, which nothing reads, and `ClientBuilder`, which only hands its
  connector to `Client::new`.
