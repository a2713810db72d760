------------------------------ MODULE Connector ------------------------------
(***************************************************************************)
(* The stack of connectors a Client is given: ProxyConnector               *)
(* (src/proxy/mod.rs) over HttpsConnector (src/https/client.rs) over       *)
(* HttpConnector (src/http/mod.rs), with the Destination of src/connect.rs *)
(* that each passes on.  The stack is configured, then one connection is   *)
(* followed from connect() to the stream it returns.                       *)
(*                                                                         *)
(* A stream is the list of its layers, the TCP connection first.  How a    *)
(* TCP connection is made is in HttpConnecting, how a tunnel is set up in  *)
(* Tunnel; here each succeeds or fails.                                    *)
(***************************************************************************)
EXTENDS Naturals, Sequences

CONSTANTS
    Hosts,      \* host names
    Ports,      \* ports a Uri may name
    Custom,     \* names of headers that are set one by one
    MaxProxies  \* bound: most proxies of a ProxyConnector

ASSUME PortsAssumption == Ports \subseteq Nat \ {0} /\ MaxProxies \in Nat

VARIABLES
    inner,      \* the connector under ProxyConnector
    tls,        \* is ProxyConnector.tls Some or None?
    proxies,    \* ProxyConnector.proxies
    dst,        \* the Destination asked for
    target,     \* the Destination the inner connector is asked for
    via,        \* index of the proxy that matched, 0 if none did
    pc,         \* what the connection's future is waiting for
    layers      \* the stream so far

vars == <<inner, tls, proxies, dst, target, via, pc, layers>>

NoPort == 0

\* A Uri with a scheme has a host and a path, so both can be replaced; one
\* without a scheme is refused wherever it is used, whatever else it has.
Uris == [scheme : {"none", "http", "https", "other"}, host : Hosts,
         port : Ports \cup {NoPort}]

\* An HttpsConnector if tls is Some, else a bare HttpConnector.
Inners == {c \in [tls : {"Some", "None"}, force_https : BOOLEAN,
                  enforce_http : BOOLEAN] : c.tls = "None" => ~c.force_https}

\* A custom intercept is any function; here one that picks hosts.
Intercepts == [kind : {"All", "Http", "Https", "None"}, picks : {{}}]
                \cup [kind : {"Custom"}, picks : SUBSET Hosts]

\* Proxy.headers: what each header holds; the first two are those that
\* set_authorization puts the credentials into.
Auth == {"Authorization", "ProxyAuthorization"}
HeaderMaps == [Auth \cup Custom -> {"none", "credentials", "custom"}]
NoHeaders == [n \in Auth \cup Custom |-> "none"]

\* authorized: are the credentials given last still in place?
Proxies == [intercept : Intercepts, uri : Uris, authorized : {"yes", "no"},
            headers : HeaderMaps]

\* port and headers are those of a tunnel's CONNECT; a TLS layer has the
\* host name that it was verified for.
Layers == [kind : {"tcp", "tunnel", "tls"}, host : Hosts, port : Nat,
           headers : HeaderMaps]

Places == {"config", "dial", "handshake", "tunnel", "tunnelled", "ok", "err"}

\* ProxyConnector::new or unsecured, around a connector.
Init ==
    /\ inner \in Inners
    /\ tls \in {"Some", "None"}
    /\ proxies = <<>>
    /\ dst \in Uris
    /\ target = dst
    /\ via = 0
    /\ pc = "config"
    /\ layers = <<>>

-----------------------------------------------------------------------------
(* Configuring a ProxyConnector                                            *)

\* Mutation: ProxyAuthorization only for Https.
AuthHeadersHttpsOnly(intercept) ==
    IF intercept.kind = "Https" THEN {"ProxyAuthorization"} ELSE {"Authorization"}

\* Proxy::set_authorization: which headers carry the credentials.
AuthHeaders(intercept) ==
    IF intercept.kind = "Http" THEN {"Authorization"}
    ELSE IF intercept.kind = "Https" THEN {"ProxyAuthorization"}
    ELSE Auth

\* Proxy::new, and add_proxy or extend_proxies.  Nothing looks at a proxy
\* before connect(), so it is in the list while its headers are still set.
AddProxy(intercept, uri) ==
    /\ pc = "config" /\ Len(proxies) < MaxProxies
    /\ proxies' = Append(proxies, [intercept |-> intercept, uri |-> uri,
                                  authorized |-> "no", headers |-> NoHeaders])
    /\ UNCHANGED <<inner, tls, dst, target, via, pc, layers>>

\* Proxy::set_authorization, and set_header, which replaces what is there.
CredentialsIn(p) ==
    [n \in Auth \cup Custom |->
        IF n \in AuthHeaders(p.intercept) THEN "credentials" ELSE p.headers[n]]
Authorized(p) == [intercept |-> p.intercept, uri |-> p.uri,
                  authorized |-> "yes", headers |-> CredentialsIn(p)]
WithHeader(p, name) ==
    [intercept |-> p.intercept, uri |-> p.uri,
     authorized |-> IF name \in Auth THEN "no" ELSE p.authorized,
     headers |-> [p.headers EXCEPT ![name] = "custom"]]

SetLast(p) == proxies' = [proxies EXCEPT ![Len(proxies)] = p]

SetAuthorization ==
    /\ pc = "config" /\ proxies # <<>>
    /\ SetLast(Authorized(proxies[Len(proxies)]))
    /\ UNCHANGED <<inner, tls, dst, target, via, pc, layers>>

SetHeader(name) ==
    /\ pc = "config" /\ proxies # <<>>
    /\ SetLast(WithHeader(proxies[Len(proxies)], name))
    /\ UNCHANGED <<inner, tls, dst, target, via, pc, layers>>

\* ProxyConnector::with_connector: another inner connector.
WithConnector(connector) ==
    /\ pc = "config" /\ inner # connector
    /\ inner' = connector
    /\ UNCHANGED <<tls, proxies, dst, target, via, pc, layers>>

SetTls(option) ==
    /\ pc = "config" /\ tls # option
    /\ tls' = option
    /\ UNCHANGED <<inner, proxies, dst, target, via, pc, layers>>

-----------------------------------------------------------------------------
(* Destinations                                                            *)

\* Intercept::matches
Matches(intercept, d) ==
    \/ intercept.kind = "All"
    \/ intercept.kind = "Http" /\ d.scheme = "http"
    \/ intercept.kind = "Https" /\ d.scheme = "https"
    \/ intercept.kind = "Custom" /\ d.host \in intercept.picks

\* Mutation: the last proxy that matches.
MatchLastProxy(d) ==
    LET hits == {i \in 1..Len(proxies) : Matches(proxies[i].intercept, d)}
    IN IF hits = {} THEN 0 ELSE CHOOSE i \in hits : \A j \in hits : i >= j

\* ProxyConnector::match_proxy: the first proxy that matches.
MatchProxy(d) ==
    LET hits == {i \in 1..Len(proxies) : Matches(proxies[i].intercept, d)}
    IN IF hits = {} THEN 0 ELSE CHOOSE i \in hits : \A j \in hits : i <= j

\* ProxyConnector::http_headers: what the caller adds to a plain request.
HttpHeaders(d) ==
    IF d.scheme = "http" /\ MatchProxy(d) # 0
    THEN proxies[MatchProxy(d)].headers ELSE NoHeaders

\* Destination::set_scheme, set_host and set_port.  set_host keeps the port
\* that is there, set_port the host.
SetScheme(d, scheme) == [d EXCEPT !.scheme = scheme]
SetHost(d, host) == [d EXCEPT !.host = host]
SetPort(d, port) == [d EXCEPT !.port = port]

\* proxy_dst: the proxy's Uri put in the place of the destination's.  It
\* fails if either has no scheme: update_uri cannot make a Uri of the parts.
ProxyDstFails(d, uri) == uri.scheme = "none" \/ d.scheme = "none"
ProxyDst(d, uri) == SetPort(SetHost(SetScheme(d, uri.scheme), uri.host), uri.port)

\* HttpConnector::connect gives up on schemes it does not take; a Uri with a
\* scheme has a host.
RefusedByHttp(d) == (inner.enforce_http /\ d.scheme # "http") \/ d.scheme = "none"

\* Mutation: https is not forced.
RefusedByHttpOnly(d) == RefusedByHttp(d)

\* HttpsConnector::connect gives up on what is not https when that is forced,
\* and else asks HttpConnector::connect.
Refused(d) == (inner.force_https /\ d.scheme # "https") \/ RefusedByHttp(d)

\* The port connected to when the Uri names none.
PortOf(d) ==
    IF d.port # NoPort THEN d.port ELSE IF d.scheme = "https" THEN 443 ELSE 80

-----------------------------------------------------------------------------
(* The connection                                                          *)

\* ProxyConnector::connect: pick the proxy and ask the inner connector.
Connect ==
    /\ pc = "config"
    /\ via' = MatchProxy(dst)
    /\ target' = IF via' = 0 THEN dst ELSE ProxyDst(dst, proxies[via'].uri)
    /\ pc' = IF (via' # 0 /\ ProxyDstFails(dst, proxies[via'].uri)) \/ Refused(target')
             THEN "err" ELSE "dial"
    /\ UNCHANGED <<inner, tls, proxies, dst, layers>>

AddLayer(kind, host, port, headers) ==
    layers' = Append(layers, [kind |-> kind, host |-> host, port |-> port,
                              headers |-> headers])

\* What comes after the inner connector is done: a tunnel through the proxy
\* for https, else nothing.
AfterInner == IF via # 0 /\ dst.scheme = "https" THEN "tunnel" ELSE "ok"

\* HttpConnecting returns a TCP stream; HttpsConnector secures it for https.
Dialled ==
    /\ pc = "dial"
    /\ AddLayer("tcp", target.host, PortOf(target), NoHeaders)
    /\ pc' = IF inner.tls = "Some" /\ target.scheme = "https" THEN "handshake"
             ELSE AfterInner
    /\ UNCHANGED <<inner, tls, proxies, dst, target, via>>

\* HttpsConnector's Handshaking is done, for the host it was asked for.
InnerSecured ==
    /\ pc = "handshake"
    /\ AddLayer("tls", target.host, NoPort, NoHeaders)
    /\ pc' = AfterInner
    /\ UNCHANGED <<inner, tls, proxies, dst, target, via>>

\* The proxy has connected the tunnel to the host asked for with CONNECT.
Tunnelled ==
    /\ pc = "tunnel"
    /\ AddLayer("tunnel", dst.host, IF dst.port = NoPort THEN 443 ELSE dst.port,
                proxies[via].headers)
    /\ pc' = IF tls = "Some" THEN "tunnelled" ELSE "ok"
    /\ UNCHANGED <<inner, tls, proxies, dst, target, via>>

\* Mutation: TLS through the tunnel is for the proxy's host name.
TunnelSecuredForProxy ==
    /\ pc = "tunnelled"
    /\ AddLayer("tls", target.host, NoPort, NoHeaders)
    /\ pc' = "ok"
    /\ UNCHANGED <<inner, tls, proxies, dst, target, via>>

\* TLS through the tunnel: ProxyStream::Secured.
TunnelSecured ==
    /\ pc = "tunnelled"
    /\ AddLayer("tls", dst.host, NoPort, NoHeaders)
    /\ pc' = "ok"
    /\ UNCHANGED <<inner, tls, proxies, dst, target, via>>

\* Connecting, a handshake or the tunnel fails.
StepFails ==
    /\ pc \in {"dial", "handshake", "tunnel", "tunnelled"}
    /\ pc' = "err"
    /\ UNCHANGED <<inner, tls, proxies, dst, target, via, layers>>

Done ==
    /\ pc \in {"ok", "err"}
    /\ UNCHANGED vars

Next ==
    \/ \E i \in Intercepts, u \in Uris : AddProxy(i, u)
    \/ SetAuthorization
    \/ \E n \in Custom : SetHeader(n)
    \/ \E c \in Inners : WithConnector(c)
    \/ \E option \in {"Some", "None"} : SetTls(option)
    \/ Connect
    \/ Dialled
    \/ InnerSecured
    \/ Tunnelled
    \/ TunnelSecured
    \/ StepFails
    \/ Done

Spec == Init /\ [][Next]_vars

-----------------------------------------------------------------------------
(* Properties                                                              *)

\* Every variable keeps its type.
TypeOK ==
    /\ inner \in Inners
    /\ tls \in {"Some", "None"}
    /\ proxies \in Seq(Proxies) /\ Len(proxies) <= MaxProxies
    /\ dst \in Uris /\ target \in Uris
    /\ via \in 0..Len(proxies)
    /\ pc \in Places
    /\ layers \in Seq(Layers)

\* The layer carries bytes to the destination itself.
Reaches(layer, d) ==
    layer.kind \in {"tcp", "tunnel"} /\ layer.host = d.host /\ layer.port = PortOf(d)

\* The stream returned for https reaches the destination itself, and is
\* secured for the destination's host name, by the last handshake and by no
\* proxy's, whenever the connector in charge has TLS: the ProxyConnector for
\* a connection it sends to a proxy, else the inner one.
EndToEnd ==
    pc = "ok" /\ dst.scheme = "https" =>
        LET n == Len(layers)
        IN IF (IF via = 0 THEN inner.tls ELSE tls) = "Some"
           THEN /\ layers[n].kind = "tls" /\ layers[n].host = dst.host
                /\ Reaches(layers[n - 1], dst)
           ELSE Reaches(layers[n], dst)

\* A connection that a proxy is to intercept is made to the first such proxy,
\* at its own scheme's port and nowhere else; others to their destination.
FirstHop ==
    layers # <<>> =>
        \/ /\ \A i \in 1..Len(proxies) : ~Matches(proxies[i].intercept, dst)
           /\ Reaches(layers[1], dst)
        \/ \E i \in 1..Len(proxies) :
              /\ Matches(proxies[i].intercept, dst)
              /\ \A j \in 1..(i - 1) : ~Matches(proxies[j].intercept, dst)
              /\ Reaches(layers[1], proxies[i].uri)

\* With https_only, every stream returned is TLS right above its TCP
\* connection, be it the destination's or a proxy's.
NothingInTheClear ==
    pc = "ok" /\ inner.force_https => Len(layers) >= 2 /\ layers[2].kind = "tls"

\* Credentials given to a proxy, and not replaced by another header since,
\* reach it: in the CONNECT of a tunnel, which carries the headers of that
\* proxy and no other's, or in what http_headers hands out for a plain
\* request.
Authenticated ==
    pc = "ok" /\ via # 0 =>
        /\ dst.scheme = "http" /\ proxies[via].authorized = "yes" =>
              HttpHeaders(dst)["Authorization"] = "credentials"
        /\ dst.scheme = "https" =>
              \E i \in 1..Len(layers) :
                  /\ layers[i].kind = "tunnel" /\ layers[i].headers = proxies[via].headers
                  /\ proxies[via].authorized = "yes" =>
                        layers[i].headers["ProxyAuthorization"] = "credentials"

-----------------------------------------------------------------------------
(* The inductive invariant                                                 *)

\* The layers a stream may have, from the TCP connection on: the inner
\* connector's TLS for https, then the tunnel, then TLS through it.
TcpLayer == [kind |-> "tcp", host |-> target.host, port |-> PortOf(target),
             headers |-> NoHeaders]
TlsLayer(host) == [kind |-> "tls", host |-> host, port |-> NoPort, headers |-> NoHeaders]
TunnelLayer == [kind |-> "tunnel", host |-> dst.host,
                port |-> IF dst.port = NoPort THEN 443 ELSE dst.port,
                headers |-> proxies[via].headers]
InnerLen == IF inner.tls = "Some" /\ target.scheme = "https" THEN 2 ELSE 1

\* Does the connection need a tunnel?
Tunnels == via # 0 /\ dst.scheme = "https"

\* The proxy was picked for the destination, and the inner connector asked
\* for that proxy, or for the destination.
Routed ==
    pc # "config" =>
        /\ via = MatchProxy(dst)
        /\ target = IF via = 0 THEN dst ELSE ProxyDst(dst, proxies[via].uri)

\* How many layers there are at each place, and what they are.
Height ==
    /\ pc \in {"config", "dial"} => Len(layers) = 0
    /\ pc = "handshake" => Len(layers) = 1 /\ InnerLen = 2
    /\ pc \in {"tunnel", "tunnelled"} => Tunnels
    /\ pc = "tunnel" => Len(layers) = InnerLen
    /\ pc = "tunnelled" => Len(layers) = InnerLen + 1 /\ tls = "Some"
    /\ pc = "ok" /\ ~Tunnels => Len(layers) = InnerLen
    /\ pc = "ok" /\ Tunnels /\ tls = "Some" => Len(layers) = InnerLen + 2
    /\ pc = "ok" /\ Tunnels /\ tls = "None" => Len(layers) = InnerLen + 1
Built ==
    /\ Len(layers) >= 1 => layers[1] = TcpLayer
    /\ Len(layers) >= 2 /\ InnerLen = 2 => layers[2] = TlsLayer(target.host)
    /\ Len(layers) >= InnerLen + 1 => layers[InnerLen + 1] = TunnelLayer
    /\ Len(layers) >= InnerLen + 2 => layers[InnerLen + 2] = TlsLayer(dst.host)

\* Nothing is dialled that the inner connectors refuse.
Allowed == pc \notin {"config", "err"} => ~Refused(target)

\* Credentials are in the headers the kind of the proxy calls for.
Credited ==
    \A i \in 1..Len(proxies) : proxies[i].authorized = "yes" =>
        \A n \in AuthHeaders(proxies[i].intercept) : proxies[i].headers[n] = "credentials"

IInv == Routed /\ Height /\ Built /\ Allowed /\ Credited
=============================================================================
