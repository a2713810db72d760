-------------------------- MODULE ConnectorProofs --------------------------
(***************************************************************************)
(* Proofs about Connector, for any hosts, ports, headers and number of     *)
(* proxies.                                                                *)
(***************************************************************************)
EXTENDS Connector, NaturalsInduction, WellFoundedInduction, TLAPS

-----------------------------------------------------------------------------
(* The proxy that is picked                                                *)

\* A set of numbers that is not empty has a least one.
LEMMA Least ==
    ASSUME NEW S \in SUBSET Nat, S # {}
    PROVE  \E i \in S : \A j \in S : i <= j
<1>1. \E x \in S : \A y \in S : ~(<<y, x>> \in OpToRel(<, Nat))
  BY NatLessThanWellFounded, WFMin, Zenon
<1>2. \A x, y \in S : y < x => <<y, x>> \in OpToRel(<, Nat)
  BY Zenon DEF OpToRel
<1>3. \E x \in S : \A y \in S : ~(y < x)
  BY <1>1, <1>2, Zenon
<1> QED
  BY <1>3

\* i is the first of the proxies that matches, or 0 if none does.
First(i) ==
    /\ i \in 0..Len(proxies)
    /\ i = 0 => \A j \in 1..Len(proxies) : ~Matches(proxies[j].intercept, dst)
    /\ i # 0 => /\ Matches(proxies[i].intercept, dst)
                /\ \A j \in 1..(i - 1) : ~Matches(proxies[j].intercept, dst)

\* match_proxy finds it.
LEMMA MatchFirst == ASSUME Len(proxies) \in Nat PROVE First(MatchProxy(dst))
<1> DEFINE hits == {i \in 1..Len(proxies) : Matches(proxies[i].intercept, dst)}
           best == CHOOSE i \in hits : \A j \in hits : i <= j
<1>1. MatchProxy(dst) = IF hits = {} THEN 0 ELSE best
  BY DEF MatchProxy
<1>2. CASE hits = {}
  <2>1. \A j \in 1..Len(proxies) : ~Matches(proxies[j].intercept, dst)
    BY <1>2
  <2> HIDE DEF hits, best
  <2> QED BY <1>1, <1>2, <2>1 DEF First
<1>3. CASE hits # {}
  <2>1. hits \in SUBSET Nat
    OBVIOUS
  <2>2. \E i \in hits : \A j \in hits : i <= j
    BY <1>3, <2>1, Least
  <2>3. best \in hits /\ \A j \in hits : best <= j
    BY <2>2
  <2>4. MatchProxy(dst) = best
    BY <1>1, <1>3
  <2>5. best \in 1..Len(proxies) /\ Matches(proxies[best].intercept, dst)
    BY <2>3
  <2>6. \A j \in 1..Len(proxies) : Matches(proxies[j].intercept, dst) => best <= j
    BY <2>3
  <2> HIDE DEF hits, best
  <2>7. \A j \in 1..(best - 1) : ~Matches(proxies[j].intercept, dst)
    BY <2>5, <2>6
  <2> QED BY <2>4, <2>5, <2>7 DEF First
<1> QED
  BY <1>2, <1>3

-----------------------------------------------------------------------------
(* Types                                                                   *)

\* proxy_dst leaves nothing of the destination it replaces.
LEMMA ProxyDstIsProxy ==
    ASSUME NEW d \in Uris, NEW uri \in Uris PROVE ProxyDst(d, uri) = uri
BY DEF ProxyDst, SetPort, SetHost, SetScheme, Uris

\* A Uri's parts.
LEMMA UriParts ==
    ASSUME NEW d \in Uris
    PROVE  d.host \in Hosts /\ d.port \in Nat /\ PortOf(d) \in Nat
<1>1. d.host \in Hosts /\ d.port \in Ports \cup {NoPort}
  BY DEF Uris
<1>2. d.port \in Nat
  <2>1. \A p \in Ports \cup {NoPort} : p \in Nat
    BY PortsAssumption DEF NoPort
  <2> QED BY <1>1, <2>1, Zenon
<1> QED
  BY <1>1, <1>2 DEF PortOf

LEMMA NoHeadersType == NoHeaders \in HeaderMaps
BY DEF NoHeaders, HeaderMaps

\* A layer is added on top of those there are.
LEMMA Added ==
    ASSUME NEW kind \in {"tcp", "tunnel", "tls"}, NEW host \in Hosts, NEW port \in Nat,
           NEW headers \in HeaderMaps, layers \in Seq(Layers),
           AddLayer(kind, host, port, headers)
    PROVE  /\ layers' \in Seq(Layers)
           /\ Len(layers') = Len(layers) + 1
           /\ \A i \in 1..Len(layers) : layers'[i] = layers[i]
           /\ layers'[Len(layers) + 1] = [kind |-> kind, host |-> host, port |-> port,
                                          headers |-> headers]
<1> DEFINE new == [kind |-> kind, host |-> host, port |-> port, headers |-> headers]
<1>1. new \in Layers
  BY DEF Layers
<1>2. layers' = Append(layers, new)
  BY DEF AddLayer
<1> HIDE DEF new
<1>3. /\ layers' \in Seq(Layers) /\ Len(layers') = Len(layers) + 1
      /\ \A i \in 1..Len(layers) : layers'[i] = layers[i]
      /\ layers'[Len(layers) + 1] = new
  BY <1>1, <1>2
<1> QED
  BY <1>3 DEF new

\* What the type invariant says of the parts.
LEMMA Typed ==
    ASSUME TypeOK
    PROVE  /\ Len(proxies) \in Nat /\ via \in Nat /\ Len(layers) \in Nat
           /\ target \in Uris /\ dst \in Uris /\ layers \in Seq(Layers)
           /\ \A i \in 1..Len(proxies) : proxies[i] \in Proxies
           /\ \A i \in 1..Len(proxies) : proxies[i].uri \in Uris
           /\ \A i \in 1..Len(proxies) : proxies[i].headers \in HeaderMaps
<1>1. /\ proxies \in Seq(Proxies) /\ via \in 0..Len(proxies) /\ layers \in Seq(Layers)
      /\ dst \in Uris /\ target \in Uris
  BY DEF TypeOK
<1>2. /\ Len(proxies) \in Nat /\ Len(layers) \in Nat
      /\ \A i \in 1..Len(proxies) : proxies[i] \in Proxies
  BY <1>1
<1>3. via \in Nat
  BY <1>1, <1>2
<1>4. \A p \in Proxies : p.uri \in Uris /\ p.headers \in HeaderMaps
  BY DEF Proxies
<1> QED
  BY <1>1, <1>2, <1>3, <1>4

\* The stack is configured.
Configures ==
    \/ \E i \in Intercepts, u \in Uris : AddProxy(i, u)
    \/ SetAuthorization
    \/ \E n \in Custom : SetHeader(n)
    \/ \E c \in Inners : WithConnector(c)
    \/ \E option \in {"Some", "None"} : SetTls(option)

\* What configuring leaves alone.
LEMMA Configuring ==
    Configures => pc = "config" /\ UNCHANGED <<dst, target, via, pc, layers>>
BY DEF Configures, AddProxy, SetAuthorization, SetHeader, WithConnector, SetTls

\* The last proxy is replaced by p.
LEMMA LastReplaced ==
    ASSUME NEW p \in Proxies, proxies \in Seq(Proxies), proxies # <<>>,
           proxies' = [proxies EXCEPT ![Len(proxies)] = p]
    PROVE  /\ proxies' \in Seq(Proxies) /\ Len(proxies') = Len(proxies)
           /\ Len(proxies) \in 1..Len(proxies)
           /\ \A i \in 1..Len(proxies) :
                 proxies'[i] = IF i = Len(proxies) THEN p ELSE proxies[i]
OBVIOUS

\* A proxy after set_authorization and after set_header.
LEMMA AuthorizedType ==
    ASSUME NEW p \in Proxies
    PROVE  /\ Authorized(p) \in Proxies
           /\ Authorized(p).intercept = p.intercept
           /\ \A n \in AuthHeaders(p.intercept) : Authorized(p).headers[n] = "credentials"
<1>1. /\ p.intercept \in Intercepts /\ p.uri \in Uris /\ p.headers \in HeaderMaps
  BY DEF Proxies
<1> DEFINE h == CredentialsIn(p)
<1>2. h \in HeaderMaps
  BY <1>1 DEF HeaderMaps, CredentialsIn
<1>3. AuthHeaders(p.intercept) \subseteq Auth
  BY DEF AuthHeaders, Auth
<1>4. \A n \in AuthHeaders(p.intercept) : h[n] = "credentials"
  BY <1>3 DEF CredentialsIn
<1>5. Authorized(p) = [intercept |-> p.intercept, uri |-> p.uri, authorized |-> "yes",
                       headers |-> h]
  BY DEF Authorized
<1> HIDE DEF h
<1> QED
  BY <1>1, <1>2, <1>4, <1>5 DEF Proxies

LEMMA WithHeaderType ==
    ASSUME NEW p \in Proxies, NEW name \in Custom
    PROVE  /\ WithHeader(p, name) \in Proxies
           /\ WithHeader(p, name).intercept = p.intercept
           /\ WithHeader(p, name).authorized = "yes" =>
                 /\ p.authorized = "yes"
                 /\ \A n \in Auth : WithHeader(p, name).headers[n] = p.headers[n]
<1>1. /\ p.intercept \in Intercepts /\ p.uri \in Uris /\ p.headers \in HeaderMaps
      /\ p.authorized \in {"yes", "no"}
  BY DEF Proxies
<1> DEFINE h == [p.headers EXCEPT ![name] = "custom"]
           a == IF name \in Auth THEN "no" ELSE p.authorized
<1>2. h \in HeaderMaps /\ a \in {"yes", "no"}
  BY <1>1 DEF HeaderMaps
<1>3. a = "yes" => p.authorized = "yes" /\ \A n \in Auth : h[n] = p.headers[n]
  BY <1>1 DEF HeaderMaps
<1>4. WithHeader(p, name) = [intercept |-> p.intercept, uri |-> p.uri, authorized |-> a,
                             headers |-> h]
  BY DEF WithHeader
<1> HIDE DEF h, a
<1> QED
  BY <1>1, <1>2, <1>3, <1>4 DEF Proxies

\* Configuring keeps the types, and the credentials where they belong.
LEMMA ConfigureProxies ==
    ASSUME TypeOK, Credited, Configures
    PROVE  /\ proxies' \in Seq(Proxies) /\ Len(proxies') <= MaxProxies
           /\ Len(proxies) <= Len(proxies')
           /\ Credited'
<1>0. /\ proxies \in Seq(Proxies) /\ Len(proxies) \in Nat /\ Len(proxies) <= MaxProxies
      /\ \A i \in 1..Len(proxies) : proxies[i] \in Proxies
  BY Typed DEF TypeOK
<1>1. ASSUME NEW i \in Intercepts, NEW u \in Uris, AddProxy(i, u)
      PROVE  /\ proxies' \in Seq(Proxies) /\ Len(proxies') <= MaxProxies
             /\ Len(proxies) <= Len(proxies') /\ Credited'
  <2> DEFINE p == [intercept |-> i, uri |-> u, authorized |-> "no", headers |-> NoHeaders]
  <2>1. p \in Proxies /\ p.authorized # "yes"
    BY NoHeadersType DEF Proxies
  <2>2. proxies' = Append(proxies, p) /\ Len(proxies) < MaxProxies
    BY <1>1 DEF AddProxy
  <2> HIDE DEF p
  <2>3. /\ proxies' \in Seq(Proxies) /\ Len(proxies') = Len(proxies) + 1
        /\ \A k \in 1..Len(proxies) : proxies'[k] = proxies[k]
        /\ proxies'[Len(proxies) + 1] = p
    BY <1>0, <2>1, <2>2
  <2>4. Len(proxies') <= MaxProxies /\ Len(proxies) <= Len(proxies')
    BY <1>0, <2>2, <2>3, PortsAssumption
  <2>5. \A k \in 1..Len(proxies') : k \in 1..Len(proxies) \/ k = Len(proxies) + 1
    BY <1>0, <2>3
  <2>6. Credited'
    BY <2>1, <2>3, <2>5 DEF Credited
  <2> QED BY <2>3, <2>4, <2>6
<1>2. ASSUME NEW p \in Proxies, proxies # <<>>,
             proxies' = [proxies EXCEPT ![Len(proxies)] = p],
             p.authorized = "yes" =>
                \A n \in AuthHeaders(p.intercept) : p.headers[n] = "credentials"
      PROVE  /\ proxies' \in Seq(Proxies) /\ Len(proxies') <= MaxProxies
             /\ Len(proxies) <= Len(proxies') /\ Credited'
  <2>1. /\ proxies' \in Seq(Proxies) /\ Len(proxies') = Len(proxies)
        /\ \A i \in 1..Len(proxies) :
              proxies'[i] = IF i = Len(proxies) THEN p ELSE proxies[i]
    BY <1>0, <1>2, LastReplaced
  <2>2. ASSUME NEW i \in 1..Len(proxies'), proxies'[i].authorized = "yes",
               NEW n \in AuthHeaders(proxies'[i].intercept)
        PROVE  proxies'[i].headers[n] = "credentials"
    <3>1. CASE i = Len(proxies)
      BY <1>2, <2>1, <2>2, <3>1
    <3>2. CASE i # Len(proxies)
      BY <2>1, <2>2, <3>2 DEF Credited
    <3> QED BY <3>1, <3>2
  <2>3. Credited'
    BY <2>2 DEF Credited
  <2> QED BY <1>0, <2>1, <2>3
<1>3. proxies # <<>> => proxies[Len(proxies)] \in Proxies /\ Len(proxies) \in 1..Len(proxies)
  BY <1>0
<1>4. CASE SetAuthorization
  <2>1. proxies # <<>>
        /\ proxies' = [proxies EXCEPT ![Len(proxies)] = Authorized(proxies[Len(proxies)])]
    BY <1>4 DEF SetAuthorization, SetLast
  <2> QED BY <1>2, <1>3, <2>1, AuthorizedType
<1>5. ASSUME NEW n \in Custom, SetHeader(n)
      PROVE  /\ proxies' \in Seq(Proxies) /\ Len(proxies') <= MaxProxies
             /\ Len(proxies) <= Len(proxies') /\ Credited'
  <2> DEFINE p == proxies[Len(proxies)]
  <2>1. proxies # <<>> /\ proxies' = [proxies EXCEPT ![Len(proxies)] = WithHeader(p, n)]
    BY <1>5 DEF SetHeader, SetLast
  <2>2. p.authorized = "yes" => \A k \in AuthHeaders(p.intercept) : p.headers[k] = "credentials"
    BY <1>3, <2>1 DEF Credited
  <2>3. AuthHeaders(p.intercept) \subseteq Auth
    BY DEF AuthHeaders, Auth
  <2>4. p \in Proxies
    BY <1>3, <2>1
  <2> HIDE DEF p
  <2>5. /\ WithHeader(p, n) \in Proxies
        /\ WithHeader(p, n).authorized = "yes" =>
              \A k \in AuthHeaders(WithHeader(p, n).intercept) :
                 WithHeader(p, n).headers[k] = "credentials"
    BY <2>2, <2>3, <2>4, WithHeaderType
  <2> QED BY <1>2, <2>1, <2>5
<1>6. CASE (\E c \in Inners : WithConnector(c)) \/ (\E o \in {"Some", "None"} : SetTls(o))
  <2>1. proxies' = proxies
    BY <1>6 DEF WithConnector, SetTls
  <2> QED BY <1>0, <2>1 DEF Credited
<1> QED
  BY <1>1, <1>4, <1>5, <1>6 DEF Configures

-----------------------------------------------------------------------------
(* The inductive invariant                                                 *)

\* No layers reach no height.
LEMMA Flat == \A n, m : n = 0 /\ m \in {1, 2} =>
    ~(n >= 1) /\ ~(n >= 2) /\ ~(n >= m + 1) /\ ~(n >= m + 2)
OBVIOUS

\* A connector that was just made satisfies the invariant.
LEMMA InitInv == Init => TypeOK /\ IInv
<1> SUFFICES ASSUME Init PROVE TypeOK /\ IInv
  OBVIOUS
<1>1. /\ proxies = <<>> /\ layers = <<>> /\ Len(proxies) = 0 /\ Len(layers) = 0
      /\ via = 0 /\ pc = "config" /\ target = dst /\ dst \in Uris
  BY DEF Init
<1>2. proxies \in Seq(Proxies) /\ Len(proxies) <= MaxProxies /\ layers \in Seq(Layers)
  BY <1>1, PortsAssumption
<1>3. TypeOK
  BY <1>1, <1>2 DEF Init, TypeOK, Places
<1>4. InnerLen \in {1, 2}
  BY DEF InnerLen
<1> QED
  BY <1>1, <1>3, <1>4 DEF IInv, Routed, Height, Built, Allowed, Credited

\* While the stack is configured there is nothing to keep but the proxies.
LEMMA ConfigureInv == ASSUME TypeOK, IInv, Configures PROVE TypeOK' /\ IInv'
<1>1. pc = "config" /\ UNCHANGED <<dst, target, via, pc, layers>>
  BY Configuring
<1>2. /\ proxies' \in Seq(Proxies) /\ Len(proxies') <= MaxProxies
      /\ Len(proxies) <= Len(proxies') /\ Credited'
  BY ConfigureProxies DEF IInv
<1>3. inner' \in Inners /\ tls' \in {"Some", "None"}
  BY DEF TypeOK, Configures, AddProxy, SetAuthorization, SetHeader, WithConnector, SetTls
<1>4. via' \in 0..Len(proxies')
  <2>1. /\ Len(proxies) \in Nat /\ Len(proxies') \in Nat
        /\ via \in 0..Len(proxies) /\ via' = via /\ Len(proxies) <= Len(proxies')
    BY <1>1, <1>2, Typed DEF TypeOK
  <2> QED BY <2>1
<1>5. TypeOK'
  BY <1>1, <1>2, <1>3, <1>4 DEF TypeOK
<1>6. Len(layers') = 0 /\ InnerLen' \in {1, 2}
  BY <1>1 DEF IInv, Height, InnerLen
<1>7. Height'
  BY <1>1, <1>6 DEF Height
<1>8. Built'
  BY <1>6 DEF Built
<1>9. Routed' /\ Allowed'
  BY <1>1 DEF Routed, Allowed
<1> QED
  BY <1>2, <1>5, <1>7, <1>8, <1>9 DEF IInv

\* connect() picks the proxy and its Uri.
LEMMA ConnectInv == ASSUME TypeOK, IInv, Connect PROVE TypeOK' /\ IInv'
<1>1. /\ pc = "config" /\ Len(layers) = 0
      /\ via' = MatchProxy(dst)
      /\ target' = IF via' = 0 THEN dst ELSE ProxyDst(dst, proxies[via'].uri)
      /\ pc' \in {"err", "dial"}
      /\ pc' = "dial" => ~Refused(target')
      /\ UNCHANGED <<inner, tls, proxies, dst, layers>>
  BY DEF Connect, IInv, Height
<1>2. via' \in 0..Len(proxies)
  BY <1>1, MatchFirst, Typed DEF First
<1>3. target' \in Uris
  <2>1. CASE via' = 0
    BY <1>1, <2>1, Typed
  <2>2. CASE via' # 0
    <3>1. via' \in 1..Len(proxies)
      BY <1>2, <2>2, Typed
    <3> QED BY <1>1, <2>2, <3>1, Typed, ProxyDstIsProxy
  <2> QED BY <2>1, <2>2
<1>4. TypeOK'
  BY <1>1, <1>2, <1>3 DEF TypeOK, Places
<1>5. MatchProxy(dst)' = MatchProxy(dst)
  <2>1. proxies' = proxies /\ dst' = dst
    BY <1>1
  <2> HIDE <1>1
  <2> QED BY <2>1 DEF MatchProxy, Matches
<1>11. Refused(target)' <=> Refused(target')
  BY <1>1 DEF Refused, RefusedByHttp
<1>6. ProxyDst(dst, proxies[via].uri)' = ProxyDst(dst, proxies[via'].uri)
  BY <1>1 DEF ProxyDst, SetPort, SetHost, SetScheme
<1>7. Routed'
  BY <1>1, <1>5, <1>6 DEF Routed
<1>8. Len(layers') = 0 /\ InnerLen' \in {1, 2}
  BY <1>1 DEF InnerLen
<1>9. Height'
  BY <1>1, <1>8 DEF Height
<1>12. Built'
  <2>1. /\ ~(Len(layers') >= 1) /\ ~(Len(layers') >= 2)
        /\ ~(Len(layers') >= InnerLen' + 1) /\ ~(Len(layers') >= InnerLen' + 2)
    BY <1>8, Flat, Zenon
  <2> QED BY <2>1, Zenon DEF Built
<1>10. Allowed' /\ Credited'
  BY <1>1, <1>11 DEF Allowed, IInv, Credited
<1> QED
  BY <1>4, <1>7, <1>9, <1>10, <1>12 DEF IInv

\* What stays as it is once connect() was called.
Fixed == UNCHANGED <<inner, tls, proxies, dst, target, via>>

LEMMA FixedParts ==
    ASSUME Fixed
    PROVE  /\ InnerLen' = InnerLen /\ InnerLen \in {1, 2}
           /\ Tunnels' = Tunnels
           /\ TcpLayer' = TcpLayer /\ TunnelLayer' = TunnelLayer
           /\ TlsLayer(target.host)' = TlsLayer(target.host)
           /\ TlsLayer(dst.host)' = TlsLayer(dst.host)
           /\ Refused(target)' = Refused(target)
<1>1. InnerLen' = InnerLen /\ InnerLen \in {1, 2}
  BY DEF Fixed, InnerLen
<1>2. Tunnels' = Tunnels /\ Refused(target)' = Refused(target)
  BY DEF Fixed, Tunnels, Refused, RefusedByHttp
<1>3. TcpLayer' = TcpLayer /\ TunnelLayer' = TunnelLayer
  BY DEF Fixed, TcpLayer, TunnelLayer, PortOf
<1>4. /\ TlsLayer(target.host)' = TlsLayer(target.host)
      /\ TlsLayer(dst.host)' = TlsLayer(dst.host)
  BY DEF Fixed, TlsLayer
<1> QED
  BY <1>1, <1>2, <1>3, <1>4

\* The route and the credentials stay with it.
LEMMA FixedRoute ==
    ASSUME TypeOK, IInv, Fixed, pc # "config"
    PROVE  Routed' /\ Credited'
<1>1. MatchProxy(dst)' = MatchProxy(dst)
  BY DEF Fixed, MatchProxy, Matches
<1>2. ProxyDst(dst, proxies[via].uri)' = ProxyDst(dst, proxies[via].uri)
  BY DEF Fixed, ProxyDst, SetPort, SetHost, SetScheme
<1>3. Routed'
  BY <1>1, <1>2 DEF Fixed, IInv, Routed
<1>4. Credited'
  BY DEF Fixed, IInv, Credited
<1> QED
  BY <1>3, <1>4

\* A layer that belongs on top is added.
LEMMA Grow ==
    ASSUME TypeOK, IInv, Fixed, NEW new,
           Len(layers') = Len(layers) + 1,
           \A i \in 1..Len(layers) : layers'[i] = layers[i],
           layers'[Len(layers) + 1] = new,
           Len(layers) = 0 => new = TcpLayer,
           Len(layers) = 1 /\ InnerLen = 2 => new = TlsLayer(target.host),
           Len(layers) = InnerLen => new = TunnelLayer,
           Len(layers) = InnerLen + 1 => new = TlsLayer(dst.host)
    PROVE  Built'
<1> DEFINE n == Len(layers)
           m == InnerLen
<1>0. /\ n \in Nat /\ m \in {1, 2} /\ InnerLen' = m
      /\ TcpLayer' = TcpLayer /\ TunnelLayer' = TunnelLayer
      /\ TlsLayer(target.host)' = TlsLayer(target.host)
      /\ TlsLayer(dst.host)' = TlsLayer(dst.host)
  BY Typed, FixedParts
<1>1. /\ n >= 1 => layers[1] = TcpLayer
      /\ n >= 2 /\ m = 2 => layers[2] = TlsLayer(target.host)
      /\ n >= m + 1 => layers[m + 1] = TunnelLayer
      /\ n >= m + 2 => layers[m + 2] = TlsLayer(dst.host)
  BY DEF IInv, Built
<1> HIDE DEF n, m
<1>2. n + 1 >= 1 => layers'[1] = TcpLayer
  BY <1>0, <1>1 DEF n, m
<1>3. n + 1 >= 2 /\ m = 2 => layers'[2] = TlsLayer(target.host)
  <2>1. CASE n = 1
    BY <2>1 DEF n, m
  <2>2. CASE n >= 2
    BY <1>0, <1>1, <2>2 DEF n
  <2> QED BY <1>0, <2>1, <2>2
<1>4. n + 1 >= m + 1 => layers'[m + 1] = TunnelLayer
  BY <1>0, <1>1 DEF n, m
<1>5. n + 1 >= m + 2 => layers'[m + 2] = TlsLayer(dst.host)
  BY <1>0, <1>1 DEF n, m
<1> QED
  BY <1>0, <1>2, <1>3, <1>4, <1>5 DEF Built, n, m

\* A TCP connection.
LEMMA DialledInv == ASSUME TypeOK, IInv, Dialled PROVE TypeOK' /\ IInv'
<1>1. /\ pc = "dial" /\ Fixed
      /\ AddLayer("tcp", target.host, PortOf(target), NoHeaders)
      /\ pc' = IF inner.tls = "Some" /\ target.scheme = "https" THEN "handshake" ELSE AfterInner
  BY DEF Dialled, Fixed
<1>2. Len(layers) = 0 /\ ~Refused(target)
  BY <1>1 DEF IInv, Height, Allowed
<1>3. /\ layers' \in Seq(Layers) /\ Len(layers') = Len(layers) + 1
      /\ \A i \in 1..Len(layers) : layers'[i] = layers[i]
      /\ layers'[Len(layers) + 1] = TcpLayer
  BY <1>1, Typed, UriParts, NoHeadersType, Added DEF TcpLayer
<1>4. Built'
  BY <1>1, <1>2, <1>3, FixedParts, Grow
<1>5. pc' \in {"handshake", "tunnel", "ok"}
  BY <1>1 DEF AfterInner
<1>6. TypeOK'
  BY <1>1, <1>3, <1>5 DEF TypeOK, Fixed, Places
<1>7. /\ pc' = "handshake" => InnerLen = 2
      /\ pc' = "tunnel" => Tunnels /\ InnerLen = 1
      /\ pc' = "ok" => ~Tunnels /\ InnerLen = 1
  BY <1>1 DEF AfterInner, InnerLen, Tunnels
<1>8. Len(layers') = 1
  BY <1>2, <1>3
<1>9. Height'
  BY <1>1, <1>5, <1>7, <1>8, FixedParts DEF Height
<1> QED
  BY <1>1, <1>2, <1>4, <1>6, <1>9, FixedParts, FixedRoute DEF IInv, Allowed

\* The inner connector's handshake.
LEMMA InnerSecuredInv == ASSUME TypeOK, IInv, InnerSecured PROVE TypeOK' /\ IInv'
<1>1. /\ pc = "handshake" /\ Fixed
      /\ AddLayer("tls", target.host, NoPort, NoHeaders)
      /\ pc' = AfterInner
  BY DEF InnerSecured, Fixed
<1>2. Len(layers) = 1 /\ InnerLen = 2 /\ ~Refused(target)
  BY <1>1 DEF IInv, Height, Allowed
<1>3. /\ layers' \in Seq(Layers) /\ Len(layers') = Len(layers) + 1
      /\ \A i \in 1..Len(layers) : layers'[i] = layers[i]
      /\ layers'[Len(layers) + 1] = TlsLayer(target.host)
  <2>1. NoPort \in Nat
    BY DEF NoPort
  <2> QED BY <1>1, <2>1, Typed, UriParts, NoHeadersType, Added DEF TlsLayer
<1>4. Built'
  BY <1>1, <1>2, <1>3, Grow
<1>5. pc' \in {"tunnel", "ok"}
  BY <1>1 DEF AfterInner
<1>6. TypeOK'
  BY <1>1, <1>3, <1>5 DEF TypeOK, Fixed, Places
<1>7. (pc' = "tunnel" => Tunnels) /\ (pc' = "ok" => ~Tunnels)
  BY <1>1 DEF AfterInner, Tunnels
<1>8. Len(layers') = 2
  BY <1>2, <1>3
<1>9. Height'
  BY <1>1, <1>2, <1>5, <1>7, <1>8, FixedParts DEF Height
<1> QED
  BY <1>1, <1>2, <1>4, <1>6, <1>9, FixedParts, FixedRoute DEF IInv, Allowed

\* The tunnel through the proxy.
LEMMA TunnelledInv == ASSUME TypeOK, IInv, Tunnelled PROVE TypeOK' /\ IInv'
<1>1. /\ pc = "tunnel" /\ Fixed
      /\ AddLayer("tunnel", dst.host, IF dst.port = NoPort THEN 443 ELSE dst.port,
                  proxies[via].headers)
      /\ pc' = IF tls = "Some" THEN "tunnelled" ELSE "ok"
  BY DEF Tunnelled, Fixed
<1>2. Len(layers) = InnerLen /\ Tunnels /\ ~Refused(target)
  BY <1>1 DEF IInv, Height, Allowed
<1>3. /\ layers' \in Seq(Layers) /\ Len(layers') = Len(layers) + 1
      /\ \A i \in 1..Len(layers) : layers'[i] = layers[i]
      /\ layers'[Len(layers) + 1] = TunnelLayer
  <2> DEFINE port == IF dst.port = NoPort THEN 443 ELSE dst.port
  <2>1. port \in Nat /\ dst.host \in Hosts
    BY Typed, UriParts
  <2>2. via \in 1..Len(proxies)
    BY <1>2, Typed DEF Tunnels, TypeOK
  <2>3. proxies[via].headers \in HeaderMaps
    BY <2>2, Typed
  <2>4. TunnelLayer = [kind |-> "tunnel", host |-> dst.host, port |-> port,
                       headers |-> proxies[via].headers]
    BY DEF TunnelLayer
  <2>5. AddLayer("tunnel", dst.host, port, proxies[via].headers)
    BY <1>1
  <2> HIDE DEF port
  <2> QED BY <2>1, <2>3, <2>4, <2>5, Typed, Added
<1>4. Built'
  <2>1. Len(layers) \in {1, 2}
    BY <1>1, <1>2, FixedParts
  <2> QED BY <1>1, <1>2, <1>3, <2>1, Grow
<1>5. pc' \in {"tunnelled", "ok"}
  BY <1>1
<1>6. TypeOK'
  BY <1>1, <1>3, <1>5 DEF TypeOK, Fixed, Places
<1>7. (pc' = "tunnelled" => tls = "Some") /\ (pc' = "ok" => tls # "Some")
  BY <1>1
<1>8. Len(layers') = InnerLen + 1 /\ tls' = tls
  BY <1>1, <1>2, <1>3 DEF Fixed
<1>9. Height'
  BY <1>1, <1>2, <1>5, <1>7, <1>8, FixedParts DEF Height
<1> QED
  BY <1>1, <1>2, <1>4, <1>6, <1>9, FixedParts, FixedRoute DEF IInv, Allowed

\* TLS through the tunnel.
LEMMA TunnelSecuredInv == ASSUME TypeOK, IInv, TunnelSecured PROVE TypeOK' /\ IInv'
<1>1. /\ pc = "tunnelled" /\ Fixed
      /\ AddLayer("tls", dst.host, NoPort, NoHeaders)
      /\ pc' = "ok"
  BY DEF TunnelSecured, Fixed
<1>2. Len(layers) = InnerLen + 1 /\ Tunnels /\ tls = "Some" /\ ~Refused(target)
  BY <1>1 DEF IInv, Height, Allowed
<1>3. /\ layers' \in Seq(Layers) /\ Len(layers') = Len(layers) + 1
      /\ \A i \in 1..Len(layers) : layers'[i] = layers[i]
      /\ layers'[Len(layers) + 1] = TlsLayer(dst.host)
  <2>1. NoPort \in Nat
    BY DEF NoPort
  <2> QED BY <1>1, <2>1, Typed, UriParts, NoHeadersType, Added DEF TlsLayer
<1>4. Built'
  <2>1. Len(layers) # 0 /\ Len(layers) # InnerLen /\ ~(Len(layers) = 1 /\ InnerLen = 2)
    BY <1>1, <1>2, FixedParts
  <2> QED BY <1>1, <1>3, <2>1, Grow
<1>6. TypeOK'
  BY <1>1, <1>3 DEF TypeOK, Fixed, Places
<1>8. Len(layers') = InnerLen + 2 /\ tls' = tls
  <2>1. InnerLen \in {1, 2}
    BY <1>1, FixedParts
  <2> QED BY <1>1, <1>2, <1>3, <2>1 DEF Fixed
<1>9. Height'
  BY <1>1, <1>2, <1>8, FixedParts DEF Height
<1> QED
  BY <1>1, <1>2, <1>4, <1>6, <1>9, FixedParts, FixedRoute DEF IInv, Allowed

\* A step that fails leaves the layers there are.
LEMMA StepFailsInv == ASSUME TypeOK, IInv, StepFails PROVE TypeOK' /\ IInv'
<1>1. /\ pc \in {"dial", "handshake", "tunnel", "tunnelled"} /\ pc' = "err"
      /\ Fixed /\ layers' = layers
  BY DEF StepFails, Fixed
<1>2. TypeOK'
  BY <1>1 DEF TypeOK, Fixed, Places
<1>3. Height' /\ Allowed'
  BY <1>1 DEF Height, Allowed
<1>4. Built'
  BY <1>1, FixedParts DEF IInv, Built
<1>5. pc # "config"
  BY <1>1
<1> QED
  BY <1>1, <1>2, <1>3, <1>4, <1>5, FixedRoute DEF IInv

\* Every step keeps the invariant.
LEMMA StepInv == TypeOK /\ IInv /\ [Next]_vars => TypeOK' /\ IInv'
<1> SUFFICES ASSUME TypeOK, IInv, [Next]_vars PROVE TypeOK' /\ IInv'
  OBVIOUS
<1>1. CASE UNCHANGED vars
  <2>1. Fixed /\ pc' = pc /\ layers' = layers
    BY <1>1 DEF vars, Fixed
  <2>2. TypeOK' /\ Allowed'
    BY <2>1, FixedParts DEF TypeOK, Fixed, IInv, Allowed
  <2>3. Built'
    BY <2>1, FixedParts DEF IInv, Built
  <2>4. Height'
    <3>1. tls' = tls
      BY <2>1 DEF Fixed
    <3> QED BY <2>1, <3>1, FixedParts DEF IInv, Height
  <2>5. Credited'
    BY <2>1 DEF Fixed, IInv, Credited
  <2>6. Routed'
    <3>1. CASE pc = "config"
      BY <2>1, <3>1 DEF Routed
    <3>2. CASE pc # "config"
      BY <2>1, <3>2, FixedRoute
    <3> QED BY <3>1, <3>2
  <2> QED BY <2>2, <2>3, <2>4, <2>5, <2>6 DEF IInv
<1>2. CASE Configures
  BY <1>2, ConfigureInv
<1>3. CASE Done
  BY <1>1, <1>3 DEF Done
<1> QED
  BY <1>1, <1>2, <1>3, ConnectInv, DialledInv, InnerSecuredInv, TunnelledInv,
     TunnelSecuredInv, StepFailsInv DEF Next, Configures

(* Type correctness, with the invariant the other theorems rest on.        *)
THEOREM Inductive == Spec => [](TypeOK /\ IInv)
<1> QED BY InitInv, StepInv, PTL DEF Spec

(* Every variable of the connector keeps its type.                         *)
THEOREM TypeCorrect == Spec => []TypeOK
<1> QED BY Inductive, PTL

-----------------------------------------------------------------------------
(* Where a stream goes and what protects it                                *)

\* The inner connector is asked for the proxy's Uri, or for the destination.
LEMMA TargetOf ==
    ASSUME TypeOK, IInv, pc # "config"
    PROVE  /\ First(via)
           /\ via = 0 => target = dst
           /\ via # 0 => via \in 1..Len(proxies) /\ target = proxies[via].uri
<1>1. First(via)
  BY MatchFirst, Typed DEF IInv, Routed
<1>2. via # 0 => via \in 1..Len(proxies)
  BY <1>1, Typed DEF First
<1>3. via # 0 => target = ProxyDst(dst, proxies[via].uri)
  BY DEF IInv, Routed
<1>4. via # 0 => target = proxies[via].uri
  BY <1>2, <1>3, Typed, ProxyDstIsProxy
<1>5. via = 0 => target = dst
  BY DEF IInv, Routed
<1> QED
  BY <1>1, <1>2, <1>4, <1>5

\* The first layer is a connection to what the inner connector was asked for.
LEMMA TcpReaches ==
    ASSUME TypeOK, IInv, Len(layers) >= 1 PROVE Reaches(layers[1], target)
<1>1. layers[1] = TcpLayer
  BY DEF IInv, Built
<1>2. TcpLayer.kind = "tcp" /\ TcpLayer.host = target.host /\ TcpLayer.port = PortOf(target)
  BY DEF TcpLayer
<1> QED
  BY <1>1, <1>2 DEF Reaches

(* The connection goes to the first proxy that matches, or to the          *)
(* destination if none does.                                               *)
THEOREM Routes == Spec => []FirstHop
<1>1. TypeOK /\ IInv => FirstHop
  <2> SUFFICES ASSUME TypeOK, IInv, layers # <<>> PROVE FirstHop
    BY DEF FirstHop
  <2>1. Len(layers) >= 1
    BY Typed
  <2>2. pc # "config"
    BY <2>1 DEF IInv, Height
  <2>3. Reaches(layers[1], target) /\ First(via)
    BY <2>1, <2>2, TcpReaches, TargetOf
  <2>4. CASE via = 0
    <3>1. target = dst /\ \A j \in 1..Len(proxies) : ~Matches(proxies[j].intercept, dst)
      BY <2>2, <2>3, <2>4, TargetOf DEF First
    <3> QED BY <2>3, <3>1, Zenon DEF FirstHop
  <2>5. CASE via # 0
    <3>1. /\ via \in 1..Len(proxies) /\ target = proxies[via].uri
          /\ Matches(proxies[via].intercept, dst)
          /\ \A j \in 1..(via - 1) : ~Matches(proxies[j].intercept, dst)
      BY <2>2, <2>3, <2>5, TargetOf DEF First
    <3> QED BY <2>3, <3>1, Zenon DEF FirstHop
  <2> QED BY <2>4, <2>5
<1> QED BY <1>1, Inductive, PTL

\* A stream with the inner connector's TLS has two layers at least.
LEMMA Tall == \A n, m : m = 2 /\ (n = m \/ n = m + 1 \/ n = m + 2) => n >= 2
OBVIOUS

(* With https_only no stream is returned without TLS above its TCP         *)
(* connection.                                                             *)
THEOREM Enforced == Spec => []NothingInTheClear
<1>1. TypeOK /\ IInv => NothingInTheClear
  <2> SUFFICES ASSUME TypeOK, IInv, pc = "ok", inner.force_https
              PROVE  Len(layers) >= 2 /\ layers[2].kind = "tls"
    BY DEF NothingInTheClear
  <2>1. inner \in Inners /\ tls \in {"Some", "None"} /\ Len(layers) \in Nat
    BY Typed DEF TypeOK
  <2>2. inner.tls = "Some"
    BY <2>1 DEF Inners
  <2>3. target.scheme = "https"
    BY DEF IInv, Allowed, Refused
  <2>4. InnerLen = 2
    BY <2>2, <2>3 DEF InnerLen
  <2>5. Len(layers) = InnerLen \/ Len(layers) = InnerLen + 1 \/ Len(layers) = InnerLen + 2
    BY <2>1 DEF IInv, Height
  <2>6. Len(layers) >= 2
    BY <2>4, <2>5, Tall, Zenon
  <2>7. layers[2] = TlsLayer(target.host)
    BY <2>4, <2>6 DEF IInv, Built
  <2> QED BY <2>6, <2>7 DEF TlsLayer
<1> QED BY <1>1, Inductive, PTL

\* A stream of https through a proxy is the tunnel to the destination on top
\* of the connection to the proxy, with TLS for the destination above.
LEMMA TunnelTop ==
    ASSUME TypeOK, IInv, pc = "ok", Tunnels
    PROVE  /\ InnerLen \in {1, 2}
           /\ layers[InnerLen + 1] = TunnelLayer
           /\ tls = "None" => Len(layers) = InnerLen + 1
           /\ tls = "Some" => /\ Len(layers) = InnerLen + 2
                              /\ layers[InnerLen + 2] = TlsLayer(dst.host)
<1>1. InnerLen \in {1, 2} /\ tls \in {"Some", "None"}
  BY DEF InnerLen, TypeOK
<1>2. /\ tls = "None" => Len(layers) = InnerLen + 1
      /\ tls = "Some" => Len(layers) = InnerLen + 2
  BY DEF IInv, Height
<1>3. Len(layers) >= InnerLen + 1 /\ (tls = "Some" => Len(layers) >= InnerLen + 2)
  BY <1>1, <1>2
<1> QED
  BY <1>1, <1>2, <1>3 DEF IInv, Built

\* The tunnel reaches the destination.
LEMMA TunnelReaches ==
    ASSUME dst.scheme = "https" PROVE Reaches(TunnelLayer, dst)
BY DEF Reaches, TunnelLayer, PortOf

(* The stream for https reaches the destination, and is secured for its    *)
(* host name by whoever is in charge of that.                              *)
THEOREM Secured == Spec => []EndToEnd
<1>1. TypeOK /\ IInv => EndToEnd
  <2> SUFFICES ASSUME TypeOK, IInv, pc = "ok", dst.scheme = "https" PROVE EndToEnd
    BY DEF EndToEnd
  <2>1. tls \in {"Some", "None"} /\ inner.tls \in {"Some", "None"}
    BY DEF TypeOK, Inners
  <2>2. CASE via = 0
    <3>1. target = dst /\ ~Tunnels
      BY <2>2, TargetOf DEF Tunnels
    <3>2. Len(layers) = InnerLen
      BY <3>1 DEF IInv, Height
    <3>3. InnerLen = IF inner.tls = "Some" THEN 2 ELSE 1
      BY <3>1 DEF InnerLen
    <3>4. Len(layers) >= 1
      BY <3>2, <3>3
    <3>5. Reaches(layers[1], dst)
      BY <3>1, <3>4, TcpReaches
    <3>6. CASE inner.tls = "Some"
      <4>1. Len(layers) = 2 /\ Len(layers) - 1 = 1
        BY <3>2, <3>3, <3>6
      <4>2. layers[2] = TlsLayer(dst.host)
        BY <3>1, <3>3, <3>6, <4>1 DEF IInv, Built
      <4>3. layers[Len(layers)].kind = "tls" /\ layers[Len(layers)].host = dst.host
        BY <4>1, <4>2 DEF TlsLayer
      <4>4. Reaches(layers[Len(layers) - 1], dst)
        BY <3>5, <4>1
      <4> QED BY <2>2, <3>6, <4>3, <4>4 DEF EndToEnd
    <3>7. CASE inner.tls # "Some"
      <4>1. Reaches(layers[Len(layers)], dst)
        BY <3>2, <3>3, <3>5, <3>7
      <4> QED BY <2>2, <3>7, <4>1 DEF EndToEnd
    <3> QED BY <3>6, <3>7
  <2>3. CASE via # 0
    <3>1. Tunnels
      BY <2>3 DEF Tunnels
    <3>2. CASE tls = "Some"
      <4>1. Len(layers) - 1 = InnerLen + 1
        BY <3>1, <3>2, TunnelTop
      <4>2. layers[Len(layers)] = TlsLayer(dst.host) /\ layers[Len(layers) - 1] = TunnelLayer
        BY <3>1, <3>2, <4>1, TunnelTop
      <4>3. layers[Len(layers)].kind = "tls" /\ layers[Len(layers)].host = dst.host
        BY <4>2 DEF TlsLayer
      <4>4. Reaches(layers[Len(layers) - 1], dst)
        BY <4>2, TunnelReaches
      <4> QED BY <2>3, <3>2, <4>3, <4>4 DEF EndToEnd
    <3>3. CASE tls # "Some"
      <4>1. layers[Len(layers)] = TunnelLayer
        BY <2>1, <3>1, <3>3, TunnelTop
      <4>2. Reaches(layers[Len(layers)], dst)
        BY <4>1, TunnelReaches
      <4> QED BY <2>3, <3>3, <4>2 DEF EndToEnd
    <3> QED BY <3>2, <3>3
  <2> QED BY <2>2, <2>3
<1> QED BY <1>1, Inductive, PTL

(* Credentials reach the proxy they were given for.                        *)
THEOREM Credentials == Spec => []Authenticated
<1>1. TypeOK /\ IInv => Authenticated
  <2> SUFFICES ASSUME TypeOK, IInv, pc = "ok", via # 0 PROVE Authenticated
    BY DEF Authenticated
  <2>1. /\ via \in 1..Len(proxies) /\ via = MatchProxy(dst)
        /\ Matches(proxies[via].intercept, dst)
    BY TargetOf DEF First, IInv, Routed
  <2>2. proxies[via].authorized = "yes" =>
           \A n \in AuthHeaders(proxies[via].intercept) :
              proxies[via].headers[n] = "credentials"
    BY <2>1 DEF IInv, Credited
  <2>3. ASSUME dst.scheme = "http", proxies[via].authorized = "yes"
        PROVE  HttpHeaders(dst)["Authorization"] = "credentials"
    <3>1. "Authorization" \in AuthHeaders(proxies[via].intercept)
      BY <2>1, <2>3 DEF Matches, AuthHeaders, Auth
    <3>2. HttpHeaders(dst) = proxies[via].headers
      BY <2>1, <2>3 DEF HttpHeaders
    <3> QED BY <2>2, <2>3, <3>1, <3>2
  <2>4. ASSUME dst.scheme = "https"
        PROVE  \E i \in 1..Len(layers) :
                  /\ layers[i].kind = "tunnel" /\ layers[i].headers = proxies[via].headers
                  /\ proxies[via].authorized = "yes" =>
                        layers[i].headers["ProxyAuthorization"] = "credentials"
    <3>1. Tunnels
      BY <2>4 DEF Tunnels
    <3>2. layers[InnerLen + 1] = TunnelLayer /\ InnerLen + 1 \in 1..Len(layers)
      <4>1. tls \in {"Some", "None"}
        BY DEF TypeOK
      <4> QED BY <3>1, <4>1, TunnelTop, Typed
    <3>3. TunnelLayer.kind = "tunnel" /\ TunnelLayer.headers = proxies[via].headers
      BY DEF TunnelLayer
    <3>4. "ProxyAuthorization" \in AuthHeaders(proxies[via].intercept)
      BY <2>1, <2>4 DEF Matches, AuthHeaders, Auth
    <3>5. proxies[via].authorized = "yes" =>
             proxies[via].headers["ProxyAuthorization"] = "credentials"
      BY <2>2, <3>4
    <3> QED BY <3>2, <3>3, <3>5
  <2> QED BY <2>3, <2>4 DEF Authenticated
<1> QED BY <1>1, Inductive, PTL
=============================================================================
