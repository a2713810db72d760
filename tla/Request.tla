------------------------------ MODULE Request ------------------------------
(***************************************************************************)
(* A request from the calls that build it to the head that goes on the     *)
(* wire: Request and RequestBuilder of src/request.rs, and build_req of    *)
(* src/lib.rs, which Client::request calls once it is connected.           *)
(***************************************************************************)
EXTENDS RequestHead

CONSTANTS
    Hosts,      \* host names, which may also be header values
    MaxHeaders  \* bound: most calls of header()

ASSUME RequestBounds == MaxHeaders \in Nat

VARIABLES           \* besides those of RequestHead
    enforce_http,   \* HttpConnector.enforce_http of the client's connector
    first           \* the request line

vars == <<enforce_http, stage, req, asked, first, rest>>

NoHost == "none"

\* A Uri with a scheme has a host and a path; one without is a path or an
\* authority.
Uris == [scheme : {"http", "https", "other"}, host : Hosts, path : {"/p"}]
          \cup [scheme : {"none"}, host : {NoHost}, path : {"/", "/p"}]
          \cup [scheme : {"none"}, host : Hosts, path : {"none"}]

Names == [lower : {"host", "connection", "other"}, exact : BOOLEAN]
Headers == [name : Names, value : Hosts]

Versions == {"HTTP/1.0", "HTTP/1.1"}
Methods == {"GET", "POST"}

UserAgent == Line("user-agent", "Simple http request")

\* RequestBuilder::default; the default Uri is the path "/".
Default == [method |-> "GET", version |-> "HTTP/1.1",
            uri |-> [scheme |-> "none", host |-> NoHost, path |-> "/"],
            headers |-> <<>>, body |-> "None"]

Init ==
    /\ enforce_http \in BOOLEAN
    /\ stage = "building"
    /\ req = Default
    /\ asked = <<>>
    /\ first = [method |-> "none", target |-> "none", version |-> "none"]
    /\ rest = <<>>

-----------------------------------------------------------------------------
(* RequestBuilder; there is no call that sets the method                   *)

Version(v) ==
    /\ stage = "building"
    /\ req' = [req EXCEPT !.version = v]
    /\ UNCHANGED <<enforce_http, stage, asked, first, rest>>

Uri(u) ==
    /\ stage = "building"
    /\ req' = [req EXCEPT !.uri = u]
    /\ UNCHANGED <<enforce_http, stage, asked, first, rest>>

Header(h) ==
    /\ stage = "building" /\ Len(asked) < MaxHeaders
    /\ req' = [req EXCEPT !.headers = Append(@, h)]
    /\ asked' = Append(asked, h)
    /\ UNCHANGED <<enforce_http, stage, first, rest>>

\* body(): the Request, with a body.
Build(body) ==
    /\ stage = "building"
    /\ req' = [req EXCEPT !.body = body]
    /\ stage' = "request"
    /\ UNCHANGED <<enforce_http, asked, first, rest>>

\* done(): the same without one.
BuildEmpty == Build("None")

\* Request::new in the builder's place.
New(method, u) ==
    /\ stage = "building" /\ req = Default /\ asked = <<>>
    /\ req' = [method |-> method, version |-> "HTTP/1.0", uri |-> u,
               headers |-> <<UserAgent>>, body |-> "None"]
    /\ asked' = <<UserAgent>>
    /\ stage' = "request"
    /\ UNCHANGED <<enforce_http, first, rest>>

-----------------------------------------------------------------------------
(* Client::request up to the writing of the head                           *)

\* Mutation: a Uri needs no scheme.
RefusedByEnforceOnly(u) == enforce_http /\ u.scheme # "http"

\* HttpConnector::connect gives up on a Uri.
Refused(u) ==
    \/ enforce_http /\ u.scheme # "http"
    \/ ~enforce_http /\ u.scheme = "none"
    \/ u.host = NoHost

Connect ==
    /\ stage = "request"
    /\ stage' = IF Refused(req.uri) THEN "refused" ELSE "connected"
    /\ UNCHANGED <<enforce_http, req, asked, first, rest>>

\* The connection fails, or its future is dropped.
ConnectFails ==
    /\ stage = "connected"
    /\ stage' = "refused"
    /\ UNCHANGED <<enforce_http, req, asked, first, rest>>

\* Mutation: only a header written "host" is left out.
SentExactly(h) == ~(h.name.lower = "host" /\ h.name.exact)

\* The headers of the request that build_req copies.
Sent(h) == h.name.lower # "host"

\* The loop of build_req: the lines so far, and one more for every header.
Copied(lines, hs) ==
    LET out[i \in 0..Len(hs)] ==
            IF i = 0 THEN lines
            ELSE IF Sent(hs[i]) THEN Append(out[i - 1], hs[i])
            ELSE out[i - 1]
    IN out[Len(hs)]

\* build_req, which unwraps the Uri's host.
BuildReq ==
    /\ stage = "connected"
    /\ IF req.uri.host = NoHost THEN stage' = "panic" /\ UNCHANGED <<first, rest>>
       ELSE /\ first' = [method  |-> req.method,
                         target  |-> IF req.uri.path = "none" THEN "/" ELSE req.uri.path,
                         version |-> "HTTP/1.0"]
            /\ rest' = Copied(<<Line("host", req.uri.host), Line("connection", "close")>>,
                              req.headers)
            /\ stage' = "written"
    /\ UNCHANGED <<enforce_http, req, asked>>

Done ==
    /\ stage \in {"refused", "written", "panic"}
    /\ UNCHANGED vars

Next ==
    \/ \E v \in Versions : Version(v)
    \/ \E u \in Uris : Uri(u)
    \/ \E h \in Headers : Header(h)
    \/ Build("Some") \/ BuildEmpty
    \/ \E m \in Methods, u \in Uris : New(m, u)
    \/ Connect
    \/ ConnectFails
    \/ BuildReq
    \/ Done

Spec == Init /\ [][Next]_vars

-----------------------------------------------------------------------------
(* The inductive invariant behind HeadAsAsked and HostIsThere              *)

Lines == Headers \cup {UserAgent}

\* The request holds the headers asked for, and one that is connected has a
\* host.
IInv ==
    /\ req \in [method : Methods, version : Versions, uri : Uris,
                headers : Seq(Lines), body : {"None", "Some"}]
    /\ req.headers = asked
    /\ stage = "connected" => req.uri.host # NoHost
    /\ HeadAsAsked
    /\ HostIsThere
=============================================================================
