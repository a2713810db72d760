---------------------------- MODULE RequestHead ----------------------------
(***************************************************************************)
(* A request and the head that goes on the wire for it: what the caller    *)
(* asked for, what is sent, and what the one must have of the other.       *)
(* Request says how the head is made.                                      *)
(*                                                                         *)
(* The head is its first line and the sequence of the lines after it.  A   *)
(* header name is its lower-case form and whether it is written so.        *)
(***************************************************************************)
EXTENDS Naturals, Sequences, FiniteSets

VARIABLES
    stage,          \* how far the request is
    req,            \* the RequestBuilder, then the Request
    asked,          \* the headers given to the builder, or by Request::new
    rest            \* the lines build_req made after the request line

Line(name, value) == [name |-> [lower |-> name, exact |-> FALSE], value |-> value]

\* The headers among the first i given to the builder that name no host.
Others(i) == {j \in 1..i : asked[j].name.lower # "host"}

\* The head names one host, and it is the one connected to: a Host header
\* given to the builder, in upper or lower case, before or after the Uri,
\* neither replaces nor doubles it.  After it and the Connection header come
\* the other headers given, each once and in the order of the calls,
\* whichever setters came between them, and nothing else.
HeadAsAsked ==
    stage = "written" =>
        /\ \A i \in DOMAIN rest : rest[i].name.lower = "host" <=> i = 1
        /\ rest[1].value = req.uri.host /\ rest[2] = Line("connection", "close")
        /\ Len(rest) = 2 + Cardinality(Others(Len(asked)))
        /\ \A i \in Others(Len(asked)) : rest[2 + Cardinality(Others(i))] = asked[i]

\* The unwrap of the Uri's host never panics: a Uri without one is refused
\* by the connector before.
HostIsThere == stage # "panic"
=============================================================================
