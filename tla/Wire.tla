-------------------------------- MODULE Wire --------------------------------
(***************************************************************************)
(* A stream as its peers see it: the layers of TLS it has, the records     *)
(* that reached TCP, and the order in which closing it may put them there. *)
(* Streams says how shutdown does it.                                      *)
(***************************************************************************)
EXTENDS Naturals, Sequences, SequencesExt

VARIABLES
    stack,      \* the layers that are TLS
    wire        \* records given to TCP

\* ProxyStream is Secured or Regular, MaybeHttpsStream Https or Http.
Layers == {"Secured", "Https"}

\* The layers of TLS, from the outermost.
Stacked == (IF "Secured" \in stack THEN <<"Secured">> ELSE <<>>)
             \o (IF "Https" \in stack THEN <<"Https">> ELSE <<>>)

\* What is to follow the data on the wire.
Ending == Stacked \o <<"fin">>

\* However often shutdown is called again, what follows the data on the wire
\* is the close_notify of each layer once, the outer before the inner, and
\* the end of the TCP stream after all of them: neither peer takes the close
\* for a truncation.
ClosesInOrder ==
    \E n \in 0..Len(wire) :
        /\ \A i \in 1..n : wire[i] = "data"
        /\ IsPrefix(SubSeq(wire, n + 1, Len(wire)), Ending)
=============================================================================
