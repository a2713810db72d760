---------------------------- MODULE MCConnector ----------------------------
(* Instances of Connector for model checking.                              *)
EXTENDS Connector, TLC

\* Bound: two proxies are tried without ports and without headers that are
\* set one by one, one proxy with both.
OneOrPlain ==
    Len(proxies) < 2 \/
        /\ dst.port = NoPort
        /\ \A i \in 1..Len(proxies) :
              /\ proxies[i].uri.port = NoPort
              /\ \A n \in Auth \cup Custom : proxies[i].headers[n] # "custom"

\* Hosts are not told apart.
Symmetry == Permutations(Hosts)
=============================================================================
