----------------------------- MODULE MCExchange -----------------------------
(* Instances of Exchange for model checking.                               *)
EXTENDS Exchange
=============================================================================
