---------------------------- MODULE MCHandshake ----------------------------
(* Instances of Handshake for model checking.                              *)
EXTENDS Handshake
=============================================================================
