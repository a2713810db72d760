-------------------------- MODULE MCHttpConnecting --------------------------
(* Instances of HttpConnecting for model checking.                         *)
EXTENDS HttpConnecting
=============================================================================
