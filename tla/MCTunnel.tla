------------------------------ MODULE MCTunnel ------------------------------
(* Instances of Tunnel for model checking.                                 *)
EXTENDS Tunnel
=============================================================================
