----------------------------- MODULE MCStreams -----------------------------
(* Instances of Streams for model checking.                                *)
EXTENDS Streams
=============================================================================
