-------------------------- MODULE MCThreadpoolGai --------------------------
(* Instances of ThreadpoolGai for model checking.                          *)
EXTENDS ThreadpoolGai
=============================================================================
