----------------------------- MODULE MCRequest -----------------------------
(* Instances of Request for model checking.                                *)
EXTENDS Request
=============================================================================
