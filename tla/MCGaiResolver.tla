--------------------------- MODULE MCGaiResolver ---------------------------
(* Instances of GaiResolver for model checking.                            *)
EXTENDS GaiResolver
=============================================================================
