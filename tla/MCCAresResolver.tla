-------------------------- MODULE MCCAresResolver --------------------------
(* Instances of CAresResolver for model checking.                          *)
EXTENDS CAresResolver, TLC

\* Neither tasks nor names are told apart.
Symmetry == Permutations(Tasks) \cup Permutations(Names)
=============================================================================
