---------------------------- MODULE MCVectorSync ----------------------------
(* VectorSync for TLC.  Workers and versions are interchangeable.          *)
EXTENDS VectorSync, TLC

Symm == Permutations(Workers) \cup Permutations(Versions)
=============================================================================
