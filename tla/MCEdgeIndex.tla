---------------------------- MODULE MCEdgeIndex -----------------------------
EXTENDS EdgeIndex, TLC

Symm == Permutations(Workers)
=============================================================================
