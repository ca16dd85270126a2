----------------------------- MODULE MCOrgTree -----------------------------
(* Instances of OrgTree and its readers for TLC.                           *)
EXTENDS TreeReaders, TLC

Symm == Permutations(Units \ {Root}) \cup Permutations(Txs)
=============================================================================
