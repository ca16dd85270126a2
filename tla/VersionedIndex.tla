--------------------------- MODULE VersionedIndex ---------------------------
(***************************************************************************)
(* What an index kept up to date through an outbox promises about the      *)
(* version it records for each key: it never records a version the source  *)
(* of truth does not have yet, never goes back, and forgets a key only     *)
(* when the key itself is gone.  Writes to the index may be skipped or     *)
(* repeated; only the recorded version is spoken of here.                  *)
(***************************************************************************)
EXTENDS Integers

CONSTANT Keys   \* what is indexed

VARIABLES
    current,    \* version of each key in the source of truth; 0: no such key
    recorded    \* version last recorded as indexed; 0 before the first

Init ==
    /\ current = [k \in Keys |-> 0]
    /\ recorded = [k \in Keys |-> 0]

\* Some keys come into being or get their next version.
Advance ==
    /\ \E S \in SUBSET Keys :
          current' = [k \in Keys |-> IF k \in S THEN current[k] + 1
                                                ELSE current[k]]
    /\ UNCHANGED recorded

\* A newer version, up to the current one, is recorded for a key.
Record(k) ==
    /\ \E v \in (recorded[k] + 1)..current[k] :
          recorded' = [recorded EXCEPT ![k] = v]
    /\ UNCHANGED current

\* Some keys go, and what was recorded for them.
Forget ==
    \E S \in SUBSET Keys :
        /\ current' = [k \in Keys |-> IF k \in S THEN 0 ELSE current[k]]
        /\ recorded' = [k \in Keys |-> IF k \in S THEN 0 ELSE recorded[k]]

Next == Advance \/ Forget \/ \E k \in Keys : Record(k)

Spec == Init /\ [][Next]_<<current, recorded>>
=============================================================================
