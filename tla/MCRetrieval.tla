---------------------------- MODULE MCRetrieval -----------------------------
EXTENDS Retrieval

CONSTANTS u1, u2, d1, d2, c1, c2, e1

MCRows == {[until |-> 1, deep |-> TRUE]}
MCClosures == {{<<u1, u1>>, <<u2, u2>>}, {<<u1, u1>>, <<u2, u2>>, <<u1, u2>>}}
MCDocOf  == [c \in Chunks |-> IF c = c1 THEN d1 ELSE d2]
MCEndsOf == [e \in Rels |-> <<c1, c2>>]

\* At the start only the group has a membership, both documents are served,
\* one to each unit, and the edge is accepted.
MCInit ==
    /\ Init
    /\ rows = [p \in Principals |-> [u \in Units |->
                  IF p = "group" /\ u = Asked THEN CHOOSE row \in Rows : TRUE ELSE NoRow]]
    /\ readers = [d \in Docs |-> IF d = d1 THEN {u1} ELSE {u2}]
    /\ served = Docs
    /\ usable = Rels
MCSpec == MCInit /\ [][Next]_vars
=============================================================================
