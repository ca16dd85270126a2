----------------------------- MODULE AtomicTree -----------------------------
(***************************************************************************)
(* What the organisation tree of a company promises: units are inserted,   *)
(* moved and deleted one operation at a time, what is left is always a     *)
(* tree below the root, and org_unit_closure is its set of ancestors and   *)
(* descendants with their distance.                                        *)
(***************************************************************************)
EXTENDS Integers, FiniteSets

CONSTANTS
    Units,      \* ids of org units
    Root,       \* the company's root unit
    NoUnit      \* parent_id IS NULL

VARIABLES
    parent,     \* org_units: parent_id of the units that exist
    closure     \* org_unit_closure

vars == <<parent, closure>>

\* The unit k steps above u.
Above(par, u, k) ==
    LET up[j \in 0..k] ==
          IF j = 0 THEN u
          ELSE IF up[j - 1] = NoUnit THEN NoUnit
          ELSE par[up[j - 1]]
    IN  up[k]

\* All pairs of an ancestor and a descendant, with their distance.
ClosureOf(par) ==
    {r \in [anc : DOMAIN par, desc : DOMAIN par,
            depth : 0..Cardinality(DOMAIN par)] :
        Above(par, r.desc, r.depth) = r.anc}

\* n and all units below it.
Subtree(n) ==
    {u \in DOMAIN parent :
        \E k \in 0..Cardinality(DOMAIN parent) : Above(parent, u, k) = n}

Init ==
    /\ parent = [u \in {Root} |-> NoUnit]
    /\ closure = ClosureOf(parent)

Insert(x, p) ==
    /\ x \notin DOMAIN parent
    /\ p \in DOMAIN parent
    /\ parent' = [u \in DOMAIN parent \cup {x} |->
                     IF u = x THEN p ELSE parent[u]]

Move(n, p) ==
    /\ n \in DOMAIN parent \ {Root}
    /\ p \in DOMAIN parent \ Subtree(n)
    /\ parent' = [parent EXCEPT ![n] = p]

Delete(n) ==
    /\ n \in DOMAIN parent \ {Root}
    /\ parent' = [u \in DOMAIN parent \ Subtree(n) |-> parent[u]]

Next ==
    /\ \E n \in Units : \/ Delete(n)
                        \/ \E p \in Units : Insert(n, p) \/ Move(n, p)
    /\ closure' = ClosureOf(parent')

Spec == Init /\ [][Next]_vars
=============================================================================
