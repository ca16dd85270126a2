------------------------------ MODULE OrgTree ------------------------------
(***************************************************************************)
(* The organisation tree of one company (V001, V012, V032): org_units with *)
(* their closure table under concurrent transactions at READ COMMITTED     *)
(* that insert a unit, move one with move_org_unit() or delete one.        *)
(*                                                                         *)
(* A statement reads what is committed when it starts and what its own     *)
(* transaction has written (a step "...Read"); it then waits for the locks *)
(* and rows it needs and writes.  Locks are PostgreSQL's, to the end of    *)
(* the transaction: FOR UPDATE and DELETE exclude everybody, the FOR KEY   *)
(* SHARE of a foreign key check excludes those two, UPDATE companies       *)
(* excludes other updates of the row.  A transaction may fail at any time: *)
(* a constraint, a deadlock or its client ends it.                         *)
(***************************************************************************)
EXTENDS Integers, FiniteSets

CONSTANTS
    Units,      \* ids of org units; a deleted id may be drawn again
    Root,       \* the company's root unit
    NoUnit,     \* parent_id IS NULL; no unit
    Txs,        \* database sessions
    NoTx        \* a lock is free

ASSUME ConstantsAssumption ==
    /\ Root \in Units
    /\ NoUnit \notin Units
    /\ NoTx \notin Txs

VARIABLES
    \* the committed tables: parent_id of the units that exist, the closure
    parent, closure,
    \* row locks on org_units (exclusive, shared); row lock on companies
    exclusive, shared, company,
    \* the transactions: where each stands, its arguments, the rows its
    \* current statement has read, what it has written: closure rows deleted
    \* and inserted, units deleted
    pc, op, node, target, rows, gone, fresh, removed

tableVars == <<parent, closure>>
lockVars  == <<exclusive, shared, company>>
argVars   == <<op, node, target>>
writeVars == <<gone, fresh, removed>>
vars == <<tableVars, lockVars, pc, argVars, rows, writeVars>>

Existing == DOMAIN parent
Rows == [anc : Units, desc : Units, depth : Nat]
Key(r) == <<r.anc, r.desc>>
Row(a, d, k) == [anc |-> a, desc |-> d, depth |-> k]

PCs == {"idle", "node", "parent", "check", "unlink read", "unlink",
        "link read", "link", "bump", "inherit read", "cascade",
        "delete rows", "commit"}

TypeOK ==
    /\ Root \in Existing /\ Existing \subseteq Units
    /\ parent \in [Existing -> Units \cup {NoUnit}]
    /\ closure \subseteq Rows
    /\ exclusive \in [Units -> Txs \cup {NoTx}]
    /\ shared \in [Units -> SUBSET Txs]
    /\ company \in Txs \cup {NoTx}
    /\ pc \in [Txs -> PCs]
    /\ op \in [Txs -> {"none", "insert", "move", "delete"}]
    /\ node \in [Txs -> Units \cup {NoUnit}]
    /\ target \in [Txs -> Units \cup {NoUnit}]
    /\ rows \in [Txs -> SUBSET Rows]
    /\ gone \in [Txs -> SUBSET Rows]
    /\ fresh \in [Txs -> SUBSET Rows]
    /\ removed \in [Txs -> SUBSET Units]

\* The company has been created, and its root unit with it.
Init ==
    /\ parent = [u \in {Root} |-> NoUnit]
    /\ closure = {Row(Root, Root, 0)}
    /\ exclusive = [u \in Units |-> NoTx]
    /\ shared = [u \in Units |-> {}]
    /\ company = NoTx
    /\ pc = [t \in Txs |-> "idle"]
    /\ op = [t \in Txs |-> "none"]
    /\ node = [t \in Txs |-> NoUnit]
    /\ target = [t \in Txs |-> NoUnit]
    /\ rows = [t \in Txs |-> {}]
    /\ gone = [t \in Txs |-> {}]
    /\ fresh = [t \in Txs |-> {}]
    /\ removed = [t \in Txs |-> {}]

-----------------------------------------------------------------------------
(* Locks                                                                   *)

\* t can get the row of u for itself; t can share the rows of us.
Free(t, u) == exclusive[u] \in {NoTx, t} /\ shared[u] \subseteq {t}
Sharable(t, us) == \A u \in us : u \in Existing /\ exclusive[u] \in {NoTx, t}

LockRow(t, u) ==
    /\ u \in Existing
    /\ Free(t, u)
    /\ exclusive' = [exclusive EXCEPT ![u] = t]

Goto(t, label) == pc' = [pc EXCEPT ![t] = label]

\* The closure as t's next statement sees it.
Visible(t) == (closure \ gone[t]) \cup fresh[t]

\* The DELETE reaches the rows that were read: one that another transaction
\* is deleting has to be waited for.
DeletesRows(t) ==
    /\ \A o \in Txs \ {t} : gone[o] \cap rows[t] = {}
    /\ gone' = [gone EXCEPT ![t] = rows[t]]

\* The INSERT of the rows that were read: their keys are new, also among the
\* uncommitted rows of others, and the units they name are there (foreign
\* keys).
InsertsRows(t) ==
    LET keys  == {Key(r) : r \in rows[t]}
        named == {r.anc : r \in rows[t]} \cup {r.desc : r \in rows[t]}
    IN  /\ \A r \in Visible(t) : Key(r) \notin keys
        /\ \A o \in Txs \ {t} : \A r \in gone[o] \cup fresh[o] :
              Key(r) \notin keys
        /\ Sharable(t, {u \in named : exclusive[u] # t})
        /\ shared' = [u \in Units |->
              IF u \in named THEN shared[u] \cup {t} ELSE shared[u]]
        /\ fresh' = [fresh EXCEPT ![t] = rows[t]]

-----------------------------------------------------------------------------
(* The end of a transaction                                                *)

\* t's locks and all it had in hand are gone.
Ends(t) ==
    /\ exclusive' = [u \in Units |->
          IF exclusive[u] = t THEN NoTx ELSE exclusive[u]]
    /\ shared' = [u \in Units |-> shared[u] \ {t}]
    /\ company' = IF company = t THEN NoTx ELSE company
    /\ pc' = [pc EXCEPT ![t] = "idle"]
    /\ op' = [op EXCEPT ![t] = "none"]
    /\ node' = [node EXCEPT ![t] = NoUnit]
    /\ target' = [target EXCEPT ![t] = NoUnit]
    /\ gone' = [gone EXCEPT ![t] = {}]
    /\ fresh' = [fresh EXCEPT ![t] = {}]
    /\ removed' = [removed EXCEPT ![t] = {}]

\* What t has written becomes visible.  A DELETE that has read a row which t
\* deleted skips it, also where t inserted the same row again.
Commit(t) ==
    /\ pc[t] = "commit"
    /\ parent' =
          [u \in (Existing \ removed[t]) \cup
                 (IF op[t] = "insert" THEN {node[t]} ELSE {}) |->
             IF op[t] \in {"insert", "move"} /\ u = node[t] THEN target[t]
             ELSE parent[u]]
    /\ closure' = Visible(t)
    /\ rows' = [o \in Txs |->
          IF pc[o] \in {"unlink", "delete rows"} THEN rows[o] \ gone[t]
          ELSE rows[o]]
    /\ Ends(t)

\* A check of move_org_unit() or a constraint fails, the server breaks a
\* deadlock, the client leaves.
Abort(t) ==
    /\ pc[t] # "idle"
    /\ rows' = [rows EXCEPT ![t] = {}]
    /\ Ends(t)
    /\ UNCHANGED tableVars

-----------------------------------------------------------------------------
(* INSERT INTO org_units                                                   *)

\* The row of x, and the foreign key on its parent.
InsertUnit(t, x, p) ==
    /\ pc[t] = "idle"
    /\ x \notin Existing
    /\ exclusive[x] = NoTx
    /\ Sharable(t, {p})
    /\ exclusive' = [exclusive EXCEPT ![x] = t]
    /\ shared' = [shared EXCEPT ![p] = @ \cup {t}]
    /\ op' = [op EXCEPT ![t] = "insert"]
    /\ node' = [node EXCEPT ![t] = x]
    /\ target' = [target EXCEPT ![t] = p]
    /\ Goto(t, "bump")
    /\ UNCHANGED <<tableVars, company, rows, writeVars>>

\* Mutant: the trigger that inherits the closure fires before the one that
\* bumps the epoch.
BumpEpochLast(t) ==
    /\ pc[t] = "bump"
    /\ \/ /\ op[t] = "insert"
          /\ fresh[t] = {}
          /\ Goto(t, "inherit read")
          /\ UNCHANGED company
       \/ /\ op[t] # "insert" \/ fresh[t] # {}
          /\ company = NoTx
          /\ company' = t
          /\ Goto(t, "commit")
    /\ UNCHANGED <<tableVars, exclusive, shared, argVars, rows, writeVars>>

\* org_units_acl_epoch_bump: UPDATE companies.  Of the AFTER INSERT triggers
\* it is the first by name: the closure is read under its lock.
BumpEpoch(t) ==
    /\ pc[t] = "bump"
    /\ company = NoTx
    /\ company' = t
    /\ Goto(t, IF op[t] = "insert" THEN "inherit read" ELSE "commit")
    /\ UNCHANGED <<tableVars, exclusive, shared, argVars, rows, writeVars>>

\* org_unit_closure_on_insert(): the row of the unit itself, and its parent's
\* ancestors.
InheritRead(t) ==
    /\ pc[t] = "inherit read"
    /\ rows' = [rows EXCEPT ![t] =
          {Row(node[t], node[t], 0)} \cup
          {Row(r.anc, node[t], r.depth + 1) :
              r \in {q \in Visible(t) : q.desc = target[t]}}]
    /\ Goto(t, "link")
    /\ UNCHANGED <<tableVars, lockVars, argVars, writeVars>>

\* The rows of an insert or of a move are inserted.
Link(t) ==
    /\ pc[t] = "link"
    /\ InsertsRows(t)
    /\ rows' = [rows EXCEPT ![t] = {}]
    /\ Goto(t, IF op[t] = "insert" THEN "commit" ELSE "bump")
    /\ UNCHANGED <<tableVars, exclusive, company, argVars, gone, removed>>

-----------------------------------------------------------------------------
(* move_org_unit()                                                         *)

MoveStart(t, n, p) ==
    /\ pc[t] = "idle"
    /\ op' = [op EXCEPT ![t] = "move"]
    /\ node' = [node EXCEPT ![t] = n]
    /\ target' = [target EXCEPT ![t] = p]
    /\ Goto(t, "node")
    /\ UNCHANGED <<tableVars, lockVars, rows, writeVars>>

\* SELECT ... FOR UPDATE of the node, which is not the root.
MoveLockNode(t) ==
    /\ pc[t] = "node"
    /\ node[t] # Root
    /\ LockRow(t, node[t])
    /\ Goto(t, "parent")
    /\ UNCHANGED <<tableVars, shared, company, argVars, rows, writeVars>>

\* Mutant: the new parent is only looked up.
MoveLockParentNone(t) ==
    /\ pc[t] = "parent"
    /\ target[t] \in Existing
    /\ Goto(t, "check")
    /\ UNCHANGED <<tableVars, lockVars, argVars, rows, writeVars>>

\* The same of the new parent.
MoveLockParent(t) ==
    /\ pc[t] = "parent"
    /\ LockRow(t, target[t])
    /\ Goto(t, "check")
    /\ UNCHANGED <<tableVars, shared, company, argVars, rows, writeVars>>

\* Not below itself, not below a descendant; where it already is it stays and
\* nothing is written.
MoveCheck(t) ==
    /\ pc[t] = "check"
    /\ node[t] # target[t]
    /\ parent[node[t]] # target[t]
    /\ ~\E r \in closure : r.anc = node[t] /\ r.desc = target[t] /\ r.depth > 0
    /\ Goto(t, "unlink read")
    /\ UNCHANGED <<tableVars, lockVars, argVars, rows, writeVars>>

\* Step 1: the rows from outside the subtree into it.
MoveUnlinkRead(t) ==
    LET below == {r.desc : r \in {q \in Visible(t) : q.anc = node[t]}}
    IN  /\ pc[t] = "unlink read"
        /\ rows' = [rows EXCEPT ![t] =
              {r \in Visible(t) : r.desc \in below /\ r.anc \notin below}]
        /\ Goto(t, "unlink")
        /\ UNCHANGED <<tableVars, lockVars, argVars, writeVars>>

MoveUnlink(t) ==
    /\ pc[t] = "unlink"
    /\ DeletesRows(t)
    /\ rows' = [rows EXCEPT ![t] = {}]
    /\ Goto(t, "link read")
    /\ UNCHANGED <<tableVars, lockVars, argVars, fresh, removed>>

\* From p and its ancestors to n and all below it, among the rows seen.
SubtreeLinks(seen, n, p) ==
    {Row(a.anc, d.desc, a.depth + d.depth + 1) :
        a \in {q \in seen : q.desc = p}, d \in {q \in seen : q.anc = n}}

\* Step 2: from the ancestors of the new parent to the subtree.
MoveLinkRead(t) ==
    /\ pc[t] = "link read"
    /\ rows' = [rows EXCEPT ![t] =
          SubtreeLinks(Visible(t), node[t], target[t])]
    /\ Goto(t, "link")
    /\ UNCHANGED <<tableVars, lockVars, argVars, writeVars>>

-----------------------------------------------------------------------------
(* DELETE FROM org_units                                                   *)

\* Mutant: nothing protects the root.
DeleteUnitAny(t, n) ==
    /\ pc[t] = "idle"
    /\ LockRow(t, n)
    /\ op' = [op EXCEPT ![t] = "delete"]
    /\ node' = [node EXCEPT ![t] = n]
    /\ removed' = [removed EXCEPT ![t] = {n}]
    /\ Goto(t, "cascade")
    /\ UNCHANGED <<tableVars, shared, company, target, rows, gone, fresh>>

\* The row of n, which is not the root (prevent_root_org_unit_delete).
DeleteUnit(t, n) ==
    /\ pc[t] = "idle"
    /\ n # Root
    /\ LockRow(t, n)
    /\ op' = [op EXCEPT ![t] = "delete"]
    /\ node' = [node EXCEPT ![t] = n]
    /\ removed' = [removed EXCEPT ![t] = {n}]
    /\ Goto(t, "cascade")
    /\ UNCHANGED <<tableVars, shared, company, target, rows, gone, fresh>>

Children(us) == {c \in Existing \ us : parent[c] \in us}

\* ON DELETE CASCADE of the parent's foreign key.
DeleteCascade(t) ==
    /\ pc[t] = "cascade"
    /\ \E c \in Children(removed[t]) :
          /\ LockRow(t, c)
          /\ removed' = [removed EXCEPT ![t] = @ \cup {c}]
    /\ UNCHANGED <<tableVars, shared, company, pc, argVars, rows, gone, fresh>>

\* ON DELETE CASCADE of the closure's foreign keys.
DeleteRowsRead(t) ==
    /\ pc[t] = "cascade"
    /\ Children(removed[t]) = {}
    /\ rows' = [rows EXCEPT ![t] =
          {r \in Visible(t) : r.anc \in removed[t] \/ r.desc \in removed[t]}]
    /\ Goto(t, "delete rows")
    /\ UNCHANGED <<tableVars, lockVars, argVars, writeVars>>

DeleteRows(t) ==
    /\ pc[t] = "delete rows"
    /\ DeletesRows(t)
    /\ rows' = [rows EXCEPT ![t] = {}]
    /\ Goto(t, "bump")
    /\ UNCHANGED <<tableVars, lockVars, argVars, fresh, removed>>

-----------------------------------------------------------------------------
Step(t) ==
    \/ Commit(t) \/ Abort(t)
    \/ \E x, p \in Units : InsertUnit(t, x, p) \/ MoveStart(t, x, p)
    \/ BumpEpoch(t) \/ InheritRead(t) \/ Link(t)
    \/ MoveLockNode(t) \/ MoveLockParent(t) \/ MoveCheck(t)
    \/ MoveUnlinkRead(t) \/ MoveUnlink(t) \/ MoveLinkRead(t)
    \/ \E n \in Units : DeleteUnit(t, n)
    \/ DeleteCascade(t) \/ DeleteRowsRead(t) \/ DeleteRows(t)

Next == \E t \in Txs : Step(t)

Spec == Init /\ [][Next]_vars

-----------------------------------------------------------------------------
(* Properties                                                              *)

Tree == INSTANCE AtomicTree WITH Units <- Units, Root <- Root,
            NoUnit <- NoUnit, parent <- parent, closure <- closure

\* The closure table is exactly the tree's: whatever transactions insert, move
\* and delete at once, every unit has the ancestors its parent_ids give it and
\* no others, at their distances, and there is no cycle (a unit on one would
\* be its own ancestor at several depths).
ClosureExact == closure = Tree!ClosureOf(parent)

\* Each committed transaction has done one operation on the tree as it was
\* when it committed: no insert, move or delete was decided on a tree that had
\* changed meanwhile ("the caller sees an abort, not corruption", V012).
ActsAtomically == Tree!Spec
=============================================================================
