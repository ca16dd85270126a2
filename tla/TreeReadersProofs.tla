------------------------- MODULE TreeReadersProofs -------------------------
(***************************************************************************)
(* Proofs about the organisation tree and its readers, for any number of   *)
(* units and transactions: type correctness; that the filter of the vector *)
(* search and the evidence gates decide alike on every set of grants; that *)
(* the closure is exactly the tree's whatever transactions run at once,    *)
(* each of which acts as one operation of AtomicTree; and that the chart   *)
(* of GET /api/orgs/tree is whole.                                         *)
(***************************************************************************)
EXTENDS TreeReaders, FoldFacts, FiniteSetTheorems, TLAPS

-----------------------------------------------------------------------------
(* The inductive invariant                                                 *)

\* The root has no parent, and no transaction is about to give it one or to
\* remove it.
RootInv ==
    /\ parent[Root] = NoUnit
    /\ \A t \in Txs :
          /\ Root \notin removed[t]
          /\ op[t] = "insert" => node[t] \in Units \ {Root}
          /\ op[t] = "move" /\ pc[t] # "node" => node[t] # Root

\* Which operation a transaction at these places runs.
StageInv ==
    \A t \in Txs :
        /\ pc[t] \in {"node", "parent", "check", "unlink read", "unlink", "link read"}
              => op[t] = "move"
        /\ pc[t] = "inherit read" => op[t] = "insert"

\* Every unit is its own ancestor.
SelfRows == \A u \in Existing : Row(u, u, 0) \in closure

\* No transaction takes the row a unit has of itself unless it removes the
\* unit, and one that inserts a unit brings that row along.
SelfInv ==
    \A t \in Txs :
        /\ \A r \in gone[t] : r.anc = r.desc => r.anc \in removed[t]
        /\ pc[t] = "idle" => gone[t] = {}
        /\ pc[t] = "unlink" => \A r \in rows[t] : r.anc # r.desc
        /\ pc[t] = "delete rows" =>
              \A r \in rows[t] : r.anc = r.desc => r.anc \in removed[t]
        /\ pc[t] = "link" /\ op[t] = "insert" =>
              Row(node[t], node[t], 0) \in rows[t]
        /\ pc[t] = "commit" /\ op[t] = "insert" =>
              Row(node[t], node[t], 0) \in fresh[t]

IInv == TypeOK /\ RootInv /\ StageInv /\ SelfRows /\ SelfInv

-----------------------------------------------------------------------------
\* The initial state of a company satisfies the invariant.
LEMMA InitInv == Init => IInv
  <1> SUFFICES ASSUME Init PROVE IInv
    OBVIOUS
  <1> USE ConstantsAssumption DEF Init
  <1>1. TypeOK
    BY DEF TypeOK, Existing, Rows, Row, PCs
  <1>2. RootInv /\ StageInv
    BY DEF RootInv, StageInv
  <1>3. SelfRows /\ SelfInv
    BY DEF SelfRows, SelfInv, Existing
  <1> QED BY <1>1, <1>2, <1>3 DEF IInv

\* A row is built of two units and a natural number.
LEMMA RowType == \A a, d \in Units : \A k \in Nat : Row(a, d, k) \in Rows
  BY DEF Row, Rows

\* What a statement sees are rows.
LEMMA VisibleRows == ASSUME TypeOK, NEW t \in Txs PROVE Visible(t) \in SUBSET Rows
  BY DEF TypeOK, Visible

\* What a new unit inherits are rows.
LEMMA InheritedRows ==
  ASSUME NEW V \in SUBSET Rows, NEW n \in Units, NEW p
  PROVE  {Row(n, n, 0)} \cup
         {Row(r.anc, n, r.depth + 1) : r \in {q \in V : q.desc = p}} \in SUBSET Rows
  <1>1. \A r \in V : r.anc \in Units /\ r.depth + 1 \in Nat
    BY DEF Rows
  <1>2. \A r \in V : Row(r.anc, n, r.depth + 1) \in Rows
    BY <1>1, RowType
  <1>3. Row(n, n, 0) \in Rows
    BY RowType
  <1> QED BY <1>2, <1>3

\* What a move inserts are rows.
LEMMA LinkedRows ==
  ASSUME NEW V \in SUBSET Rows, NEW n, NEW p
  PROVE  SubtreeLinks(V, n, p) \in SUBSET Rows
  <1>1. \A a, d \in V : a.anc \in Units /\ d.desc \in Units
                          /\ a.depth + d.depth + 1 \in Nat
    BY DEF Rows
  <1>2. \A a, d \in V : Row(a.anc, d.desc, a.depth + d.depth + 1) \in Rows
    BY <1>1, RowType
  <1> QED BY <1>2 DEF SubtreeLinks

\* Commit makes a transaction's writes the tables of everybody.
LEMMA InvCommit == ASSUME IInv, NEW t \in Txs, Commit(t) PROVE IInv'
  <1> USE ConstantsAssumption DEF Commit, Ends
  <1>1. TypeOK'
    <2>1. /\ Existing' = (Existing \ removed[t]) \cup
                 (IF op[t] = "insert" THEN {node[t]} ELSE {})
          /\ Root \in Existing' /\ Existing' \subseteq Units
      BY DEF IInv, TypeOK, RootInv, Existing
    <2>2. parent' \in [Existing' -> Units \cup {NoUnit}]
      BY <2>1 DEF IInv, TypeOK, RootInv, Existing
    <2>3. closure' \subseteq Rows
      BY DEF IInv, TypeOK, Visible
    <2>4. rows' \in [Txs -> SUBSET Rows]
      BY DEF IInv, TypeOK
    <2> QED BY <2>1, <2>2, <2>3, <2>4 DEF IInv, TypeOK, PCs
  <1>2. RootInv'
    <2>1. parent'[Root] = NoUnit
      BY DEF IInv, TypeOK, RootInv, Existing
    <2> QED BY <2>1 DEF IInv, TypeOK, RootInv
  <1>3. StageInv'
    BY DEF IInv, TypeOK, StageInv
  <1>4. SelfRows'
    <2> SUFFICES ASSUME NEW u \in Existing' PROVE Row(u, u, 0) \in closure'
      BY DEF SelfRows
    <2>1. CASE u \in Existing \ removed[t]
      <3>1. Row(u, u, 0) \in closure
        BY <2>1 DEF IInv, SelfRows
      <3>2. Row(u, u, 0) \notin gone[t]
        BY <2>1 DEF IInv, SelfInv, Row
      <3> QED BY <3>1, <3>2 DEF Visible
    <2>2. CASE op[t] = "insert" /\ u = node[t]
      BY <2>2 DEF IInv, SelfInv, Visible
    <2> QED BY <2>1, <2>2 DEF Existing
  <1>5. SelfInv'
    BY DEF IInv, TypeOK, SelfInv
  <1> QED BY <1>1, <1>2, <1>3, <1>4, <1>5 DEF IInv

\* A transaction that ends without committing leaves the tables alone.
LEMMA InvAbort == ASSUME IInv, NEW t \in Txs, Abort(t) PROVE IInv'
  <1> USE ConstantsAssumption DEF Abort, Ends, tableVars
  <1>1. TypeOK'
    BY DEF IInv, TypeOK, PCs, Existing
  <1>2. RootInv' /\ StageInv'
    BY DEF IInv, TypeOK, RootInv, StageInv
  <1>3. SelfRows' /\ SelfInv'
    BY DEF IInv, TypeOK, SelfRows, SelfInv, Existing
  <1> QED BY <1>1, <1>2, <1>3 DEF IInv

\* The three statements of an INSERT: the unit, the rows of its ancestors
\* read, and the rows inserted.
LEMMA InvInsert ==
  ASSUME IInv, NEW t \in Txs,
         \/ \E x, p \in Units : InsertUnit(t, x, p)
         \/ BumpEpoch(t) \/ InheritRead(t) \/ Link(t)
  PROVE  IInv'
  <1> USE ConstantsAssumption DEF Goto, tableVars, lockVars, argVars, writeVars
  <1>1. CASE \E x, p \in Units : InsertUnit(t, x, p)
    <2> PICK x \in Units, p \in Units : InsertUnit(t, x, p)
      BY <1>1
    <2> USE DEF InsertUnit
    <2>1. TypeOK'
      BY DEF IInv, TypeOK, PCs, Existing
    <2>2. RootInv' /\ StageInv'
      BY DEF IInv, TypeOK, RootInv, StageInv, Existing
    <2>3. SelfRows' /\ SelfInv'
      BY DEF IInv, TypeOK, SelfRows, SelfInv, Existing
    <2> QED BY <2>1, <2>2, <2>3 DEF IInv
  <1>2. CASE BumpEpoch(t)
    <2> USE <1>2 DEF BumpEpoch
    <2>1. TypeOK'
      BY DEF IInv, TypeOK, PCs, Existing
    <2>2. RootInv' /\ StageInv'
      BY DEF IInv, TypeOK, RootInv, StageInv
    <2>3. SelfRows' /\ SelfInv'
      BY DEF IInv, TypeOK, SelfRows, SelfInv, Existing
    <2> QED BY <2>1, <2>2, <2>3 DEF IInv
  <1>3. CASE InheritRead(t)
    <2> DEFINE new == {Row(node[t], node[t], 0)} \cup
                      {Row(r.anc, node[t], r.depth + 1) :
                          r \in {q \in Visible(t) : q.desc = target[t]}}
    <2>1. /\ pc[t] = "inherit read"
          /\ rows' = [rows EXCEPT ![t] = new]
          /\ pc' = [pc EXCEPT ![t] = "link"]
          /\ UNCHANGED <<parent, closure, exclusive, shared, company, op, node,
                         target, gone, fresh, removed>>
      BY <1>3, Zenon DEF InheritRead, Goto, tableVars, lockVars, argVars, writeVars
    <2>2. op[t] = "insert"
      BY <2>1 DEF IInv, StageInv
    <2>3. Visible(t) \in SUBSET Rows
      BY VisibleRows DEF IInv
    <2>u. node[t] \in Units
      BY <2>2 DEF IInv, RootInv
    <2>4. new \in SUBSET Rows
      BY <2>3, <2>u, InheritedRows, ZenonT(60)
    <2>n. Row(node[t], node[t], 0) \in new
      OBVIOUS
    <2> HIDE DEF new
    <2>5. TypeOK'
      BY <2>1, <2>4 DEF IInv, TypeOK, PCs, Existing
    <2>6. RootInv' /\ StageInv'
      BY <2>1, <2>2 DEF IInv, TypeOK, RootInv, StageInv
    <2>7. SelfRows' /\ SelfInv'
      BY <2>1, <2>2, <2>n DEF IInv, TypeOK, SelfRows, SelfInv, Existing
    <2> QED BY <2>5, <2>6, <2>7 DEF IInv
  <1>4. CASE Link(t)
    <2> USE <1>4 DEF Link, InsertsRows
    <2>1. TypeOK'
      BY DEF IInv, TypeOK, PCs, Existing
    <2>2. RootInv' /\ StageInv'
      BY DEF IInv, TypeOK, RootInv, StageInv
    <2>3. SelfRows' /\ SelfInv'
      BY DEF IInv, TypeOK, SelfRows, SelfInv, Existing
    <2> QED BY <2>1, <2>2, <2>3 DEF IInv
  <1> QED BY <1>1, <1>2, <1>3, <1>4

\* move_org_unit() up to the check for a cycle: locks and tests alone.
LEMMA InvMoveLocks ==
  ASSUME IInv, NEW t \in Txs,
         \/ \E x, p \in Units : MoveStart(t, x, p)
         \/ MoveLockNode(t) \/ MoveLockParent(t) \/ MoveCheck(t)
  PROVE  IInv'
  <1> USE ConstantsAssumption DEF Goto, tableVars, lockVars, argVars, writeVars
  <1>1. CASE \E x, p \in Units : MoveStart(t, x, p)
    <2> PICK x \in Units, p \in Units : MoveStart(t, x, p)
      BY <1>1
    <2> USE DEF MoveStart
    <2>1. TypeOK'
      BY DEF IInv, TypeOK, PCs, Existing
    <2>2. RootInv' /\ StageInv'
      BY DEF IInv, TypeOK, RootInv, StageInv
    <2>3. SelfRows' /\ SelfInv'
      BY DEF IInv, TypeOK, SelfRows, SelfInv, Existing
    <2> QED BY <2>1, <2>2, <2>3 DEF IInv
  <1>2. CASE MoveLockNode(t)
    <2> USE <1>2 DEF MoveLockNode, LockRow
    <2>1. TypeOK'
      BY DEF IInv, TypeOK, PCs, Existing
    <2>2. RootInv' /\ StageInv'
      BY DEF IInv, TypeOK, RootInv, StageInv
    <2>3. SelfRows' /\ SelfInv'
      BY DEF IInv, TypeOK, SelfRows, SelfInv, Existing
    <2> QED BY <2>1, <2>2, <2>3 DEF IInv
  <1>4. CASE MoveLockParent(t)
    <2> USE <1>4 DEF MoveLockParent, LockRow
    <2>1. TypeOK'
      BY DEF IInv, TypeOK, PCs, Existing
    <2>2. RootInv' /\ StageInv'
      BY DEF IInv, TypeOK, RootInv, StageInv
    <2>3. SelfRows' /\ SelfInv'
      BY DEF IInv, TypeOK, SelfRows, SelfInv, Existing
    <2> QED BY <2>1, <2>2, <2>3 DEF IInv
  <1>3. CASE MoveCheck(t)
    <2> USE <1>3 DEF MoveCheck
    <2>1. TypeOK'
      BY DEF IInv, TypeOK, PCs, Existing
    <2>2. RootInv' /\ StageInv'
      BY DEF IInv, TypeOK, RootInv, StageInv
    <2>3. SelfRows' /\ SelfInv'
      BY DEF IInv, TypeOK, SelfRows, SelfInv, Existing
    <2> QED BY <2>1, <2>2, <2>3 DEF IInv
  <1> QED BY <1>1, <1>2, <1>3, <1>4

\* The two statements of move_org_unit() on the closure: what is unlinked has
\* its ancestor outside the subtree and its descendant inside.
LEMMA InvMoveRows ==
  ASSUME IInv, NEW t \in Txs,
         MoveUnlinkRead(t) \/ MoveUnlink(t) \/ MoveLinkRead(t)
  PROVE  IInv'
  <1> USE ConstantsAssumption DEF Goto, tableVars, lockVars, argVars, writeVars
  <1>1. CASE MoveUnlinkRead(t)
    <2> USE <1>1 DEF MoveUnlinkRead
    <2>1. TypeOK'
      BY DEF IInv, TypeOK, PCs, Existing, Visible
    <2>2. RootInv' /\ StageInv'
      BY DEF IInv, TypeOK, RootInv, StageInv
    <2>3. SelfRows' /\ SelfInv'
      BY DEF IInv, TypeOK, SelfRows, SelfInv, Existing
    <2> QED BY <2>1, <2>2, <2>3 DEF IInv
  <1>2. CASE MoveUnlink(t)
    <2> USE <1>2 DEF MoveUnlink, DeletesRows
    <2>1. TypeOK'
      BY DEF IInv, TypeOK, PCs, Existing
    <2>2. RootInv' /\ StageInv'
      BY DEF IInv, TypeOK, RootInv, StageInv
    <2>3. SelfRows' /\ SelfInv'
      BY DEF IInv, TypeOK, SelfRows, SelfInv, Existing
    <2> QED BY <2>1, <2>2, <2>3 DEF IInv
  <1>3. CASE MoveLinkRead(t)
    <2> DEFINE new == SubtreeLinks(Visible(t), node[t], target[t])
    <2>1. /\ pc[t] = "link read"
          /\ rows' = [rows EXCEPT ![t] = new]
          /\ pc' = [pc EXCEPT ![t] = "link"]
          /\ UNCHANGED <<parent, closure, exclusive, shared, company, op, node,
                         target, gone, fresh, removed>>
      BY <1>3, Zenon DEF MoveLinkRead, Goto, tableVars, lockVars, argVars, writeVars
    <2>2. op[t] = "move"
      BY <2>1 DEF IInv, StageInv
    <2>3. Visible(t) \in SUBSET Rows
      BY VisibleRows DEF IInv
    <2>4. new \in SUBSET Rows
      BY <2>3, LinkedRows
    <2> HIDE DEF new
    <2>5. TypeOK'
      BY <2>1, <2>4 DEF IInv, TypeOK, PCs, Existing
    <2>6. RootInv' /\ StageInv'
      BY <2>1, <2>2 DEF IInv, TypeOK, RootInv, StageInv
    <2>7. SelfRows' /\ SelfInv'
      BY <2>1, <2>2 DEF IInv, TypeOK, SelfRows, SelfInv, Existing
    <2> QED BY <2>5, <2>6, <2>7 DEF IInv
  <1> QED BY <1>1, <1>2, <1>3

\* DELETE with its cascades: the root is no one's child.
LEMMA InvDelete ==
  ASSUME IInv, NEW t \in Txs,
         \/ \E n \in Units : DeleteUnit(t, n)
         \/ DeleteCascade(t) \/ DeleteRowsRead(t) \/ DeleteRows(t)
  PROVE  IInv'
  <1> USE ConstantsAssumption DEF Goto, tableVars, lockVars, argVars, writeVars
  <1>1. CASE \E n \in Units : DeleteUnit(t, n)
    <2> PICK n \in Units : DeleteUnit(t, n)
      BY <1>1
    <2> USE DEF DeleteUnit, LockRow
    <2>1. TypeOK'
      BY DEF IInv, TypeOK, PCs, Existing
    <2>2. RootInv' /\ StageInv'
      BY DEF IInv, TypeOK, RootInv, StageInv
    <2>3. SelfRows' /\ SelfInv'
      BY DEF IInv, TypeOK, SelfRows, SelfInv, Existing
    <2> QED BY <2>1, <2>2, <2>3 DEF IInv
  <1>2. CASE DeleteCascade(t)
    <2> PICK c \in Children(removed[t]) :
              LockRow(t, c) /\ removed' = [removed EXCEPT ![t] = @ \cup {c}]
      BY <1>2 DEF DeleteCascade
    <2>c. /\ pc[t] = "cascade"
          /\ exclusive' = [exclusive EXCEPT ![c] = t]
          /\ UNCHANGED <<parent, closure, shared, company, pc, op, node, target,
                         rows, gone, fresh>>
      BY <1>2 DEF DeleteCascade, LockRow
    <2> USE <2>c
    <2>1. c \in Units /\ c # Root
      BY DEF IInv, TypeOK, RootInv, Children
    <2>2. TypeOK'
      BY <2>1 DEF IInv, TypeOK, PCs, Existing
    <2>3. RootInv' /\ StageInv'
      BY <2>1 DEF IInv, TypeOK, RootInv, StageInv
    <2>p. \A o \in Txs : removed[o] \subseteq removed'[o]
      BY DEF IInv, TypeOK
    <2>4. SelfRows' /\ SelfInv'
      BY <2>p DEF IInv, TypeOK, SelfRows, SelfInv, Existing
    <2> QED BY <2>2, <2>3, <2>4 DEF IInv
  <1>3. CASE DeleteRowsRead(t)
    <2> USE <1>3 DEF DeleteRowsRead
    <2>1. TypeOK'
      BY DEF IInv, TypeOK, PCs, Existing, Visible
    <2>2. RootInv' /\ StageInv'
      BY DEF IInv, TypeOK, RootInv, StageInv
    <2>3. SelfRows' /\ SelfInv'
      BY DEF IInv, TypeOK, SelfRows, SelfInv, Existing
    <2> QED BY <2>1, <2>2, <2>3 DEF IInv
  <1>4. CASE DeleteRows(t)
    <2> USE <1>4 DEF DeleteRows, DeletesRows
    <2>1. TypeOK'
      BY DEF IInv, TypeOK, PCs, Existing
    <2>2. RootInv' /\ StageInv'
      BY DEF IInv, TypeOK, RootInv, StageInv
    <2>3. SelfRows' /\ SelfInv'
      BY DEF IInv, TypeOK, SelfRows, SelfInv, Existing
    <2> QED BY <2>1, <2>2, <2>3 DEF IInv
  <1> QED BY <1>1, <1>2, <1>3, <1>4

\* Every step preserves the invariant.
LEMMA NextInv == IInv /\ [Next]_vars => IInv'
  <1> SUFFICES ASSUME IInv, [Next]_vars PROVE IInv'
    OBVIOUS
  <1>1. CASE UNCHANGED vars
    BY <1>1 DEF IInv, TypeOK, RootInv, StageInv, SelfRows, SelfInv, Existing,
                vars, tableVars, lockVars, argVars, writeVars
  <1>2. CASE Next
    <2> PICK t \in Txs : Step(t)
      BY <1>2 DEF Next
    <2> QED BY InvCommit, InvAbort, InvInsert, InvMoveLocks, InvMoveRows,
               InvDelete DEF Step
  <1> QED BY <1>1, <1>2

\* The invariant holds in every behaviour.
THEOREM InvHolds == Spec => []IInv
  BY InitInv, NextInv, PTL DEF Spec

-----------------------------------------------------------------------------
(* Theorems                                                                *)

\* The tables, the locks and what transactions have in hand have their types;
\* the root stays.
THEOREM TreeTypeCorrect == Spec => []TypeOK
  <1>1. IInv => TypeOK
    BY DEF IInv
  <1> QED BY <1>1, InvHolds, PTL

\* A grant lets a scope in by expanding downwards from its principal exactly
\* when it does by looking upwards from the scope.
LEMMA PrincipalsMeet ==
  ASSUME SelfRows, NEW g \in Grants, NEW scope \in SUBSET Existing
  PROVE  Principals(g) \cap scope # {} <=>
            g.principal \in (IF g.deep THEN GrantKeys(scope) ELSE scope)
  <1>1. CASE ~g.deep
    BY <1>1 DEF Principals
  <1>2. CASE g.deep
    <2>1. ASSUME Principals(g) \cap scope # {} PROVE g.principal \in GrantKeys(scope)
      BY <1>2, <2>1 DEF Principals, GrantKeys
    <2>2. ASSUME g.principal \in GrantKeys(scope) PROVE Principals(g) \cap scope # {}
      <3>1. CASE g.principal \in scope
        <4>1. Row(g.principal, g.principal, 0) \in closure
          BY <3>1 DEF SelfRows
        <4>2. g.principal \in Principals(g)
          BY <1>2, <4>1 DEF Principals, Row
        <4> QED BY <3>1, <4>2
      <3>2. CASE g.principal \notin scope
        BY <1>2, <2>2, <3>2 DEF Principals, GrantKeys
      <3> QED BY <3>1, <3>2
    <2> QED BY <1>2, <2>1, <2>2
  <1> QED BY <1>1, <1>2 DEF Grants

\* The set-algebra contract for every set of grants.
LEMMA AgreeAlways ==
  ASSUME SelfRows, NEW owner \in Existing, NEW gs \in SUBSET Grants,
         NEW scope \in SUBSET Existing
  PROVE  Agree(owner, gs, scope)
  <1>1. ASSUME FetchAccessScopes(owner, gs) \cap scope # {}
        PROVE  VisibleDoc(owner, gs, scope)
    <2> PICK u \in scope : u \in FetchAccessScopes(owner, gs)
      BY <1>1
    <2>1. CASE u = owner
      BY <2>1 DEF VisibleDoc
    <2>2. CASE \E g \in gs : Covers(g, owner) /\ u \in Principals(g)
      <3> PICK g \in gs : Covers(g, owner) /\ u \in Principals(g)
        BY <2>2
      <3>1. g.principal \in (IF g.deep THEN GrantKeys(scope) ELSE scope)
        BY PrincipalsMeet
      <3> QED BY <3>1 DEF VisibleDoc
    <2> QED BY <2>1, <2>2 DEF FetchAccessScopes
  <1>2. ASSUME VisibleDoc(owner, gs, scope)
        PROVE  FetchAccessScopes(owner, gs) \cap scope # {}
    <2>1. CASE owner \in scope
      BY <2>1 DEF FetchAccessScopes
    <2>2. CASE owner \notin scope
      <3> PICK g \in gs : /\ Covers(g, owner)
                          /\ g.principal \in (IF g.deep THEN GrantKeys(scope) ELSE scope)
        BY <1>2, <2>2 DEF VisibleDoc
      <3>1. Principals(g) \cap scope # {}
        BY PrincipalsMeet
      <3>2. Principals(g) \subseteq FetchAccessScopes(owner, gs)
        BY DEF FetchAccessScopes
      <3> QED BY <3>1, <3>2
    <2> QED BY <2>1, <2>2
  <1> QED BY <1>1, <1>2 DEF Agree

\* The filter of the vector search and wikore_visible_doc_ids() agree at all
\* times, also while transactions are under way, on every set of grants and
\* every scope of existing units.
ContractHolds ==
    \A owner \in Existing, gs \in SUBSET Grants, scope \in SUBSET Existing :
        Agree(owner, gs, scope)

\* The set-algebra contract of document_repo.cpp and V038, whatever is
\* inserted, moved and deleted at once: it needs no more of the closure than
\* that every unit has a row of itself.
THEOREM SetAlgebraContract == Spec => []ContractHolds
  <1>1. IInv => ContractHolds
    BY AgreeAlways DEF IInv, ContractHolds
  <1> QED BY <1>1, InvHolds, PTL

\* The property the run checks, with at most one grant at a time.
THEOREM ScopesAlwaysAgree == Spec => []ScopesAgree
  <1>1. IInv => ScopesAgree
    BY AgreeAlways DEF IInv, ScopesAgree
  <1> QED BY <1>1, InvHolds, PTL

-----------------------------------------------------------------------------
(* Trees and their closures                                                *)

\* C has a at distance k above u.
Has(C, a, u, k) == Row(a, u, k) \in C
Anc(C, a, u) == \E k \in Nat : Has(C, a, u, k)

\* The closure step by step: the unit itself, and what its parent has, one
\* step further away.
Refl(par, C) == \A u \in DOMAIN par : Has(C, u, u, 0)
Within(par, C) ==
    \A a, u \in Units, k \in Nat : Has(C, a, u, k) => a \in DOMAIN par /\ u \in DOMAIN par
Upward(par, C) ==
    \A a, u \in Units, k \in Nat :
        Has(C, a, u, k) => \/ k = 0 /\ a = u
                           \/ k > 0 /\ par[u] \in DOMAIN par /\ Has(C, a, par[u], k - 1)
Downward(par, C) ==
    \A a \in Units, u \in DOMAIN par, k \in Nat :
        par[u] \in DOMAIN par /\ Has(C, a, par[u], k) => Has(C, a, u, k + 1)
Unique(C) ==
    \A a, u \in Units, k, j \in Nat : Has(C, a, u, k) /\ Has(C, a, u, j) => k = j

\* par is a tree below the root.
Parents(par) ==
    /\ Root \in DOMAIN par
    /\ DOMAIN par \subseteq Units
    /\ IsFiniteSet(DOMAIN par)
    /\ par[Root] = NoUnit
    /\ \A u \in DOMAIN par : u # Root => par[u] \in DOMAIN par
Rooted(par, C) == \A u \in DOMAIN par : Anc(C, Root, u)

Exact(par, C) ==
    /\ C \subseteq Rows
    /\ Parents(par) /\ Rooted(par, C)
    /\ Refl(par, C) /\ Within(par, C) /\ Upward(par, C) /\ Downward(par, C) /\ Unique(C)

\* A row of C is what C has of its units and distance.
LEMMA RowHas ==
  ASSUME NEW C \in SUBSET Rows, NEW r \in C
  PROVE  /\ r.anc \in Units /\ r.desc \in Units /\ r.depth \in Nat
         /\ Has(C, r.anc, r.desc, r.depth)
  <1>1. r \in Rows
    OBVIOUS
  <1>2. r = Row(r.anc, r.desc, r.depth)
    BY <1>1 DEF Row, Rows
  <1> QED BY <1>1, <1>2 DEF Has, Rows

\* The parts of a row.
LEMMA RowParts ==
  ASSUME NEW a, NEW u, NEW k
  PROVE  Row(a, u, k).anc = a /\ Row(a, u, k).desc = u /\ Row(a, u, k).depth = k
  BY DEF Row

\* Two sets of rows that have the same are the same.
LEMMA SameRows ==
  ASSUME NEW C \in SUBSET Rows, NEW D \in SUBSET Rows,
         \A a, u \in Units, k \in Nat : Has(C, a, u, k) <=> Has(D, a, u, k)
  PROVE  C = D
  <1>1. \A r \in Rows : /\ r = Row(r.anc, r.desc, r.depth)
                        /\ r.anc \in Units /\ r.desc \in Units /\ r.depth \in Nat
    BY DEF Row, Rows
  <1>2. ASSUME NEW r \in Rows PROVE r \in C <=> r \in D
    BY <1>1 DEF Has
  <1> QED BY <1>2

\* An ancestor's ancestor is an ancestor, at the sum of the distances.
LEMMA Transitive ==
  ASSUME NEW par, NEW C, Exact(par, C)
  PROVE  \A k \in Nat : \A a, b, u \in Units, j \in Nat :
            Has(C, a, b, j) /\ Has(C, b, u, k) => Has(C, a, u, j + k)
  <1> DEFINE S == {k \in Nat : \A a, b, u \in Units, j \in Nat :
                     Has(C, a, b, j) /\ Has(C, b, u, k) => Has(C, a, u, j + k)}
  <1>1. 0 \in S
    BY DEF Exact, Upward
  <1>2. ASSUME NEW k \in Nat, k \in S PROVE k + 1 \in S
    <2> SUFFICES ASSUME NEW a \in Units, NEW b \in Units, NEW u \in Units, NEW j \in Nat,
                        Has(C, a, b, j), Has(C, b, u, k + 1)
                 PROVE  Has(C, a, u, j + (k + 1))
      OBVIOUS
    <2>1. par[u] \in DOMAIN par /\ Has(C, b, par[u], k)
      BY DEF Exact, Upward
    <2>2. u \in DOMAIN par /\ par[u] \in Units
      BY <2>1 DEF Exact, Within, Parents
    <2>3. Has(C, a, par[u], j + k)
      BY <1>2, <2>1, <2>2
    <2>4. Has(C, a, u, (j + k) + 1)
      BY <2>1, <2>2, <2>3 DEF Exact, Downward
    <2>5. (j + k) + 1 = j + (k + 1)
      OBVIOUS
    <2> QED BY <2>4, <2>5
  <1> HIDE DEF S
  <1>3. Nat \subseteq S
    BY <1>1, <1>2, SetInduction
  <1> QED BY <1>3 DEF S

\* Of two ancestors of a unit the nearer one is below the other.
LEMMA Linear ==
  ASSUME NEW par, NEW C, Exact(par, C)
  PROVE  \A j \in Nat : \A a, b, u \in Units, k \in Nat :
            Has(C, a, u, j) /\ Has(C, b, u, k) /\ j <= k => Has(C, b, a, k - j)
  <1> DEFINE S == {j \in Nat : \A a, b, u \in Units, k \in Nat :
                     Has(C, a, u, j) /\ Has(C, b, u, k) /\ j <= k => Has(C, b, a, k - j)}
  <1>1. 0 \in S
    BY DEF Exact, Upward
  <1>2. ASSUME NEW j \in Nat, j \in S PROVE j + 1 \in S
    <2> SUFFICES ASSUME NEW a \in Units, NEW b \in Units, NEW u \in Units, NEW k \in Nat,
                        Has(C, a, u, j + 1), Has(C, b, u, k), j + 1 <= k
                 PROVE  Has(C, b, a, k - (j + 1))
      OBVIOUS
    <2>1. par[u] \in DOMAIN par /\ Has(C, a, par[u], j)
      BY DEF Exact, Upward
    <2>2. Has(C, b, par[u], k - 1)
      BY DEF Exact, Upward
    <2>3. par[u] \in Units /\ k - 1 \in Nat /\ j <= k - 1
      BY <2>1 DEF Exact, Parents
    <2>4. Has(C, b, a, (k - 1) - j)
      BY <1>2, <2>1, <2>2, <2>3
    <2>5. (k - 1) - j = k - (j + 1)
      OBVIOUS
    <2> QED BY <2>4, <2>5
  <1> HIDE DEF S
  <1>3. Nat \subseteq S
    BY <1>1, <1>2, SetInduction
  <1> QED BY <1>3 DEF S

\* The same without distances, and no two units are above each other.
LEMMA Order ==
  ASSUME NEW par, NEW C, Exact(par, C)
  PROVE  /\ \A a, b, u \in Units : Anc(C, a, b) /\ Anc(C, b, u) => Anc(C, a, u)
         /\ \A a, b, u \in Units : Anc(C, a, u) /\ Anc(C, b, u) => Anc(C, a, b) \/ Anc(C, b, a)
         /\ \A a, b \in Units : Anc(C, a, b) /\ Anc(C, b, a) => a = b
  <1>1. ASSUME NEW a \in Units, NEW b \in Units, NEW u \in Units, Anc(C, a, b), Anc(C, b, u)
        PROVE  Anc(C, a, u)
    <2> PICK j \in Nat : Has(C, a, b, j)
      BY <1>1 DEF Anc
    <2> PICK k \in Nat : Has(C, b, u, k)
      BY <1>1 DEF Anc
    <2>1. Has(C, a, u, j + k) /\ j + k \in Nat
      BY Transitive
    <2> QED BY <2>1 DEF Anc
  <1>2. ASSUME NEW a \in Units, NEW b \in Units, NEW u \in Units, Anc(C, a, u), Anc(C, b, u)
        PROVE  Anc(C, a, b) \/ Anc(C, b, a)
    <2> PICK j \in Nat : Has(C, a, u, j)
      BY <1>2 DEF Anc
    <2> PICK k \in Nat : Has(C, b, u, k)
      BY <1>2 DEF Anc
    <2>1. CASE j <= k
      <3>1. Has(C, b, a, k - j) /\ k - j \in Nat
        BY <2>1, Linear
      <3> QED BY <3>1 DEF Anc
    <2>2. CASE k <= j
      <3>1. Has(C, a, b, j - k) /\ j - k \in Nat
        BY <2>2, Linear
      <3> QED BY <3>1 DEF Anc
    <2> QED BY <2>1, <2>2
  <1>3. ASSUME NEW a \in Units, NEW b \in Units, Anc(C, a, b), Anc(C, b, a)
        PROVE  a = b
    <2> PICK j \in Nat : Has(C, a, b, j)
      BY <1>3 DEF Anc
    <2> PICK k \in Nat : Has(C, b, a, k)
      BY <1>3 DEF Anc
    <2>1. Has(C, a, a, j + k) /\ j + k \in Nat
      BY Transitive
    <2>2. Has(C, a, a, 0)
      BY DEF Exact, Refl, Within
    <2>3. j + k = 0
      BY <2>1, <2>2 DEF Exact, Unique
    <2>4. j = 0
      BY <2>3
    <2> QED BY <2>4 DEF Exact, Upward
  <1> QED BY <1>1, <1>2, <1>3

-----------------------------------------------------------------------------
(* What the operations do to a closure                                     *)

\* The units below n, the rows into that subtree from outside, the rows of
\* units that go, and the rows a new unit has.
Under(C, n) == {r.desc : r \in {q \in C : q.anc = n}}
Outside(C, n) == {r \in C : r.desc \in Under(C, n) /\ r.anc \notin Under(C, n)}
Touching(C, R) == {r \in C : r.anc \in R \/ r.desc \in R}
Inherited(C, x, p) ==
    {Row(x, x, 0)} \cup {Row(r.anc, x, r.depth + 1) : r \in {q \in C : q.desc = p}}

\* The units below n are those that have n above them.
LEMMA UnderHas ==
  ASSUME NEW C \in SUBSET Rows, NEW n \in Units, NEW u
  PROVE  u \in Under(C, n) <=> u \in Units /\ Anc(C, n, u)
  <1>1. ASSUME u \in Under(C, n) PROVE u \in Units /\ Anc(C, n, u)
    <2> PICK r \in C : r.anc = n /\ r.desc = u
      BY <1>1 DEF Under
    <2> QED BY RowHas DEF Anc
  <1>2. ASSUME u \in Units, Anc(C, n, u) PROVE u \in Under(C, n)
    <2> PICK k \in Nat : Row(n, u, k) \in C
      BY <1>2 DEF Anc, Has
    <2> QED BY RowParts DEF Under
  <1> QED BY <1>1, <1>2

\* What a move deletes, by distances.
LEMMA OutsideHas ==
  ASSUME NEW C \in SUBSET Rows, NEW n \in Units,
         NEW a \in Units, NEW u \in Units, NEW k \in Nat
  PROVE  Has(Outside(C, n), a, u, k) <=>
            Has(C, a, u, k) /\ Anc(C, n, u) /\ ~Anc(C, n, a)
  BY RowParts, UnderHas DEF Outside, Has

\* What a delete takes along, by distances.
LEMMA TouchingHas ==
  ASSUME NEW C \in SUBSET Rows, NEW R, NEW a \in Units, NEW u \in Units, NEW k \in Nat
  PROVE  Has(Touching(C, R), a, u, k) <=> Has(C, a, u, k) /\ (a \in R \/ u \in R)
  BY RowParts DEF Touching, Has

\* Rows with the same parts are the same.
LEMMA RowEqual ==
  ASSUME NEW a, NEW u, NEW k, NEW b, NEW v, NEW j
  PROVE  Row(a, u, k) = Row(b, v, j) <=> a = b /\ u = v /\ k = j
  BY RowParts

\* A new unit has itself, and what its parent has one step further away.
LEMMA InheritedHas ==
  ASSUME NEW C \in SUBSET Rows, NEW x \in Units, NEW p \in Units,
         NEW a \in Units, NEW u \in Units, NEW k \in Nat
  PROVE  Has(Inherited(C, x, p), a, u, k) <=>
            /\ u = x
            /\ \/ a = x /\ k = 0
               \/ k > 0 /\ Has(C, a, p, k - 1)
  <1>1. ASSUME Has(Inherited(C, x, p), a, u, k), ~(u = x /\ a = x /\ k = 0)
        PROVE  u = x /\ k > 0 /\ Has(C, a, p, k - 1)
    <2>0. Row(a, u, k) \in Inherited(C, x, p) /\ Row(a, u, k) # Row(x, x, 0)
      BY <1>1, RowEqual DEF Has
    <2> PICK r \in C : r.desc = p /\ Row(a, u, k) = Row(r.anc, x, r.depth + 1)
      BY <2>0 DEF Inherited
    <2>1. a = r.anc /\ u = x /\ k = r.depth + 1
      BY RowEqual
    <2>2. Has(C, r.anc, p, r.depth) /\ r.depth \in Nat
      BY RowHas
    <2>3. k > 0 /\ k - 1 = r.depth
      BY <2>1, <2>2
    <2> QED BY <2>1, <2>2, <2>3
  <1>2. ASSUME u = x, a = x, k = 0 PROVE Has(Inherited(C, x, p), a, u, k)
    BY <1>2 DEF Inherited, Has
  <1>3. ASSUME u = x, k > 0, Has(C, a, p, k - 1) PROVE Has(Inherited(C, x, p), a, u, k)
    <2>1. Row(a, p, k - 1) \in C /\ (k - 1) + 1 = k
      BY <1>3 DEF Has
    <2>2. Row(a, x, k) \in Inherited(C, x, p)
      <3> DEFINE q == Row(a, p, k - 1)
      <3>1. q \in C /\ q.desc = p /\ q.anc = a /\ q.depth + 1 = k
        BY <2>1, RowParts
      <3> HIDE DEF q
      <3> QED BY <3>1 DEF Inherited
    <2> QED BY <1>3, <2>2 DEF Has
  <1> QED BY <1>1, <1>2, <1>3

\* What a move inserts, by distances: from above p over n down to u.
LEMMA LinksHas ==
  ASSUME NEW C \in SUBSET Rows, NEW n \in Units, NEW p \in Units,
         NEW a \in Units, NEW u \in Units, NEW k \in Nat
  PROVE  Has(SubtreeLinks(C, n, p), a, u, k) <=>
            \E i, j \in Nat : Has(C, a, p, i) /\ Has(C, n, u, j) /\ k = i + j + 1
  <1>1. ASSUME Has(SubtreeLinks(C, n, p), a, u, k)
        PROVE  \E i, j \in Nat : Has(C, a, p, i) /\ Has(C, n, u, j) /\ k = i + j + 1
    <2> PICK r \in C, s \in C : /\ r.desc = p /\ s.anc = n
                                /\ Row(a, u, k) = Row(r.anc, s.desc, r.depth + s.depth + 1)
      BY <1>1 DEF SubtreeLinks, Has
    <2>1. a = r.anc /\ u = s.desc /\ k = r.depth + s.depth + 1
      BY RowEqual
    <2>2. /\ Has(C, r.anc, p, r.depth) /\ r.depth \in Nat
          /\ Has(C, n, s.desc, s.depth) /\ s.depth \in Nat
      BY RowHas
    <2> QED BY <2>1, <2>2
  <1>2. ASSUME NEW i \in Nat, NEW j \in Nat, Has(C, a, p, i), Has(C, n, u, j), k = i + j + 1
        PROVE  Has(SubtreeLinks(C, n, p), a, u, k)
    <2> DEFINE r == Row(a, p, i)
               s == Row(n, u, j)
    <2>1. /\ r \in C /\ r.desc = p /\ r.anc = a /\ r.depth = i
          /\ s \in C /\ s.anc = n /\ s.desc = u /\ s.depth = j
      BY <1>2, RowParts DEF Has
    <2> HIDE DEF r, s
    <2>2. Row(r.anc, s.desc, r.depth + s.depth + 1) \in SubtreeLinks(C, n, p)
      BY <2>1 DEF SubtreeLinks
    <2> QED BY <1>2, <2>1, <2>2 DEF Has
  <1> QED BY <1>1, <1>2

\* Rows deleted and rows inserted, one distance at a time.
LEMMA SetHas ==
  ASSUME NEW C, NEW G, NEW F, NEW a, NEW u, NEW k
  PROVE  Has((C \ G) \cup F, a, u, k) <=> (Has(C, a, u, k) /\ ~Has(G, a, u, k)) \/ Has(F, a, u, k)
  BY DEF Has

-----------------------------------------------------------------------------
(* The operations keep a closure exact                                     *)

\* parent_id after an insert and after a delete.
Grafted(par, x, p) == [u \in DOMAIN par \cup {x} |-> IF u = x THEN p ELSE par[u]]
Pruned(par, R) == [u \in DOMAIN par \ R |-> par[u]]

\* INSERT with org_unit_closure_on_insert().
LEMMA InsertExact ==
  ASSUME NEW par, NEW C, Exact(par, C), NEW x \in Units \ DOMAIN par, NEW p \in DOMAIN par
  PROVE  Exact(Grafted(par, x, p), C \cup Inherited(C, x, p))
  <1> DEFINE new == Grafted(par, x, p)
             I == Inherited(C, x, p)
             D == C \cup I
  <1>u. C \in SUBSET Rows /\ p \in Units /\ DOMAIN par \subseteq Units
    BY DEF Exact, Parents
  <1>r. I \in SUBSET Rows
    BY <1>u, InheritedRows DEF Inherited
  <1>h. \A a, u \in Units, k \in Nat : Has(D, a, u, k) <=>
           Has(C, a, u, k) \/ (u = x /\ ((a = x /\ k = 0) \/ (k > 0 /\ Has(C, a, p, k - 1))))
    BY <1>u, InheritedHas DEF Has
  <1>d. DOMAIN new = DOMAIN par \cup {x} /\ new[x] = p /\ \A u \in DOMAIN par : new[u] = par[u]
    BY DEF Grafted
  <1>c. \A a, u \in Units, k \in Nat : Has(C, a, u, k) => a # x /\ u # x
    BY DEF Exact, Within
  <1>s. D \subseteq Rows
    BY <1>u, <1>r
  <1> HIDE DEF new, I, D
  <1>1. Parents(new)
    <2>1. IsFiniteSet(DOMAIN new)
      BY <1>d, FS_AddElement DEF Exact, Parents
    <2> QED BY <1>d, <2>1 DEF Exact, Parents
  <1>2. Refl(new, D)
    BY <1>d, <1>h, <1>u DEF Refl, Exact
  <1>3. Within(new, D)
    BY <1>d, <1>h, <1>u DEF Within, Exact
  <1>4. Upward(new, D)
    <2> SUFFICES ASSUME NEW a \in Units, NEW u \in Units, NEW k \in Nat, Has(D, a, u, k)
                 PROVE  \/ k = 0 /\ a = u
                        \/ k > 0 /\ new[u] \in DOMAIN new /\ Has(D, a, new[u], k - 1)
      BY DEF Upward
    <2>1. CASE Has(C, a, u, k)
      <3>1. u \in DOMAIN par
        BY <2>1 DEF Exact, Within
      <3> QED BY <2>1, <3>1, <1>d, <1>h, <1>u DEF Exact, Upward, Within
    <2>2. CASE u = x /\ k > 0 /\ Has(C, a, p, k - 1)
      BY <2>2, <1>d, <1>h, <1>u
    <2> QED BY <2>1, <2>2, <1>h
  <1>5. Downward(new, D)
    <2> SUFFICES ASSUME NEW a \in Units, NEW u \in DOMAIN new, NEW k \in Nat,
                        new[u] \in DOMAIN new, Has(D, a, new[u], k)
                 PROVE  Has(D, a, u, k + 1)
      BY DEF Downward
    <2>1. CASE u = x
      <3>1. Has(C, a, p, k)
        BY <2>1, <1>d, <1>h, <1>u
      <3> QED BY <2>1, <3>1, <1>h
    <2>2. CASE u \in DOMAIN par
      <3>1. new[u] = par[u] /\ u # x
        BY <2>2, <1>d
      <3>2. par[u] \in DOMAIN par
        BY <2>2, <3>1, ConstantsAssumption, <1>d, <1>u DEF Exact, Parents
      <3>3. Has(C, a, par[u], k)
        BY <3>1, <3>2, <1>h, <1>u
      <3> QED BY <2>2, <3>2, <3>3, <1>h, <1>u DEF Exact, Downward
    <2> QED BY <2>1, <2>2, <1>d
  <1>6. Unique(D)
    BY <1>h, <1>c, <1>u DEF Exact, Unique
  <1>7. Rooted(new, D)
    <2> SUFFICES ASSUME NEW u \in DOMAIN new PROVE Anc(D, Root, u)
      BY DEF Rooted
    <2>0. Root \in Units
      BY ConstantsAssumption
    <2>1. CASE u = x
      <3> PICK k \in Nat : Has(C, Root, p, k)
        BY DEF Exact, Rooted, Anc
      <3>1. Has(D, Root, x, k + 1)
        BY <1>h, <2>0
      <3> QED BY <2>1, <3>1 DEF Anc
    <2>2. CASE u \in DOMAIN par
      <3> PICK k \in Nat : Has(C, Root, u, k)
        BY <2>2 DEF Exact, Rooted, Anc
      <3>1. Has(D, Root, u, k)
        BY <1>h, <2>0, <2>2, <1>u
      <3> QED BY <3>1 DEF Anc
    <2> QED BY <2>1, <2>2, <1>d
  <1>8. Exact(new, D)
    BY <1>1, <1>2, <1>3, <1>4, <1>5, <1>6, <1>7, <1>s DEF Exact
  <1> QED BY <1>8 DEF new, D, I

\* DELETE with its cascades.
LEMMA DeleteExact ==
  ASSUME NEW par, NEW C, Exact(par, C), NEW R \in SUBSET (DOMAIN par \ {Root}),
         \A c \in DOMAIN par \ R : par[c] \notin R
  PROVE  /\ Exact(Pruned(par, R), C \ Touching(C, R))
         /\ \A a, u \in Units : Anc(C, a, u) /\ a \in R => u \in R
  <1> DEFINE new == Pruned(par, R)
             D == C \ Touching(C, R)
  <1>u. C \in SUBSET Rows /\ DOMAIN par \subseteq Units /\ Root \in Units
    BY ConstantsAssumption DEF Exact, Parents
  <1>h. \A a, u \in Units, k \in Nat : Has(D, a, u, k) <=>
           Has(C, a, u, k) /\ a \notin R /\ u \notin R
    BY <1>u, TouchingHas DEF Has
  <1>d. DOMAIN new = DOMAIN par \ R /\ \A u \in DOMAIN new : new[u] = par[u]
    BY DEF Pruned
  <1>s. D \subseteq Rows
    BY <1>u
  <1> HIDE DEF new, D
  \* Who is below a unit that goes, goes.
  <1>c. \A k \in Nat : \A a, u \in Units : Has(C, a, u, k) /\ a \in R => u \in R
    <2> DEFINE S == {k \in Nat : \A a, u \in Units : Has(C, a, u, k) /\ a \in R => u \in R}
    <2>1. 0 \in S
      BY DEF Exact, Upward
    <2>2. ASSUME NEW k \in Nat, k \in S PROVE k + 1 \in S
      <3> SUFFICES ASSUME NEW a \in Units, NEW u \in Units, Has(C, a, u, k + 1), a \in R
                   PROVE  u \in R
        OBVIOUS
      <3>1. par[u] \in DOMAIN par /\ Has(C, a, par[u], k) /\ u \in DOMAIN par
        BY DEF Exact, Upward, Within
      <3>2. par[u] \in R
        BY <2>2, <3>1, <1>u
      <3> QED BY <3>1, <3>2
    <2> HIDE DEF S
    <2>3. Nat \subseteq S
      BY <2>1, <2>2, SetInduction
    <2> QED BY <2>3 DEF S
  <1>1. Parents(new)
    <2>1. IsFiniteSet(DOMAIN new)
      <3>1. IsFiniteSet(DOMAIN par) /\ DOMAIN new \subseteq DOMAIN par
        BY <1>d DEF Exact, Parents
      <3> QED BY <3>1, FS_Subset
    <2> QED BY <1>d, <2>1 DEF Exact, Parents
  <1>2. Refl(new, D)
    BY <1>d, <1>h, <1>u DEF Refl, Exact
  <1>3. Within(new, D)
    BY <1>d, <1>h, <1>u DEF Within, Exact
  <1>4. Upward(new, D)
    <2> SUFFICES ASSUME NEW a \in Units, NEW u \in Units, NEW k \in Nat, Has(D, a, u, k)
                 PROVE  \/ k = 0 /\ a = u
                        \/ k > 0 /\ new[u] \in DOMAIN new /\ Has(D, a, new[u], k - 1)
      BY DEF Upward
    <2>1. Has(C, a, u, k) /\ a \notin R /\ u \in DOMAIN par \ R
      BY <1>h DEF Exact, Within
    <2> QED BY <2>1, <1>d, <1>h, <1>u DEF Exact, Upward
  <1>5. Downward(new, D)
    BY <1>d, <1>h, <1>u, <1>c DEF Exact, Downward
  <1>6. Unique(D)
    BY <1>h DEF Exact, Unique
  <1>7. Rooted(new, D)
    <2> SUFFICES ASSUME NEW u \in DOMAIN new PROVE Anc(D, Root, u)
      BY DEF Rooted
    <2> PICK k \in Nat : Has(C, Root, u, k)
      BY <1>d DEF Exact, Rooted, Anc
    <2>1. Has(D, Root, u, k)
      BY <1>h, <1>d, <1>u
    <2> QED BY <2>1 DEF Anc
  <1>8. Exact(new, D)
    BY <1>1, <1>2, <1>3, <1>4, <1>5, <1>6, <1>7, <1>s DEF Exact
  <1>9. \A a, u \in Units : Anc(C, a, u) /\ a \in R => u \in R
    BY <1>c DEF Anc
  <1> QED BY <1>8, <1>9 DEF new, D

\* move_org_unit().
LEMMA MoveExact ==
  ASSUME NEW par, NEW C, Exact(par, C), NEW n \in DOMAIN par \ {Root}, NEW p \in DOMAIN par,
         ~Anc(C, n, p)
  PROVE  Exact([par EXCEPT ![n] = p], (C \ Outside(C, n)) \cup SubtreeLinks(C, n, p))
  <1> DEFINE new == [par EXCEPT ![n] = p]
             D == (C \ Outside(C, n)) \cup SubtreeLinks(C, n, p)
             Linked(a, u, k) ==
                 \E i, j \in Nat : Has(C, a, p, i) /\ Has(C, n, u, j) /\ k = i + j + 1
  <1>u. C \in SUBSET Rows /\ n \in Units /\ p \in Units /\ DOMAIN par \subseteq Units /\ Root \in Units
    BY ConstantsAssumption DEF Exact, Parents
  <1>h. \A a, u \in Units, k \in Nat : Has(D, a, u, k) <=>
           \/ Has(C, a, u, k) /\ ~(Anc(C, n, u) /\ ~Anc(C, n, a))
           \/ Linked(a, u, k)
    <2> TAKE a \in Units, u \in Units, k \in Nat
    <2>1. Has(Outside(C, n), a, u, k) <=> Has(C, a, u, k) /\ Anc(C, n, u) /\ ~Anc(C, n, a)
      BY <1>u, OutsideHas
    <2>2. Has(SubtreeLinks(C, n, p), a, u, k) <=> Linked(a, u, k)
      BY <1>u, LinksHas
    <2> HIDE DEF Linked
    <2>3. Has(D, a, u, k) <=>
             \/ Has(C, a, u, k) /\ ~Has(Outside(C, n), a, u, k)
             \/ Has(SubtreeLinks(C, n, p), a, u, k)
      BY SetHas
    <2> QED BY <2>1, <2>2, <2>3
  <1>d. DOMAIN new = DOMAIN par /\ new[n] = p /\ \A u \in DOMAIN par : u # n => new[u] = par[u]
    OBVIOUS
  <1>s. D \subseteq Rows
    BY <1>u, LinkedRows
  <1> HIDE DEF new, D
  <1>o. /\ \A a, b, u \in Units : Anc(C, a, b) /\ Anc(C, b, u) => Anc(C, a, u)
        /\ \A a, b \in Units : Anc(C, a, b) /\ Anc(C, b, a) => a = b
        /\ Anc(C, n, n)
    BY Order, <1>u DEF Exact, Refl, Anc
  \* Nothing above p is below n.
  <1>p. \A a \in Units, i \in Nat : Has(C, a, p, i) => ~Anc(C, n, a)
    BY <1>o, <1>u DEF Anc
  \* Below n, but for n itself, the parent is below n as well.
  <1>b. \A u \in DOMAIN par : u # n => (Anc(C, n, u) <=> par[u] \in DOMAIN par /\ Anc(C, n, par[u]))
    <2> TAKE u \in DOMAIN par
    <2> HAVE u # n
    <2>1. ASSUME Anc(C, n, u) PROVE par[u] \in DOMAIN par /\ Anc(C, n, par[u])
      <3> PICK j \in Nat : Has(C, n, u, j)
        BY <2>1 DEF Anc
      <3>1. j > 0 /\ par[u] \in DOMAIN par /\ Has(C, n, par[u], j - 1)
        BY <1>u DEF Exact, Upward
      <3>2. j - 1 \in Nat
        BY <3>1
      <3> QED BY <3>1, <3>2 DEF Anc
    <2>2. ASSUME par[u] \in DOMAIN par, Anc(C, n, par[u]) PROVE Anc(C, n, u)
      <3> PICK j \in Nat : Has(C, n, par[u], j)
        BY <2>2 DEF Anc
      <3>1. Has(C, n, u, j + 1)
        BY <1>u, <2>2 DEF Exact, Downward
      <3> QED BY <3>1 DEF Anc
    <2> QED BY <2>1, <2>2
  <1>1. Parents(new)
    BY <1>d DEF Exact, Parents
  <1>2. Refl(new, D)
    BY <1>d, <1>h, <1>u DEF Refl, Exact
  <1>3. Within(new, D)
    BY <1>d, <1>h, <1>u DEF Within, Exact
  <1>4. Upward(new, D)
    <2> SUFFICES ASSUME NEW a \in Units, NEW u \in Units, NEW k \in Nat, Has(D, a, u, k)
                 PROVE  \/ k = 0 /\ a = u
                        \/ k > 0 /\ new[u] \in DOMAIN new /\ Has(D, a, new[u], k - 1)
      BY DEF Upward
    <2>0. u \in DOMAIN par
      BY <1>3, <1>d DEF Within
    <2>1. CASE Has(C, a, u, k) /\ ~(Anc(C, n, u) /\ ~Anc(C, n, a))
      <3>1. CASE u = n
        <4>1. Anc(C, n, a) /\ Anc(C, a, n)
          BY <2>1, <3>1, <1>o DEF Anc
        <4>2. a = n
          BY <4>1, <1>o, <1>u
        <4>3. k = 0
          BY <2>1, <3>1, <4>2, <1>u DEF Exact, Unique, Refl
        <4> QED BY <3>1, <4>2, <4>3
      <3>2. CASE u # n /\ k > 0
        <4>1. par[u] \in DOMAIN par /\ Has(C, a, par[u], k - 1) /\ k - 1 \in Nat
          BY <2>1, <3>2 DEF Exact, Upward
        <4>2. ~(Anc(C, n, par[u]) /\ ~Anc(C, n, a))
          BY <2>0, <2>1, <3>2, <4>1, <1>b
        <4>3. Has(D, a, par[u], k - 1)
          BY <4>1, <4>2, <1>h, <1>u
        <4> QED BY <2>0, <3>2, <4>1, <4>3, <1>d
      <3>3. CASE k = 0
        BY <2>1, <3>3 DEF Exact, Upward
      <3> QED BY <3>1, <3>2, <3>3
    <2>2. CASE Linked(a, u, k)
      <3> PICK i \in Nat, j \in Nat : Has(C, a, p, i) /\ Has(C, n, u, j) /\ k = i + j + 1
        BY <2>2
      <3>1. CASE u = n
        <4>1. j = 0
          BY <3>1, <1>u DEF Exact, Unique, Refl
        <4>2. k > 0 /\ k - 1 = i
          BY <4>1
        <4>3. Has(D, a, p, i)
          BY <1>h, <1>u
        <4> QED BY <3>1, <4>2, <4>3, <1>d
      <3>2. CASE u # n
        <4>1. j > 0 /\ par[u] \in DOMAIN par /\ Has(C, n, par[u], j - 1) /\ j - 1 \in Nat
          BY <3>2, <1>u DEF Exact, Upward
        <4>2. k > 0 /\ k - 1 = i + (j - 1) + 1 /\ k - 1 \in Nat
          BY <4>1
        <4>3. Linked(a, par[u], k - 1)
          BY <4>1, <4>2
        <4>4. Has(D, a, par[u], k - 1)
          BY <4>1, <4>2, <4>3, <1>h, <1>u
        <4> QED BY <2>0, <3>2, <4>1, <4>2, <4>4, <1>d
      <3> QED BY <3>1, <3>2
    <2> QED BY <2>1, <2>2, <1>h
  <1>5. Downward(new, D)
    <2> SUFFICES ASSUME NEW a \in Units, NEW u \in DOMAIN par, NEW k \in Nat,
                        new[u] \in DOMAIN par, Has(D, a, new[u], k)
                 PROVE  Has(D, a, u, k + 1)
      BY <1>d DEF Downward
    <2>1. CASE u = n
      <3>1. Has(D, a, p, k)
        BY <2>1, <1>d
      <3>2. ~Linked(a, p, k)
        BY DEF Anc
      <3>3. Has(C, a, p, k)
        BY <3>1, <3>2, <1>h, <1>u
      <3>4. Has(C, n, n, 0) /\ k + 1 = k + 0 + 1
        BY DEF Exact, Refl
      <3>5. Linked(a, n, k + 1)
        BY <3>3, <3>4
      <3> QED BY <2>1, <3>5, <1>h, <1>u
    <2>2. CASE u # n
      <3>1. par[u] \in DOMAIN par /\ Has(D, a, par[u], k)
        BY <2>2, <1>d
      <3>2. CASE Has(C, a, par[u], k) /\ ~(Anc(C, n, par[u]) /\ ~Anc(C, n, a))
        <4>1. Has(C, a, u, k + 1)
          BY <3>1, <3>2 DEF Exact, Downward
        <4>2. ~(Anc(C, n, u) /\ ~Anc(C, n, a))
          BY <2>2, <3>1, <3>2, <1>b
        <4> QED BY <4>1, <4>2, <1>h, <1>u
      <3>3. CASE Linked(a, par[u], k)
        <4> PICK i \in Nat, j \in Nat : Has(C, a, p, i) /\ Has(C, n, par[u], j) /\ k = i + j + 1
          BY <3>3
        <4>1. Has(C, n, u, j + 1) /\ k + 1 = i + (j + 1) + 1
          BY <3>1, <1>u DEF Exact, Downward
        <4>2. Linked(a, u, k + 1)
          BY <4>1
        <4>3. u \in Units /\ k + 1 \in Nat
          BY <1>u
        <4> HIDE DEF Linked
        <4> QED BY <4>2, <4>3, <1>h
      <3> QED BY <3>1, <3>2, <3>3, <1>h, <1>u
    <2> QED BY <2>1, <2>2
  <1>6. Unique(D)
    <2> SUFFICES ASSUME NEW a \in Units, NEW u \in Units, NEW k \in Nat, NEW j \in Nat,
                        Has(D, a, u, k), Has(D, a, u, j)
                 PROVE  k = j
      BY DEF Unique
    <2>1. ASSUME NEW m \in Nat, Linked(a, u, m) PROVE Anc(C, n, u) /\ ~Anc(C, n, a)
      BY <2>1, <1>p DEF Anc
    <2>2. CASE Anc(C, n, u) /\ ~Anc(C, n, a)
      <3>1. Linked(a, u, k) /\ Linked(a, u, j)
        BY <2>2, <1>h
      <3> QED BY <3>1, <1>u DEF Exact, Unique
    <2>3. CASE ~(Anc(C, n, u) /\ ~Anc(C, n, a))
      <3>1. ~Linked(a, u, k) /\ ~Linked(a, u, j)
        BY <2>1, <2>3
      <3>2. Has(C, a, u, k) /\ Has(C, a, u, j)
        <4> HIDE DEF Linked
        <4> QED BY <3>1, <1>h
      <3> QED BY <3>2 DEF Exact, Unique
    <2> QED BY <2>2, <2>3
  <1>7. Rooted(new, D)
    <2> SUFFICES ASSUME NEW u \in DOMAIN par PROVE Anc(D, Root, u)
      BY <1>d DEF Rooted
    <2>1. CASE Anc(C, n, u)
      <3> PICK j \in Nat : Has(C, n, u, j)
        BY <2>1 DEF Anc
      <3> PICK i \in Nat : Has(C, Root, p, i)
        BY DEF Exact, Rooted, Anc
      <3>1. Linked(Root, u, i + j + 1) /\ i + j + 1 \in Nat
        OBVIOUS
      <3>2. Has(D, Root, u, i + j + 1)
        BY <3>1, <1>h, <1>u
      <3> QED BY <3>1, <3>2 DEF Anc
    <2>2. CASE ~Anc(C, n, u)
      <3> PICK k \in Nat : Has(C, Root, u, k)
        BY DEF Exact, Rooted, Anc
      <3>1. Has(D, Root, u, k)
        BY <2>2, <1>h, <1>u
      <3> QED BY <3>1 DEF Anc
    <2> QED BY <2>1, <2>2
  <1>8. Exact(new, D)
    BY <1>1, <1>2, <1>3, <1>4, <1>5, <1>6, <1>7, <1>s DEF Exact
  <1> QED BY <1>8 DEF new, D

-----------------------------------------------------------------------------
(* What one transaction's commit does to what another has read             *)

\* A transaction replaces the rows G of the closure C by F and so changes the
\* ancestors of the units A, which with a unit has all below it: every row
\* into A from outside goes.
Replaces(C, G, F, A) ==
    /\ G \subseteq C /\ F \subseteq Rows /\ A \subseteq Units
    /\ \A a, u \in Units, k \in Nat :
          /\ Has(G, a, u, k) => u \in A
          /\ Has(F, a, u, k) => u \in A
          /\ Has(C, a, u, k) /\ u \in A /\ a \notin A => Has(G, a, u, k)
          /\ Has(C, a, u, k) /\ a \in A => u \in A

\* v keeps its ancestors and gets no descendants.
Clear(v, F, A) == v \in Units \ A /\ \A u \in Units, k \in Nat : ~Has(F, v, u, k)

\* A commit the unit is clear of keeps the rows above it and adds none below.
LEMMA ClearKept ==
  ASSUME NEW C, NEW G, NEW F, NEW A, Replaces(C, G, F, A), NEW v, Clear(v, F, A)
  PROVE  \A u \in Units, k \in Nat :
            /\ Has((C \ G) \cup F, u, v, k) <=> Has(C, u, v, k)
            /\ Has((C \ G) \cup F, v, u, k) => Has(C, v, u, k)
  BY SetHas DEF Replaces, Clear

\* The same without the distances.
LEMMA ClearAnc ==
  ASSUME NEW C, NEW G, NEW F, NEW A, Replaces(C, G, F, A), NEW v, Clear(v, F, A)
  PROVE  \A u \in Units :
            /\ Anc((C \ G) \cup F, u, v) <=> Anc(C, u, v)
            /\ Anc((C \ G) \cup F, v, u) => Anc(C, v, u)
  BY ClearKept DEF Anc

\* The rows into the subtree of n from outside: those that are gone are gone,
\* and there are no new ones.
LEMMA OutsideKept ==
  ASSUME NEW par, NEW C, NEW G, NEW F, NEW A, Exact(par, C), Replaces(C, G, F, A),
         NEW n, Clear(n, F, A)
  PROVE  Outside((C \ G) \cup F, n) = Outside(C, n) \ G
  <1> DEFINE D == (C \ G) \cup F
  <1>u. n \in Units /\ C \in SUBSET Rows /\ D \in SUBSET Rows /\ Outside(C, n) \in SUBSET Rows
        /\ Outside(D, n) \in SUBSET Rows
    BY DEF Exact, Replaces, Clear, Outside
  <1>h. \A a, u \in Units, k \in Nat :
           Has(D, a, u, k) <=> (Has(C, a, u, k) /\ ~Has(G, a, u, k)) \/ Has(F, a, u, k)
    BY SetHas
  <1>g. \A a, u \in Units, k \in Nat :
           Has(Outside(C, n) \ G, a, u, k) <=> Has(Outside(C, n), a, u, k) /\ ~Has(G, a, u, k)
    BY DEF Has
  <1>a. \A u \in Units : Anc(D, n, u) => Anc(C, n, u)
    BY ClearAnc
  <1> HIDE DEF D
  <1>1. ASSUME NEW a \in Units, NEW u \in Units, NEW k \in Nat, Has(Outside(D, n), a, u, k)
        PROVE  Has(Outside(C, n) \ G, a, u, k)
    <2>1. Has(D, a, u, k) /\ Anc(D, n, u) /\ ~Anc(D, n, a)
      BY <1>1, <1>u, OutsideHas
    <2> PICK j \in Nat : Has(D, n, u, j)
      BY <2>1 DEF Anc
    \* n is outside A, so the row from n to u would be gone.
    <2>2. u \notin A
      <3> SUFFICES ASSUME u \in A PROVE FALSE
        OBVIOUS
      <3> QED BY <1>h, <1>u DEF Replaces, Clear
    <2>3. Has(C, a, u, k) /\ ~Has(G, a, u, k)
      BY <2>1, <2>2, <1>h DEF Replaces
    <2>4. Anc(C, n, u)
      BY <2>1, <1>a
    <2>5. ~Anc(C, n, a)
      <3> SUFFICES ASSUME NEW i \in Nat, Has(C, n, a, i) PROVE FALSE
        BY DEF Anc
      <3>1. a \notin A
        BY <2>2, <2>3 DEF Replaces
      <3>2. Has(D, n, a, i)
        BY <3>1, <1>h, <1>u DEF Replaces
      <3> QED BY <2>1, <3>2 DEF Anc
    <2> QED BY <2>3, <2>4, <2>5, <1>g, <1>u, OutsideHas
  <1>2. ASSUME NEW a \in Units, NEW u \in Units, NEW k \in Nat, Has(Outside(C, n) \ G, a, u, k)
        PROVE  Has(Outside(D, n), a, u, k)
    <2>1. Has(C, a, u, k) /\ ~Has(G, a, u, k) /\ Anc(C, n, u) /\ ~Anc(C, n, a)
      BY <1>2, <1>g, <1>u, OutsideHas
    <2>2. Has(D, a, u, k)
      BY <2>1, <1>h
    <2>3. ~Anc(D, n, a)
      BY <2>1, <1>a
    <2> PICK j \in Nat : Has(C, n, u, j)
      BY <2>1 DEF Anc
    <2>4. ~Has(G, n, u, j)
      <3> SUFFICES ASSUME u \in A PROVE FALSE
        BY <1>u DEF Replaces
      <3>1. a \in A
        BY <2>1 DEF Replaces
      <3>2. Anc(C, a, n)
        BY <2>1, <1>u, Order DEF Anc
      <3> QED BY <3>1, <3>2, <1>u DEF Replaces, Clear, Anc
    <2>5. Anc(D, n, u)
      BY <2>4, <1>h, <1>u DEF Anc
    <2> QED BY <2>2, <2>3, <2>5, <1>u, OutsideHas
  <1>3. Outside(C, n) \ G \in SUBSET Rows
    BY <1>u
  <1>4. Outside(D, n) = Outside(C, n) \ G
    BY <1>1, <1>2, <1>3, <1>u, SameRows
  <1> QED BY <1>4 DEF D

\* The subtree of n stays whole while the rows into it are in hand: every unit
\* that leaves it takes a row from above n along.
LEMMA SubtreeKept ==
  ASSUME NEW par, NEW C, NEW G, NEW F, NEW A, Exact(par, C), Replaces(C, G, F, A),
         NEW n \in DOMAIN par \ {Root}, Clear(n, F, A), G \cap Outside(C, n) = {}
  PROVE  \A u \in Units, k \in Nat : Has((C \ G) \cup F, n, u, k) <=> Has(C, n, u, k)
  <1>u. n \in Units /\ C \in SUBSET Rows
    BY DEF Exact, Clear
  <1> SUFFICES ASSUME NEW u \in Units, NEW k \in Nat, Has(C, n, u, k), Has(G, n, u, k)
               PROVE  FALSE
    BY ClearKept, SetHas, <1>u
  <1> DEFINE p == par[n]
  <1>1. p \in DOMAIN par /\ p \in Units
    BY DEF Exact, Parents
  <1>2. Has(C, p, n, 1)
    <2>1. Has(C, p, p, 0)
      BY <1>1 DEF Exact, Refl
    <2>2. Has(C, p, n, 0 + 1)
      BY <1>1, <2>1 DEF Exact, Downward
    <2> QED BY <2>2
  <1> HIDE DEF p
  <1>3. p \notin A
    BY <1>1, <1>2, <1>u DEF Replaces, Clear
  <1>4. Has(C, p, u, 1 + k) /\ 1 + k \in Nat
    BY <1>1, <1>2, <1>u, Transitive
  <1>5. Has(G, p, u, 1 + k)
    BY <1>1, <1>3, <1>4, <1>u DEF Replaces
  <1>6. ~Anc(C, n, p)
    <2>1. SUFFICES ASSUME Anc(C, n, p) PROVE FALSE
      OBVIOUS
    <2>2. p = n
      BY <2>1, <1>1, <1>2, <1>u, Order DEF Anc
    <2>3. Has(C, n, n, 0)
      BY DEF Exact, Refl
    <2> QED BY <1>2, <2>2, <2>3, <1>u DEF Exact, Unique
  <1>7. Has(Outside(C, n), p, u, 1 + k)
    BY <1>1, <1>4, <1>6, <1>u, OutsideHas DEF Anc
  <1> QED BY <1>5, <1>7 DEF Has

\* What a move inserts depends on the rows above p and below n alone.
SameAround(C, D, n, p) ==
    \A u \in Units, k \in Nat : /\ Has(D, n, u, k) <=> Has(C, n, u, k)
                                /\ Has(D, u, p, k) <=> Has(C, u, p, k)

\* With the same rows around them, a move inserts the same.
LEMMA LinksSame ==
  ASSUME NEW C \in SUBSET Rows, NEW D \in SUBSET Rows, NEW n \in Units, NEW p \in Units,
         SameAround(C, D, n, p)
  PROVE  SubtreeLinks(D, n, p) = SubtreeLinks(C, n, p)
  <1>1. SubtreeLinks(C, n, p) \in SUBSET Rows /\ SubtreeLinks(D, n, p) \in SUBSET Rows
    BY LinkedRows
  <1>2. ASSUME NEW a \in Units, NEW u \in Units, NEW k \in Nat
        PROVE  Has(SubtreeLinks(D, n, p), a, u, k) <=> Has(SubtreeLinks(C, n, p), a, u, k)
    <2>1. Has(SubtreeLinks(D, n, p), a, u, k) <=>
            \E i, j \in Nat : Has(D, a, p, i) /\ Has(D, n, u, j) /\ k = i + j + 1
      BY LinksHas
    <2>2. Has(SubtreeLinks(C, n, p), a, u, k) <=>
            \E i, j \in Nat : Has(C, a, p, i) /\ Has(C, n, u, j) /\ k = i + j + 1
      BY LinksHas
    <2> QED BY <2>1, <2>2 DEF SameAround
  <1> QED BY <1>1, <1>2, SameRows

\* It does not matter that a move no longer sees the rows it has unlinked.
LEMMA LinksSeen ==
  ASSUME NEW par, NEW C, Exact(par, C), NEW n \in Units, NEW p \in Units, ~Anc(C, n, p)
  PROVE  SubtreeLinks(C \ Outside(C, n), n, p) = SubtreeLinks(C, n, p)
  <1> DEFINE D == C \ Outside(C, n)
  <1>u. C \in SUBSET Rows /\ D \in SUBSET Rows
    BY DEF Exact
  <1>h. \A a, u \in Units, k \in Nat :
           Has(D, a, u, k) <=> Has(C, a, u, k) /\ ~(Anc(C, n, u) /\ ~Anc(C, n, a))
    BY <1>u, OutsideHas DEF Has
  <1> HIDE DEF D
  <1>1. \A u \in Units, k \in Nat : Has(D, n, u, k) <=> Has(C, n, u, k)
    <2> SUFFICES ASSUME NEW u \in Units, NEW k \in Nat, Has(C, n, u, k) PROVE Anc(C, n, n)
      BY <1>h
    <2> QED BY DEF Exact, Within, Refl, Anc
  <1>2. \A u \in Units, k \in Nat : Has(D, u, p, k) <=> Has(C, u, p, k)
    BY <1>h
  <1>5. SubtreeLinks(D, n, p) = SubtreeLinks(C, n, p)
    BY <1>1, <1>2, <1>u, LinksSame DEF SameAround
  <1> QED BY <1>5 DEF D

\* The rows of units another transaction removes.
LEMMA TouchingKept ==
  ASSUME NEW C \in SUBSET Rows, NEW G, NEW F, NEW A, Replaces(C, G, F, A), NEW R,
         \A v \in R : Clear(v, F, A)
  PROVE  Touching((C \ G) \cup F, R) = Touching(C, R) \ G
  <1>1. ASSUME NEW r \in F PROVE r.anc \notin R /\ r.desc \notin R
    <2>1. /\ r.anc \in Units /\ r.desc \in Units /\ r.depth \in Nat
          /\ Has(F, r.anc, r.desc, r.depth)
      BY RowHas DEF Replaces
    <2> QED BY <2>1 DEF Replaces, Clear
  <1> QED BY <1>1 DEF Touching

-----------------------------------------------------------------------------
(* The inductive invariant of the transactions                             *)

Held(t, u) == exclusive[u] = t \/ t \in shared[u]

\* Locks exclude each other, and a row that is shared is there or the
\* transaction's own.
LocksOK ==
    \A u \in Units :
        exclusive[u] # NoTx \/ u \notin Existing => shared[u] \subseteq {exclusive[u]}

\* No row is deleted by two transactions.
GoneApart == \A t, o \in Txs : t # o => gone[t] \cap gone[o] = {}

\* The units whose rows t inserts are locked.
FreshHeld(t) == \A r \in fresh[t] : Held(t, r.anc) /\ Held(t, r.desc)

\* Every commit is made under the company's lock.
PlaceOK(t) ==
    /\ pc[t] = "idle" <=> op[t] = "none"
    /\ pc[t] = "idle" => gone[t] = {} /\ fresh[t] = {} /\ removed[t] = {}
    /\ pc[t] = "commit" => company = t

\* An insert has its row and shares its parent's; it reads under the company's
\* lock, so what it has read is the closure as it is.
InsertOK(t) ==
    op[t] = "insert" =>
        /\ pc[t] \in {"bump", "inherit read", "link", "commit"}
        /\ pc[t] # "bump" => company = t
        /\ node[t] \in Units \ Existing /\ exclusive[node[t]] = t
        /\ target[t] \in Existing /\ Held(t, target[t])
        /\ gone[t] = {} /\ removed[t] = {}
        /\ pc[t] = "link" => rows[t] = Inherited(closure, node[t], target[t])
        /\ fresh[t] = IF pc[t] = "commit" THEN Inherited(closure, node[t], target[t]) ELSE {}
        /\ FreshHeld(t)

\* A move has the rows of both units for itself; what it has checked, deleted
\* and read stays so while others commit.
MoveOK(t) ==
    op[t] = "move" =>
        /\ pc[t] \in {"node", "parent", "check", "unlink read", "unlink", "link read",
                      "link", "bump", "commit"}
        /\ removed[t] = {}
        /\ pc[t] # "node" =>
              node[t] \in Existing \ {Root} /\ exclusive[node[t]] = t
        /\ pc[t] \notin {"node", "parent"} =>
              target[t] \in Existing /\ exclusive[target[t]] = t
        /\ pc[t] \notin {"node", "parent", "check"} => ~Anc(closure, node[t], target[t])
        /\ pc[t] = "unlink" => rows[t] = Outside(closure, node[t])
        /\ gone[t] = IF pc[t] \in {"link read", "link", "bump", "commit"}
                     THEN Outside(closure, node[t]) ELSE {}
        /\ pc[t] = "link" => rows[t] = SubtreeLinks(closure, node[t], target[t])
        /\ fresh[t] = IF pc[t] \in {"bump", "commit"}
                      THEN SubtreeLinks(closure, node[t], target[t]) ELSE {}
        /\ FreshHeld(t)

\* A delete has the rows of all units that go for itself, and they go with all
\* that is below them.
DeleteOK(t) ==
    op[t] = "delete" =>
        /\ pc[t] \in {"cascade", "delete rows", "bump", "commit"}
        /\ fresh[t] = {}
        /\ node[t] \in removed[t]
        /\ \A u \in removed[t] : /\ u \in Existing \ {Root} /\ exclusive[u] = t
                                 /\ Anc(closure, node[t], u)
        /\ pc[t] # "cascade" => \A c \in Existing \ removed[t] : parent[c] \notin removed[t]
        /\ pc[t] = "delete rows" => rows[t] = Touching(closure, removed[t])
        /\ gone[t] = IF pc[t] \in {"bump", "commit"}
                     THEN Touching(closure, removed[t]) ELSE {}

TxOK(t) == PlaceOK(t) /\ InsertOK(t) /\ MoveOK(t) /\ DeleteOK(t)

TreeInv ==
    /\ Exact(parent, closure)
    /\ LocksOK /\ GoneApart
    /\ \A t \in Txs : TxOK(t)

\* A step of another transaction that commits nothing leaves all this alone.
SameTx(o) ==
    /\ pc'[o] = pc[o] /\ op'[o] = op[o] /\ node'[o] = node[o] /\ target'[o] = target[o]
    /\ gone'[o] = gone[o] /\ fresh'[o] = fresh[o] /\ removed'[o] = removed[o]
KeepsLocks(o) ==
    /\ \A u \in Units : /\ exclusive[u] = o => exclusive'[u] = o
                        /\ o \in shared[u] => o \in shared'[u]
    /\ company = o => company' = o

\* What a transaction inserts stays locked while it keeps its locks.
LEMMA FreshKept ==
  ASSUME TypeOK, NEW o \in Txs, KeepsLocks(o), fresh'[o] = fresh[o], FreshHeld(o)
  PROVE  FreshHeld(o)'
  <1>1. \A r \in fresh[o] : r.anc \in Units /\ r.desc \in Units
    BY DEF TypeOK, Rows
  <1> QED BY <1>1 DEF FreshHeld, Held, KeepsLocks

\* Another's step that writes no table leaves a transaction's work in order.
LEMMA Frame ==
  ASSUME TypeOK, NEW o \in Txs, TxOK(o), UNCHANGED tableVars,
         SameTx(o), rows'[o] = rows[o], KeepsLocks(o)
  PROVE  TxOK(o)'
  <1> USE DEF SameTx, tableVars
  <1>t. TxOK(o) /\ Existing' = Existing /\ Existing \subseteq Units
    BY DEF Existing, TypeOK
  <1>l. \A u \in Units : exclusive[u] = o => exclusive'[u] = o
    BY DEF KeepsLocks
  <1>1. PlaceOK(o)'
    BY <1>t DEF TxOK, PlaceOK, KeepsLocks
  <1>2. InsertOK(o)'
    <2> SUFFICES ASSUME op[o] = "insert" PROVE InsertOK(o)'
      BY DEF InsertOK
    <2>1. FreshHeld(o)'
      BY <1>t, FreshKept DEF TxOK, InsertOK
    <2>2. target[o] \in Units /\ Held(o, target[o])
      BY <1>t DEF TxOK, InsertOK
    <2>3. Held(o, target[o])'
      BY <2>2 DEF Held, KeepsLocks
    <2> QED BY <1>t, <1>l, <2>1, <2>3 DEF TxOK, InsertOK, KeepsLocks
  <1>3. MoveOK(o)'
    <2> SUFFICES ASSUME op[o] = "move" PROVE MoveOK(o)'
      BY DEF MoveOK
    <2>1. FreshHeld(o)'
      BY <1>t, FreshKept DEF TxOK, MoveOK
    <2> QED BY <1>t, <1>l, <2>1 DEF TxOK, MoveOK
  <1>4. DeleteOK(o)'
    BY <1>t, <1>l DEF TxOK, DeleteOK
  <1> QED BY <1>1, <1>2, <1>3, <1>4 DEF TxOK

\* The initial state: the root and its own row.
LEMMA InitTree == Init => TreeInv
  <1> SUFFICES ASSUME Init PROVE TreeInv
    OBVIOUS
  <1> USE ConstantsAssumption
  <1>d. DOMAIN parent = {Root} /\ parent[Root] = NoUnit
    BY DEF Init
  <1>h. \A a, u \in Units, k \in Nat : Has(closure, a, u, k) <=> a = Root /\ u = Root /\ k = 0
    BY RowEqual DEF Init, Has
  <1>c. closure \subseteq Rows
    BY DEF Init, Row, Rows
  <1>1. Exact(parent, closure)
    <2>1. Parents(parent)
      BY <1>d, FS_Singleton DEF Parents
    <2>2. Rooted(parent, closure)
      BY <1>d, <1>h DEF Rooted, Anc
    <2> QED BY <1>d, <1>h, <1>c, <2>1, <2>2
            DEF Exact, Refl, Within, Upward, Downward, Unique
  <1>2. LocksOK /\ GoneApart
    BY DEF Init, LocksOK, GoneApart
  <1>3. \A t \in Txs : TxOK(t)
    BY DEF Init, TxOK, PlaceOK, InsertOK, MoveOK, DeleteOK
  <1> QED BY <1>1, <1>2, <1>3 DEF TreeInv

\* A step that commits nothing.
LEMMA TreeStep ==
  ASSUME TypeOK, TreeInv, NEW t \in Txs, UNCHANGED tableVars,
         \A o \in Txs \ {t} : SameTx(o) /\ rows'[o] = rows[o] /\ KeepsLocks(o),
         LocksOK', GoneApart', TxOK(t)'
  PROVE  TreeInv'
  <1>1. \A o \in Txs \ {t} : TxOK(o)'
    BY Frame DEF TreeInv
  <1>2. Exact(parent, closure)'
    BY DEF TreeInv, tableVars
  <1> QED BY <1>1, <1>2 DEF TreeInv

\* A transaction that aborts gives back its locks and leaves the tables.
LEMMA TreeAbort == ASSUME TypeOK, TreeInv, NEW t \in Txs, Abort(t) PROVE TreeInv'
  <1> USE ConstantsAssumption DEF Abort, Ends, tableVars
  <1>1. \A o \in Txs \ {t} : SameTx(o) /\ rows'[o] = rows[o] /\ KeepsLocks(o)
    BY DEF TypeOK, SameTx, KeepsLocks
  <1>2. LocksOK'
    BY DEF TypeOK, TreeInv, LocksOK, Existing
  <1>3. GoneApart'
    BY DEF TypeOK, TreeInv, GoneApart
  <1>4. TxOK(t)'
    BY DEF TypeOK, TxOK, PlaceOK, InsertOK, MoveOK, DeleteOK
  <1> QED BY <1>1, <1>2, <1>3, <1>4, TreeStep

\* INSERT takes the new row and shares the parent's.
LEMMA TreeInsertUnit ==
  ASSUME TypeOK, TreeInv, NEW t \in Txs, NEW x \in Units, NEW p \in Units, InsertUnit(t, x, p)
  PROVE  TreeInv'
  <1> USE ConstantsAssumption DEF InsertUnit, Goto, tableVars, writeVars
  <1>0. op[t] = "none" /\ gone[t] = {} /\ fresh[t] = {} /\ removed[t] = {}
    BY DEF TreeInv, TxOK, PlaceOK
  <1>1. \A o \in Txs \ {t} : SameTx(o) /\ rows'[o] = rows[o] /\ KeepsLocks(o)
    BY DEF TypeOK, SameTx, KeepsLocks
  <1>2. LocksOK'
    <2>1. p \in Existing /\ exclusive[p] \in {NoTx, t} /\ x # p /\ shared[x] \subseteq {NoTx}
      BY DEF Sharable, TypeOK, TreeInv, LocksOK
    <2>2. \A u \in Units : exclusive'[u] = IF u = x THEN t ELSE exclusive[u]
      BY DEF TypeOK
    <2>3. \A u \in Units : shared'[u] = IF u = p THEN shared[u] \cup {t} ELSE shared[u]
      BY DEF TypeOK
    <2>4. shared[x] = {}
      BY <2>1 DEF TypeOK
    <2> QED BY <2>1, <2>2, <2>3, <2>4 DEF TypeOK, TreeInv, LocksOK, Existing
  <1>3. GoneApart'
    BY DEF TypeOK, TreeInv, GoneApart
  <1>4. TxOK(t)'
    BY <1>0 DEF TypeOK, TxOK, PlaceOK, InsertOK, MoveOK, DeleteOK, FreshHeld, Held, Sharable, Existing
  <1> QED BY <1>1, <1>2, <1>3, <1>4, TreeStep

\* UPDATE companies: one transaction at a time goes on to commit.
LEMMA TreeBump ==
  ASSUME TypeOK, TreeInv, NEW t \in Txs, BumpEpoch(t)
  PROVE  TreeInv'
  <1> USE ConstantsAssumption DEF BumpEpoch, Goto, tableVars, argVars, writeVars
  <1>0. TxOK(t)
    BY DEF TreeInv
  <1>1. \A o \in Txs \ {t} : SameTx(o) /\ rows'[o] = rows[o] /\ KeepsLocks(o)
    BY DEF TypeOK, SameTx, KeepsLocks
  <1>2. LocksOK' /\ GoneApart'
    BY DEF TypeOK, TreeInv, GoneApart, LocksOK, Existing
  <1>4. TxOK(t)'
    <2>1. FreshHeld(t) => FreshHeld(t)'
      BY DEF FreshHeld, Held
    <2>2. Held(t, target[t]) => Held(t, target[t])'
      BY DEF Held
    <2>3. PlaceOK(t)'
      BY <1>0 DEF TypeOK, TxOK, PlaceOK, InsertOK
    <2>4. InsertOK(t)'
      BY <1>0, <2>1, <2>2 DEF TypeOK, TxOK, InsertOK, Existing
    <2>5. MoveOK(t)'
      BY <1>0, <2>1 DEF TypeOK, TxOK, MoveOK, Existing
    <2>6. DeleteOK(t)'
      BY <1>0 DEF TypeOK, TxOK, DeleteOK, Existing
    <2> QED BY <2>3, <2>4, <2>5, <2>6 DEF TxOK
  <1> QED BY <1>1, <1>2, <1>4, TreeStep

\* org_unit_closure_on_insert() reads under the company's lock.
LEMMA TreeInheritRead ==
  ASSUME TypeOK, TreeInv, NEW t \in Txs, InheritRead(t)
  PROVE  TreeInv'
  <1> USE ConstantsAssumption
  <1>0. TxOK(t)
    BY DEF TreeInv
  <1>o. pc[t] = "inherit read" /\ op[t] = "insert"
    BY <1>0 DEF InheritRead, TypeOK, TxOK, PlaceOK, MoveOK, DeleteOK
  <1>v. Visible(t) = closure
    BY <1>0, <1>o DEF TxOK, InsertOK, Visible
  <1>r. /\ rows' = [rows EXCEPT ![t] = Inherited(closure, node[t], target[t])]
        /\ pc' = [pc EXCEPT ![t] = "link"]
        /\ UNCHANGED <<parent, closure, exclusive, shared, company, op, node, target,
                       gone, fresh, removed>>
    BY <1>v, Zenon DEF InheritRead, Inherited, Goto, tableVars, lockVars, argVars, writeVars
  <1>1. \A o \in Txs \ {t} : SameTx(o) /\ rows'[o] = rows[o] /\ KeepsLocks(o)
    BY <1>r DEF TypeOK, SameTx, KeepsLocks
  <1>2. LocksOK' /\ GoneApart'
    BY <1>r DEF TypeOK, TreeInv, GoneApart, LocksOK, Existing
  <1>4. TxOK(t)'
    <2>1. FreshHeld(t) => FreshHeld(t)'
      BY <1>r DEF FreshHeld, Held
    <2>2. Held(t, target[t]) => Held(t, target[t])'
      BY <1>r DEF Held
    <2>3. PlaceOK(t)'
      BY <1>0, <1>o, <1>r DEF TypeOK, TxOK, PlaceOK, InsertOK
    <2>4. InsertOK(t)'
      BY <1>0, <1>o, <1>r, <2>1, <2>2 DEF TypeOK, TxOK, InsertOK, Existing
    <2> QED BY <1>o, <1>r, <2>3, <2>4 DEF TxOK, MoveOK, DeleteOK
  <1>5. UNCHANGED tableVars
    BY <1>r DEF tableVars
  <1> QED BY <1>1, <1>2, <1>4, <1>5, TreeStep

\* The rows an insert or a move has read are inserted, and the units they name
\* locked.
LEMMA TreeLink ==
  ASSUME TypeOK, TreeInv, NEW t \in Txs, Link(t)
  PROVE  TreeInv'
  <1> USE ConstantsAssumption
  <1> DEFINE named == {r.anc : r \in rows[t]} \cup {r.desc : r \in rows[t]}
  <1>0. TxOK(t)
    BY DEF TreeInv
  <1>o. pc[t] = "link" /\ op[t] \in {"insert", "move"}
    BY <1>0 DEF Link, TypeOK, TxOK, PlaceOK, DeleteOK
  <1>s. /\ \A u \in named : exclusive[u] = t \/ (u \in Existing /\ exclusive[u] = NoTx)
        /\ shared' = [u \in Units |-> IF u \in named THEN shared[u] \cup {t} ELSE shared[u]]
        /\ fresh' = [fresh EXCEPT ![t] = rows[t]]
    BY DEF Link, InsertsRows, Sharable
  <1>n. \A r \in rows[t] : r.anc \in named /\ r.desc \in named
    OBVIOUS
  <1>u. \A r \in rows[t] : r.anc \in Units /\ r.desc \in Units
    BY DEF TypeOK, Rows
  <1> HIDE DEF named
  <1>r. /\ rows' = [rows EXCEPT ![t] = {}]
        /\ pc' = [pc EXCEPT ![t] = IF op[t] = "insert" THEN "commit" ELSE "bump"]
        /\ UNCHANGED <<parent, closure, exclusive, company, op, node, target, gone, removed>>
    BY Zenon DEF Link, Goto, tableVars, argVars
  <1>1. \A o \in Txs \ {t} : SameTx(o) /\ rows'[o] = rows[o] /\ KeepsLocks(o)
    BY <1>r, <1>s DEF TypeOK, SameTx, KeepsLocks
  <1>2. LocksOK'
    BY <1>r, <1>s DEF TypeOK, TreeInv, LocksOK, Existing
  <1>3. GoneApart'
    BY <1>r DEF TreeInv, GoneApart
  <1>4. TxOK(t)'
    <2>0. fresh'[t] = rows[t]
      BY <1>s DEF TypeOK
    <2>1. FreshHeld(t)'
      BY <1>r, <1>s, <1>n, <1>u, <2>0 DEF FreshHeld, Held
    <2>2. CASE op[t] = "insert"
      <3>0. target[t] \in Units /\ Held(t, target[t])
        BY <1>0, <2>2 DEF TxOK, InsertOK, TypeOK
      <3>1. Held(t, target[t])'
        BY <1>r, <1>s, <3>0 DEF Held
      <3>2. pc'[t] = "commit" /\ op'[t] = "insert"
        BY <1>r, <2>2 DEF TypeOK
      <3>3. PlaceOK(t)'
        BY <1>0, <1>o, <1>r, <2>2, <3>2 DEF TxOK, PlaceOK, InsertOK
      <3>4. InsertOK(t)'
        BY <1>0, <1>o, <1>r, <2>0, <2>1, <2>2, <3>1, <3>2 DEF TxOK, InsertOK, Existing
      <3> QED BY <3>2, <3>3, <3>4 DEF TxOK, MoveOK, DeleteOK
    <2>3. CASE op[t] = "move"
      <3>2. pc'[t] = "bump" /\ op'[t] = "move"
        BY <1>r, <2>3 DEF TypeOK
      <3>3. PlaceOK(t)'
        BY <3>2 DEF PlaceOK
      <3>4. MoveOK(t)'
        BY <1>0, <1>o, <1>r, <2>0, <2>1, <2>3, <3>2 DEF TxOK, MoveOK, Existing
      <3> QED BY <3>2, <3>3, <3>4 DEF TxOK, InsertOK, DeleteOK
    <2> QED BY <1>o, <2>2, <2>3
  <1>5. UNCHANGED tableVars
    BY <1>r DEF tableVars
  <1> QED BY <1>1, <1>2, <1>3, <1>4, <1>5, TreeStep

\* A move begins with nothing in hand.
LEMMA TreeMoveStart ==
  ASSUME TypeOK, TreeInv, NEW t \in Txs, NEW n \in Units, NEW p \in Units, MoveStart(t, n, p)
  PROVE  TreeInv'
  <1> USE ConstantsAssumption DEF MoveStart, Goto, tableVars, lockVars, writeVars
  <1>0. op[t] = "none" /\ gone[t] = {} /\ fresh[t] = {} /\ removed[t] = {}
    BY DEF TreeInv, TxOK, PlaceOK
  <1>1. \A o \in Txs \ {t} : SameTx(o) /\ rows'[o] = rows[o] /\ KeepsLocks(o)
    BY DEF TypeOK, SameTx, KeepsLocks
  <1>2. LocksOK' /\ GoneApart'
    BY DEF TypeOK, TreeInv, GoneApart, LocksOK, Existing
  <1>4. TxOK(t)'
    BY <1>0 DEF TypeOK, TxOK, PlaceOK, InsertOK, MoveOK, DeleteOK, FreshHeld
  <1> QED BY <1>1, <1>2, <1>4, TreeStep

\* Taking a free row for itself leaves the locks of all others.
LEMMA TreeLockRow ==
  ASSUME TypeOK, TreeInv, NEW t \in Txs, NEW u \in Units, LockRow(t, u),
         UNCHANGED <<parent, closure, shared, company>>
  PROVE  /\ LocksOK'
         /\ \A o \in Txs : KeepsLocks(o)
  <1>1. \A v \in Units : exclusive'[v] = IF v = u THEN t ELSE exclusive[v]
    BY DEF LockRow, TypeOK
  <1>2. u \in Existing /\ exclusive[u] \in {NoTx, t} /\ shared[u] \subseteq {t}
    BY DEF LockRow, Free
  <1>3. LocksOK'
    BY <1>1, <1>2 DEF TreeInv, LocksOK, Existing
  <1>4. \A o \in Txs : KeepsLocks(o)
    BY <1>1, <1>2, ConstantsAssumption DEF KeepsLocks
  <1> QED BY <1>3, <1>4

\* The two FOR UPDATE of a move.
LEMMA TreeMoveLocks ==
  ASSUME TypeOK, TreeInv, NEW t \in Txs, MoveLockNode(t) \/ MoveLockParent(t)
  PROVE  TreeInv'
  <1> USE ConstantsAssumption
  <1>0. TxOK(t)
    BY DEF TreeInv
  <1>o. pc[t] \in {"node", "parent"} /\ op[t] = "move"
    BY <1>0 DEF MoveLockNode, MoveLockParent, TypeOK, TxOK, PlaceOK, InsertOK, DeleteOK
  <1> DEFINE u == IF pc[t] = "node" THEN node[t] ELSE target[t]
  <1>r. /\ LockRow(t, u) /\ (pc[t] = "node" => u # Root)
        /\ pc' = [pc EXCEPT ![t] = IF pc[t] = "node" THEN "parent" ELSE "check"]
        /\ UNCHANGED <<parent, closure, shared, company, op, node, target, rows,
                       gone, fresh, removed>>
    BY <1>o DEF MoveLockNode, MoveLockParent, Goto, tableVars, argVars, writeVars
  <1>u. u \in Units /\ u \in Existing
    BY <1>r DEF LockRow, TypeOK
  <1>x. exclusive'[u] = t
    BY <1>r, <1>u DEF LockRow, TypeOK
  <1>k. LocksOK' /\ \A o \in Txs : KeepsLocks(o)
    BY <1>r, <1>u, TreeLockRow
  <1>1. \A o \in Txs \ {t} : SameTx(o) /\ rows'[o] = rows[o] /\ KeepsLocks(o)
    BY <1>k, <1>r DEF TypeOK, SameTx
  <1>3. GoneApart'
    BY <1>r DEF TreeInv, GoneApart
  <1>p. pc'[t] = (IF pc[t] = "node" THEN "parent" ELSE "check") /\ op'[t] = "move"
    BY <1>o, <1>r DEF TypeOK
  <1>l. \A v \in Units : exclusive[v] = t => exclusive'[v] = t
    BY <1>k DEF KeepsLocks
  <1>4. TxOK(t)'
    <2>1. FreshHeld(t)'
      BY <1>0, <1>o, <1>r DEF TxOK, MoveOK, FreshHeld
    <2>3. PlaceOK(t)'
      BY <1>p DEF PlaceOK
    <2>4. MoveOK(t)'
      <3>1. CASE pc[t] = "node"
        BY <1>0, <1>o, <1>p, <1>r, <1>u, <1>x, <2>1, <3>1 DEF TxOK, MoveOK, Existing
      <3>2. CASE pc[t] = "parent"
        <4>1. node[t] \in Existing \ {Root} /\ exclusive[node[t]] = t /\ node[t] \in Units
          BY <1>0, <1>o, <3>2 DEF TxOK, MoveOK, TypeOK
        <4> QED BY <1>0, <1>o, <1>p, <1>r, <1>u, <1>x, <1>l, <2>1, <3>2, <4>1 DEF TxOK, MoveOK, Existing
      <3> QED BY <1>o, <3>1, <3>2
    <2> QED BY <1>p, <2>3, <2>4 DEF TxOK, InsertOK, DeleteOK
  <1>5. UNCHANGED tableVars
    BY <1>r DEF tableVars
  <1> QED BY <1>1, <1>k, <1>3, <1>4, <1>5, TreeStep

\* The check for a cycle: what is checked is that the new parent is not below
\* the unit.
LEMMA TreeMoveCheck ==
  ASSUME TypeOK, TreeInv, NEW t \in Txs, MoveCheck(t)
  PROVE  TreeInv'
  <1> USE ConstantsAssumption
  <1>0. TxOK(t)
    BY DEF TreeInv
  <1>o. pc[t] = "check" /\ op[t] = "move"
    BY <1>0 DEF MoveCheck, TypeOK, TxOK, PlaceOK, InsertOK, DeleteOK
  <1>r. /\ pc' = [pc EXCEPT ![t] = "unlink read"]
        /\ UNCHANGED <<parent, closure, exclusive, shared, company, op, node, target, rows,
                       gone, fresh, removed>>
    BY DEF MoveCheck, Goto, tableVars, lockVars, argVars, writeVars
  <1>a. ~Anc(closure, node[t], target[t])
    <2> SUFFICES ASSUME NEW k \in Nat, Has(closure, node[t], target[t], k) PROVE FALSE
      BY DEF Anc
    <2>1. node[t] \in Units /\ target[t] \in Units
      BY <1>0, <1>o DEF TxOK, MoveOK, TypeOK
    <2>2. k > 0
      BY <2>1 DEF MoveCheck, TreeInv, Exact, Upward
    <2>3. Row(node[t], target[t], k) \in closure
      BY DEF Has
    <2> DEFINE r == Row(node[t], target[t], k)
    <2>4. r \in closure /\ r.anc = node[t] /\ r.desc = target[t] /\ r.depth > 0
      BY <2>2, <2>3, RowParts
    <2> HIDE DEF r
    <2> QED BY <2>4 DEF MoveCheck
  <1>1. \A o \in Txs \ {t} : SameTx(o) /\ rows'[o] = rows[o] /\ KeepsLocks(o)
    BY <1>r DEF TypeOK, SameTx, KeepsLocks
  <1>2. LocksOK' /\ GoneApart'
    BY <1>r DEF TreeInv, GoneApart, LocksOK, Existing
  <1>p. pc'[t] = "unlink read" /\ op'[t] = "move"
    BY <1>o, <1>r DEF TypeOK
  <1>4. TxOK(t)'
    <2>1. FreshHeld(t)'
      BY <1>0, <1>o, <1>r DEF TxOK, MoveOK, FreshHeld
    <2>3. PlaceOK(t)'
      BY <1>p DEF PlaceOK
    <2>4. MoveOK(t)'
      BY <1>0, <1>o, <1>p, <1>r, <1>a, <2>1 DEF TxOK, MoveOK, Existing
    <2> QED BY <1>p, <2>3, <2>4 DEF TxOK, InsertOK, DeleteOK
  <1>5. UNCHANGED tableVars
    BY <1>r DEF tableVars
  <1> QED BY <1>1, <1>2, <1>4, <1>5, TreeStep

\* Both statements on the closure read what their transaction sees.
LEMMA TreeMoveReads ==
  ASSUME TypeOK, TreeInv, NEW t \in Txs, MoveUnlinkRead(t) \/ MoveLinkRead(t)
  PROVE  TreeInv'
  <1> USE ConstantsAssumption
  <1>0. TxOK(t)
    BY DEF TreeInv
  <1>o. pc[t] \in {"unlink read", "link read"} /\ op[t] = "move"
    BY <1>0 DEF MoveUnlinkRead, MoveLinkRead, TypeOK, TxOK, PlaceOK, InsertOK, DeleteOK
  <1>n. node[t] \in Units /\ target[t] \in Units /\ ~Anc(closure, node[t], target[t])
    BY <1>0, <1>o DEF TxOK, MoveOK, TypeOK
  <1> DEFINE new == IF pc[t] = "unlink read" THEN Outside(closure, node[t])
                    ELSE SubtreeLinks(closure, node[t], target[t])
             next == IF pc[t] = "unlink read" THEN "unlink" ELSE "link"
  <1>r. /\ rows' = [rows EXCEPT ![t] = new]
        /\ pc' = [pc EXCEPT ![t] = next]
        /\ UNCHANGED <<parent, closure, exclusive, shared, company, op, node, target,
                       gone, fresh, removed>>
    <2>1. CASE MoveUnlinkRead(t)
      <3>1. pc[t] = "unlink read" /\ Visible(t) = closure
        BY <1>0, <1>o, <2>1 DEF MoveUnlinkRead, TxOK, MoveOK, Visible
      <3> QED BY <2>1, <3>1, Zenon DEF MoveUnlinkRead, Outside, Under, Goto, tableVars, lockVars,
                                argVars, writeVars
    <2>2. CASE MoveLinkRead(t)
      <3>1. pc[t] = "link read" /\ Visible(t) = closure \ Outside(closure, node[t])
        BY <1>0, <1>o, <2>2 DEF MoveLinkRead, TxOK, MoveOK, Visible
      <3>2. SubtreeLinks(Visible(t), node[t], target[t]) = SubtreeLinks(closure, node[t], target[t])
        BY <1>n, <3>1, LinksSeen, ZenonT(60) DEF TreeInv
      <3>3. pc[t] # "unlink read"
        BY <3>1
      <3> QED BY <2>2, <3>2, <3>3, Zenon DEF MoveLinkRead, Goto, tableVars, lockVars,
                                argVars, writeVars
    <2> QED BY <2>1, <2>2
  <1>w. rows'[t] = new
    BY <1>r DEF TypeOK
  <1>p. pc'[t] = next /\ op'[t] = "move"
    BY <1>o, <1>r DEF TypeOK
  <1> HIDE DEF new
  <1>1. \A o \in Txs \ {t} : SameTx(o) /\ rows'[o] = rows[o] /\ KeepsLocks(o)
    BY <1>r DEF TypeOK, SameTx, KeepsLocks
  <1>2. LocksOK' /\ GoneApart'
    BY <1>r DEF TreeInv, GoneApart, LocksOK, Existing
  <1>4. TxOK(t)'
    <2>1. FreshHeld(t)'
      BY <1>0, <1>o, <1>r DEF TxOK, MoveOK, FreshHeld, Held
    <2>3. PlaceOK(t)'
      BY <1>p DEF PlaceOK
    <2>4. MoveOK(t)'
      <3>1. CASE pc[t] = "unlink read"
        <4>1. pc'[t] = "unlink" /\ rows'[t] = Outside(closure, node[t])
          BY <3>1, <1>p, <1>w DEF new
        <4> QED BY <1>0, <1>o, <1>p, <1>r, <2>1, <3>1, <4>1 DEF TxOK, MoveOK, Existing
      <3>2. CASE pc[t] = "link read"
        <4>1. pc'[t] = "link" /\ rows'[t] = SubtreeLinks(closure, node[t], target[t])
          BY <3>2, <1>p, <1>w DEF new
        <4> QED BY <1>0, <1>o, <1>p, <1>r, <2>1, <3>2, <4>1 DEF TxOK, MoveOK, Existing
      <3> QED BY <1>o, <3>1, <3>2
    <2> QED BY <1>p, <2>3, <2>4 DEF TxOK, InsertOK, DeleteOK
  <1>5. UNCHANGED tableVars
    BY <1>r DEF tableVars
  <1> QED BY <1>1, <1>2, <1>4, <1>5, TreeStep

\* The rows that were read are deleted, none of them in another's hand.
LEMMA TreeDeletes ==
  ASSUME TypeOK, TreeInv, NEW t \in Txs, MoveUnlink(t) \/ DeleteRows(t)
  PROVE  TreeInv'
  <1> USE ConstantsAssumption
  <1>0. TxOK(t)
    BY DEF TreeInv
  <1>o. \/ pc[t] = "unlink" /\ op[t] = "move" /\ MoveUnlink(t)
        \/ pc[t] = "delete rows" /\ op[t] = "delete" /\ DeleteRows(t)
    BY <1>0 DEF MoveUnlink, DeleteRows, TypeOK, TxOK, PlaceOK, InsertOK, DeleteOK, MoveOK
  <1>r. /\ gone' = [gone EXCEPT ![t] = rows[t]]
        /\ \A o \in Txs \ {t} : gone[o] \cap rows[t] = {}
        /\ rows' = [rows EXCEPT ![t] = {}]
        /\ pc' = [pc EXCEPT ![t] = IF pc[t] = "unlink" THEN "link read" ELSE "bump"]
        /\ UNCHANGED <<parent, closure, exclusive, shared, company, op, node, target,
                       fresh, removed>>
    BY <1>o, Zenon DEF MoveUnlink, DeleteRows, DeletesRows, Goto, tableVars, lockVars, argVars
  <1>g. gone'[t] = rows[t] /\ \A o \in Txs \ {t} : gone'[o] = gone[o]
    BY <1>r DEF TypeOK
  <1>p. pc'[t] = (IF pc[t] = "unlink" THEN "link read" ELSE "bump") /\ op'[t] = op[t]
    BY <1>r DEF TypeOK
  <1>1. \A o \in Txs \ {t} : SameTx(o) /\ rows'[o] = rows[o] /\ KeepsLocks(o)
    BY <1>r, <1>g DEF TypeOK, SameTx, KeepsLocks
  <1>2. LocksOK'
    BY <1>r DEF TreeInv, LocksOK, Existing
  <1>3. GoneApart'
    <2> SUFFICES ASSUME NEW a \in Txs, NEW b \in Txs, a # b
                 PROVE  gone'[a] \cap gone'[b] = {}
      BY DEF GoneApart
    <2>1. gone[a] \cap gone[b] = {}
      BY DEF TreeInv, GoneApart
    <2>2. CASE a # t /\ b # t
      BY <1>g, <2>1, <2>2
    <2>3. CASE a = t \/ b = t
      BY <1>r, <1>g, <2>3
    <2> QED BY <2>2, <2>3
  <1>4. TxOK(t)'
    <2>3. PlaceOK(t)'
      BY <1>o, <1>p DEF PlaceOK
    <2>4. CASE op[t] = "move"
      <3>1. FreshHeld(t)'
        BY <1>0, <1>o, <1>r, <2>4 DEF TxOK, MoveOK, FreshHeld, Held
      <3>2. pc[t] = "unlink" /\ pc'[t] = "link read"
        BY <1>o, <1>p, <2>4
      <3>3. MoveOK(t)'
        BY <1>0, <1>r, <1>g, <1>p, <2>4, <3>1, <3>2 DEF TxOK, MoveOK, Existing
      <3> QED BY <1>p, <2>3, <2>4, <3>3 DEF TxOK, InsertOK, DeleteOK
    <2>5. CASE op[t] = "delete"
      <3>2. pc[t] = "delete rows" /\ pc'[t] = "bump"
        BY <1>o, <1>p, <2>5
      <3>3. DeleteOK(t)'
        BY <1>0, <1>r, <1>g, <1>p, <2>5, <3>2 DEF TxOK, DeleteOK, Existing
      <3> QED BY <1>p, <2>3, <2>5, <3>3 DEF TxOK, InsertOK, MoveOK
    <2> QED BY <1>o, <2>4, <2>5
  <1>5. UNCHANGED tableVars
    BY <1>r DEF tableVars
  <1> QED BY <1>1, <1>2, <1>3, <1>4, <1>5, TreeStep

\* DELETE of the first unit.
LEMMA TreeDeleteUnit ==
  ASSUME TypeOK, TreeInv, NEW t \in Txs, NEW n \in Units, DeleteUnit(t, n)
  PROVE  TreeInv'
  <1> USE ConstantsAssumption
  <1>0. op[t] = "none" /\ gone[t] = {} /\ fresh[t] = {} /\ removed[t] = {}
    BY DEF DeleteUnit, TreeInv, TxOK, PlaceOK
  <1>r. /\ LockRow(t, n) /\ n # Root
        /\ pc' = [pc EXCEPT ![t] = "cascade"] /\ op' = [op EXCEPT ![t] = "delete"]
        /\ node' = [node EXCEPT ![t] = n] /\ removed' = [removed EXCEPT ![t] = {n}]
        /\ UNCHANGED <<parent, closure, shared, company, target, rows, gone, fresh>>
    BY DEF DeleteUnit, Goto, tableVars
  <1>t. /\ pc'[t] = "cascade" /\ op'[t] = "delete" /\ node'[t] = n /\ removed'[t] = {n}
        /\ exclusive'[n] = t /\ n \in Existing /\ n \in Existing'
    BY <1>r DEF TypeOK, LockRow, Existing
  <1>k. LocksOK' /\ \A o \in Txs : KeepsLocks(o)
    BY <1>r, TreeLockRow
  <1>1. \A o \in Txs \ {t} : SameTx(o) /\ rows'[o] = rows[o] /\ KeepsLocks(o)
    BY <1>k, <1>r DEF TypeOK, SameTx
  <1>3. GoneApart'
    BY <1>r DEF TreeInv, GoneApart
  <1>4. TxOK(t)'
    <2>1. Anc(closure, n, n)
      BY <1>t DEF TreeInv, Exact, Refl, Anc, Existing
    <2>2. Anc(closure, node[t], n)'
      BY <2>1, <1>r, <1>t
    <2> QED BY <1>0, <1>r, <1>t, <2>2 DEF TxOK, PlaceOK, InsertOK, MoveOK, DeleteOK
  <1>5. UNCHANGED tableVars
    BY <1>r DEF tableVars
  <1> QED BY <1>1, <1>k, <1>3, <1>4, <1>5, TreeStep

\* The cascade only goes down.
LEMMA TreeCascade ==
  ASSUME TypeOK, TreeInv, NEW t \in Txs, DeleteCascade(t)
  PROVE  TreeInv'
  <1> USE ConstantsAssumption
  <1>0. TxOK(t)
    BY DEF TreeInv
  <1>o. pc[t] = "cascade" /\ op[t] = "delete"
    BY <1>0 DEF DeleteCascade, TypeOK, TxOK, PlaceOK, InsertOK, MoveOK
  <1> PICK c \in Children(removed[t]) :
            LockRow(t, c) /\ removed' = [removed EXCEPT ![t] = @ \cup {c}]
    BY DEF DeleteCascade
  <1>r. UNCHANGED <<parent, closure, shared, company, pc, op, node, target, rows, gone, fresh>>
    BY DEF DeleteCascade, tableVars, argVars
  <1>c. /\ c \in Existing /\ c \in Units /\ parent[c] \in removed[t] /\ parent[c] \in Existing
        /\ c # Root
    BY <1>0, <1>o DEF Children, TypeOK, TxOK, DeleteOK, TreeInv, Exact, Parents
  <1>t. removed'[t] = removed[t] \cup {c} /\ exclusive'[c] = t
    BY <1>c DEF TypeOK, LockRow
  <1>k. LocksOK' /\ \A o \in Txs : KeepsLocks(o)
    BY <1>c, <1>r, TreeLockRow
  <1>1. \A o \in Txs \ {t} : SameTx(o) /\ rows'[o] = rows[o] /\ KeepsLocks(o)
    BY <1>k, <1>r DEF TypeOK, SameTx
  <1>3. GoneApart'
    BY <1>r DEF TreeInv, GoneApart
  <1>l. \A v \in Units : exclusive[v] = t => exclusive'[v] = t
    BY <1>k DEF KeepsLocks
  <1>4. TxOK(t)'
    <2>0. node[t] \in removed[t] /\ removed[t] \subseteq Units /\ node[t] \in Units
      BY <1>0, <1>o DEF TypeOK, TxOK, DeleteOK
    <2>1. Anc(closure, node[t], parent[c])
      BY <1>0, <1>o, <1>c DEF TxOK, DeleteOK
    <2>2. Anc(closure, node[t], c)
      <3> PICK k \in Nat : Has(closure, node[t], parent[c], k)
        BY <2>1 DEF Anc
      <3>1. Has(closure, node[t], c, k + 1)
        BY <2>0, <1>c DEF TreeInv, Exact, Downward, Existing
      <3> QED BY <3>1 DEF Anc
    <2>3. \A u \in removed'[t] : /\ u \in Existing \ {Root} /\ exclusive'[u] = t
                                 /\ Anc(closure, node[t], u)
      BY <1>0, <1>o, <1>c, <1>l, <1>t, <2>0, <2>2 DEF TxOK, DeleteOK
    <2>4. DeleteOK(t)'
      BY <1>0, <1>o, <1>r, <1>t, <2>0, <2>3 DEF TxOK, DeleteOK, Existing
    <2>5. PlaceOK(t)'
      BY <1>o, <1>r, <1>0 DEF TxOK, PlaceOK
    <2> QED BY <1>o, <1>r, <2>4, <2>5 DEF TxOK, InsertOK, MoveOK
  <1>5. UNCHANGED tableVars
    BY <1>r DEF tableVars
  <1> QED BY <1>1, <1>k, <1>3, <1>4, <1>5, TreeStep

\* The rows of the deleted units are read when no child is left.
LEMMA TreeDeleteRead ==
  ASSUME TypeOK, TreeInv, NEW t \in Txs, DeleteRowsRead(t)
  PROVE  TreeInv'
  <1> USE ConstantsAssumption
  <1>0. TxOK(t)
    BY DEF TreeInv
  <1>o. pc[t] = "cascade" /\ op[t] = "delete"
    BY <1>0 DEF DeleteRowsRead, TypeOK, TxOK, PlaceOK, InsertOK, MoveOK
  <1>v. Visible(t) = closure
    BY <1>0, <1>o DEF TxOK, DeleteOK, Visible
  <1>r. /\ rows' = [rows EXCEPT ![t] = Touching(closure, removed[t])]
        /\ pc' = [pc EXCEPT ![t] = "delete rows"]
        /\ Children(removed[t]) = {}
        /\ UNCHANGED <<parent, closure, exclusive, shared, company, op, node, target,
                       gone, fresh, removed>>
    BY <1>v, Zenon DEF DeleteRowsRead, Touching, Goto, tableVars, lockVars, argVars, writeVars
  <1>p. pc'[t] = "delete rows" /\ op'[t] = "delete" /\ rows'[t] = Touching(closure, removed[t])
    BY <1>o, <1>r DEF TypeOK
  <1>c. \A c \in Existing \ removed[t] : parent[c] \notin removed[t]
    BY <1>r DEF Children
  <1>1. \A o \in Txs \ {t} : SameTx(o) /\ rows'[o] = rows[o] /\ KeepsLocks(o)
    BY <1>r DEF TypeOK, SameTx, KeepsLocks
  <1>2. LocksOK' /\ GoneApart'
    BY <1>r DEF TreeInv, GoneApart, LocksOK, Existing
  <1>4. TxOK(t)'
    <2>4. DeleteOK(t)'
      BY <1>0, <1>o, <1>c, <1>r, <1>p DEF TxOK, DeleteOK, Existing
    <2>5. PlaceOK(t)'
      BY <1>p DEF PlaceOK
    <2> QED BY <1>p, <2>4, <2>5 DEF TxOK, InsertOK, MoveOK
  <1>5. UNCHANGED tableVars
    BY <1>r DEF tableVars
  <1> QED BY <1>1, <1>2, <1>4, <1>5, TreeStep

-----------------------------------------------------------------------------
(* Commit                                                                  *)

\* The units whose ancestors t changes.
Affected(t) ==
    IF op[t] = "insert" THEN {node[t]}
    ELSE IF op[t] = "move" THEN Under(closure, node[t])
    ELSE removed[t]

\* A transaction about to commit replaces the rows of the units it affects,
\* which it has locked with every unit it names.
LEMMA CommitReplaces ==
  ASSUME TypeOK, TreeInv, NEW t \in Txs, pc[t] = "commit"
  PROVE  /\ Replaces(closure, gone[t], fresh[t], Affected(t))
         /\ \A v \in Affected(t) : Held(t, v)
         /\ op[t] \in {"insert", "move"} => Held(t, target[t])
         /\ FreshHeld(t)
  <1> USE ConstantsAssumption
  <1>0. TxOK(t) /\ Exact(parent, closure)
    BY DEF TreeInv
  <1>c. closure \in SUBSET Rows /\ Existing \subseteq Units /\ fresh[t] \subseteq Rows
    BY DEF TypeOK
  <1>1. CASE op[t] = "insert"
    <2> DEFINE x == node[t]
               p == target[t]
    <2>1. /\ x \in Units \ Existing /\ exclusive[x] = t /\ p \in Existing /\ Held(t, p)
          /\ gone[t] = {} /\ fresh[t] = Inherited(closure, x, p) /\ FreshHeld(t)
      BY <1>0, <1>1 DEF TxOK, InsertOK
    <2>2. Affected(t) = {x}
      BY <1>1 DEF Affected
    <2> HIDE DEF x
    <2>3. \A a, u \in Units, k \in Nat : Has(fresh[t], a, u, k) => u = x
      BY <1>c, <2>1, InheritedHas
    <2>4. \A a, u \in Units, k \in Nat : Has(closure, a, u, k) => a # x /\ u # x
      BY <1>0, <2>1 DEF Exact, Within, Existing
    <2>5. Replaces(closure, gone[t], fresh[t], {x})
      BY <1>c, <2>1, <2>3, <2>4 DEF Replaces, Has
    <2>6. Held(t, x)
      BY <2>1 DEF Held
    <2> QED BY <2>1, <2>2, <2>5, <2>6
  <1>2. CASE op[t] = "move"
    <2> DEFINE n == node[t]
               p == target[t]
               A == Under(closure, n)
    <2>1. /\ n \in Units /\ p \in Units /\ p \in Existing /\ exclusive[p] = t
          /\ gone[t] = Outside(closure, n) /\ fresh[t] = SubtreeLinks(closure, n, p)
          /\ FreshHeld(t)
      BY <1>0, <1>2, <1>c DEF TxOK, MoveOK
    <2>2. Affected(t) = A
      BY <1>2 DEF Affected
    <2>3. \A u \in Units : u \in A <=> Anc(closure, n, u)
      BY <1>c, <2>1, UnderHas
    <2>4. A \subseteq Units
      BY <1>c, <2>1, UnderHas
    <2> HIDE DEF n, p, A
    <2>5. ASSUME NEW a \in Units, NEW u \in Units, NEW k \in Nat
          PROVE  /\ Has(gone[t], a, u, k) => u \in A
                 /\ Has(fresh[t], a, u, k) => u \in A
                 /\ Has(closure, a, u, k) /\ u \in A /\ a \notin A => Has(gone[t], a, u, k)
                 /\ Has(closure, a, u, k) /\ a \in A => u \in A
      <3>1. Has(gone[t], a, u, k) <=> Has(closure, a, u, k) /\ u \in A /\ a \notin A
        BY <1>c, <2>1, <2>3, OutsideHas
      <3>2. Has(fresh[t], a, u, k) => Anc(closure, n, u)
        <4>1. Has(SubtreeLinks(closure, n, p), a, u, k) <=>
                \E i, j \in Nat : Has(closure, a, p, i) /\ Has(closure, n, u, j) /\ k = i + j + 1
          BY <1>c, <2>1, LinksHas
        <4> QED BY <2>1, <4>1 DEF Anc
      <3>3. Has(closure, a, u, k) /\ a \in A => u \in A
        <4> SUFFICES ASSUME Has(closure, a, u, k), Anc(closure, n, a) PROVE Anc(closure, n, u)
          BY <2>3
        <4>1. Anc(closure, a, u)
          BY DEF Anc
        <4> QED BY <1>0, <2>1, <4>1, Order
      <3> QED BY <2>3, <3>1, <3>2, <3>3
    <2>6. gone[t] \subseteq closure
      BY <2>1 DEF Outside
    <2>7. Replaces(closure, gone[t], fresh[t], A)
      BY <1>c, <2>4, <2>5, <2>6 DEF Replaces
    <2>8. ASSUME NEW v \in A PROVE Held(t, v)
      <3>1. v \in Units /\ Anc(closure, n, v)
        BY <2>3, <2>4
      <3> PICK j \in Nat : Has(closure, n, v, j)
        BY <3>1 DEF Anc
      <3>2. Has(closure, p, p, 0) /\ 0 + j + 1 \in Nat
        BY <1>0, <2>1 DEF Exact, Refl, Existing
      <3>3. Has(fresh[t], p, v, 0 + j + 1)
        BY <1>c, <2>1, <3>1, <3>2, LinksHas
      <3> QED BY <2>1, <3>3, RowParts DEF FreshHeld, Has
    <2>9. Held(t, p)
      BY <2>1 DEF Held
    <2> QED BY <2>1, <2>2, <2>7, <2>8, <2>9 DEF p
  <1>3. CASE op[t] = "delete"
    <2> DEFINE R == removed[t]
    <2>1. /\ R \in SUBSET (Existing \ {Root}) /\ \A v \in R : exclusive[v] = t
          /\ \A c \in Existing \ R : parent[c] \notin R
          /\ gone[t] = Touching(closure, R) /\ fresh[t] = {}
      BY <1>0, <1>3 DEF TxOK, DeleteOK
    <2>2. Affected(t) = R
      BY <1>3 DEF Affected
    <2> HIDE DEF R
    <2>3. \A a, u \in Units : Anc(closure, a, u) /\ a \in R => u \in R
      BY <1>0, <2>1, DeleteExact DEF Existing
    <2>4. \A a, u \in Units, k \in Nat :
             Has(gone[t], a, u, k) <=> Has(closure, a, u, k) /\ (a \in R \/ u \in R)
      BY <1>c, <2>1, TouchingHas
    <2>5. \A a, u \in Units, k \in Nat : Has(closure, a, u, k) /\ a \in R => u \in R
      BY <2>3 DEF Anc
    <2>6. \A a, u, k : ~Has(fresh[t], a, u, k)
      BY <2>1 DEF Has
    <2>7. gone[t] \subseteq closure /\ R \subseteq Units
      BY <1>c, <2>1 DEF Touching
    <2>8. Replaces(closure, gone[t], fresh[t], R)
      BY <1>c, <2>4, <2>5, <2>6, <2>7 DEF Replaces
    <2>9. \A v \in R : Held(t, v)
      BY <2>1 DEF Held
    <2>10. FreshHeld(t)
      BY <2>1 DEF FreshHeld
    <2> QED BY <1>3, <2>2, <2>8, <2>9, <2>10
  <1> QED BY <1>0, <1>1, <1>2, <1>3 DEF TypeOK, TxOK, PlaceOK

\* The rows others have for themselves are clear of it.
LEMMA CommitClear ==
  ASSUME TypeOK, TreeInv, NEW t \in Txs, pc[t] = "commit",
         NEW o \in Txs \ {t}, NEW v \in Units, exclusive[v] = o
  PROVE  Clear(v, fresh[t], Affected(t))
  <1>1. ~Held(t, v)
    BY ConstantsAssumption DEF Held, TreeInv, LocksOK
  <1>2. v \notin Affected(t)
    BY <1>1, CommitReplaces
  <1>3. ASSUME NEW u \in Units, NEW k \in Nat, Has(fresh[t], v, u, k) PROVE FALSE
    <2>1. FreshHeld(t)
      BY CommitReplaces
    <2>2. Held(t, Row(v, u, k).anc)
      BY <1>3, <2>1 DEF FreshHeld, Has
    <2> QED BY <1>1, <2>2, RowParts
  <1> QED BY <1>2, <1>3 DEF Clear

\* What a commit leaves is a tree with its closure.
LEMMA CommitExact ==
  ASSUME TypeOK, TreeInv, NEW t \in Txs, Commit(t)
  PROVE  Exact(parent, closure)'
  <1> USE ConstantsAssumption
  <1>0. TxOK(t) /\ Exact(parent, closure) /\ pc[t] = "commit"
    BY DEF TreeInv, Commit
  <1>c. closure' = (closure \ gone[t]) \cup fresh[t]
    BY DEF Commit, Visible
  <1>p. parent' = [u \in (Existing \ removed[t]) \cup
                        (IF op[t] = "insert" THEN {node[t]} ELSE {}) |->
                     IF op[t] \in {"insert", "move"} /\ u = node[t] THEN target[t]
                     ELSE parent[u]]
    BY Zenon DEF Commit
  <1> USE DEF Existing
  <1>1. CASE op[t] = "insert"
    <2>1. /\ node[t] \in Units \ Existing /\ target[t] \in Existing
          /\ gone[t] = {} /\ removed[t] = {} /\ fresh[t] = Inherited(closure, node[t], target[t])
      BY <1>0, <1>1 DEF TxOK, InsertOK
    <2>2. closure' = closure \cup Inherited(closure, node[t], target[t])
      BY <1>c, <2>1
    <2>3. parent' = Grafted(parent, node[t], target[t])
      BY <1>1, <1>p, <2>1 DEF Grafted
    <2> QED BY <1>0, <2>1, <2>2, <2>3, InsertExact
  <1>2. CASE op[t] = "move"
    <2>1. /\ node[t] \in Existing \ {Root} /\ target[t] \in Existing /\ removed[t] = {}
          /\ ~Anc(closure, node[t], target[t]) /\ gone[t] = Outside(closure, node[t])
          /\ fresh[t] = SubtreeLinks(closure, node[t], target[t])
      BY <1>0, <1>2 DEF TxOK, MoveOK
    <2>2. parent' = [parent EXCEPT ![node[t]] = target[t]]
      BY <1>2, <1>p, <2>1 DEF TypeOK
    <2> QED BY <1>0, <1>c, <2>1, <2>2, MoveExact
  <1>3. CASE op[t] = "delete"
    <2>1. /\ removed[t] \in SUBSET (Existing \ {Root}) /\ fresh[t] = {}
          /\ \A c \in Existing \ removed[t] : parent[c] \notin removed[t]
          /\ gone[t] = Touching(closure, removed[t])
      BY <1>0, <1>3 DEF TxOK, DeleteOK
    <2>2. parent' = Pruned(parent, removed[t])
      BY <1>3, <1>p DEF Pruned
    <2>3. closure' = closure \ Touching(closure, removed[t])
      BY <1>c, <2>1
    <2> QED BY <1>0, <2>1, <2>2, <2>3, DeleteExact
  <1> QED BY <1>0, <1>1, <1>2, <1>3 DEF TypeOK, TxOK, PlaceOK

\* What another transaction has locked, checked, read and deleted stays as its
\* operation needs it.
LEMMA CommitOthers ==
  ASSUME TypeOK, TreeInv, NEW t \in Txs, Commit(t), NEW o \in Txs \ {t}
  PROVE  TxOK(o)'
  <1> USE ConstantsAssumption
  <1> DEFINE C == closure
             D == (C \ gone[t]) \cup fresh[t]
  <1>0. /\ TxOK(o) /\ TxOK(t) /\ pc[t] = "commit" /\ company = t /\ Exact(parent, C)
        /\ gone[t] \cap gone[o] = {}
    BY DEF TreeInv, Commit, TxOK, PlaceOK, GoneApart
  <1>c. closure' = D
    BY DEF Commit, Visible
  <1>s. SameTx(o) /\ KeepsLocks(o)
    BY DEF TypeOK, Commit, Ends, SameTx, KeepsLocks
  <1>w. rows'[o] = IF pc[o] \in {"unlink", "delete rows"} THEN rows[o] \ gone[t] ELSE rows[o]
    BY DEF Commit
  <1>l. \A u \in Units : exclusive[u] = o => exclusive'[u] = o
    BY <1>s DEF KeepsLocks
  <1>e. /\ Existing' = (Existing \ removed[t]) \cup (IF op[t] = "insert" THEN {node[t]} ELSE {})
        /\ \A u \in Existing' : parent'[u] = IF op[t] \in {"insert", "move"} /\ u = node[t]
                                             THEN target[t] ELSE parent[u]
        /\ Existing \subseteq Units
    BY DEF Commit, Existing, TypeOK
  <1>R. Replaces(C, gone[t], fresh[t], Affected(t))
    BY <1>0, CommitReplaces
  <1>k. \A v \in Units : exclusive[v] = o => Clear(v, fresh[t], Affected(t))
    BY <1>0, CommitClear
  \* No unit that o has locked is removed.
  <1>x. ASSUME NEW v \in Existing, Held(o, v) PROVE v \in Existing'
    <2>1. ASSUME v \in removed[t] PROVE FALSE
      <3>1. op[t] = "delete"
        BY <1>0, <2>1 DEF TypeOK, TxOK, PlaceOK, InsertOK, MoveOK
      <3>2. exclusive[v] = t /\ v \in Units
        BY <1>0, <1>e, <2>1, <3>1 DEF TxOK, DeleteOK
      <3> QED BY <1>x, <3>2 DEF Held, TreeInv, LocksOK
    <2> QED BY <1>e, <2>1
  <1> HIDE DEF C, D
  <1>1. PlaceOK(o)'
    BY <1>0, <1>s DEF TxOK, PlaceOK, SameTx
  <1>2. InsertOK(o)'
    <2> SUFFICES ASSUME op[o] = "insert" PROVE InsertOK(o)'
      BY <1>s DEF InsertOK, SameTx
    <2>1. /\ pc[o] = "bump" /\ node[o] \in Units \ Existing /\ exclusive[node[o]] = o
          /\ target[o] \in Existing /\ Held(o, target[o]) /\ gone[o] = {} /\ removed[o] = {}
          /\ fresh[o] = {}
      BY <1>0 DEF TxOK, InsertOK
    <2>2. node[o] \notin Existing'
      BY <1>0, <1>e, <2>1 DEF TxOK, InsertOK
    <2>3. target[o] \in Existing' /\ target[o] \in Units
      BY <1>e, <1>x, <2>1
    <2>4. Held(o, target[o])'
      BY <1>s, <2>1, <2>3 DEF Held, KeepsLocks, SameTx
    <2> QED BY <1>s, <1>l, <2>1, <2>2, <2>3, <2>4 DEF InsertOK, FreshHeld, SameTx
  <1>3. MoveOK(o)'
    <2> SUFFICES ASSUME op[o] = "move" PROVE MoveOK(o)'
      BY <1>s DEF MoveOK, SameTx
    <2> DEFINE n == node[o]
               p == target[o]
    <2>o. MoveOK(o)
      BY <1>0 DEF TxOK
    <2>f. FreshHeld(o)'
      BY <1>s, <2>o, FreshKept DEF MoveOK, SameTx
    <2>n. pc[o] # "node" => /\ n \in Existing \ {Root} /\ exclusive[n] = o /\ n \in Units
                            /\ n \in Existing' /\ exclusive'[n] = o
      BY <1>e, <1>l, <1>x, <2>o DEF MoveOK, Held
    <2>p. pc[o] \notin {"node", "parent"} =>
             p \in Existing /\ exclusive[p] = o /\ p \in Units /\ p \in Existing' /\ exclusive'[p] = o
      BY <1>e, <1>l, <1>x, <2>o DEF MoveOK, Held
    <2>s. /\ pc'[o] = pc[o] /\ op'[o] = "move" /\ node'[o] = n /\ target'[o] = p
          /\ gone'[o] = gone[o] /\ fresh'[o] = fresh[o] /\ removed'[o] = removed[o]
      BY <1>s DEF SameTx
    <2> HIDE DEF n, p
    <2>1. pc[o] \notin {"node", "parent", "check"} => ~Anc(D, n, p)
      <3> SUFFICES ASSUME pc[o] \notin {"node", "parent", "check"} PROVE ~Anc(D, n, p)
        OBVIOUS
      <3>1. ~Anc(C, n, p) /\ Clear(p, fresh[t], Affected(t)) /\ n \in Units
        BY <1>k, <2>n, <2>o, <2>p DEF MoveOK, n, p, C
      <3> QED BY <1>R, <3>1, ClearAnc DEF D
    <2>2. pc[o] \notin {"node", "parent", "check"} => Outside(D, n) = Outside(C, n) \ gone[t]
      <3> SUFFICES ASSUME pc[o] \notin {"node", "parent", "check"}
                   PROVE  Outside(D, n) = Outside(C, n) \ gone[t]
        OBVIOUS
      <3>1. Clear(n, fresh[t], Affected(t))
        BY <1>k, <2>n
      <3> QED BY <1>0, <1>R, <3>1, OutsideKept DEF D
    <2>3. pc[o] = "unlink" => rows'[o] = Outside(D, n)
      BY <1>w, <2>2, <2>o DEF MoveOK, n, C
    <2>4. pc[o] \in {"link read", "link", "bump", "commit"} =>
             gone[o] = Outside(C, n) /\ gone[t] \cap Outside(C, n) = {} /\ gone[o] = Outside(D, n)
      <3> SUFFICES ASSUME pc[o] \in {"link read", "link", "bump", "commit"}
                   PROVE  /\ gone[o] = Outside(C, n) /\ gone[t] \cap Outside(C, n) = {}
                          /\ gone[o] = Outside(D, n)
        OBVIOUS
      <3>1. gone[o] = Outside(C, n)
        BY <2>o DEF MoveOK, n, C
      <3>2. gone[t] \cap Outside(C, n) = {}
        BY <1>0, <3>1
      <3>3. Outside(C, n) \ gone[t] = Outside(C, n)
        BY <3>2
      <3> QED BY <2>2, <3>1, <3>2, <3>3
    <2>5. pc[o] \in {"link read", "link", "bump", "commit"} =>
             SubtreeLinks(D, n, p) = SubtreeLinks(C, n, p)
      <3> SUFFICES ASSUME pc[o] \in {"link read", "link", "bump", "commit"}
                   PROVE  SubtreeLinks(D, n, p) = SubtreeLinks(C, n, p)
        OBVIOUS
      <3>1. /\ Clear(n, fresh[t], Affected(t)) /\ Clear(p, fresh[t], Affected(t))
            /\ n \in DOMAIN parent \ {Root}
        BY <1>k, <2>n, <2>p DEF Existing
      <3>2. gone[t] \cap Outside(C, n) = {}
        BY <2>4
      <3>3. \A u \in Units, k \in Nat : Has(D, n, u, k) <=> Has(C, n, u, k)
        BY <1>0, <1>R, <3>1, <3>2, SubtreeKept DEF D
      <3>4. \A u \in Units, k \in Nat : Has(D, u, p, k) <=> Has(C, u, p, k)
        BY <1>R, <3>1, ClearKept DEF D
      <3>5. C \in SUBSET Rows /\ D \in SUBSET Rows /\ n \in Units /\ p \in Units
        BY <2>n, <2>p DEF TypeOK, C, D
      <3>6. SameAround(C, D, n, p)
        BY <3>3, <3>4 DEF SameAround
      <3> QED BY <3>5, <3>6, LinksSame
    <2>6. pc[o] = "link" => rows'[o] = SubtreeLinks(D, n, p)
      BY <1>w, <2>5, <2>o DEF MoveOK, n, p, C
    <2>7. pc[o] \in {"bump", "commit"} => fresh[o] = SubtreeLinks(D, n, p)
      BY <2>5, <2>o DEF MoveOK, n, p, C
    <2>8. /\ pc[o] \in {"node", "parent", "check", "unlink read", "unlink", "link read",
                        "link", "bump", "commit"}
          /\ removed[o] = {}
          /\ pc[o] \notin {"link read", "link", "bump", "commit"} => gone[o] = {}
          /\ pc[o] \notin {"bump", "commit"} => fresh[o] = {}
      BY <2>o DEF MoveOK
    <2> QED BY <1>c, <2>f, <2>n, <2>p, <2>s, <2>1, <2>3, <2>4, <2>6, <2>7, <2>8 DEF MoveOK
  <1>4. DeleteOK(o)'
    <2> SUFFICES ASSUME op[o] = "delete" PROVE DeleteOK(o)'
      BY <1>s DEF DeleteOK, SameTx
    <2> DEFINE R == removed[o]
    <2>o. DeleteOK(o)
      BY <1>0 DEF TxOK
    <2>s. /\ pc'[o] = pc[o] /\ op'[o] = "delete" /\ node'[o] = node[o]
          /\ gone'[o] = gone[o] /\ fresh'[o] = fresh[o] /\ removed'[o] = R
      BY <1>s DEF SameTx
    <2>1. ASSUME NEW v \in R
          PROVE  /\ v \in Units /\ Clear(v, fresh[t], Affected(t))
                 /\ v \in Existing' \ {Root} /\ exclusive'[v] = o
                 /\ Anc(D, node[o], v)
      <3>1. v \in Existing \ {Root} /\ exclusive[v] = o /\ Anc(C, node[o], v) /\ v \in Units
        BY <1>e, <2>o DEF DeleteOK, C
      <3>2. Clear(v, fresh[t], Affected(t))
        BY <1>k, <3>1
      <3>3. node[o] \in Units
        BY <1>e, <2>o DEF DeleteOK
      <3>4. Anc(D, node[o], v)
        BY <1>R, <3>1, <3>2, <3>3, ClearAnc DEF D
      <3>5. v \in Existing' /\ exclusive'[v] = o
        BY <1>l, <1>x, <3>1 DEF Held
      <3> QED BY <3>1, <3>2, <3>4, <3>5
    <2>2. Touching(D, R) = Touching(C, R) \ gone[t]
      <3>1. \A v \in R : Clear(v, fresh[t], Affected(t))
        BY <2>1
      <3>2. C \in SUBSET Rows
        BY DEF TypeOK, C
      <3> HIDE DEF R
      <3> QED BY <1>R, <3>1, <3>2, TouchingKept DEF D
    <2>3. pc[o] = "delete rows" => rows'[o] = Touching(D, R)
      BY <1>w, <2>2, <2>o DEF DeleteOK, C
    <2>4. pc[o] \in {"bump", "commit"} => gone[o] = Touching(D, R)
      <3> SUFFICES ASSUME pc[o] \in {"bump", "commit"} PROVE gone[o] = Touching(D, R)
        OBVIOUS
      <3>1. gone[o] = Touching(C, R)
        BY <2>o DEF DeleteOK, C
      <3> QED BY <1>0, <2>2, <3>1
    <2>5. pc[o] # "cascade" => \A c \in Existing' \ R : parent'[c] \notin R
      <3> SUFFICES ASSUME pc[o] # "cascade", NEW c \in Existing' \ R, parent'[c] \in R
                   PROVE  FALSE
        OBVIOUS
      <3>1. CASE op[t] \in {"insert", "move"} /\ c = node[t]
        <4>1. Held(t, target[t]) /\ target[t] \in R
          BY <1>0, <1>e, <3>1, CommitReplaces
        <4>2. exclusive[target[t]] = o /\ target[t] \in Units
          BY <1>e, <2>o, <4>1 DEF DeleteOK
        <4> QED BY <4>1, <4>2 DEF Held, TreeInv, LocksOK
      <3>2. CASE ~(op[t] \in {"insert", "move"} /\ c = node[t])
        <4>1. c \in Existing /\ parent'[c] = parent[c]
          BY <1>e, <3>2
        <4> QED BY <2>o, <4>1 DEF DeleteOK
      <3> QED BY <3>1, <3>2
    <2>6. /\ pc[o] \in {"cascade", "delete rows", "bump", "commit"}
          /\ fresh[o] = {} /\ node[o] \in R
          /\ pc[o] \notin {"bump", "commit"} => gone[o] = {}
      BY <2>o DEF DeleteOK
    <2> HIDE DEF R
    <2> QED BY <1>c, <2>s, <2>1, <2>3, <2>4, <2>5, <2>6 DEF DeleteOK
  <1> QED BY <1>1, <1>2, <1>3, <1>4 DEF TxOK

\* A commit keeps the closure exact, and every other transaction's work in
\* order.
LEMMA TreeCommit == ASSUME TypeOK, TreeInv, NEW t \in Txs, Commit(t) PROVE TreeInv'
  <1> USE ConstantsAssumption
  <1>1. TxOK(t)'
    BY DEF Commit, Ends, TypeOK, TxOK, PlaceOK, InsertOK, MoveOK, DeleteOK
  <1>2. GoneApart'
    BY DEF Commit, Ends, TypeOK, TreeInv, GoneApart
  <1>3. LocksOK'
    <2> SUFFICES ASSUME NEW u \in Units, exclusive'[u] # NoTx \/ u \notin Existing'
                 PROVE  shared'[u] \subseteq {exclusive'[u]}
      BY DEF LocksOK
    <2>0. TxOK(t) /\ pc[t] = "commit"
      BY DEF TreeInv, Commit
    <2>1. /\ exclusive'[u] = IF exclusive[u] = t THEN NoTx ELSE exclusive[u]
          /\ shared'[u] = shared[u] \ {t}
      BY DEF Commit, Ends
    <2>2. Existing' = (Existing \ removed[t]) \cup (IF op[t] = "insert" THEN {node[t]} ELSE {})
      BY DEF Commit, Existing
    <2>3. \A v \in removed[t] : exclusive[v] = t
      BY <2>0 DEF TypeOK, TxOK, PlaceOK, InsertOK, MoveOK, DeleteOK
    <2>4. exclusive[u] # NoTx \/ u \notin Existing
      BY <2>1, <2>2, <2>3
    <2>5. shared[u] \subseteq {exclusive[u]}
      BY <2>4 DEF TreeInv, LocksOK
    <2> QED BY <2>1, <2>5
  <1>4. \A o \in Txs : TxOK(o)'
    BY <1>1, CommitOthers
  <1> QED BY <1>2, <1>3, <1>4, CommitExact DEF TreeInv

\* Every step preserves it.
LEMMA NextTree == IInv /\ TreeInv /\ [Next]_vars => TreeInv'
  <1> SUFFICES ASSUME TypeOK, TreeInv, [Next]_vars PROVE TreeInv'
    BY DEF IInv
  <1>1. CASE UNCHANGED vars
    <2>1. UNCHANGED <<parent, closure, exclusive, shared, company, pc, op, node, target, rows,
                      gone, fresh, removed>>
      BY <1>1 DEF vars, tableVars, lockVars, argVars, writeVars
    <2>2. LocksOK' /\ GoneApart' /\ Exact(parent, closure)'
      BY <2>1 DEF TreeInv, LocksOK, GoneApart, Existing
    <2>3. ASSUME NEW o \in Txs PROVE TxOK(o)'
      <3>1. SameTx(o) /\ rows'[o] = rows[o] /\ KeepsLocks(o) /\ UNCHANGED tableVars /\ TxOK(o)
        BY <2>1 DEF SameTx, KeepsLocks, tableVars, TreeInv
      <3> QED BY <3>1, Frame
    <2> QED BY <2>2, <2>3 DEF TreeInv
  <1>2. CASE Next
    <2> PICK t \in Txs : Step(t)
      BY <1>2 DEF Next
    <2> QED BY TreeCommit, TreeAbort, TreeInsertUnit, TreeBump, TreeInheritRead, TreeLink,
               TreeMoveStart, TreeMoveLocks, TreeMoveCheck, TreeMoveReads, TreeDeletes,
               TreeDeleteUnit, TreeCascade, TreeDeleteRead DEF Step
  <1> QED BY <1>1, <1>2

\* At all times the closure is exact and every transaction's work fits it.
THEOREM TreeAlwaysExact == Spec => []TreeInv
  BY InitTree, NextTree, InvHolds, PTL DEF Spec

-----------------------------------------------------------------------------
(* The closure and the paths of parent_id                                  *)

\* Between a unit and an ancestor further up there is one right below it.
LEMMA Between ==
  ASSUME NEW par, NEW C, Exact(par, C)
  PROVE  \A j \in Nat : \A a, u \in Units :
            Has(C, a, u, j + 1) => \E b \in DOMAIN par : Has(C, b, u, j) /\ par[b] = a
  <1> DEFINE S == {j \in Nat : \A a, u \in Units :
                     Has(C, a, u, j + 1) => \E b \in DOMAIN par : Has(C, b, u, j) /\ par[b] = a}
  <1>u. DOMAIN par \subseteq Units
    BY DEF Exact, Parents
  <1>1. 0 \in S
    <2> SUFFICES ASSUME NEW a \in Units, NEW u \in Units, Has(C, a, u, 0 + 1)
                 PROVE  \E b \in DOMAIN par : Has(C, b, u, 0) /\ par[b] = a
      OBVIOUS
    <2>1. u \in DOMAIN par /\ par[u] \in DOMAIN par /\ Has(C, a, par[u], 0)
      BY DEF Exact, Upward, Within
    <2>2. a = par[u] /\ Has(C, u, u, 0)
      BY <1>u, <2>1 DEF Exact, Upward, Refl
    <2> QED BY <2>1, <2>2
  <1>2. ASSUME NEW j \in Nat, j \in S PROVE j + 1 \in S
    <2> SUFFICES ASSUME NEW a \in Units, NEW u \in Units, Has(C, a, u, (j + 1) + 1)
                 PROVE  \E b \in DOMAIN par : Has(C, b, u, j + 1) /\ par[b] = a
      OBVIOUS
    <2>1. u \in DOMAIN par /\ par[u] \in DOMAIN par /\ Has(C, a, par[u], j + 1)
      BY DEF Exact, Upward, Within
    <2>2. PICK b \in DOMAIN par : Has(C, b, par[u], j) /\ par[b] = a
      BY <1>2, <1>u, <2>1
    <2>3. Has(C, b, u, j + 1)
      BY <1>u, <2>1, <2>2 DEF Exact, Downward
    <2> QED BY <2>2, <2>3
  <1> HIDE DEF S
  <1>3. Nat \subseteq S
    BY <1>1, <1>2, SetInduction
  <1> QED BY <1>3 DEF S

\* One step up.
Up(par, s) == IF s = NoUnit THEN NoUnit ELSE par[s]

\* The path upwards, by its equation.
LEMMA AboveRuns ==
  ASSUME NEW par, Parents(par), NEW u \in DOMAIN par, NEW k \in Nat
  PROVE  \E up : /\ Tree!Above(par, u, k) = up[k]
                 /\ up[0] = u
                 /\ \A j \in 1..k : up[j] = Up(par, up[j - 1])
  <1> DEFINE S == DOMAIN par \cup {NoUnit}
             F == [j \in 1..k |-> [s \in S |-> Up(par, s)]]
             P(x) == x = [j \in 0..k |-> IF j = 0 THEN u
                                         ELSE IF x[j - 1] = NoUnit THEN NoUnit
                                         ELSE par[x[j - 1]]]
  <1>1. \A s \in S : Up(par, s) \in S
    BY DEF Parents, Up
  <1>2. F \in Steps(k, S) /\ u \in S
    BY <1>1 DEF Steps
  <1>3. \A j \in 1..k, s \in S : F[j][s] = Up(par, s)
    OBVIOUS
  <1> HIDE DEF F, S
  <1>4. PICK g : Runs(g, S, k, u, F)
    BY <1>2, RunExists
  <1>5. g \in [0..k -> S] /\ g[0] = u /\ \A j \in 1..k : g[j] = F[j][g[j - 1]]
    BY <1>4 DEF Runs
  <1>6. P(g)
    <2>1. ASSUME NEW j \in 0..k
          PROVE  g[j] = IF j = 0 THEN u ELSE IF g[j - 1] = NoUnit THEN NoUnit ELSE par[g[j - 1]]
      <3>1. CASE j = 0
        BY <1>5, <3>1
      <3>2. CASE j # 0
        <4>1. j \in 1..k /\ j - 1 \in 0..k
          BY <3>2
        <4>2. g[j] = Up(par, g[j - 1])
          BY <1>3, <1>5, <4>1
        <4> QED BY <3>2, <4>2 DEF Up
      <3> QED BY <3>1, <3>2
    <2> QED BY <1>5, <2>1
  <1> DEFINE up == CHOOSE x : P(x)
  <1>7. P(up)
    <2> HIDE DEF P
    <2> QED BY <1>6, Zenon
  <1>8. Tree!Above(par, u, k) = up[k]
    BY DEF Tree!Above
  <1> HIDE DEF up
  <1>9. up[0] = u /\ \A j \in 1..k : up[j] = Up(par, up[j - 1])
    BY <1>7 DEF Up
  <1> QED BY <1>8, <1>9

\* k steps up from u is a exactly when the closure has a at distance k.
LEMMA AboveHas ==
  ASSUME NEW par, NEW C, Exact(par, C), NEW u \in DOMAIN par, NEW k \in Nat, NEW a \in DOMAIN par
  PROVE  Tree!Above(par, u, k) = a <=> Has(C, a, u, k)
  <1> USE ConstantsAssumption
  <1>u. Parents(par) /\ DOMAIN par \subseteq Units /\ NoUnit \notin DOMAIN par
    BY DEF Exact, Parents
  <1>0. PICK up : /\ Tree!Above(par, u, k) = up[k]
                  /\ up[0] = u
                  /\ \A j \in 1..k : up[j] = Up(par, up[j - 1])
    BY <1>u, AboveRuns
  <1> DEFINE S == {j \in 0..k : \A b \in DOMAIN par : up[j] = b <=> Has(C, b, u, j)}
  <1>1. 0 \in S
    BY <1>0, <1>u DEF Exact, Refl, Upward
  <1>2. ASSUME NEW j \in 1..k, j - 1 \in S PROVE j \in S
    <2>0. up[j] = Up(par, up[j - 1]) /\ j - 1 \in Nat /\ (j - 1) + 1 = j
      BY <1>0
    <2>1. ASSUME NEW b \in DOMAIN par, up[j] = b PROVE Has(C, b, u, j)
      <3> DEFINE c == up[j - 1]
      <3>1. c # NoUnit /\ b = par[c]
        BY <1>u, <2>0, <2>1 DEF Up
      <3>2. CASE c \in DOMAIN par
        <4>1. Has(C, c, u, j - 1)
          BY <1>2, <3>2
        <4>2. Has(C, b, b, 0)
          BY DEF Exact, Refl
        <4>3. Has(C, b, c, 0 + 1)
          BY <1>u, <3>1, <3>2, <4>2 DEF Exact, Downward
        <4>4. Has(C, b, u, 1 + (j - 1))
          BY <1>u, <2>0, <3>2, <4>1, <4>3, Transitive
        <4> QED BY <4>4
      <3>3. c \in DOMAIN par
        <4> DEFINE T == {i \in 0..k : up[i] \in DOMAIN par \cup {NoUnit}}
        <4>1. 0 \in T
          BY <1>0
        <4>2. ASSUME NEW i \in 1..k, i - 1 \in T PROVE i \in T
          BY <1>0, <1>u, <4>2 DEF Up, Parents
        <4> HIDE DEF T
        <4>3. 0..k \subseteq T
          BY <4>1, <4>2, BoundedInduction
        <4>4. j - 1 \in T
          BY <4>3
        <4> QED BY <3>1, <4>4 DEF T
      <3> QED BY <3>2, <3>3
    <2>2. ASSUME NEW b \in DOMAIN par, Has(C, b, u, j) PROVE up[j] = b
      <3>1. PICK c \in DOMAIN par : Has(C, c, u, j - 1) /\ par[c] = b
        BY <1>u, <2>0, <2>2, Between
      <3>2. up[j - 1] = c /\ c # NoUnit
        BY <1>2, <1>u, <3>1
      <3> QED BY <2>0, <3>1, <3>2 DEF Up
    <2> QED BY <2>1, <2>2
  <1> HIDE DEF S
  <1>3. 0..k \subseteq S
    BY <1>1, <1>2, BoundedInduction
  <1>4. k \in S
    BY <1>3
  <1> QED BY <1>0, <1>4 DEF S

\* A unit has an ancestor at every distance up to its furthest.
LEMMA NoGaps ==
  ASSUME NEW par, NEW C, Exact(par, C), NEW u \in Units, NEW k \in Nat, NEW a \in Units, Has(C, a, u, k)
  PROVE  \A j \in 0..k : \E b \in DOMAIN par : Has(C, b, u, j)
  <1>u. DOMAIN par \subseteq Units
    BY DEF Exact, Parents
  <1> DEFINE S == {i \in 0..k : \E b \in DOMAIN par : Has(C, b, u, k - i)}
  <1>1. 0 \in S
    BY DEF Exact, Within
  <1>2. ASSUME NEW i \in 1..k, i - 1 \in S PROVE i \in S
    <2>1. PICK b \in DOMAIN par : Has(C, b, u, k - (i - 1))
      BY <1>2
    <2>2. k - (i - 1) = (k - i) + 1 /\ k - i \in Nat
      OBVIOUS
    <2>3. \E c \in DOMAIN par : Has(C, c, u, k - i) /\ par[c] = b
      BY <1>u, <2>1, <2>2, Between
    <2> QED BY <2>3
  <1> HIDE DEF S
  <1>3. 0..k \subseteq S
    BY <1>1, <1>2, BoundedInduction
  <1> TAKE j \in 0..k
  <1>4. k - j \in S /\ k - (k - j) = j
    BY <1>3
  <1> QED BY <1>4 DEF S

\* No distance exceeds the number of units.
LEMMA DepthBound ==
  ASSUME NEW par, NEW C, Exact(par, C), NEW u \in Units, NEW k \in Nat, NEW a \in Units, Has(C, a, u, k)
  PROVE  Cardinality(DOMAIN par) \in Nat /\ k <= Cardinality(DOMAIN par)
  <1> DEFINE D == DOMAIN par
             f == [j \in 0..k |-> CHOOSE b \in D : Has(C, b, u, j)]
  <1>1. IsFiniteSet(D) /\ D \subseteq Units
    BY DEF Exact, Parents
  <1>2. ASSUME NEW j \in 0..k PROVE f[j] \in D /\ Has(C, f[j], u, j)
    <2>1. \E b \in D : Has(C, b, u, j)
      BY NoGaps
    <2>2. (CHOOSE b \in D : Has(C, b, u, j)) \in D /\ Has(C, CHOOSE b \in D : Has(C, b, u, j), u, j)
      BY <2>1, Zenon
    <2> QED BY <2>2
  <1>3. f \in [0..k -> D] /\ DOMAIN f = 0..k
    <2>1. f = [j \in 0..k |-> f[j]]
      OBVIOUS
    <2> HIDE DEF f, D
    <2> QED BY <1>2, <2>1
  <1> HIDE DEF f
  <1>4. IsInjective(f)
    <2> SUFFICES ASSUME NEW i \in 0..k, NEW j \in 0..k, f[i] = f[j] PROVE i = j
      BY <1>3 DEF IsInjective
    <2>1. Has(C, f[i], u, i) /\ Has(C, f[i], u, j) /\ f[i] \in Units /\ i \in Nat /\ j \in Nat
      BY <1>1, <1>2
    <2> QED BY <2>1 DEF Exact, Unique
  <1>5. f \in Injection(0..k, D)
    BY <1>3, <1>4 DEF Injection
  <1>6. Cardinality(0..k) <= Cardinality(D)
    BY <1>1, <1>5, FS_Injection
  <1>7. Cardinality(0..k) = k + 1
    BY FS_Interval
  <1>8. Cardinality(D) \in Nat
    BY <1>1, FS_CardinalityType
  <1>9. k <= Cardinality(D)
    BY <1>6, <1>7, <1>8
  <1> QED BY <1>8, <1>9

\* AtomicTree counts as OrgTree does.
LEMMA SameCardinality == ASSUME NEW S PROVE Tree!Cardinality(S) = Cardinality(S)
  BY Zenon DEF Tree!Cardinality, Cardinality

\* A closure that is right step by step is the set of all paths.
LEMMA ExactIsClosure ==
  ASSUME NEW par, NEW C, Exact(par, C)
  PROVE  C = Tree!ClosureOf(par)
  <1> DEFINE R == [anc : DOMAIN par, desc : DOMAIN par, depth : 0..Cardinality(DOMAIN par)]
  <1>c. C \in SUBSET Rows /\ DOMAIN par \subseteq Units
    BY DEF Exact, Parents
  <1>1. ASSUME NEW r \in C PROVE r \in Tree!ClosureOf(par)
    <2>1. /\ r.anc \in Units /\ r.desc \in Units /\ r.depth \in Nat
          /\ Has(C, r.anc, r.desc, r.depth) /\ r \in Rows
      BY <1>c, RowHas
    <2>2. r.anc \in DOMAIN par /\ r.desc \in DOMAIN par
      BY <2>1 DEF Exact, Within
    <2>3. r.depth \in 0..Cardinality(DOMAIN par)
      BY <2>1, DepthBound
    <2>4. r \in R
      BY <2>1, <2>2, <2>3 DEF Rows
    <2>5. Tree!Above(par, r.desc, r.depth) = r.anc
      BY <2>1, <2>2, AboveHas
    <2> QED BY <2>4, <2>5, SameCardinality DEF Tree!ClosureOf
  <1>2. ASSUME NEW r \in Tree!ClosureOf(par) PROVE r \in C
    <2>1. r \in R /\ Tree!Above(par, r.desc, r.depth) = r.anc
      BY SameCardinality DEF Tree!ClosureOf
    <2>0. Cardinality(DOMAIN par) \in Nat
      BY FS_CardinalityType DEF Exact, Parents
    <2>2. /\ r.anc \in DOMAIN par /\ r.desc \in DOMAIN par /\ r.depth \in Nat
          /\ r = [anc |-> r.anc, desc |-> r.desc, depth |-> r.depth]
      BY <2>0, <2>1
    <2>3. Has(C, r.anc, r.desc, r.depth)
      BY <2>1, <2>2, AboveHas
    <2> QED BY <2>2, <2>3 DEF Has, Row
  <1> QED BY <1>1, <1>2

\* The units below n by parent_id are those the closure has below it.
LEMMA SubtreeHas ==
  ASSUME TreeInv, NEW n \in Existing, NEW u \in Existing
  PROVE  u \in Tree!Subtree(n) <=> Anc(closure, n, u)
  <1> USE DEF Existing
  <1>0. Exact(parent, closure) /\ DOMAIN parent \subseteq Units
    BY DEF TreeInv, Exact, Parents
  <1>1. ASSUME u \in Tree!Subtree(n) PROVE Anc(closure, n, u)
    <2>1. PICK k \in 0..Cardinality(DOMAIN parent) : Tree!Above(parent, u, k) = n
      BY <1>1, SameCardinality DEF Tree!Subtree
    <2>2. k \in Nat
      BY <1>0, FS_CardinalityType DEF Exact, Parents
    <2> QED BY <1>0, <2>1, <2>2, AboveHas DEF Anc
  <1>2. ASSUME Anc(closure, n, u) PROVE u \in Tree!Subtree(n)
    <2>1. PICK k \in Nat : Has(closure, n, u, k)
      BY <1>2 DEF Anc
    <2>2. k \in 0..Cardinality(DOMAIN parent)
      BY <1>0, <2>1, DepthBound
    <2>3. Tree!Above(parent, u, k) = n
      BY <1>0, <2>1, AboveHas
    <2> QED BY <2>2, <2>3, SameCardinality DEF Tree!Subtree
  <1> QED BY <1>1, <1>2

\* The closure table is exactly the tree's ancestors and descendants with
\* their distance, whatever transactions insert, move and delete at once.
THEOREM ClosureAlwaysExact == Spec => []ClosureExact
  <1>1. TreeInv => ClosureExact
    BY ExactIsClosure DEF TreeInv, ClosureExact
  <1> QED BY <1>1, TreeAlwaysExact, PTL

-----------------------------------------------------------------------------
(* One operation at a time                                                 *)

\* A commit is one operation of the atomic tree.
LEMMA CommitIsOperation ==
  ASSUME TypeOK, TreeInv, TreeInv', NEW t \in Txs, Commit(t)
  PROVE  Tree!Next
  <1> USE ConstantsAssumption
  <1>0. TxOK(t) /\ Exact(parent, closure) /\ pc[t] = "commit" /\ Existing \subseteq Units
    BY DEF TreeInv, Commit, TypeOK
  <1>c. closure' = Tree!ClosureOf(parent)'
    <2>1. Exact(parent', closure')
      BY DEF TreeInv
    <2>2. closure' = Tree!ClosureOf(parent')
      BY <2>1, ExactIsClosure
    <2> QED BY <2>2
  <1>p. parent' = [u \in (Existing \ removed[t]) \cup
                        (IF op[t] = "insert" THEN {node[t]} ELSE {}) |->
                     IF op[t] \in {"insert", "move"} /\ u = node[t] THEN target[t]
                     ELSE parent[u]]
    BY Zenon DEF Commit
  <1>1. CASE op[t] = "insert"
    <2>1. node[t] \in Units \ Existing /\ target[t] \in Existing /\ removed[t] = {}
      BY <1>0, <1>1 DEF TxOK, InsertOK
    <2>2. parent' = [u \in DOMAIN parent \cup {node[t]} |->
                       IF u = node[t] THEN target[t] ELSE parent[u]]
      BY <1>1, <1>p, <2>1 DEF Existing
    <2>3. Tree!Insert(node[t], target[t])
      BY <2>1, <2>2 DEF Tree!Insert, Existing
    <2> QED BY <1>0, <1>c, <2>1, <2>3 DEF Tree!Next
  <1>2. CASE op[t] = "move"
    <2>1. /\ node[t] \in Existing \ {Root} /\ target[t] \in Existing /\ removed[t] = {}
          /\ ~Anc(closure, node[t], target[t])
      BY <1>0, <1>2 DEF TxOK, MoveOK
    <2>2. parent' = [parent EXCEPT ![node[t]] = target[t]]
      BY <1>2, <1>p, <2>1 DEF Existing, TypeOK
    <2>3. target[t] \notin Tree!Subtree(node[t])
      BY <2>1, SubtreeHas
    <2>4. Tree!Move(node[t], target[t])
      BY <2>1, <2>2, <2>3 DEF Tree!Move, Existing
    <2> QED BY <1>0, <1>c, <2>1, <2>4 DEF Tree!Next
  <1>3. CASE op[t] = "delete"
    <2> DEFINE R == removed[t]
    <2>1. /\ R \in SUBSET (Existing \ {Root}) /\ node[t] \in R
          /\ \A u \in R : Anc(closure, node[t], u)
          /\ \A c \in Existing \ R : parent[c] \notin R
      BY <1>0, <1>3 DEF TxOK, DeleteOK
    <2>2. \A a, u \in Units : Anc(closure, a, u) /\ a \in R => u \in R
      BY <1>0, <2>1, DeleteExact DEF Existing
    <2>3. \A u \in Existing : u \in R <=> u \in Tree!Subtree(node[t])
      BY <1>0, <2>1, <2>2, SubtreeHas
    <2>4. Existing \ R = Existing \ Tree!Subtree(node[t])
      BY <2>3
    <2>5. parent' = [u \in Existing \ R |-> parent[u]]
      BY <1>3, <1>p
    <2>6. parent' = [u \in DOMAIN parent \ Tree!Subtree(node[t]) |-> parent[u]]
      BY <2>4, <2>5 DEF Existing
    <2>7. Tree!Delete(node[t])
      BY <2>1, <2>6 DEF Tree!Delete, Existing
    <2> QED BY <1>0, <1>c, <2>1, <2>7 DEF Tree!Next
  <1> QED BY <1>0, <1>1, <1>2, <1>3 DEF TypeOK, TxOK, PlaceOK

\* Nothing else touches the tables.
LEMMA OnlyCommitWrites ==
  ASSUME [Next]_vars
  PROVE  UNCHANGED tableVars \/ \E t \in Txs : Commit(t)
  <1>1. CASE UNCHANGED vars
    BY <1>1 DEF vars
  <1>2. CASE Next
    <2> PICK t \in Txs : Step(t)
      BY <1>2 DEF Next
    <2> QED BY DEF Step, Abort, InsertUnit, MoveStart, BumpEpoch, InheritRead, Link, MoveLockNode,
               MoveLockParent, MoveCheck, MoveUnlinkRead, MoveUnlink, MoveLinkRead, DeleteUnit,
               DeleteCascade, DeleteRowsRead, DeleteRows
  <1> QED BY <1>1, <1>2

\* The transactions implement the atomic tree: each commit is one insert, move
\* or delete on the tree as it is at that moment.
THEOREM TransactionsActAtomically == Spec => ActsAtomically
  <1>1. Init => Tree!Init
    <2> SUFFICES ASSUME Init PROVE Tree!Init
      OBVIOUS
    <2>1. Exact(parent, closure)
      BY InitTree DEF TreeInv
    <2>2. closure = Tree!ClosureOf(parent)
      BY <2>1, ExactIsClosure
    <2> QED BY <2>2 DEF Init, Tree!Init
  <1>2. TypeOK /\ TreeInv /\ TreeInv' /\ [Next]_vars => [Tree!Next]_(Tree!vars)
    <2> SUFFICES ASSUME TypeOK, TreeInv, TreeInv', [Next]_vars
                 PROVE  Tree!Next \/ UNCHANGED Tree!vars
      OBVIOUS
    <2>1. CASE UNCHANGED tableVars
      BY <2>1 DEF tableVars, Tree!vars
    <2>2. CASE \E t \in Txs : Commit(t)
      BY <2>2, CommitIsOperation
    <2> QED BY <2>1, <2>2, OnlyCommitWrites
  <1> QED BY <1>1, <1>2, TreeAlwaysExact, TreeTypeCorrect, PTL DEF Spec, ActsAtomically, Tree!Spec

-----------------------------------------------------------------------------
(* The chart                                                               *)

Last(path) == path[Len(path)]

\* One level of build(): the paths one unit longer.
Grow(shown, L) == UNION {{Append(path, c) : c \in Kids(shown, Last(path))} : path \in L}

\* The levels of a forest, by their equation.
Levels(shown, level) ==
    /\ Forest(shown) = UNION {level[d] : d \in 0..MaxDepth}
    /\ level[0] = {<<u>> : u \in ForestRoots(shown)}
    /\ \A d \in 1..MaxDepth : level[d] = Grow(shown, level[d - 1])
    /\ \A d \in 0..MaxDepth : \A path \in level[d] :
          path \in Seq(Units) /\ Len(path) = d + 1 /\ Last(path) \in shown

\* build() has levels that satisfy their equation.
LEMMA ForestLevels ==
  ASSUME NEW shown \in SUBSET Units
  PROVE  \E level : Levels(shown, level)
  <1> USE ReadersAssumption
  <1> DEFINE N == MaxDepth
             S == SUBSET Seq(Units)
             start == {<<u>> : u \in ForestRoots(shown)}
             F == [d \in 1..N |-> [L \in S |-> Grow(shown, L)]]
             P(x) == x = [d \in 0..N |->
                            IF d = 0 THEN {<<u>> : u \in ForestRoots(shown)}
                            ELSE UNION {{Append(path, c) : c \in Kids(shown, path[Len(path)])} :
                                           path \in x[d - 1]}]
  <1>k. \A u : Kids(shown, u) \subseteq Units
    BY DEF Kids
  <1>1. \A L \in S : Grow(shown, L) \in S
    <2> SUFFICES ASSUME NEW L \in S, NEW path \in L, NEW c \in Kids(shown, Last(path))
                 PROVE  Append(path, c) \in Seq(Units)
      BY DEF Grow
    <2> QED BY <1>k
  <1>2. start \in S
    <2>1. \A u \in ForestRoots(shown) : u \in Units
      BY DEF ForestRoots
    <2>2. ASSUME NEW u \in Units PROVE <<u>> \in Seq(Units)
      OBVIOUS
    <2> QED BY <2>1, <2>2
  <1>3. F \in Steps(N, S)
    BY <1>1 DEF Steps
  <1>4. \A d \in 1..N, L \in S : F[d][L] = Grow(shown, L)
    OBVIOUS
  <1> HIDE DEF F, S, start
  <1>5. PICK g : Runs(g, S, N, start, F)
    BY <1>2, <1>3, RunExists
  <1>6. g \in [0..N -> S] /\ g[0] = start /\ \A d \in 1..N : g[d] = F[d][g[d - 1]]
    BY <1>5 DEF Runs
  <1>7. P(g)
    <2>1. ASSUME NEW d \in 0..N
          PROVE  g[d] = IF d = 0 THEN {<<u>> : u \in ForestRoots(shown)}
                        ELSE UNION {{Append(path, c) : c \in Kids(shown, path[Len(path)])} :
                                       path \in g[d - 1]}
      <3>1. CASE d = 0
        BY <1>6, <3>1 DEF start
      <3>2. CASE d # 0
        <4>1. d \in 1..N /\ d - 1 \in 0..N
          BY <3>2
        <4>2. g[d] = Grow(shown, g[d - 1])
          BY <1>4, <1>6, <4>1
        <4> QED BY <3>2, <4>2, Zenon DEF Grow, Last
      <3> QED BY <3>1, <3>2
    <2>2. g = [d \in 0..N |-> g[d]]
      BY <1>6
    <2> QED BY <2>1, <2>2, Zenon
  <1> DEFINE level == CHOOSE x : P(x)
  <1>8. P(level)
    <2> HIDE DEF P
    <2> QED BY <1>7, Zenon
  <1>9. Forest(shown) = UNION {level[d] : d \in 0..N}
    BY DEF Forest
  <1> HIDE DEF level
  <1>10. level[0] = {<<u>> : u \in ForestRoots(shown)}
    BY <1>8
  <1>11. ASSUME NEW d \in 1..N PROVE level[d] = Grow(shown, level[d - 1])
    <2>1. d \in 0..N /\ d # 0
      OBVIOUS
    <2>2. level[d] = UNION {{Append(path, c) : c \in Kids(shown, path[Len(path)])} :
                               path \in level[d - 1]}
      BY <1>8, <2>1, Zenon
    <2> QED BY <2>2, Zenon DEF Grow, Last
  <1> DEFINE Good(d) == \A path \in level[d] :
                path \in Seq(Units) /\ Len(path) = d + 1 /\ Last(path) \in shown
             T == {d \in 0..N : Good(d)}
  <1>12. 0 \in T
    BY <1>10 DEF ForestRoots, Last
  <1>13. ASSUME NEW d \in 1..N, d - 1 \in T PROVE d \in T
    <2> SUFFICES ASSUME NEW path \in level[d]
                 PROVE  path \in Seq(Units) /\ Len(path) = d + 1 /\ Last(path) \in shown
      OBVIOUS
    <2>1. PICK q \in level[d - 1] : \E c \in Kids(shown, Last(q)) : path = Append(q, c)
      BY <1>11 DEF Grow
    <2>2. PICK c \in Kids(shown, Last(q)) : path = Append(q, c)
      BY <2>1
    <2>3. q \in Seq(Units) /\ Len(q) = d /\ c \in shown /\ c \in Units
      BY <1>13, <2>1, <2>2 DEF Kids
    <2> QED BY <2>2, <2>3 DEF Last
  <1> HIDE DEF T
  <1>14. 0..N \subseteq T
    BY <1>12, <1>13, BoundedInduction
  <1>15. \A d \in 0..N : Good(d)
    BY <1>14 DEF T
  <1> QED BY <1>9, <1>10, <1>11, <1>15 DEF Levels

\* How a path of the forest comes about, where no branch is cut off.
LEMMA ForestSteps ==
  ASSUME NEW shown \in SUBSET Units, ~TooDeep(shown)
  PROVE  /\ \A path \in Forest(shown) :
               /\ path \in Seq(Units) /\ Len(path) > 0 /\ Last(path) \in shown
               /\ \/ \E u \in ForestRoots(shown) : path = <<u>>
                  \/ \E q \in Forest(shown) : \E c \in Kids(shown, Last(q)) : path = Append(q, c)
         /\ \A u \in ForestRoots(shown) : <<u>> \in Forest(shown)
         /\ \A q \in Forest(shown) : \A c \in Kids(shown, Last(q)) : Append(q, c) \in Forest(shown)
  <1> USE ReadersAssumption
  <1>0. PICK level : Levels(shown, level)
    BY ForestLevels
  <1>f. \A path : path \in Forest(shown) <=> \E d \in 0..MaxDepth : path \in level[d]
    BY <1>0 DEF Levels
  <1>1. ASSUME NEW path \in Forest(shown)
        PROVE  /\ path \in Seq(Units) /\ Len(path) > 0 /\ Last(path) \in shown
               /\ \/ \E u \in ForestRoots(shown) : path = <<u>>
                  \/ \E q \in Forest(shown) : \E c \in Kids(shown, Last(q)) : path = Append(q, c)
    <2> PICK d \in 0..MaxDepth : path \in level[d]
      BY <1>f
    <2>1. path \in Seq(Units) /\ Len(path) > 0 /\ Last(path) \in shown
      BY <1>0 DEF Levels
    <2>2. CASE d = 0
      BY <1>0, <2>1, <2>2 DEF Levels
    <2>3. CASE d # 0
      <3>1. d \in 1..MaxDepth /\ d - 1 \in 0..MaxDepth
        BY <2>3
      <3>2. path \in Grow(shown, level[d - 1])
        BY <1>0, <3>1 DEF Levels
      <3>3. PICK q \in level[d - 1] : \E c \in Kids(shown, Last(q)) : path = Append(q, c)
        BY <3>2 DEF Grow
      <3>4. q \in Forest(shown)
        BY <1>f, <3>1
      <3> QED BY <2>1, <3>3, <3>4
    <2> QED BY <2>2, <2>3
  <1>2. ASSUME NEW u \in ForestRoots(shown) PROVE <<u>> \in Forest(shown)
    <2>1. <<u>> \in level[0] /\ 0 \in 0..MaxDepth
      BY <1>0 DEF Levels
    <2> QED BY <1>f, <2>1
  <1>3. ASSUME NEW q \in Forest(shown), NEW c \in Kids(shown, Last(q))
        PROVE  Append(q, c) \in Forest(shown)
    <2> PICK d \in 0..MaxDepth : q \in level[d]
      BY <1>f
    <2>1. Len(q) = d + 1
      BY <1>0 DEF Levels
    <2>2. d # MaxDepth
      BY <2>1 DEF TooDeep, Last
    <2>3. d + 1 \in 1..MaxDepth /\ d + 1 \in 0..MaxDepth /\ (d + 1) - 1 = d
      BY <2>2
    <2>4. Append(q, c) \in Grow(shown, level[d])
      BY DEF Grow
    <2>5. Append(q, c) \in level[d + 1]
      BY <1>0, <2>3, <2>4 DEF Levels
    <2> QED BY <1>f, <2>3, <2>5
  <1> QED BY <1>1, <1>2, <1>3

\* u has one place in the chart of the units shown: below its parent, or at
\* the top where that is not shown.
OnePlace(shown, u) ==
    \E path \in Forest(shown) :
        /\ \A p \in Forest(shown) : Last(p) = u <=> p = path
        /\ IF Len(path) = 1 THEN parent[u] \notin shown
           ELSE parent[u] = path[Len(path) - 1]

\* A unit whose parent is not shown is at the top, and nowhere else.
LEMMA PlaceAtTop ==
  ASSUME NEW shown \in SUBSET Units, ~TooDeep(shown), NEW u \in shown, parent[u] \notin shown
  PROVE  OnePlace(shown, u)
  <1>1. u \in ForestRoots(shown)
    BY DEF ForestRoots
  <1>2. <<u>> \in Forest(shown)
    BY <1>1, ForestSteps
  <1>3. Last(<<u>>) = u /\ Len(<<u>>) = 1
    BY DEF Last
  <1>4. ASSUME NEW p \in Forest(shown), Last(p) = u PROVE p = <<u>>
    <2>1. CASE \E v \in ForestRoots(shown) : p = <<v>>
      BY <1>4, <2>1 DEF Last
    <2>2. CASE \E q \in Forest(shown) : \E c \in Kids(shown, Last(q)) : p = Append(q, c)
      <3> PICK q \in Forest(shown) : \E c \in Kids(shown, Last(q)) : p = Append(q, c)
        BY <2>2
      <3> PICK c \in Kids(shown, Last(q)) : p = Append(q, c)
        OBVIOUS
      <3>1. q \in Seq(Units) /\ Last(q) \in shown
        BY ForestSteps
      <3>2. c \in Units /\ parent[c] = Last(q)
        BY DEF Kids
      <3>3. c = u
        BY <1>4, <3>1, <3>2 DEF Last
      <3> QED BY <3>1, <3>2, <3>3
    <2> QED BY <2>1, <2>2, ForestSteps
  <1> QED BY <1>2, <1>3, <1>4 DEF OnePlace

\* A unit whose parent has its place is below it, and nowhere else.
LEMMA PlaceBelow ==
  ASSUME NEW shown \in SUBSET Units, ~TooDeep(shown), NEW u \in shown, parent[u] \in shown,
         OnePlace(shown, parent[u])
  PROVE  OnePlace(shown, u)
  <1>1. PICK rho \in Forest(shown) : \A p \in Forest(shown) : Last(p) = parent[u] <=> p = rho
    BY DEF OnePlace
  <1>2. rho \in Seq(Units) /\ Len(rho) > 0 /\ Last(rho) = parent[u]
    BY <1>1, ForestSteps
  <1>3. u \in Kids(shown, Last(rho))
    BY <1>2 DEF Kids
  <1>4. Append(rho, u) \in Forest(shown)
    BY <1>3, ForestSteps
  <1>5. /\ Last(Append(rho, u)) = u
        /\ Len(Append(rho, u)) # 1
        /\ Append(rho, u)[Len(Append(rho, u)) - 1] = parent[u]
    <2>1. Len(Append(rho, u)) = Len(rho) + 1 /\ Append(rho, u)[Len(rho) + 1] = u
      BY <1>2
    <2>2. Append(rho, u)[Len(rho)] = rho[Len(rho)]
      BY <1>2
    <2>3. (Len(rho) + 1) - 1 = Len(rho) /\ Len(rho) + 1 # 1
      BY <1>2
    <2> QED BY <1>2, <2>1, <2>2, <2>3 DEF Last
  <1>6. ASSUME NEW p \in Forest(shown), Last(p) = u PROVE p = Append(rho, u)
    <2>1. CASE \E v \in ForestRoots(shown) : p = <<v>>
      BY <1>6, <2>1 DEF Last, ForestRoots
    <2>2. CASE \E q \in Forest(shown) : \E c \in Kids(shown, Last(q)) : p = Append(q, c)
      <3> PICK q \in Forest(shown) : \E c \in Kids(shown, Last(q)) : p = Append(q, c)
        BY <2>2
      <3> PICK c \in Kids(shown, Last(q)) : p = Append(q, c)
        OBVIOUS
      <3>1. q \in Seq(Units)
        BY ForestSteps
      <3>2. c \in Units /\ parent[c] = Last(q)
        BY DEF Kids
      <3>3. c = u
        BY <1>6, <3>1, <3>2 DEF Last
      <3>4. q = rho
        BY <1>1, <3>2, <3>3
      <3> QED BY <3>3, <3>4
    <2> QED BY <2>1, <2>2, ForestSteps
  <1> QED BY <1>4, <1>5, <1>6 DEF OnePlace

\* Every unit shown has its one place: by induction on its distance to the
\* root.
LEMMA ForestPlaces ==
  ASSUME TreeInv, NEW shown \in SUBSET Existing, ~TooDeep(shown)
  PROVE  \A u \in shown : OnePlace(shown, u)
  <1> USE DEF Existing
  <1>0. Exact(parent, closure) /\ DOMAIN parent \subseteq Units /\ shown \in SUBSET Units
    BY DEF TreeInv, Exact, Parents
  <1>r. Root \in Units /\ parent[Root] = NoUnit /\ NoUnit \notin shown
    BY <1>0, ConstantsAssumption DEF Exact, Parents
  <1> DEFINE S == {k \in Nat : \A u \in shown : Has(closure, Root, u, k) => OnePlace(shown, u)}
  <1>1. 0 \in S
    <2> SUFFICES ASSUME NEW u \in shown, Has(closure, Root, u, 0) PROVE OnePlace(shown, u)
      OBVIOUS
    <2>1. u = Root
      BY <1>0, <1>r DEF Exact, Upward
    <2> QED BY <1>0, <1>r, <2>1, PlaceAtTop
  <1>2. ASSUME NEW k \in Nat, k \in S PROVE k + 1 \in S
    <2> SUFFICES ASSUME NEW u \in shown, Has(closure, Root, u, k + 1) PROVE OnePlace(shown, u)
      OBVIOUS
    <2>1. CASE parent[u] \notin shown
      BY <1>0, <2>1, PlaceAtTop
    <2>2. CASE parent[u] \in shown
      <3>1. u \in Units /\ k + 1 \in Nat /\ k + 1 # 0 /\ (k + 1) - 1 = k
        BY <1>0
      <3>2. Has(closure, Root, parent[u], k)
        BY <1>0, <1>r, <3>1 DEF Exact, Upward
      <3>3. OnePlace(shown, parent[u])
        BY <1>2, <2>2, <3>2
      <3> QED BY <1>0, <2>2, <3>3, PlaceBelow
    <2> QED BY <2>1, <2>2
  <1> HIDE DEF S
  <1>3. Nat \subseteq S
    BY <1>1, <1>2, SetInduction
  <1>4. ASSUME NEW u \in shown PROVE OnePlace(shown, u)
    <2>1. PICK k \in Nat : Has(closure, Root, u, k)
      BY <1>0 DEF Exact, Rooted, Anc
    <2> QED BY <1>3, <2>1 DEF S
  <1> QED BY <1>4

-----------------------------------------------------------------------------
(* What a membership reaches                                               *)

\* A row of the closure makes u one of the membership's units.
Applied(m, u) == \E r \in closure : Applies(m, r) /\ r.desc = u

\* The same by distances.
LEMMA AppliedHas ==
  ASSUME TypeOK, NEW m, NEW u
  PROVE  Applied(m, u) <=> \E k \in Nat : Has(closure, m.unit, u, k) /\ (m.below \/ k = 0)
  <1>1. ASSUME NEW r \in closure, Applies(m, r), r.desc = u
        PROVE  \E k \in Nat : Has(closure, m.unit, u, k) /\ (m.below \/ k = 0)
    <2>1. r.depth \in Nat /\ Has(closure, r.anc, r.desc, r.depth)
      BY RowHas DEF TypeOK
    <2> QED BY <1>1, <2>1 DEF Applies
  <1>2. ASSUME NEW k \in Nat, Has(closure, m.unit, u, k), m.below \/ k = 0
        PROVE  Applied(m, u)
    <2>1. Row(m.unit, u, k) \in closure
      BY <1>2 DEF Has
    <2>2. Applies(m, Row(m.unit, u, k)) /\ Row(m.unit, u, k).desc = u
      BY <1>2, RowParts DEF Applies
    <2> QED BY <2>1, <2>2 DEF Applied
  <1> QED BY <1>1, <1>2 DEF Applied

\* Only units that exist have rows, and the root has a row to each of them.
LEMMA RootSees ==
  ASSUME TypeOK, TreeInv, NEW u
  PROVE  (\E r \in closure : r.anc = Root /\ r.desc = u) <=> u \in Existing
  <1>0. Exact(parent, closure)
    BY DEF TreeInv
  <1>1. ASSUME NEW r \in closure, r.desc = u PROVE u \in Existing
    <2>1. r.anc \in Units /\ r.desc \in Units /\ r.depth \in Nat
          /\ Has(closure, r.anc, r.desc, r.depth)
      BY RowHas DEF TypeOK
    <2> QED BY <1>0, <1>1, <2>1 DEF Exact, Within, Existing
  <1>2. ASSUME u \in Existing PROVE \E r \in closure : r.anc = Root /\ r.desc = u
    <2>1. PICK k \in Nat : Has(closure, Root, u, k)
      BY <1>0, <1>2 DEF Exact, Rooted, Anc, Existing
    <2>2. Row(Root, u, k) \in closure
      BY <2>1 DEF Has
    <2> QED BY <2>2, RowParts
  <1> QED BY <1>1, <1>2

\* A membership's units exist.
LEMMA AppliedExists ==
  ASSUME TypeOK, TreeInv, NEW m, NEW u, Applied(m, u)
  PROVE  u \in Existing
  <1>0. Exact(parent, closure)
    BY DEF TreeInv
  <1>1. PICK r \in closure : r.desc = u
    BY DEF Applied
  <1>2. r.anc \in Units /\ r.desc \in Units /\ r.depth \in Nat
        /\ Has(closure, r.anc, r.desc, r.depth)
    BY RowHas DEF TypeOK
  <1> QED BY <1>0, <1>1, <1>2 DEF Exact, Within, Existing

\* effective_read_orgs() from the root: the units of the memberships.
LEMMA ReadOrgs ==
  ASSUME TypeOK, TreeInv, NEW ms
  PROVE  \A u : u \in EffectiveReadOrgs(ms, Root) <=> \E m \in ms : Applied(m, u)
  <1>1. ASSUME NEW u, u \in EffectiveReadOrgs(ms, Root) PROVE \E m \in ms : Applied(m, u)
    BY <1>1, Zenon DEF EffectiveReadOrgs, Applied
  <1>2. ASSUME NEW u, NEW m \in ms, Applied(m, u) PROVE u \in EffectiveReadOrgs(ms, Root)
    <2>1. u \in Existing
      BY <1>2, AppliedExists
    <2>2. u \in Units
      BY <2>1 DEF TypeOK
    <2>3. \E r \in closure : r.anc = Root /\ r.desc = u
      BY <2>1, RootSees
    <2> QED BY <1>2, <2>2, <2>3, Zenon DEF EffectiveReadOrgs, Applied
  <1> QED BY <1>1, <1>2

\* has_role() and effective_read_orgs() agree on every membership.
LEMMA RolesAlwaysAgree ==
  ASSUME TypeOK, TreeInv, NEW m \in Memberships
  PROVE  RolesAgree(m)
  <1>1. m.role \in AtLeast("viewer")
    BY DEF Memberships, AtLeast
  <1>2. ASSUME NEW u PROVE HasRole({m}, u, "viewer") <=> Applied(m, u)
    BY <1>1, Zenon DEF HasRole, Applied
  <1>3. ASSUME NEW u PROVE u \in EffectiveReadOrgs({m}, Root) <=> Applied(m, u)
    BY ReadOrgs
  <1> QED BY <1>2, <1>3 DEF RolesAgree

\* A membership reaches its unit and, where it extends below, the subtree.
LEMMA AppliedReach ==
  ASSUME TypeOK, TreeInv, NEW m \in Memberships, NEW u \in Existing
  PROVE  Applied(m, u) <=> /\ m.unit \in Existing
                           /\ u = m.unit \/ (m.below /\ u \in Tree!Subtree(m.unit))
  <1>0. Exact(parent, closure) /\ u \in Units /\ m.unit \in Units
    BY DEF TreeInv, TypeOK, Memberships
  <1>1. ASSUME NEW k \in Nat, Has(closure, m.unit, u, k), m.below \/ k = 0
        PROVE  /\ m.unit \in Existing
               /\ u = m.unit \/ (m.below /\ u \in Tree!Subtree(m.unit))
    <2>1. m.unit \in Existing
      BY <1>0, <1>1 DEF Exact, Within, Existing
    <2>2. CASE k = 0
      BY <1>0, <1>1, <2>1, <2>2 DEF Exact, Upward
    <2>3. CASE m.below
      <3>1. Anc(closure, m.unit, u)
        BY <1>1 DEF Anc
      <3>2. u \in Tree!Subtree(m.unit)
        BY <2>1, <3>1, SubtreeHas
      <3> QED BY <2>1, <2>3, <3>2
    <2> QED BY <1>1, <2>2, <2>3
  <1>2. ASSUME m.unit \in Existing, u = m.unit PROVE Applied(m, u)
    <2>1. Has(closure, m.unit, u, 0)
      BY <1>0, <1>2 DEF Exact, Refl, Existing
    <2> QED BY <2>1, AppliedHas
  <1>3. ASSUME m.unit \in Existing, m.below, u \in Tree!Subtree(m.unit) PROVE Applied(m, u)
    <2>1. Anc(closure, m.unit, u)
      BY <1>3, SubtreeHas
    <2> QED BY <1>3, <2>1, AppliedHas DEF Anc
  <1> QED BY <1>1, <1>2, <1>3, AppliedHas

\* The rows that are kept are those the caller reaches by parent_id.
LEMMA ShownReach ==
  ASSUME TypeOK, TreeInv, NEW who, who.ms \subseteq Memberships
  PROVE  Shown(who) = Reach(who)
  <1>1. ASSUME NEW u, u \in Shown(who) PROVE u \in Reach(who)
    <2>1. u \in Existing
      BY <1>1 DEF Shown
    <2>2. CASE who.admin
      BY <2>1, <2>2 DEF Reach
    <2>3. CASE ~who.admin
      <3>1. u \in EffectiveReadOrgs(who.ms, Root)
        BY <1>1, <2>3 DEF Shown
      <3>2. PICK m \in who.ms : Applied(m, u)
        BY <3>1, ReadOrgs
      <3> QED BY <2>1, <3>2, AppliedReach DEF Reach
    <2> QED BY <2>2, <2>3
  <1>2. ASSUME NEW u, u \in Reach(who) PROVE u \in Shown(who)
    <2>1. u \in Existing
      BY <1>2 DEF Reach
    <2>2. CASE who.admin
      BY <2>1, <2>2 DEF Shown
    <2>3. CASE ~who.admin
      <3>1. PICK m \in who.ms : /\ m.unit \in Existing
                                /\ u = m.unit \/ (m.below /\ u \in Tree!Subtree(m.unit))
        BY <1>2, <2>3 DEF Reach
      <3>2. Applied(m, u)
        BY <2>1, <3>1, AppliedReach
      <3>3. u \in EffectiveReadOrgs(who.ms, Root)
        BY <3>2, ReadOrgs
      <3> QED BY <2>1, <2>3, <3>3 DEF Shown
    <2> QED BY <2>2, <2>3
  <1> QED BY <1>1, <1>2

\* The chart is whole: an answer that is not an error has every unit the
\* caller reaches, each in its one place.
WholeFor(who) ==
    OrgsTree(who).status = 200 =>
        /\ {path[Len(path)] : path \in OrgsTree(who).forest} = Reach(who)
        /\ \A u \in Reach(who) : \E path \in OrgsTree(who).forest :
              /\ {p \in OrgsTree(who).forest : p[Len(p)] = u} = {path}
              /\ IF Len(path) = 1 THEN parent[u] \notin Reach(who)
                 ELSE parent[u] = path[Len(path) - 1]

\* An answer of 200 is the forest of the units shown, cut off nowhere.
LEMMA AnswerForest ==
  ASSUME NEW who, OrgsTree(who).status = 200
  PROVE  OrgsTree(who).forest = Forest(Shown(who)) /\ ~TooDeep(Shown(who))
  <1>1. who.db = "ok"
    <2> SUFFICES ASSUME who.db # "ok" PROVE FALSE
      OBVIOUS
    <2>1. OrgsTree(who).status = StatusFor(MapDbException(who.db))
      BY DEF OrgsTree
    <2>2. StatusFor(MapDbException(who.db)) \in {503, 500}
      BY DEF StatusFor
    <2> QED BY <2>1, <2>2
  <1> QED BY <1>1 DEF OrgsTree

\* Every caller's chart is whole.
LEMMA ChartWhole ==
  ASSUME TypeOK, TreeInv, NEW who, who.ms \subseteq Memberships
  PROVE  WholeFor(who)
  <1> SUFFICES ASSUME OrgsTree(who).status = 200
               PROVE  /\ {path[Len(path)] : path \in OrgsTree(who).forest} = Reach(who)
                      /\ \A u \in Reach(who) : \E path \in OrgsTree(who).forest :
                            /\ {p \in OrgsTree(who).forest : p[Len(p)] = u} = {path}
                            /\ IF Len(path) = 1 THEN parent[u] \notin Reach(who)
                               ELSE parent[u] = path[Len(path) - 1]
    BY DEF WholeFor
  <1>0. Shown(who) \in SUBSET Existing /\ Shown(who) \in SUBSET Units
    BY DEF Shown, TypeOK
  <1>1. OrgsTree(who).forest = Forest(Shown(who)) /\ ~TooDeep(Shown(who))
    BY AnswerForest
  <1> DEFINE shown == Shown(who)
             F == Forest(Shown(who))
  <1>2. shown = Reach(who)
    BY ShownReach
  <1>3. \A u \in shown : OnePlace(shown, u)
    BY <1>0, <1>1, ForestPlaces
  <1>4. \A path \in F : path[Len(path)] \in shown
    BY <1>0, <1>1, ForestSteps DEF Last
  <1> HIDE DEF shown
  <1>5. ASSUME NEW u \in shown
        PROVE  \E path \in F :
                  /\ {p \in F : p[Len(p)] = u} = {path}
                  /\ IF Len(path) = 1 THEN parent[u] \notin shown
                     ELSE parent[u] = path[Len(path) - 1]
    <2>1. PICK path \in F :
             /\ \A p \in F : Last(p) = u <=> p = path
             /\ IF Len(path) = 1 THEN parent[u] \notin shown
                ELSE parent[u] = path[Len(path) - 1]
      BY <1>3 DEF OnePlace, shown
    <2> HIDE DEF F
    <2>2. {p \in F : p[Len(p)] = u} = {path}
      BY <2>1 DEF Last
    <2> QED BY <2>1, <2>2
  <1> HIDE DEF F
  <1>6. {path[Len(path)] : path \in F} = shown
    <2>1. ASSUME NEW u \in shown PROVE \E path \in F : u = path[Len(path)]
      <3>1. PICK path \in F : {p \in F : p[Len(p)] = u} = {path}
        BY <1>5
      <3> QED BY <3>1
    <2> QED BY <1>4, <2>1
  <1>7. OrgsTree(who).forest = F
    BY <1>1 DEF F
  <1>8. {path[Len(path)] : path \in OrgsTree(who).forest} = Reach(who)
    BY <1>2, <1>6, <1>7
  <1>9. ASSUME NEW u \in Reach(who)
        PROVE  \E path \in OrgsTree(who).forest :
                  /\ {p \in OrgsTree(who).forest : p[Len(p)] = u} = {path}
                  /\ IF Len(path) = 1 THEN parent[u] \notin Reach(who)
                     ELSE parent[u] = path[Len(path) - 1]
    BY <1>2, <1>5, <1>7
  <1> QED BY <1>8, <1>9

\* The chart of every caller is whole at all times, also while transactions
\* are under way, whatever its memberships and roles.
ChartsWhole == \A who \in Callers : WholeFor(who)

\* What orgs_tree.cpp promises of its answer, for every caller there may be.
THEOREM ChartsAlwaysWhole == Spec => []ChartsWhole
  <1>1. TypeOK /\ TreeInv => ChartsWhole
    <2> SUFFICES ASSUME TypeOK, TreeInv, NEW who \in Callers PROVE WholeFor(who)
      BY DEF ChartsWhole
    <2>1. who.ms \subseteq Memberships
      BY DEF Callers
    <2> QED BY <2>1, ChartWhole
  <1> QED BY <1>1, TreeTypeCorrect, TreeAlwaysExact, PTL

\* GET /api/orgs/tree never shows a truncated or wrong chart, and it shows
\* the units has_role() lets the caller view.
THEOREM ForestAlwaysWhole == Spec => []ForestWhole
  <1>1. TypeOK /\ TreeInv => ForestWhole
    <2> SUFFICES ASSUME TypeOK, TreeInv PROVE ForestWhole
      OBVIOUS
    <2>1. \A m \in Memberships : RolesAgree(m)
      BY RolesAlwaysAgree
    <2>2. ASSUME NEW who \in Viewers PROVE WholeFor(who)
      <3>1. who.ms \subseteq Memberships
        BY DEF Viewers
      <3> QED BY <3>1, ChartWhole
    <2> QED BY <2>1, <2>2, Zenon DEF ForestWhole, WholeFor
  <1> QED BY <1>1, TreeTypeCorrect, TreeAlwaysExact, PTL
=============================================================================
