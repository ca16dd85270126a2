-------------------------- MODULE RetrievalProofs ---------------------------
(***************************************************************************)
(* Proofs about the resolver's cache (AccessCache) and about the requests  *)
(* that use it (Retrieval): whatever the index returns and whatever changes*)
(* meanwhile, for any number of users' requests, writers, units, documents *)
(* and edges.                                                              *)
(***************************************************************************)
EXTENDS Retrieval, FoldFacts, FiniteSetTheorems, SequenceTheorems, TLAPS

-----------------------------------------------------------------------------
(* The inductive invariant of the cache                                    *)

Waiting(r) == pc[r] \in {"idle", "done"}

\* A copy of a snapshot, in Redis or in the hands of a request: its stamp is
\* not from the future; while it is current, it is the live scope, and no
\* membership behind it ends before it does; a request that took its `now`
\* before the copy ends has seen its scope.
Good(d) ==
    EpochsMatch(d) /\ clock < d.until /\ ~missed =>
        /\ d.scope = LiveScope
        /\ \A p \in LiveRows : d.until <= rows[p[1]][p[2]].until
SeenBy(r, d) ==
    pc[r] \in {"lookup", "validate"} /\ now[r] < d.until /\ EpochsMatch(d) /\ ~missed =>
        d.scope \in seen[r]
CopyOK(d) ==
    /\ d.acl <= acl_epoch /\ d.usr <= scope_epoch
    /\ Good(d)
    /\ \A r \in Requests : SeenBy(r, d)
CopiesOK == CopyOK(entry) /\ \A r \in Requests : CopyOK(dto[r])

\* Only an edit of a group's membership may leave the user's epoch alone.
TxOK(t) == t.op = "row" /\ t.who = "user" => t.scopebump

\* A request under way has seen the live scope, and the copy it is about to
\* validate had not run out when it took its `now`.
RequestOK(r) ==
    /\ ~Waiting(r) => LiveScope \in seen[r]
    /\ pc[r] = "validate" => now[r] < dto[r].until

Labels ==
    {"idle", "auth", "jwt", "key", "handler", "user", "unit", "embed", "lookup", "validate",
     "resolve", "store", "resolved", "gate", "edges", "edgegate", "build", "llm", "done"}

AccessInv ==
    /\ AccessTypeOK
    /\ pc \in [Requests -> Labels]
    /\ \A w \in Writers : TxOK(tx[w])
    /\ CopiesOK
    /\ \A r \in Requests : RequestOK(r)
    /\ ScopeWasLive

-----------------------------------------------------------------------------
(* Scopes and snapshots                                                    *)

\* The rows of the memberships.
LEMMA RowTypes ==
    ASSUME NEW row \in RowValues
    PROVE  row.until \in Nat
<1>1. MaxTime \in Nat /\ Rows \subseteq [until: 1..(MaxTime + 1), deep: BOOLEAN]
  BY ConstantsAssumption
<1> QED BY <1>1 DEF RowValues, NoRow

\* The memberships that count, and the scope they give.
LEMMA LiveTypes ==
    ASSUME AccessTypeOK
    PROVE  /\ LiveScope \in SUBSET Units
           /\ \A p \in LiveRows : /\ p \in Principals \X Units
                                  /\ rows[p[1]][p[2]].until \in Nat
                                  /\ rows[p[1]][p[2]].until > clock
<1>1. LiveScope \in SUBSET Units
  BY DEF LiveScope
<1>2. ASSUME NEW p \in LiveRows
      PROVE  /\ p \in Principals \X Units
             /\ rows[p[1]][p[2]].until \in Nat
             /\ rows[p[1]][p[2]].until > clock
  <2>1. p \in Principals \X Units /\ rows[p[1]][p[2]].until > clock
    BY DEF LiveRows
  <2>2. p[1] \in Principals /\ p[2] \in Units
    BY <2>1
  <2>3. rows[p[1]][p[2]] \in RowValues
    BY <2>2 DEF AccessTypeOK
  <2> QED BY <2>1, <2>3, RowTypes
<1> QED BY <1>1, <1>2

\* cache_until is in time for every membership.
LEMMA CacheUntilLeast ==
    ASSUME AccessTypeOK
    PROVE  /\ CacheUntil \in Nat
           /\ \A p \in LiveRows : CacheUntil <= rows[p[1]][p[2]].until
<1> DEFINE ends == {rows[p[1]][p[2]].until : p \in LiveRows} \cup {clock + Ttl}
<1>1. clock + Ttl \in Nat
  BY ConstantsAssumption DEF AccessTypeOK
<1>2. ends \in SUBSET Nat /\ ends # {}
  BY <1>1, LiveTypes
<1>3. \A p \in LiveRows : rows[p[1]][p[2]].until \in ends
  OBVIOUS
<1>4. CacheUntil = CHOOSE t \in ends : \A e \in ends : t <= e
  BY DEF CacheUntil
<1> HIDE DEF ends
<1>5. \E t \in ends : \A e \in ends : t <= e
  BY <1>2, LeastNumber
<1>6. CacheUntil \in ends /\ \A e \in ends : CacheUntil <= e
  BY <1>4, <1>5
<1> QED BY <1>2, <1>3, <1>6

\* What the resolver's statement returns.
LEMMA SnapshotTypes ==
    ASSUME AccessTypeOK
    PROVE  /\ Snapshot \in Entries
           /\ Snapshot.scope = LiveScope
           /\ Snapshot.acl = acl_epoch /\ Snapshot.usr = scope_epoch
           /\ \A p \in LiveRows : Snapshot.until <= rows[p[1]][p[2]].until
  BY LiveTypes, CacheUntilLeast DEF Snapshot, Entries, AccessTypeOK

\* No entry is an entry that has run out.
LEMMA NoEntryTypes == NoEntry \in Entries /\ NoEntry.until = 0 /\ NoEntry.acl = 0 /\ NoEntry.usr = 0
  BY DEF NoEntry, Entries

\* The same memberships give the same scope.
LEMMA SameScope ==
    ASSUME closure' = closure, LiveRows' = LiveRows,
           \A p \in LiveRows : rows'[p[1]][p[2]] = rows[p[1]][p[2]]
    PROVE  LiveScope' = LiveScope
  BY DEF LiveScope

-----------------------------------------------------------------------------
(* Copies through a step                                                   *)

\* CopyOK in the next state, for a copy of this one.
CopyKept(d) ==
    /\ d.acl <= acl_epoch' /\ d.usr <= scope_epoch'
    /\ d.acl = acl_epoch' /\ d.usr = scope_epoch' /\ clock' < d.until /\ ~missed' =>
          /\ d.scope = LiveScope'
          /\ \A p \in LiveRows' : d.until <= rows'[p[1]][p[2]].until
    /\ \A r \in Requests :
          pc'[r] \in {"lookup", "validate"} /\ now'[r] < d.until
            /\ d.acl = acl_epoch' /\ d.usr = scope_epoch' /\ ~missed' => d.scope \in seen'[r]

\* The copies of the next state are all right when each is kept.
LEMMA CopiesKept ==
    ASSUME CopyKept(entry'), \A r \in Requests : CopyKept(dto'[r])
    PROVE  CopiesOK'
<1>1. CopyOK(entry)'
  BY DEF CopyOK, Good, SeenBy, EpochsMatch, CopyKept
<1>2. ASSUME NEW r \in Requests PROVE CopyOK(dto[r])'
  <2>1. CopyKept(dto'[r])
    OBVIOUS
  <2> QED BY <2>1 DEF CopyOK, Good, SeenBy, EpochsMatch, CopyKept
<1> QED BY <1>1, <1>2 DEF CopiesOK

\* A request keeps what it has seen, or starts with the live scope.
Looks(r) ==
    pc'[r] \in {"lookup", "validate"} =>
        \/ pc[r] \in {"lookup", "validate"} /\ now'[r] = now[r] /\ seen[r] \subseteq seen'[r]
        \/ now'[r] = clock /\ LiveScope \in seen'[r]

\* A step that changes neither the database nor the clock keeps every copy.
LEMMA QuietKeeps ==
    ASSUME UNCHANGED <<dbVars, clock, missed>>, \A r \in Requests : Looks(r),
           NEW d, CopyOK(d)
    PROVE  CopyKept(d)
<1>1. LiveScope' = LiveScope /\ LiveRows' = LiveRows
  BY DEF LiveScope, LiveRows, dbVars
<1>2. /\ rows' = rows /\ acl_epoch' = acl_epoch /\ scope_epoch' = scope_epoch
      /\ clock' = clock /\ missed' = missed
  BY DEF dbVars
<1>3. ASSUME NEW r \in Requests,
             pc'[r] \in {"lookup", "validate"}, now'[r] < d.until,
             d.acl = acl_epoch', d.usr = scope_epoch', ~missed'
      PROVE  d.scope \in seen'[r]
  BY <1>2, <1>3 DEF Looks, CopyOK, Good, SeenBy, EpochsMatch
<1> QED BY <1>1, <1>2, <1>3 DEF CopyKept, CopyOK, Good, EpochsMatch

\* NoEntry is kept by every step.
LEMMA NoEntryKept ==
    ASSUME AccessTypeOK'
    PROVE  CopyKept(NoEntry)
<1>1. acl_epoch' \in Nat /\ scope_epoch' \in Nat /\ clock' \in Nat
      /\ \A r \in Requests : now'[r] \in Nat
  BY ConstantsAssumption DEF AccessTypeOK
<1> QED BY <1>1, NoEntryTypes DEF CopyKept

\* A new snapshot is a copy like the others.
LEMMA SnapshotOK ==
    ASSUME AccessTypeOK, \A r \in Requests : RequestOK(r)
    PROVE  CopyOK(Snapshot)
<1>1. \A r \in Requests : pc[r] \in {"lookup", "validate"} => LiveScope \in seen[r]
  BY DEF RequestOK, Waiting
<1>2. acl_epoch <= acl_epoch /\ scope_epoch <= scope_epoch
  BY DEF AccessTypeOK
<1> HIDE DEF Snapshot
<1> QED BY <1>1, <1>2, SnapshotTypes DEF CopyOK, Good, SeenBy

-----------------------------------------------------------------------------
(* Transactions and time                                                   *)

\* What a transaction may be.
LEMMA TxCases ==
    ASSUME NEW t \in Txs
    PROVE  \/ /\ t.op = "row" /\ t.who \in Principals /\ t.unit \in Units
              /\ t.row \in RowValues /\ t.scopebump \in BOOLEAN /\ t.treebump = FALSE
              /\ t # NoTx
           \/ t.op = "member" /\ t.in \in BOOLEAN /\ t.scopebump = TRUE /\ t.treebump = FALSE
           \/ t.op = "tree" /\ t.closure \in Closures /\ t.scopebump = FALSE /\ t.treebump = TRUE
           \/ t = NoTx /\ t.op = "none"
<1>1. CASE t \in [op: {"row"}, who: Principals, unit: Units, row: RowValues,
                  scopebump: BOOLEAN, treebump: {FALSE}]
  <2>1. t.op = "row" /\ t.who \in Principals /\ t.unit \in Units /\ t.row \in RowValues
    BY <1>1
  <2>2. t.scopebump \in BOOLEAN /\ t.treebump \in {FALSE}
    BY <1>1, Zenon
  <2>3. t # NoTx
    BY <2>1 DEF NoTx
  <2> QED BY <2>1, <2>2, <2>3
<1>2. CASE t \in [op: {"member"}, in: BOOLEAN, scopebump: {TRUE}, treebump: {FALSE}]
  <2>1. t.op = "member"
    BY <1>2
  <2>2. t.in \in BOOLEAN /\ t.scopebump \in {TRUE} /\ t.treebump \in {FALSE}
    BY <1>2, Zenon
  <2> QED BY <2>1, <2>2, Zenon
<1>3. CASE t \in [op: {"tree"}, closure: Closures, scopebump: {FALSE}, treebump: {TRUE}]
  <2>1. t.op = "tree" /\ t.closure \in Closures
    BY <1>3
  <2>2. t.scopebump \in {FALSE} /\ t.treebump \in {TRUE}
    BY <1>3, Zenon
  <2> QED BY <2>1, <2>2, Zenon
<1>4. CASE t = NoTx
  BY <1>4 DEF NoTx
<1> QED BY <1>1, <1>2, <1>3, <1>4 DEF Txs

\* A transaction is opened or rolled back.
LEMMA TxStep ==
    ASSUME AccessInv, NEW w \in Writers, NEW t \in Txs, TxOK(t),
           tx' = [tx EXCEPT ![w] = t], changes' \in 0..MaxChanges,
           UNCHANGED <<dbVars, clock, entry, pc, scopeVars, history, faults>>
    PROVE  AccessInv'
<1>1. UNCHANGED <<rows, ingroup, closure, acl_epoch, scope_epoch, clock, entry, pc, now, dto,
                  scope, seen, missed, misled, faults>>
  BY DEF dbVars, scopeVars, history
<1>2. AccessTypeOK' /\ (pc \in [Requests -> Labels])'
  BY <1>1 DEF AccessInv, AccessTypeOK
<1>3. \A v \in Writers : TxOK(tx'[v])
  BY DEF AccessInv, AccessTypeOK
<1>4. CopiesOK'
  <2>1. \A r \in Requests : Looks(r)
    BY <1>1 DEF Looks
  <2>2. CopyOK(entry) /\ \A r \in Requests : CopyOK(dto[r])
    BY DEF AccessInv, CopiesOK
  <2>3. UNCHANGED <<dbVars, clock, missed>>
    BY <1>1 DEF dbVars
  <2>4. CopyKept(entry) /\ \A r \in Requests : CopyKept(dto[r])
    BY <2>1, <2>2, <2>3, QuietKeeps
  <2>5. CopyKept(entry') /\ \A r \in Requests : CopyKept(dto'[r])
    BY <1>1, <2>4
  <2> QED BY <2>5, CopiesKept
<1>5. (\A r \in Requests : RequestOK(r))' /\ ScopeWasLive'
  <2>1. LiveScope' = LiveScope
    BY <1>1 DEF LiveScope, LiveRows
  <2> QED BY <1>1, <2>1 DEF AccessInv, RequestOK, Waiting, ScopeWasLive
<1>6. (\A v \in Writers : TxOK(tx[v]))'
  BY <1>3 DEF TxOK
<1> QED BY <1>2, <1>4, <1>5, <1>6 DEF AccessInv

\* Requests under way see the scope that a step leaves behind.
LEMMA WitnessSees ==
    ASSUME AccessInv, Witness, AccessTypeOK', UNCHANGED <<pc, now, dto, scope, misled>>
    PROVE  /\ \A r \in Requests : seen[r] \subseteq seen'[r]
           /\ (\A r \in Requests : RequestOK(r))'
           /\ ScopeWasLive'
           /\ seen' \in [Requests -> SUBSET SUBSET Units]
<1>1. LiveScope' \in SUBSET Units
  BY DEF LiveScope
<1>2. \A r \in Requests :
          seen'[r] = IF pc[r] \in {"idle", "done"} THEN seen[r] ELSE seen[r] \cup {LiveScope'}
  BY DEF Witness
<1>3. seen \in [Requests -> SUBSET SUBSET Units]
  BY DEF AccessInv, AccessTypeOK
<1>4. seen' \in [Requests -> SUBSET SUBSET Units]
  BY DEF AccessTypeOK
<1>5. (\A r \in Requests : RequestOK(r))'
  BY <1>2 DEF AccessInv, RequestOK, Waiting
<1> QED BY <1>2, <1>4, <1>5 DEF AccessInv, ScopeWasLive

\* A step of the database or of the clock, given what it does to the copies.
LEMMA WorldStep ==
    ASSUME AccessInv, Witness, AccessTypeOK',
           UNCHANGED <<entry, pc, now, dto, scope, misled>>,
           (\A w \in Writers : TxOK(tx[w]))',
           \A d \in Entries : CopyOK(d) => CopyKept(d)
    PROVE  AccessInv'
<1>1. entry \in Entries /\ \A r \in Requests : dto[r] \in Entries
  BY DEF AccessInv, AccessTypeOK
<1>2. CopyOK(entry) /\ \A r \in Requests : CopyOK(dto[r])
  BY DEF AccessInv, CopiesOK
<1>3. CopyKept(entry') /\ \A r \in Requests : CopyKept(dto'[r])
  BY <1>1, <1>2
<1>4. CopiesOK'
  BY <1>3, CopiesKept
<1>5. (pc \in [Requests -> Labels])'
  BY DEF AccessInv
<1> QED BY <1>4, <1>5, WitnessSees DEF AccessInv

\* COMMIT: with an advance of an epoch no copy is current any more; without,
\* the rows written do not count, or `missed` says so.
LEMMA CommitStep ==
    ASSUME AccessInv, NEW w \in Writers, Commit(w)
    PROVE  AccessInv'
<1> DEFINE t == tx[w]
<1>1. t \in Txs /\ TxOK(t) /\ t # NoTx
  BY DEF AccessInv, AccessTypeOK, Commit
<1>2. /\ rows' = IF t.op = "row" THEN [rows EXCEPT ![t.who][t.unit] = t.row] ELSE rows
      /\ ingroup' = IF t.op = "member" THEN t.in ELSE ingroup
      /\ closure' = IF t.op = "tree" THEN t.closure ELSE closure
      /\ scope_epoch' = IF t.scopebump THEN scope_epoch + 1 ELSE scope_epoch
      /\ acl_epoch' = IF t.treebump THEN acl_epoch + 1 ELSE acl_epoch
      /\ tx' = [tx EXCEPT ![w] = NoTx]
  BY DEF Commit
<1>3. missed' = (/\ ~t.scopebump /\ ~t.treebump
                 /\ missed \/ (t.op = "row" /\ t.who = "group" /\ ingroup))
  BY Zenon DEF Commit
<1>4. UNCHANGED <<clock, entry, pc, now, dto, scope, misled, changes, faults>> /\ Witness
  BY DEF Commit, scopeVars
<1> HIDE DEF t
<1>5. AccessTypeOK'
  <2>1. rows' \in [Principals -> [Units -> RowValues]]
    BY <1>1, <1>2, TxCases DEF AccessInv, AccessTypeOK
  <2>2. ingroup' \in BOOLEAN /\ closure' \in Closures
    BY <1>1, <1>2, TxCases DEF AccessInv, AccessTypeOK
  <2>3. acl_epoch' \in Nat /\ scope_epoch' \in Nat
    BY <1>2 DEF AccessInv, AccessTypeOK
  <2>4. tx' \in [Writers -> Txs]
    BY <1>2 DEF AccessInv, AccessTypeOK, Txs
  <2>5. missed' \in BOOLEAN
    BY <1>3, Zenon
  <2>6. seen' \in [Requests -> SUBSET SUBSET Units]
    <3>1. LiveScope' \in SUBSET Units
      BY DEF LiveScope
    <3> QED BY <1>4, <3>1 DEF Witness, AccessInv, AccessTypeOK
  <2> QED BY <1>4, <2>1, <2>2, <2>3, <2>4, <2>5, <2>6 DEF AccessInv, AccessTypeOK
<1>6. (\A v \in Writers : TxOK(tx[v]))'
  BY <1>2 DEF AccessInv, AccessTypeOK, TxOK, NoTx
<1>7. ASSUME NEW d \in Entries, CopyOK(d) PROVE CopyKept(d)
  <2>1. /\ d.acl \in Nat /\ d.usr \in Nat /\ d.acl <= acl_epoch /\ d.usr <= scope_epoch
        /\ acl_epoch \in Nat /\ scope_epoch \in Nat
    BY <1>7 DEF Entries, CopyOK, AccessInv, AccessTypeOK
  <2>2. d.acl <= acl_epoch' /\ d.usr <= scope_epoch'
    BY <1>2, <2>1
  <2>3. CASE t.scopebump \/ t.treebump
    <3>1. ~(d.acl = acl_epoch' /\ d.usr = scope_epoch')
      BY <1>2, <2>1, <2>3
    <3> QED BY <2>2, <3>1 DEF CopyKept
  <2>4. CASE ~t.scopebump /\ ~t.treebump
    <3>1. t.op = "row" /\ t.who = "group" /\ t.unit \in Units
      BY <1>1, <2>4, TxCases DEF TxOK, Principals
    <3>2. acl_epoch' = acl_epoch /\ scope_epoch' = scope_epoch /\ closure' = closure
          /\ ingroup' = ingroup /\ clock' = clock
      BY <1>2, <1>4, <2>4, <3>1
    <3>3. ~missed' => ~missed /\ ~ingroup
      BY <1>3, <2>4, <3>1, Zenon
    <3>4. rows'["user"] = rows["user"]
      BY <1>2, <3>1 DEF AccessInv, AccessTypeOK, Principals
    <3>5. ~missed' => /\ LiveRows' = LiveRows
                      /\ \A p \in LiveRows : rows'[p[1]][p[2]] = rows[p[1]][p[2]]
      BY <3>2, <3>3, <3>4 DEF LiveRows
    <3>6. ~missed' => LiveScope' = LiveScope
      BY <3>2, <3>5, SameScope
    <3>7. \A r \in Requests : seen[r] \subseteq seen'[r] /\ pc'[r] = pc[r] /\ now'[r] = now[r]
      BY <1>4, <1>5, WitnessSees
    <3> QED
      BY <1>7, <2>2, <3>2, <3>3, <3>5, <3>6, <3>7 DEF CopyKept, CopyOK, Good, SeenBy, EpochsMatch
  <2> QED BY <2>3, <2>4
<1> QED BY <1>4, <1>5, <1>6, <1>7, WorldStep

\* The clock: a copy that is still current has lost no membership.
LEMMA TickStep ==
    ASSUME AccessInv, Tick
    PROVE  AccessInv'
<1>1. /\ clock < MaxTime /\ clock' = clock + 1 /\ Witness
      /\ UNCHANGED <<rows, ingroup, closure, acl_epoch, scope_epoch, tx, entry, pc, now, dto,
                     scope, missed, misled, changes, faults>>
  BY DEF Tick, dbVars, scopeVars
<1>2. AccessTypeOK'
  <2>1. clock' \in 0..MaxTime
    BY <1>1, ConstantsAssumption DEF AccessInv, AccessTypeOK
  <2>2. seen' \in [Requests -> SUBSET SUBSET Units]
    <3>1. LiveScope' \in SUBSET Units
      BY DEF LiveScope
    <3> QED BY <1>1, <3>1 DEF Witness, AccessInv, AccessTypeOK
  <2> QED BY <1>1, <2>1, <2>2 DEF AccessInv, AccessTypeOK
<1>3. (\A v \in Writers : TxOK(tx[v]))'
  BY <1>1 DEF AccessInv, TxOK
<1>4. ASSUME NEW d \in Entries, CopyOK(d) PROVE CopyKept(d)
  <2>1. /\ d.until \in Nat /\ clock \in Nat
        /\ \A p \in LiveRows : rows[p[1]][p[2]].until \in Nat
    BY LiveTypes DEF Entries, AccessInv, AccessTypeOK
  <2>2. \A r \in Requests : seen[r] \subseteq seen'[r] /\ pc'[r] = pc[r] /\ now'[r] = now[r]
    BY <1>1, <1>2, WitnessSees
  <2>3. ASSUME d.acl = acl_epoch', d.usr = scope_epoch', clock' < d.until, ~missed'
        PROVE  LiveRows' = LiveRows /\ LiveScope' = LiveScope
               /\ d.scope = LiveScope /\ \A p \in LiveRows : d.until <= rows[p[1]][p[2]].until
    <3>1. d.scope = LiveScope /\ \A p \in LiveRows : d.until <= rows[p[1]][p[2]].until
      BY <1>1, <1>4, <2>1, <2>3 DEF CopyOK, Good, EpochsMatch
    <3>2. LiveRows \subseteq LiveRows'
      <4>1. ASSUME NEW p \in LiveRows PROVE p \in LiveRows'
        <5>1. rows[p[1]][p[2]].until > clock + 1
          BY <1>1, <2>1, <2>3, <3>1
        <5> QED BY <1>1, <5>1 DEF LiveRows
      <4> QED BY <4>1
    <3>3. LiveRows' \subseteq LiveRows
      <4>1. ASSUME NEW p \in LiveRows' PROVE p \in LiveRows
        <5>1. /\ p \in Principals \X Units /\ (p[1] = "user" \/ ingroup)
              /\ rows[p[1]][p[2]].until > clock + 1
          BY <1>1 DEF LiveRows
        <5>2. p[1] \in Principals /\ p[2] \in Units
          BY <5>1
        <5>3. rows[p[1]][p[2]].until \in Nat
          BY <5>2, RowTypes DEF AccessInv, AccessTypeOK
        <5>4. rows[p[1]][p[2]].until > clock
          BY <2>1, <5>1, <5>3
        <5> QED BY <5>1, <5>4 DEF LiveRows
      <4> QED BY <4>1
    <3>4. LiveRows' = LiveRows
      BY <3>2, <3>3
    <3> QED BY <1>1, <3>1, <3>4, SameScope
  <2>4. d.acl <= acl_epoch' /\ d.usr <= scope_epoch'
    BY <1>1, <1>4 DEF CopyOK
  <2>5. ASSUME NEW r \in Requests,
               pc'[r] \in {"lookup", "validate"}, now'[r] < d.until,
               d.acl = acl_epoch', d.usr = scope_epoch', ~missed'
        PROVE  d.scope \in seen'[r]
    BY <1>1, <1>4, <2>2, <2>5 DEF CopyOK, SeenBy, EpochsMatch
  <2> QED BY <1>1, <2>3, <2>4, <2>5 DEF CopyKept
<1> QED BY <1>1, <1>2, <1>3, <1>4, WorldStep

\* Every statement, the end of its transaction, the clock and the loss of the
\* entry.
LEMMA EnvironmentStep ==
    ASSUME AccessInv, Environment
    PROVE  AccessInv'
<1>1. ASSUME NEW w \in Writers, NEW t \in Txs, TxOK(t), Open(w, t) PROVE AccessInv'
  <2>1. changes' \in 0..MaxChanges
    BY <1>1, ConstantsAssumption DEF Open, AccessInv, AccessTypeOK
  <2> QED BY <1>1, <2>1, TxStep DEF Open
<1>2. ASSUME NEW w \in Writers, NEW who \in Principals, NEW u \in Units, NEW row \in RowValues,
             EditMembership(w, who, u, row)
      PROVE  AccessInv'
  <2> DEFINE t == [op |-> "row", who |-> who, unit |-> u, row |-> row,
                   scopebump |-> BumpsUser(who), treebump |-> FALSE]
  <2>1. BumpsUser(who) \in BOOLEAN /\ (who = "user" => BumpsUser(who))
    BY Zenon DEF BumpsUser
  <2>2. t \in [op: {"row"}, who: Principals, unit: Units, row: RowValues,
               scopebump: BOOLEAN, treebump: {FALSE}]
    BY <2>1, Zenon
  <2>3. t \in Txs
    BY <2>2, Zenon DEF Txs
  <2>4. TxOK(t)
    BY <2>1, Zenon DEF TxOK
  <2>5. Open(w, t)
    BY <1>2, Zenon DEF EditMembership
  <2> QED BY <1>1, <2>3, <2>4, <2>5, Zenon
<1>3. ASSUME NEW w \in Writers, EditGroup(w) PROVE AccessInv'
  <2> DEFINE t == [op |-> "member", in |-> ~ingroup, scopebump |-> TRUE, treebump |-> FALSE]
  <2>1. t \in [op: {"member"}, in: BOOLEAN, scopebump: {TRUE}, treebump: {FALSE}]
    BY Zenon
  <2>2. t \in Txs
    BY <2>1, Zenon DEF Txs
  <2>3. TxOK(t)
    BY DEF TxOK
  <2> QED BY <1>1, <1>3, <2>2, <2>3, Zenon DEF EditGroup
<1>4. ASSUME NEW w \in Writers, NEW c \in Closures, EditTree(w, c) PROVE AccessInv'
  <2> DEFINE t == [op |-> "tree", closure |-> c, scopebump |-> FALSE, treebump |-> TRUE]
  <2>1. t \in [op: {"tree"}, closure: Closures, scopebump: {FALSE}, treebump: {TRUE}]
    BY Zenon
  <2>2. t \in Txs
    BY <2>1, Zenon DEF Txs
  <2>3. TxOK(t)
    BY DEF TxOK
  <2> QED BY <1>1, <1>4, <2>2, <2>3, Zenon DEF EditTree
<1>5. ASSUME NEW w \in Writers, Rollback(w) PROVE AccessInv'
  <2>1. NoTx \in Txs /\ TxOK(NoTx)
    BY DEF Txs, TxOK, NoTx
  <2>2. changes' \in 0..MaxChanges
    BY <1>5 DEF Rollback, AccessInv, AccessTypeOK
  <2> QED BY <1>5, <2>1, <2>2, TxStep DEF Rollback
<1>6. CASE EntryLost
  <2>1. /\ entry' = NoEntry
        /\ UNCHANGED <<rows, ingroup, closure, acl_epoch, scope_epoch, tx, clock, pc, now, dto,
                       scope, seen, missed, misled, changes, faults>>
    BY <1>6 DEF EntryLost, dbVars, scopeVars, history
  <2>2. AccessTypeOK' /\ (pc \in [Requests -> Labels])'
    BY <2>1, NoEntryTypes DEF AccessInv, AccessTypeOK
  <2>3. (\A v \in Writers : TxOK(tx[v]))'
    BY <2>1 DEF AccessInv, TxOK
  <2>4. CopiesOK'
    <3>1. \A r \in Requests : Looks(r)
      BY <2>1 DEF Looks
    <3>2. \A r \in Requests : CopyOK(dto[r])
      BY DEF AccessInv, CopiesOK
    <3>3. UNCHANGED <<dbVars, clock, missed>>
      BY <2>1 DEF dbVars
    <3>4. \A r \in Requests : CopyKept(dto[r])
      BY <3>1, <3>2, <3>3, QuietKeeps
    <3>5. CopyKept(NoEntry)
      BY <2>2, NoEntryKept
    <3>6. CopyKept(entry') /\ \A r \in Requests : CopyKept(dto'[r])
      BY <2>1, <3>4, <3>5
    <3> QED BY <3>6, CopiesKept
  <2>5. (\A r \in Requests : RequestOK(r))' /\ ScopeWasLive'
    <3>1. LiveScope' = LiveScope
      BY <2>1 DEF LiveScope, LiveRows
    <3> QED BY <2>1, <3>1 DEF AccessInv, RequestOK, Waiting, ScopeWasLive
  <2> QED BY <2>2, <2>3, <2>4, <2>5 DEF AccessInv
<1> QED BY <1>2, <1>3, <1>4, <1>5, <1>6, CommitStep, TickStep DEF Environment

-----------------------------------------------------------------------------
(* The resolver                                                            *)

\* A step of a request to l that leaves the entry e and the copy d, `now` n,
\* the scopes seen S, the scope s and m: the copies are all right, and what it
\* knows of its scope is so.
Moves(r, l, e, d, n, S, s, m) ==
    /\ l \in Labels /\ Goto(r, l)
    /\ UNCHANGED <<dbVars, tx, clock, missed>>
    /\ changes' \in 0..MaxChanges /\ faults' \in 0..MaxFaults
    /\ e \in Entries /\ CopyOK(e) /\ entry' = e
    /\ d \in Entries /\ CopyOK(d) /\ dto' = [dto EXCEPT ![r] = d]
    /\ n \in 0..MaxTime /\ now' = [now EXCEPT ![r] = n]
    /\ S \in SUBSET SUBSET Units /\ seen' = [seen EXCEPT ![r] = S]
    /\ s \in SUBSET Units /\ scope' = [scope EXCEPT ![r] = s]
    /\ m \in BOOLEAN /\ misled' = [misled EXCEPT ![r] = m]
    /\ Looks(r)
    /\ l \notin {"idle", "done"} => LiveScope \in S
    /\ l = "validate" => n < d.until
    /\ l \in {"store", "resolved", "gate", "edges", "edgegate", "build", "llm"} /\ ~m => s \in S

\* Such a step keeps the invariant.
LEMMA RequestMoves ==
    ASSUME AccessInv, NEW r \in Requests, NEW l, NEW e, NEW d, NEW n, NEW S, NEW s, NEW m,
           Moves(r, l, e, d, n, S, s, m)
    PROVE  AccessInv'
<1> USE DEF Moves
<1>1. UNCHANGED <<rows, ingroup, closure, acl_epoch, scope_epoch, tx, clock, missed>>
  BY DEF dbVars
<1>2. /\ pc \in [Requests -> Labels] /\ now \in [Requests -> 0..MaxTime]
      /\ dto \in [Requests -> Entries] /\ scope \in [Requests -> SUBSET Units]
      /\ seen \in [Requests -> SUBSET SUBSET Units] /\ misled \in [Requests -> BOOLEAN]
  BY DEF AccessInv, AccessTypeOK
<1>3. /\ pc' \in [Requests -> Labels] /\ now' \in [Requests -> 0..MaxTime]
      /\ dto' \in [Requests -> Entries] /\ scope' \in [Requests -> SUBSET Units]
      /\ seen' \in [Requests -> SUBSET SUBSET Units] /\ misled' \in [Requests -> BOOLEAN]
  BY <1>2 DEF Goto
<1>4. /\ pc'[r] = l /\ now'[r] = n /\ dto'[r] = d /\ scope'[r] = s /\ seen'[r] = S
      /\ misled'[r] = m
  BY <1>2 DEF Goto
<1>5. ASSUME NEW q \in Requests, q # r
      PROVE  /\ pc'[q] = pc[q] /\ now'[q] = now[q] /\ dto'[q] = dto[q]
             /\ scope'[q] = scope[q] /\ seen'[q] = seen[q] /\ misled'[q] = misled[q]
  BY <1>2, <1>5 DEF Goto
<1>6. AccessTypeOK'
  BY <1>1, <1>3 DEF AccessInv, AccessTypeOK
<1>7. (\A v \in Writers : TxOK(tx[v]))'
  BY <1>1 DEF AccessInv, TxOK
<1>8. CopiesOK'
  <2>1. \A q \in Requests : Looks(q)
    BY <1>5 DEF Looks
  <2>2. \A q \in Requests : CopyOK(dto[q])
    BY DEF AccessInv, CopiesOK
  <2>3. UNCHANGED <<dbVars, clock, missed>>
    BY <1>1 DEF dbVars
  <2>4. CopyKept(e) /\ CopyKept(d) /\ \A q \in Requests : CopyKept(dto[q])
    BY <2>1, <2>2, <2>3, QuietKeeps
  <2>5. CopyKept(entry') /\ \A q \in Requests : CopyKept(dto'[q])
    BY <1>4, <1>5, <2>4
  <2> QED BY <2>5, CopiesKept
<1>9. LiveScope' = LiveScope
  BY <1>1 DEF LiveScope, LiveRows
<1>10. ASSUME NEW q \in Requests PROVE RequestOK(q)'
  <2>1. CASE q = r
    BY <1>4, <1>9, <2>1 DEF RequestOK, Waiting
  <2>2. CASE q # r
    <3>1. RequestOK(q)
      BY DEF AccessInv
    <3> QED BY <1>5, <1>9, <2>2, <3>1 DEF RequestOK, Waiting
  <2> QED BY <2>1, <2>2
<1>11. ScopeWasLive'
  <2> DEFINE Live == {"store", "resolved", "gate", "edges", "edgegate", "build", "llm"}
  <2>1. ASSUME NEW q \in Requests, pc'[q] \in Live, ~misled'[q] PROVE scope'[q] \in seen'[q]
    <3>1. CASE q = r
      BY <1>4, <2>1, <3>1
    <3>2. CASE q # r
      BY <1>5, <2>1, <3>2 DEF AccessInv, ScopeWasLive
    <3> QED BY <3>1, <3>2
  <2> QED BY <2>1 DEF ScopeWasLive
<1> QED BY <1>3, <1>6, <1>7, <1>8, <1>10, <1>11 DEF AccessInv

\* What a request holds now.
LEMMA RequestHolds ==
    ASSUME AccessInv, NEW r \in Requests
    PROVE  /\ entry \in Entries /\ CopyOK(entry)
           /\ dto[r] \in Entries /\ CopyOK(dto[r]) /\ dto = [dto EXCEPT ![r] = dto[r]]
           /\ now[r] \in 0..MaxTime /\ now = [now EXCEPT ![r] = now[r]]
           /\ seen[r] \in SUBSET SUBSET Units /\ seen = [seen EXCEPT ![r] = seen[r]]
           /\ scope[r] \in SUBSET Units /\ scope = [scope EXCEPT ![r] = scope[r]]
           /\ misled[r] \in BOOLEAN /\ misled = [misled EXCEPT ![r] = misled[r]]
           /\ clock \in 0..MaxTime /\ 0 \in 0..MaxTime
           /\ changes \in 0..MaxChanges /\ faults \in 0..MaxFaults
           /\ pc[r] \in Labels
           /\ pc[r] \notin {"idle", "done"} => LiveScope \in seen[r]
<1>1. 0 \in 0..MaxTime
  BY ConstantsAssumption
<1>2. RequestOK(r) /\ CopyOK(entry) /\ CopyOK(dto[r])
  BY DEF AccessInv, CopiesOK
<1>3. misled[r] \in BOOLEAN /\ misled = [misled EXCEPT ![r] = misled[r]]
  <2>1. misled \in [Requests -> BOOLEAN]
    BY DEF AccessInv, AccessTypeOK
  <2> QED BY <2>1, Zenon
<1> QED BY <1>1, <1>2, <1>3 DEF AccessInv, AccessTypeOK, RequestOK, Waiting

\* No entry is a copy like the others.
LEMMA NoEntryOK ==
    ASSUME AccessTypeOK
    PROVE  CopyOK(NoEntry)
<1>1. acl_epoch \in Nat /\ scope_epoch \in Nat /\ clock \in Nat
      /\ \A r \in Requests : now[r] \in Nat
  BY ConstantsAssumption DEF AccessTypeOK
<1> QED BY <1>1, NoEntryTypes DEF CopyOK, Good, SeenBy

\* A request takes its `now`, having seen the live scope.
LEMMA BeginStep ==
    ASSUME AccessInv, NEW r \in Requests, NEW from, BeginResolve(r, from),
           NEW S \in SUBSET SUBSET Units, LiveScope \in S, seen' = [seen EXCEPT ![r] = S],
           UNCHANGED <<missed, misled>>
    PROVE  AccessInv'
<1>1. /\ Goto(r, "lookup") /\ now' = [now EXCEPT ![r] = clock]
      /\ UNCHANGED <<dbVars, tx, clock, entry, dto, scope, changes, faults>>
  BY DEF BeginResolve
<1>2. Looks(r)
  <2>1. now'[r] = clock /\ seen'[r] = S
    BY <1>1 DEF AccessInv, AccessTypeOK
  <2> QED BY <2>1 DEF Looks
<1>3. "lookup" \in Labels /\ "lookup" # "validate"
  BY DEF Labels
<1>4. Moves(r, "lookup", entry, dto[r], clock, S, scope[r], misled[r])
  BY <1>1, <1>2, <1>3, RequestHolds DEF Moves
<1> QED BY <1>4, RequestMoves

\* The entry is looked up: a copy of it, when it has not run out.
LEMMA LookupStep ==
    ASSUME AccessInv, NEW r \in Requests, Lookup(r)
    PROVE  AccessInv'
<1>1. PICK value \in {entry, NoEntry} :
        /\ RedisGet(value)
        /\ IF value # NoEntry /\ now[r] < value.until
           THEN dto' = [dto EXCEPT ![r] = value] /\ Goto(r, "validate")
           ELSE UNCHANGED dto /\ Goto(r, "resolve")
  BY DEF Lookup
<1>2. pc[r] = "lookup"
      /\ UNCHANGED <<dbVars, tx, clock, entry, now, scope, seen, missed, misled, changes>>
  BY DEF Lookup, history
<1>3. faults' \in 0..MaxFaults
  BY <1>1, ConstantsAssumption DEF RedisGet, Fault, AccessInv, AccessTypeOK
<1>4. "validate" \in Labels /\ "resolve" \in Labels
  BY DEF Labels
<1>5. value \in Entries /\ CopyOK(value)
  BY RequestHolds, NoEntryTypes, NoEntryOK DEF AccessInv
<1>6. Looks(r)
  BY <1>2 DEF Looks
<1>7. CASE value # NoEntry /\ now[r] < value.until
  <2>1. Moves(r, "validate", entry, value, now[r], seen[r], scope[r], misled[r])
    BY <1>1, <1>2, <1>3, <1>4, <1>5, <1>6, <1>7, RequestHolds DEF Moves
  <2> QED BY <2>1, RequestMoves
<1>8. CASE ~(value # NoEntry /\ now[r] < value.until)
  <2>1. Moves(r, "resolve", entry, dto[r], now[r], seen[r], scope[r], misled[r])
    BY <1>1, <1>2, <1>3, <1>4, <1>6, <1>8, RequestHolds DEF Moves
  <2> QED BY <2>1, RequestMoves
<1> QED BY <1>7, <1>8

\* The stamp is compared: when it is current, the request has seen the scope.
LEMMA ValidateStep ==
    ASSUME AccessInv, NEW r \in Requests, Validate(r)
    PROVE  AccessInv'
<1>1. /\ pc[r] = "validate" /\ dto' = [dto EXCEPT ![r] = NoEntry]
      /\ UNCHANGED <<dbVars, tx, clock, entry, seen, missed, changes>>
  BY DEF Validate
<1>2. "resolved" \in Labels /\ "resolve" \in Labels
  BY DEF Labels
<1>3. NoEntry \in Entries /\ CopyOK(NoEntry)
  BY NoEntryTypes, NoEntryOK DEF AccessInv
<1>4. CASE /\ EpochsMatch(dto[r])
           /\ scope' = [scope EXCEPT ![r] = dto[r].scope]
           /\ misled' = [misled EXCEPT ![r] = missed]
           /\ now' = [now EXCEPT ![r] = 0]
           /\ Goto(r, "resolved")
           /\ UNCHANGED faults
  <2>1. Looks(r)
    BY <1>4 DEF Looks, Goto, AccessInv
  <2>2. dto[r].scope \in SUBSET Units /\ missed \in BOOLEAN
    BY RequestHolds DEF AccessInv, AccessTypeOK, Entries
  <2>3. ~missed => dto[r].scope \in seen[r]
    BY <1>1, <1>4, RequestHolds DEF AccessInv, RequestOK, CopyOK, SeenBy
  <2>4. Moves(r, "resolved", entry, NoEntry, 0, seen[r], dto[r].scope, missed)
    BY <1>1, <1>2, <1>3, <1>4, <2>1, <2>2, <2>3, RequestHolds DEF Moves
  <2> QED BY <2>4, RequestMoves
<1>5. CASE /\ Goto(r, "resolve") /\ faults' \in 0..MaxFaults
           /\ UNCHANGED <<now, scope, misled>>
  <2>1. Looks(r)
    BY <1>5 DEF Looks, Goto, AccessInv
  <2>2. Moves(r, "resolve", entry, NoEntry, now[r], seen[r], scope[r], misled[r])
    BY <1>1, <1>2, <1>3, <1>5, <2>1, RequestHolds DEF Moves
  <2> QED BY <2>2, RequestMoves
<1>6. Fault => faults' \in 0..MaxFaults
  BY ConstantsAssumption DEF Fault, AccessInv, AccessTypeOK
<1>7. UNCHANGED faults => faults' \in 0..MaxFaults
  BY DEF AccessInv, AccessTypeOK
<1> QED BY <1>4, <1>5, <1>6, <1>7 DEF Validate

\* The scope is computed.
LEMMA ResolverStep ==
    ASSUME AccessInv, NEW r \in Requests, Resolve(r)
    PROVE  AccessInv'
<1>1. /\ pc[r] = "resolve" /\ dto' = [dto EXCEPT ![r] = Snapshot]
      /\ scope' = [scope EXCEPT ![r] = LiveScope] /\ Goto(r, "store")
      /\ UNCHANGED <<dbVars, tx, clock, entry, now, seen, missed, misled, changes, faults>>
  BY DEF Resolve, history
<1>2. "store" \in Labels
  BY DEF Labels
<1>3. Snapshot \in Entries /\ CopyOK(Snapshot) /\ LiveScope \in SUBSET Units
  BY SnapshotTypes, SnapshotOK, LiveTypes DEF AccessInv
<1>4. Looks(r)
  BY <1>1 DEF Looks, Goto, AccessInv
<1>5. Moves(r, "store", entry, Snapshot, now[r], seen[r], LiveScope, misled[r])
  BY <1>1, <1>2, <1>3, <1>4, RequestHolds DEF Moves
<1> QED BY <1>5, RequestMoves

\* The answer is stored, or Redis does not take it.
LEMMA StoreStep ==
    ASSUME AccessInv, NEW r \in Requests, Store(r)
    PROVE  AccessInv'
<1>1. /\ pc[r] = "store" /\ now' = [now EXCEPT ![r] = 0]
      /\ dto' = [dto EXCEPT ![r] = NoEntry] /\ Goto(r, "resolved")
      /\ UNCHANGED <<dbVars, tx, clock, scope, seen, missed, misled, changes>>
  BY DEF Store, history
<1>2. entry' = dto[r] \/ entry' = entry
  BY DEF Store, RedisSet
<1>3. faults' \in 0..MaxFaults
  BY ConstantsAssumption DEF Store, RedisSet, Fault, AccessInv, AccessTypeOK
<1>4. "resolved" \in Labels
  BY DEF Labels
<1>5. NoEntry \in Entries /\ CopyOK(NoEntry)
  BY NoEntryTypes, NoEntryOK DEF AccessInv
<1>6. Looks(r)
  BY <1>1 DEF Looks, Goto, AccessInv
<1>7. entry' \in {dto[r], entry} /\ (~misled[r] => scope[r] \in seen[r])
  BY <1>1, <1>2 DEF AccessInv, ScopeWasLive
<1>8. CASE entry' = dto[r]
  <2>1. Moves(r, "resolved", dto[r], NoEntry, 0, seen[r], scope[r], misled[r])
    BY <1>1, <1>3, <1>4, <1>5, <1>6, <1>7, <1>8, RequestHolds DEF Moves
  <2> QED BY <2>1, RequestMoves
<1>9. CASE entry' = entry
  <2>1. Moves(r, "resolved", entry, NoEntry, 0, seen[r], scope[r], misled[r])
    BY <1>1, <1>3, <1>4, <1>5, <1>6, <1>7, <1>9, RequestHolds DEF Moves
  <2> QED BY <2>1, RequestMoves
<1> QED BY <1>2, <1>8, <1>9

-----------------------------------------------------------------------------
(* Edits of documents and the steps of a handler                           *)

\* A step that leaves everything of the resolver alone, but the count of
\* changes.
LEMMA EditStep ==
    ASSUME AccessInv, Edit
    PROVE  AccessInv'
<1>1. UNCHANGED <<rows, ingroup, closure, acl_epoch, scope_epoch, tx, clock, entry, pc, now, dto,
                  scope, seen, missed, misled, faults>>
  BY DEF Edit, dbVars, scopeVars, history
<1>2. changes' \in 0..MaxChanges
  BY ConstantsAssumption DEF Edit, AccessInv, AccessTypeOK
<1>3. AccessTypeOK' /\ (pc \in [Requests -> Labels])'
  BY <1>1, <1>2 DEF AccessInv, AccessTypeOK
<1>4. LiveScope' = LiveScope /\ LiveRows' = LiveRows
  BY <1>1 DEF LiveScope, LiveRows
<1>5. CopiesOK'
  BY <1>1, <1>4 DEF AccessInv, CopiesOK, CopyOK, Good, SeenBy, EpochsMatch
<1>6. (\A r \in Requests : RequestOK(r))' /\ ScopeWasLive' /\ (\A v \in Writers : TxOK(tx[v]))'
  BY <1>1, <1>4 DEF AccessInv, RequestOK, Waiting, ScopeWasLive, TxOK
<1> QED BY <1>3, <1>5, <1>6 DEF AccessInv

\* Where a request works with its scope.
Working == {"store", "resolved", "gate", "edges", "edgegate", "build", "llm"}

\* A step of a handler: the scope stays, or is gone with the response.
Handles(r, l) ==
    /\ pc[r] \notin {"idle", "done"}
    /\ l \in Labels /\ l \notin {"idle", "lookup", "validate"} /\ Goto(r, l)
    /\ Unwitnessed
    /\ \/ UNCHANGED scope /\ l # "done" /\ (l \in Working => pc[r] \in Working)
       \/ scope' = [scope EXCEPT ![r] = {}] /\ l = "done"

\* What such a step leaves alone.
LEMMA StillHolds ==
    ASSUME Still
    PROVE  /\ UNCHANGED <<rows, ingroup, closure, acl_epoch, scope_epoch>> /\ UNCHANGED dbVars
           /\ UNCHANGED <<tx, clock, entry, now, dto, missed, misled, changes, faults>>
           /\ UNCHANGED <<active, readers, served, usable>>
  BY DEF Still, dbVars, docVars

\* A step of a handler keeps the invariant.
LEMMA HandlerStep ==
    ASSUME AccessInv, NEW r \in Requests, NEW l, Handles(r, l)
    PROVE  AccessInv'
<1>1. /\ UNCHANGED <<dbVars, tx, clock, entry, now, dto, missed, misled, changes, faults>>
      /\ UNCHANGED seen
  BY StillHolds DEF Handles, Unwitnessed
<1>2. l \in Labels /\ Goto(r, l) /\ l \notin {"lookup", "validate"}
  BY DEF Handles
<1>3. Looks(r)
  BY <1>2 DEF Looks, Goto, AccessInv
<1>4. pc[r] \notin {"idle", "done"} /\ {} \in SUBSET Units
  BY DEF Handles
<1>5. CASE UNCHANGED scope /\ (l \in Working => pc[r] \in Working)
  <2>1. l \in Working /\ ~misled[r] => scope[r] \in seen[r]
    BY <1>5 DEF Working, AccessInv, ScopeWasLive
  <2>2. Moves(r, l, entry, dto[r], now[r], seen[r], scope[r], misled[r])
    BY <1>1, <1>2, <1>3, <1>4, <1>5, <2>1, RequestHolds DEF Moves, Working
  <2> QED BY <2>2, RequestMoves
<1>6. CASE scope' = [scope EXCEPT ![r] = {}] /\ l = "done"
  <2>1. Moves(r, l, entry, dto[r], now[r], seen[r], {}, misled[r])
    BY <1>1, <1>2, <1>3, <1>4, <1>6, RequestHolds DEF Moves
  <2> QED BY <2>1, RequestMoves
<1> QED BY <1>5, <1>6 DEF Handles

\* A request arrives.
LEMMA ReceiveStep ==
    ASSUME AccessInv, NEW r \in Requests, Receive(r)
    PROVE  AccessInv'
<1>1. /\ UNCHANGED <<dbVars, tx, clock, entry, now, dto, missed, misled, changes, faults>>
      /\ seen' = [seen EXCEPT ![r] = {LiveScope}]
  BY StillHolds DEF Receive
<1>2. PICK l \in {"auth", "key", "done"} :
          Goto(r, l) /\ (UNCHANGED scope \/ scope' = [scope EXCEPT ![r] = {}])
  BY DEF Receive, Proceed, Respond
<1>3. Looks(r)
  BY <1>2 DEF Looks, Goto, AccessInv
<1>4. {LiveScope} \in SUBSET SUBSET Units /\ LiveScope \in {LiveScope} /\ {} \in SUBSET Units
  BY LiveTypes DEF AccessInv
<1>5. l \in Labels
  BY DEF Labels
<1>6. CASE UNCHANGED scope
  <2>1. Moves(r, l, entry, dto[r], now[r], {LiveScope}, scope[r], misled[r])
    BY <1>1, <1>2, <1>3, <1>4, <1>5, <1>6, RequestHolds DEF Moves
  <2> QED BY <2>1, RequestMoves
<1>7. CASE scope' = [scope EXCEPT ![r] = {}]
  <2>1. Moves(r, l, entry, dto[r], now[r], {LiveScope}, {}, misled[r])
    BY <1>1, <1>2, <1>3, <1>4, <1>5, <1>7, RequestHolds DEF Moves
  <2> QED BY <2>1, RequestMoves
<1> QED BY <1>2, <1>6, <1>7

\* A request is given up.
LEMMA AbortStep ==
    ASSUME AccessInv, NEW r \in Requests, Abort(r)
    PROVE  AccessInv'
<1>1. /\ UNCHANGED <<dbVars, tx, clock, entry, seen, missed, misled, changes, faults>>
      /\ now' = [now EXCEPT ![r] = 0] /\ dto' = [dto EXCEPT ![r] = NoEntry]
      /\ Goto(r, "done") /\ scope' = [scope EXCEPT ![r] = {}]
  BY DEF Abort, Respond, history
<1>2. Looks(r)
  BY <1>1 DEF Looks, Goto, AccessInv
<1>3. "done" \in Labels /\ {} \in SUBSET Units /\ NoEntry \in Entries /\ CopyOK(NoEntry)
  BY NoEntryTypes, NoEntryOK DEF Labels, AccessInv
<1>4. Moves(r, "done", entry, NoEntry, 0, seen[r], {}, misled[r])
  BY <1>1, <1>2, <1>3, RequestHolds DEF Moves
<1> QED BY <1>4, RequestMoves

\* The steps of the handlers are such steps.
LEMMA HandlersHandle ==
    ASSUME NEW r \in Requests,
           \/ ValidateJwt(r) \/ ResolveJwtUser(r) \/ ValidateApiKey(r) \/ Me(r) \/ OrgGet(r)
           \/ \E answers \in BOOLEAN, i \in {"fact", "bridge", "automatic"} : Parse(r, answers, i)
           \/ FindUser(r) \/ FindUnit(r) \/ Search(r) \/ Gate(r) \/ SearchEdges(r) \/ EdgeGate(r)
           \/ Build(r) \/ Chat(r)
    PROVE  \E l : Handles(r, l)
<1> SUFFICES ASSUME NEW l, l \in Labels \ {"idle", "lookup", "validate"}, Goto(r, l),
                    pc[r] \notin {"idle", "done"}, Unwitnessed,
                    \/ UNCHANGED scope /\ l # "done" /\ (l \in Working => pc[r] \in Working)
                    \/ scope' = [scope EXCEPT ![r] = {}] /\ l = "done"
             PROVE  \E k : Handles(r, k)
  <2>1. "done" \in Labels /\ "gate" \in Labels /\ "edges" \in Labels /\ "edgegate" \in Labels
        /\ "build" \in Labels /\ "llm" \in Labels /\ "jwt" \in Labels /\ "key" \in Labels
        /\ "handler" \in Labels /\ "user" \in Labels /\ "unit" \in Labels /\ "embed" \in Labels
    BY DEF Labels
  <2>2. CASE ValidateJwt(r) \/ ResolveJwtUser(r) \/ ValidateApiKey(r) \/ FindUser(r) \/ FindUnit(r)
    BY <2>1, <2>2 DEF ValidateJwt, ResolveJwtUser, ValidateApiKey, FindUser, FindUnit, Authenticate, Proceed, Respond, Working
  <2>3. CASE Me(r) \/ OrgGet(r)
    BY <2>1, <2>3 DEF Me, OrgGet, Respond
  <2>4. CASE \E answers \in BOOLEAN, i \in {"fact", "bridge", "automatic"} : Parse(r, answers, i)
    BY <2>1, <2>4 DEF Parse, Respond, Working
  <2>5. CASE Search(r) \/ SearchEdges(r)
    BY <2>1, <2>5 DEF Search, SearchEdges, Working
  <2>6. CASE Gate(r) \/ EdgeGate(r)
    BY <2>1, <2>6 DEF Gate, EdgeGate, Evidence, Respond, Working
  <2>7. CASE Build(r) \/ Chat(r)
    BY <2>1, <2>7 DEF Build, Chat, Respond, Working
  <2> QED BY <2>2, <2>3, <2>4, <2>5, <2>6, <2>7
<1>1. Handles(r, l)
  BY DEF Handles
<1> QED BY <1>1

\* The steps of the resolver.
LEMMA ResolveSteps ==
    ASSUME AccessInv, NEW r \in Requests, ResolveStep(r)
    PROVE  AccessInv'
  BY LookupStep, ValidateStep, ResolverStep, StoreStep DEF ResolveStep

\* A step of a request is one of the resolver or one of a handler.
LEMMA RequestCases ==
    ASSUME NEW r \in Requests, RequestStep(r)
    PROVE  \/ ValidateJwt(r) \/ ResolveJwtUser(r) \/ ValidateApiKey(r) \/ Me(r) \/ OrgGet(r)
           \/ \E answers \in BOOLEAN, i \in {"fact", "bridge", "automatic"} : Parse(r, answers, i)
           \/ FindUser(r) \/ FindUnit(r) \/ Search(r) \/ Gate(r) \/ SearchEdges(r) \/ EdgeGate(r)
           \/ Build(r) \/ Chat(r)
           \/ Embed(r) \/ ResolveScope(r)
<1>1. Intents \subseteq {"fact", "bridge", "automatic"} /\ "fact" \in {"fact", "bridge", "automatic"}
  BY RetrievalAssumption
<1> QED BY <1>1 DEF RequestStep, WikiQuery, WikiEvidence, WikiAnswer

\* The initial states.
LEMMA AccessStarts ==
    ASSUME AccessInit
    PROVE  AccessInv
<1>1. 0 \in 0..MaxTime /\ 0 \in 0..MaxChanges /\ 0 \in 0..MaxFaults /\ FALSE \in BOOLEAN
  BY ConstantsAssumption
<1>2. /\ rows \in [Principals -> [Units -> RowValues]] /\ ingroup \in BOOLEAN
      /\ closure \in Closures /\ acl_epoch = 0 /\ scope_epoch = 0
      /\ tx = [w \in Writers |-> NoTx] /\ clock = 0 /\ entry \in {NoEntry, Snapshot}
      /\ pc = [r \in Requests |-> "idle"] /\ now = [r \in Requests |-> 0]
      /\ dto = [r \in Requests |-> NoEntry] /\ scope = [r \in Requests |-> {}]
      /\ seen = [r \in Requests |-> {}] /\ missed = FALSE
      /\ misled = [r \in Requests |-> FALSE] /\ changes = 0 /\ faults = 0
  BY DEF AccessInit
<1>3. ASSUME NEW E \in Entries, entry = E PROVE AccessTypeOK
  <2>1. NoTx \in Txs
    BY DEF Txs
  <2>2. misled \in [Requests -> BOOLEAN] /\ missed \in BOOLEAN
    BY <1>2, Zenon
  <2> QED BY <1>1, <1>2, <1>3, <2>1, <2>2, NoEntryTypes DEF AccessTypeOK
<1>4. AccessTypeOK
  <2>1. Snapshot \in Entries
    <3>1. LiveScope \in SUBSET Units
      BY DEF LiveScope
    <3>2. CacheUntil \in Nat
      <4> DEFINE ends == {rows[p[1]][p[2]].until : p \in LiveRows} \cup {clock + Ttl}
      <4>1. \A p \in LiveRows : rows[p[1]][p[2]].until \in Nat
        BY <1>2, RowTypes DEF LiveRows
      <4>2. clock + Ttl \in Nat
        BY <1>2, ConstantsAssumption
      <4>3. ends \in SUBSET Nat /\ ends # {}
        BY <4>1, <4>2
      <4>4. CacheUntil = CHOOSE t \in ends : \A e \in ends : t <= e
        BY DEF CacheUntil
      <4> HIDE DEF ends
      <4>5. \E t \in ends : \A e \in ends : t <= e
        BY <4>3, LeastNumber
      <4> QED BY <4>3, <4>4, <4>5
    <3> QED BY <1>2, <3>1, <3>2 DEF Snapshot, Entries
  <2> QED BY <1>2, <1>3, <2>1, NoEntryTypes
<1>5. pc \in [Requests -> Labels] /\ \A r \in Requests : RequestOK(r)
  BY <1>2 DEF Labels, RequestOK, Waiting
<1>6. CopiesOK
  <2>1. CopyOK(NoEntry) /\ CopyOK(Snapshot)
    BY <1>4, <1>5, NoEntryOK, SnapshotOK
  <2> QED BY <1>2, <2>1 DEF CopiesOK
<1>7. (\A w \in Writers : TxOK(tx[w])) /\ ScopeWasLive
  BY <1>2 DEF TxOK, NoTx, ScopeWasLive
<1> QED BY <1>4, <1>5, <1>6, <1>7 DEF AccessInv

\* The invariant is inductive for the requests of the API.
LEMMA AccessKept ==
    ASSUME AccessInv, [Next]_vars
    PROVE  AccessInv'
<1>1. CASE Environment
  BY <1>1, EnvironmentStep
<1>2. CASE Edit
  BY <1>2, EditStep
<1>3. ASSUME NEW r \in Requests, Receive(r) \/ RequestStep(r) \/ Abort(r) PROVE AccessInv'
  <2>1. CASE Embed(r)
    <3>1. BeginResolve(r, "embed") /\ UNCHANGED <<seen, missed, misled>>
      BY <2>1 DEF Embed, history
    <3>2. pc[r] \notin {"idle", "done"}
      BY <3>1 DEF BeginResolve
    <3>3. seen[r] \in SUBSET SUBSET Units /\ LiveScope \in seen[r]
          /\ seen' = [seen EXCEPT ![r] = seen[r]]
      BY <3>1, <3>2, RequestHolds
    <3> QED BY <3>1, <3>3, BeginStep
  <2>2. CASE ResolveScope(r)
    BY <2>2, ResolveSteps DEF ResolveScope
  <2>3. CASE \E l : Handles(r, l)
    BY <2>3, HandlerStep
  <2> QED BY <1>3, <2>1, <2>2, <2>3, RequestCases, HandlersHandle, ReceiveStep, AbortStep
<1>4. CASE UNCHANGED vars
  <2>1. UNCHANGED <<rows, ingroup, closure, acl_epoch, scope_epoch, tx, clock, entry, pc, now, dto,
                    scope, seen, missed, misled, changes, faults>>
    BY <1>4 DEF vars, accessVars, dbVars, scopeVars, history
  <2>2. LiveScope' = LiveScope /\ LiveRows' = LiveRows
    BY <2>1 DEF LiveScope, LiveRows
  <2> QED BY <2>1, <2>2 DEF AccessInv, AccessTypeOK, CopiesOK, CopyOK, Good, SeenBy, EpochsMatch,
                            RequestOK, Waiting, ScopeWasLive, TxOK
<1> QED BY <1>1, <1>2, <1>3, <1>4 DEF Next, EditGrants, EditDocument, EditEdge, EditUser

\* An entry whose stamp is current, whose lifetime is not over and past which
\* no change went unnoticed is the live scope.
LEMMA CopyIsCurrent ==
    ASSUME AccessInv
    PROVE  CachedScopeCurrent /\ ScopeWasLive
  BY DEF AccessInv, CopiesOK, CopyOK, Good, CachedScopeCurrent

\* The cache in Redis under the API: an entry that the epochs let through is
\* the scope that is live, for any number of requests and transactions.
THEOREM CacheAlwaysCurrent == Spec => []CachedScopeCurrent
<1>1. Init => AccessInv
  BY AccessStarts DEF Init
<1>2. AccessInv /\ [Next]_vars => AccessInv'
  BY AccessKept
<1>3. AccessInv => CachedScopeCurrent
  BY CopyIsCurrent
<1> QED BY <1>1, <1>2, <1>3, PTL DEF Spec

\* A request of the API never works with a scope that its user did not have
\* since it arrived, wherever the scope came from.
THEOREM ScopeAlwaysWasLive == Spec => []ScopeWasLive
<1>1. Init => AccessInv
  BY AccessStarts DEF Init
<1>2. AccessInv /\ [Next]_vars => AccessInv'
  BY AccessKept
<1>3. AccessInv => ScopeWasLive
  BY CopyIsCurrent
<1> QED BY <1>1, <1>2, <1>3, PTL DEF Spec

\* The same of the resolver by itself, whose calls begin anywhere.
THEOREM ResolverAlwaysCurrent == AccessSpec => [](CachedScopeCurrent /\ ScopeWasLive)
<1>1. AccessInit => AccessInv
  BY AccessStarts
<1>2. AccessInv /\ [AccessNext]_accessVars => AccessInv'
  <2> SUFFICES ASSUME AccessInv, [AccessNext]_accessVars PROVE AccessInv'
    OBVIOUS
  <2>1. ASSUME NEW r \in Requests, Begin(r) PROVE AccessInv'
    <3>1. /\ BeginResolve(r, "idle") /\ UNCHANGED <<missed, misled>>
          /\ seen' = [seen EXCEPT ![r] = {LiveScope}]
      BY <2>1 DEF Begin
    <3>2. {LiveScope} \in SUBSET SUBSET Units /\ LiveScope \in {LiveScope}
      BY LiveTypes DEF AccessInv
    <3> QED BY <3>1, <3>2, BeginStep
  <2>2. CASE UNCHANGED accessVars
    <3>1. UNCHANGED <<rows, ingroup, closure, acl_epoch, scope_epoch, tx, clock, entry, pc, now,
                      dto, scope, seen, missed, misled, changes, faults>>
      BY <2>2 DEF accessVars, dbVars, scopeVars, history
    <3>2. LiveScope' = LiveScope /\ LiveRows' = LiveRows
      BY <3>1 DEF LiveScope, LiveRows
    <3> QED BY <3>1, <3>2 DEF AccessInv, AccessTypeOK, CopiesOK, CopyOK, Good, SeenBy, EpochsMatch,
                              RequestOK, Waiting, ScopeWasLive, TxOK
  <2> QED BY <2>1, <2>2, EnvironmentStep, ResolveSteps DEF AccessNext
<1>3. AccessInv => CachedScopeCurrent /\ ScopeWasLive
  BY CopyIsCurrent
<1> QED BY <1>1, <1>2, <1>3, PTL DEF AccessSpec

-----------------------------------------------------------------------------
(* Lists without repetition                                                *)

Distinct(s, S) == s \in Seq(S) /\ IsInjective(s)

\* What the items of a sequence are.
LEMMA Members ==
    ASSUME NEW S, NEW s \in Seq(S)
    PROVE  /\ Len(s) \in Nat /\ DOMAIN s = 1..Len(s)
           /\ ToSet(s) \in SUBSET S
           /\ \A x : x \in ToSet(s) <=> \E i \in 1..Len(s) : x = s[i]
           /\ \A i \in 1..Len(s) : s[i] \in ToSet(s) /\ s[i] \in S
  BY DEF ToSet

\* Nothing is in an empty list.
LEMMA EmptyList ==
    ASSUME NEW S
    PROVE  Distinct(<<>>, S) /\ ToSet(<<>>) = {}
  BY DEF Distinct, IsInjective, ToSet

\* The same item at the same place only.
LEMMA DistinctPlaces ==
    ASSUME NEW S, NEW s \in Seq(S)
    PROVE  IsInjective(s) <=> \A i, j \in 1..Len(s) : s[i] = s[j] => i = j
  BY Members DEF IsInjective

\* A list grows by an item it does not have.
LEMMA AppendDistinct ==
    ASSUME NEW S, NEW s, Distinct(s, S), NEW x \in S, x \notin ToSet(s)
    PROVE  Distinct(Append(s, x), S) /\ ToSet(Append(s, x)) = ToSet(s) \cup {x}
<1> DEFINE z == Append(s, x)
<1>1. s \in Seq(S) /\ \A i, j \in 1..Len(s) : s[i] = s[j] => i = j
  BY DistinctPlaces DEF Distinct
<1>2. /\ z \in Seq(S) /\ Len(z) = Len(s) + 1 /\ Len(s) \in Nat
      /\ \A i \in 1..Len(s) : z[i] = s[i]
      /\ z[Len(s) + 1] = x
  BY <1>1, AppendProperties
<1> HIDE DEF z
<1>3. \A i \in 1..Len(s) : s[i] # x
  BY <1>1, Members
<1>4. ASSUME NEW i \in 1..Len(z), NEW j \in 1..Len(z), z[i] = z[j] PROVE i = j
  BY <1>1, <1>2, <1>3, <1>4
<1>5. IsInjective(z)
  BY <1>2, <1>4, DistinctPlaces
<1>6. ToSet(z) = ToSet(s) \cup {x}
  <2>1. \A y : y \in ToSet(z) <=> \E i \in 1..Len(z) : y = z[i]
    BY <1>2, Members
  <2>2. \A y : y \in ToSet(s) <=> \E i \in 1..Len(s) : y = s[i]
    BY <1>1, Members
  <2>3. ASSUME NEW y \in ToSet(z) PROVE y \in ToSet(s) \cup {x}
    <3>1. PICK i \in 1..Len(z) : y = z[i]
      BY <2>1, <2>3
    <3> QED BY <1>2, <2>2, <3>1
  <2>4. ASSUME NEW y \in ToSet(s) PROVE y \in ToSet(z)
    <3>1. PICK i \in 1..Len(s) : y = s[i]
      BY <2>2, <2>4
    <3>2. i \in 1..Len(z) /\ y = z[i]
      BY <1>2, <3>1
    <3> QED BY <2>1, <3>2
  <2>5. x \in ToSet(z)
    BY <1>2, <2>1
  <2> QED BY <2>3, <2>4, <2>5
<1> QED BY <1>2, <1>5, <1>6 DEF Distinct, z

\* The limit of a request cuts a list.
LEMMA TruncateDistinct ==
    ASSUME NEW S, NEW s, Distinct(s, S)
    PROVE  Distinct(Truncate(s), S) /\ ToSet(Truncate(s)) \subseteq ToSet(s)
<1> DEFINE n == IF Len(s) < Limit THEN Len(s) ELSE Limit
           z == Truncate(s)
<1>1. s \in Seq(S) /\ Len(s) \in Nat /\ \A i, j \in 1..Len(s) : s[i] = s[j] => i = j
  BY DistinctPlaces, Members DEF Distinct
<1>2. n \in 0..Len(s)
  BY <1>1, RetrievalAssumption
<1>3. z = SubSeq(s, 1, n)
  BY DEF Truncate
<1> HIDE DEF n, z
<1>4. \A i \in 1..n : s[i] \in S
  BY <1>1, <1>2
<1>5. z \in Seq(S) /\ Len(z) = n /\ \A i \in 1..n : z[i] = s[i]
  BY <1>1, <1>2, <1>3, <1>4, SubSeqProperties
<1>6. IsInjective(z)
  <2>1. \A i, j \in 1..Len(z) : z[i] = z[j] => i = j
    BY <1>1, <1>2, <1>5
  <2> QED BY <1>5, <2>1, DistinctPlaces
<1>7. ToSet(z) \subseteq ToSet(s)
  <2>1. ASSUME NEW y \in ToSet(z) PROVE y \in ToSet(s)
    <3>1. PICK i \in 1..Len(z) : y = z[i]
      BY <1>5, <2>1, Members
    <3>2. i \in 1..Len(s) /\ y = s[i]
      BY <1>1, <1>2, <1>5, <3>1
    <3> QED BY <1>1, <3>2, Members
  <2> QED BY <2>1
<1> QED BY <1>5, <1>6, <1>7 DEF Distinct, z

\* What Qdrant answers is a list, of chunks one without repetition.
LEMMA ListsAreSequences ==
    ASSUME NEW S, NEW n \in Nat, NEW cs \in SeqOf(S, n)
    PROVE  cs \in Seq(S)
<1>1. PICK m \in 0..n : cs \in [1..m -> S]
  BY DEF SeqOf
<1>2. m \in Nat
  BY <1>1
<1> QED BY <1>1, <1>2, SeqDef

LEMMA CandidatesDistinct ==
    ASSUME NEW cs \in Candidates
    PROVE  Distinct(cs, Chunks)
<1>1. Cardinality(Chunks) \in Nat
  BY FS_CardinalityType, RetrievalAssumption
<1>2. cs \in SeqOf(Chunks, Cardinality(Chunks)) /\ IsInjective(cs)
  BY DEF Candidates
<1> QED BY <1>1, <1>2, ListsAreSequences DEF Distinct

LEMMA EdgeCandidatesList ==
    ASSUME NEW es \in EdgeCandidates
    PROVE  es \in Seq(Rels)
<1>1. Cardinality(Rels) \in Nat /\ EdgePoints \in Nat
  BY FS_CardinalityType, RetrievalAssumption
<1> DEFINE n == EdgePoints * Cardinality(Rels)
<1>2. n \in Nat
  BY <1>1
<1>3. es \in SeqOf(Rels, n)
  BY DEF EdgeCandidates
<1> HIDE DEF n
<1> QED BY <1>2, <1>3, ListsAreSequences

\* Two lists, one after the other.
LEMMA Joined ==
    ASSUME NEW S, NEW s \in Seq(S), NEW t \in Seq(S), NEW z, z = s \o t
    PROVE  /\ z \in Seq(S) /\ Len(z) = Len(s) + Len(t)
           /\ \A i \in 1 .. Len(s) + Len(t) :
                 z[i] = IF i <= Len(s) THEN s[i] ELSE t[i - Len(s)]
  BY ConcatProperties, Zenon

\* Two lists of different things, one after the other.
LEMMA ConcatDistinct ==
    ASSUME NEW S, NEW s, NEW t, Distinct(s, S), Distinct(t, S), ToSet(s) \cap ToSet(t) = {}
    PROVE  Distinct(s \o t, S) /\ ToSet(s \o t) = ToSet(s) \cup ToSet(t)
<1> DEFINE z == s \o t
<1>z. z = s \o t
  OBVIOUS
<1> HIDE DEF z
<1>1. /\ s \in Seq(S) /\ Len(s) \in Nat /\ \A i, j \in 1..Len(s) : s[i] = s[j] => i = j
      /\ t \in Seq(S) /\ Len(t) \in Nat /\ \A i, j \in 1..Len(t) : t[i] = t[j] => i = j
  BY DistinctPlaces, Members DEF Distinct
<1>2. /\ z \in Seq(S) /\ Len(z) = Len(s) + Len(t)
      /\ \A i \in 1..(Len(s) + Len(t)) : z[i] = IF i <= Len(s) THEN s[i] ELSE t[i - Len(s)]
  BY <1>1, <1>z, Joined
<1>3. ASSUME NEW i \in 1..Len(s), NEW j \in 1..Len(t) PROVE s[i] # t[j]
  BY <1>1, Members
<1>4. ASSUME NEW i \in 1..Len(z), NEW j \in 1..Len(z), z[i] = z[j] PROVE i = j
  <2>1. CASE i <= Len(s) /\ j <= Len(s)
    BY <1>1, <1>2, <1>4, <2>1
  <2>2. CASE ~(i <= Len(s)) /\ ~(j <= Len(s))
    <3>1. i - Len(s) \in 1..Len(t) /\ j - Len(s) \in 1..Len(t) /\ t[i - Len(s)] = t[j - Len(s)]
      BY <1>1, <1>2, <1>4, <2>2
    <3>2. i - Len(s) = j - Len(s)
      BY <1>1, <3>1
    <3> QED BY <1>1, <3>2
  <2>3. CASE i <= Len(s) /\ ~(j <= Len(s))
    <3>1. i \in 1..Len(s) /\ j - Len(s) \in 1..Len(t) /\ s[i] = t[j - Len(s)]
      BY <1>1, <1>2, <1>4, <2>3
    <3> QED BY <1>3, <3>1
  <2>4. CASE ~(i <= Len(s)) /\ j <= Len(s)
    <3>1. j \in 1..Len(s) /\ i - Len(s) \in 1..Len(t) /\ s[j] = t[i - Len(s)]
      BY <1>1, <1>2, <1>4, <2>4
    <3> QED BY <1>3, <3>1
  <2> QED BY <2>1, <2>2, <2>3, <2>4
<1>5. IsInjective(z)
  BY <1>2, <1>4, DistinctPlaces
<1>6. ToSet(z) = ToSet(s) \cup ToSet(t)
  <2>1. \A y : y \in ToSet(z) <=> \E i \in 1..Len(z) : y = z[i]
    BY <1>2, Members
  <2>2. /\ \A y : y \in ToSet(s) <=> \E i \in 1..Len(s) : y = s[i]
        /\ \A y : y \in ToSet(t) <=> \E i \in 1..Len(t) : y = t[i]
    BY <1>1, Members
  <2>3. ASSUME NEW y \in ToSet(z) PROVE y \in ToSet(s) \cup ToSet(t)
    <3>1. PICK i \in 1..Len(z) : y = z[i]
      BY <2>1, <2>3
    <3>2. CASE i <= Len(s)
      BY <1>1, <1>2, <2>2, <3>1, <3>2
    <3>3. CASE ~(i <= Len(s))
      <4>1. i - Len(s) \in 1..Len(t) /\ y = t[i - Len(s)]
        BY <1>1, <1>2, <3>1, <3>3
      <4> QED BY <2>2, <4>1
    <3> QED BY <3>2, <3>3
  <2>4. ASSUME NEW y \in ToSet(s) PROVE y \in ToSet(z)
    <3>1. PICK i \in 1..Len(s) : y = s[i]
      BY <2>2, <2>4
    <3>2. i \in 1..Len(z) /\ y = z[i]
      BY <1>1, <1>2, <3>1
    <3> QED BY <2>1, <3>2
  <2>5. ASSUME NEW y \in ToSet(t) PROVE y \in ToSet(z)
    <3>1. PICK i \in 1..Len(t) : y = t[i]
      BY <2>2, <2>5
    <3>2. i + Len(s) \in 1..Len(z) /\ y = z[i + Len(s)]
      BY <1>1, <1>2, <3>1
    <3> QED BY <2>1, <3>2
  <2> QED BY <2>3, <2>4, <2>5
<1> QED BY <1>2, <1>5, <1>6 DEF Distinct, z

-----------------------------------------------------------------------------
(* The gates and the merge                                                 *)

\* One candidate of a gate's loop.
Keep(allowed, s, c) == IF c \in allowed \ (Rels \cap ToSet(s)) THEN Append(s, c) ELSE s

\* The loop of a gate, by its equation.
LEMMA SurvivorsEq ==
    ASSUME NEW S, NEW cs \in Seq(S), NEW allowed
    PROVE  /\ Survivors(allowed, cs)[0] = <<>>
           /\ \A i \in 1..Len(cs) :
                 Survivors(allowed, cs)[i] = Keep(allowed, Survivors(allowed, cs)[i - 1], cs[i])
<1> DEFINE N == Len(cs)
           F == [i \in 1..N |-> [s \in Seq(S) |-> Keep(allowed, s, cs[i])]]
           P(x) == x = [i \in 0..N |-> IF i = 0 THEN <<>>
                                       ELSE IF cs[i] \in allowed \ (Rels \cap ToSet(x[i - 1]))
                                       THEN Append(x[i - 1], cs[i])
                                       ELSE x[i - 1]]
<1>1. N \in Nat /\ <<>> \in Seq(S) /\ \A i \in 1..N : cs[i] \in S
  BY Members, EmptySeq
<1>2. \A i \in 1..N, s \in Seq(S) : Keep(allowed, s, cs[i]) \in Seq(S)
  BY <1>1, AppendProperties DEF Keep
<1>3. F \in Steps(N, Seq(S))
  BY <1>2 DEF Steps
<1>4. \A i \in 1..N, s \in Seq(S) : F[i][s] = Keep(allowed, s, cs[i])
  OBVIOUS
<1> HIDE DEF F, N
<1>5. PICK g : Runs(g, Seq(S), N, <<>>, F)
  BY <1>1, <1>3, RunExists
<1>6. /\ g \in [0..N -> Seq(S)] /\ g[0] = <<>>
      /\ \A i \in 1..N : g[i] = F[i][g[i - 1]]
  BY <1>5 DEF Runs
<1>7. P(g)
  <2>1. ASSUME NEW i \in 0..N
        PROVE  g[i] = IF i = 0 THEN <<>>
                      ELSE IF cs[i] \in allowed \ (Rels \cap ToSet(g[i - 1]))
                      THEN Append(g[i - 1], cs[i]) ELSE g[i - 1]
    <3>1. CASE i = 0
      BY <1>6, <3>1
    <3>2. CASE i # 0
      <4>1. i \in 1..N /\ i - 1 \in 0..N
        BY <1>1, <3>2
      <4>2. g[i - 1] \in Seq(S) /\ g[i] = F[i][g[i - 1]]
        BY <1>6, <4>1
      <4>3. g[i] = Keep(allowed, g[i - 1], cs[i])
        BY <1>4, <4>1, <4>2
      <4> QED BY <3>2, <4>3 DEF Keep
    <3> QED BY <3>1, <3>2
  <2> QED BY <1>6, <2>1
<1> DEFINE at == Survivors(allowed, cs)
<1>8. P(at)
  <2>1. at = CHOOSE x : P(x)
    BY DEF Survivors, N
  <2> HIDE DEF P, at
  <2> QED BY <1>7, <2>1, Zenon
<1> HIDE DEF at
<1>9. at[0] = <<>> /\ \A i \in 1..N : at[i] = Keep(allowed, at[i - 1], cs[i])
  <2>1. 0 \in 0..N /\ \A i \in 1..N : i \in 0..N /\ i # 0
    BY <1>1
  <2> QED BY <1>8, <2>1 DEF Keep
<1> QED BY <1>9 DEF at, N

\* What passes a gate: candidates the database admits, none twice, in no
\* greater number than the limit of the request.
LEMMA PassDistinct ==
    ASSUME NEW S, NEW cs \in Seq(S), NEW s, IsInjective(cs) \/ S \subseteq Rels
    PROVE  Distinct(Pass(s, cs), S) /\ ToSet(Pass(s, cs)) \subseteq Admits(s)
<1> DEFINE A == Admits(s)
           at == Survivors(A, cs)
           N == Len(cs)
           Before(i) == {cs[j] : j \in 1..i}
           Ok == {i \in 0..N : Distinct(at[i], S) /\ ToSet(at[i]) \subseteq A \cap Before(i)}
<1>1. cs \in Seq(S) /\ N \in Nat /\ (\A i \in 1..N : cs[i] \in S)
      /\ ((\A i, j \in 1..N : cs[i] = cs[j] => i = j) \/ S \subseteq Rels)
  BY Members, DistinctPlaces
<1>2. at[0] = <<>> /\ \A i \in 1..N : at[i] = Keep(A, at[i - 1], cs[i])
  BY <1>1, SurvivorsEq
<1>3. Pass(s, cs) = Truncate(at[N])
  BY DEF Pass
<1> HIDE DEF A, at, N
<1>4. 0 \in Ok
  BY <1>1, <1>2, EmptyList
<1>5. ASSUME NEW i \in 1..N, i - 1 \in Ok PROVE i \in Ok
  <2>1. Distinct(at[i - 1], S) /\ ToSet(at[i - 1]) \subseteq A \cap Before(i - 1)
    BY <1>5
  <2>2. cs[i] \notin Before(i - 1) \/ cs[i] \in Rels
    BY <1>1
  <2>3. Before(i - 1) \subseteq Before(i) /\ cs[i] \in Before(i)
    BY <1>1
  <2> HIDE DEF Before
  <2>4. Distinct(at[i], S) /\ ToSet(at[i]) \subseteq A \cap Before(i)
    <3>1. CASE cs[i] \in A \ (Rels \cap ToSet(at[i - 1]))
      <4>1. at[i] = Append(at[i - 1], cs[i]) /\ cs[i] \notin ToSet(at[i - 1]) /\ cs[i] \in S
        BY <1>1, <1>2, <2>1, <2>2, <3>1 DEF Keep
      <4>2. Distinct(at[i], S) /\ ToSet(at[i]) = ToSet(at[i - 1]) \cup {cs[i]}
        BY <2>1, <4>1, AppendDistinct
      <4> QED BY <2>1, <2>3, <3>1, <4>2
    <3>2. CASE cs[i] \notin A \ (Rels \cap ToSet(at[i - 1]))
      <4>1. at[i] = at[i - 1]
        BY <1>2, <3>2 DEF Keep
      <4> QED BY <2>1, <2>3, <4>1
    <3> QED BY <3>1, <3>2
  <2>5. i \in 0..N
    BY <1>1
  <2> QED BY <2>4, <2>5
<1> HIDE DEF Ok
<1>6. 0..N \subseteq Ok
  BY <1>1, <1>4, <1>5, BoundedInduction
<1>7. Distinct(at[N], S) /\ ToSet(at[N]) \subseteq A
  BY <1>1, <1>6 DEF Ok
<1> QED BY <1>3, <1>7, TruncateDistinct DEF A

\* Where an item of the merged list comes from: the chunks, or the edges.
FromChunks(i, m, k) == LET n == IF m < k THEN m ELSE k IN
    (i <= 2 * n /\ i % 2 = 1) \/ (i > 2 * n /\ m > n)
Place(i, m, k) == LET n == IF m < k THEN m ELSE k IN
    IF i <= 2 * n THEN (IF i % 2 = 1 THEN (i + 1) \div 2 ELSE i \div 2) ELSE i - n

\* No place of either list is used twice, and each is a place of it.
LEMMA Places ==
    ASSUME NEW m \in Nat, NEW k \in Nat, NEW i \in 1..(m + k)
    PROVE  /\ FromChunks(i, m, k) => Place(i, m, k) \in 1..m
           /\ ~FromChunks(i, m, k) => Place(i, m, k) \in 1..k
           /\ \A j \in 1..(m + k) :
                 (FromChunks(i, m, k) <=> FromChunks(j, m, k)) /\ Place(i, m, k) = Place(j, m, k)
                    => i = j
<1> DEFINE n == IF m < k THEN m ELSE k
<1>1. n \in Nat /\ n <= m /\ n <= k /\ (m > n => n = k) /\ (~(m > n) => n = m)
  OBVIOUS
<1>2. \A j \in 1..(m + k) :
          /\ j \in Nat /\ j >= 1 /\ j % 2 \in {0, 1}
          /\ j % 2 = 1 => \E h \in Nat : j = 2 * h + 1 /\ (j + 1) \div 2 = h + 1
          /\ j % 2 = 0 => \E h \in Nat : j = 2 * h /\ j \div 2 = h
  OBVIOUS
<1>3. \A j \in 1..(m + k) : Place(j, m, k) =
          IF j <= 2 * n THEN (IF j % 2 = 1 THEN (j + 1) \div 2 ELSE j \div 2) ELSE j - n
  BY DEF Place
<1>4. \A j \in 1..(m + k) : FromChunks(j, m, k) <=>
          (j <= 2 * n /\ j % 2 = 1) \/ (j > 2 * n /\ m > n)
  BY DEF FromChunks
<1> HIDE DEF n
<1>5. FromChunks(i, m, k) => Place(i, m, k) \in 1..m
  BY <1>1, <1>2, <1>3, <1>4
<1>6. ~FromChunks(i, m, k) => Place(i, m, k) \in 1..k
  BY <1>1, <1>2, <1>3, <1>4
<1>7. ASSUME NEW j \in 1..(m + k), FromChunks(i, m, k) <=> FromChunks(j, m, k),
             Place(i, m, k) = Place(j, m, k)
      PROVE  i = j
  BY <1>1, <1>2, <1>3, <1>4, <1>7
<1> QED BY <1>5, <1>6, <1>7

\* The merge of two lists has every item once, and only items of the two.
LEMMA MergeDistinct ==
    ASSUME NEW cs, NEW es, Distinct(cs, Chunks), Distinct(es, Rels)
    PROVE  /\ Distinct(MergeEvidence(cs, es), Chunks \cup Rels)
           /\ ToSet(MergeEvidence(cs, es)) \subseteq ToSet(cs) \cup ToSet(es)
<1> DEFINE m == Len(cs)
           k == Len(es)
           z == Merged(cs, es)
<1>1. /\ m \in Nat /\ (\A i \in 1..m : cs[i] \in Chunks /\ cs[i] \in ToSet(cs))
      /\ \A i, j \in 1..m : cs[i] = cs[j] => i = j
  BY Members, DistinctPlaces DEF Distinct
<1>2. /\ k \in Nat /\ (\A i \in 1..k : es[i] \in Rels /\ es[i] \in ToSet(es))
      /\ \A i, j \in 1..k : es[i] = es[j] => i = j
  BY Members, DistinctPlaces DEF Distinct
<1>3. \A i \in 1..(m + k) :
          z[i] = IF FromChunks(i, m, k) THEN cs[Place(i, m, k)] ELSE es[Place(i, m, k)]
  BY <1>1, <1>2 DEF Merged, FromChunks, Place
<1>4. z = [i \in 1..(m + k) |-> z[i]]
  BY DEF Merged
<1> HIDE DEF z, m, k
<1>5. \A i \in 1..(m + k) :
         /\ FromChunks(i, m, k) => z[i] = cs[Place(i, m, k)] /\ Place(i, m, k) \in 1..m
         /\ ~FromChunks(i, m, k) => z[i] = es[Place(i, m, k)] /\ Place(i, m, k) \in 1..k
  BY <1>1, <1>2, <1>3, Places
<1>6. \A i \in 1..(m + k) : z[i] \in Chunks \cup Rels /\ z[i] \in ToSet(cs) \cup ToSet(es)
  BY <1>1, <1>2, <1>5
<1>7. z \in Seq(Chunks \cup Rels) /\ Len(z) = m + k
  <2>1. m + k \in Nat /\ z \in [1..(m + k) -> Chunks \cup Rels]
    BY <1>1, <1>2, <1>4, <1>6
  <2>2. z \in Seq(Chunks \cup Rels)
    BY <2>1, SeqDef
  <2> QED BY <2>1, <2>2, LenProperties
<1>8. ASSUME NEW i \in 1..(m + k), NEW j \in 1..(m + k), z[i] = z[j] PROVE i = j
  <2>1. Chunks \cap Rels = {}
    BY RetrievalAssumption
  <2>2. FromChunks(i, m, k) <=> FromChunks(j, m, k)
    BY <1>1, <1>2, <1>5, <1>8, <2>1
  <2>3. Place(i, m, k) = Place(j, m, k)
    <3>1. CASE FromChunks(i, m, k)
      BY <1>1, <1>5, <1>8, <2>2, <3>1
    <3>2. CASE ~FromChunks(i, m, k)
      BY <1>2, <1>5, <1>8, <2>2, <3>2
    <3> QED BY <3>1, <3>2
  <2> QED BY <1>1, <1>2, <2>2, <2>3, Places
<1>9. Distinct(z, Chunks \cup Rels)
  BY <1>7, <1>8, DistinctPlaces DEF Distinct
<1>10. ToSet(z) \subseteq ToSet(cs) \cup ToSet(es)
  BY <1>6, <1>7, Members
<1> QED BY <1>9, <1>10, TruncateDistinct DEF MergeEvidence, z

-----------------------------------------------------------------------------
(* The prompt                                                              *)

PromptType == [srcs: Seq(Chunks), rels: Seq(Rels), used: Nat, size: Nat]

\* A prompt made of items of the evidence S, within a budget.
Uses(S, rels, c) == c \in S \/ \E e \in rels : c \in {EndsOf[e][1], EndsOf[e][2]}
PromptOf(p, S, budget) ==
    /\ p \in PromptType
    /\ IsInjective(p.srcs) /\ IsInjective(p.rels)
    /\ \A e \in ToSet(p.rels) : EndsOf[e][1] \in ToSet(p.srcs) /\ EndsOf[e][2] \in ToSet(p.srcs)
    /\ \A c \in ToSet(p.srcs) : Uses(S, ToSet(p.rels), c)
    /\ ToSet(p.rels) \subseteq S
    /\ p.used <= MaxItems
    /\ p.size <= budget

\* The chunks an item needs in the prompt.
Needs(item) == IF item \in Chunks THEN {item} ELSE {EndsOf[item][1], EndsOf[item][2]}

\* The endpoints of an edge.
LEMMA Ends ==
    ASSUME NEW e \in Rels
    PROVE  EndsOf[e][1] \in Chunks /\ EndsOf[e][2] \in Chunks /\ e \notin Chunks
<1>1. EndsOf \in [Rels -> Chunks \X Chunks] /\ Chunks \cap Rels = {}
  BY RetrievalAssumption
<1>2. EndsOf[e] \in Chunks \X Chunks
  BY <1>1
<1> QED BY <1>1, <1>2

\* One block, unless it is there.
LEMMA BlockDistinct ==
    ASSUME NEW p, NEW c \in Chunks
    PROVE  /\ Distinct(Block(p, c), Chunks)
           /\ ToSet(Block(p, c)) = {c} \ ToSet(p.srcs)
<1>1. CASE c \in ToSet(p.srcs)
  BY <1>1, EmptyList DEF Block
<1>2. CASE c \notin ToSet(p.srcs)
  <2>2. Distinct(<<c>>, Chunks)
    BY DEF Distinct, IsInjective
  <2>3. ToSet(<<c>>) = {c}
    BY DEF ToSet
  <2> QED BY <1>2, <2>2, <2>3 DEF Block
<1> QED BY <1>1, <1>2

\* The blocks an item still needs are those of its chunks that are not there.
LEMMA MissingDistinct ==
    ASSUME NEW p, NEW item \in Chunks \cup Rels
    PROVE  /\ Distinct(Missing(p, item), Chunks)
           /\ ToSet(Missing(p, item)) = Needs(item) \ ToSet(p.srcs)
<1>1. CASE item \in Chunks
  BY <1>1, BlockDistinct DEF Missing, Needs
<1>2. CASE item \notin Chunks
  <2> DEFINE a == EndsOf[item][1]
             b == EndsOf[item][2]
  <2>1. a \in Chunks /\ b \in Chunks
    BY <1>2, Ends
  <2>2. Needs(item) = {a, b}
    BY <1>2 DEF Needs
  <2>3. Missing(p, item) = IF a = b THEN Block(p, a) ELSE Block(p, a) \o Block(p, b)
    BY <1>2 DEF Missing
  <2> HIDE DEF a, b
  <2>4. /\ Distinct(Block(p, a), Chunks) /\ ToSet(Block(p, a)) = {a} \ ToSet(p.srcs)
        /\ Distinct(Block(p, b), Chunks) /\ ToSet(Block(p, b)) = {b} \ ToSet(p.srcs)
    BY <2>1, BlockDistinct
  <2>5. CASE a = b
    BY <2>2, <2>3, <2>4, <2>5
  <2>6. CASE a # b
    <3>1. ToSet(Block(p, a)) \cap ToSet(Block(p, b)) = {}
      BY <2>4, <2>6
    <3>2. /\ Distinct(Block(p, a) \o Block(p, b), Chunks)
          /\ ToSet(Block(p, a) \o Block(p, b)) = ToSet(Block(p, a)) \cup ToSet(Block(p, b))
      BY <2>4, <3>1, ConcatDistinct, ZenonT(60)
    <3>3. Missing(p, item) = Block(p, a) \o Block(p, b)
      BY <2>3, <2>6
    <3>4. ({a} \ ToSet(p.srcs)) \cup ({b} \ ToSet(p.srcs)) = {a, b} \ ToSet(p.srcs)
      OBVIOUS
    <3> QED BY <2>2, <2>4, <3>2, <3>3, <3>4
  <2> QED BY <2>5, <2>6
<1> QED BY <1>1, <1>2

\* A round of the loop keeps the prompt whole, for an item that is not there.
LEMMA AddItemKeeps ==
    ASSUME NEW p, NEW S \in SUBSET (Chunks \cup Rels), NEW budget \in Nat, PromptOf(p, S, budget),
           NEW item \in S, item \notin ToSet(p.rels)
    PROVE  /\ PromptOf(AddItem(p, item, budget), S, budget)
           /\ ToSet(AddItem(p, item, budget).rels) \subseteq ToSet(p.rels) \cup {item}
<1> DEFINE new  == Missing(p, item)
           size == p.size + Len(new) * ChunkCost + (IF item \in Rels THEN RelCost ELSE 0)
           q    == [srcs |-> p.srcs \o new,
                    rels |-> IF item \in Rels THEN Append(p.rels, item) ELSE p.rels,
                    used |-> p.used + 1, size |-> size]
<1>1. AddItem(p, item, budget) = IF p.used >= MaxItems \/ size > budget THEN p ELSE q
  BY DEF AddItem
<1>2. CASE p.used >= MaxItems \/ size > budget
  BY <1>1, <1>2
<1>3. CASE ~(p.used >= MaxItems \/ size > budget)
  <2>1. item \in Chunks \cup Rels
    OBVIOUS
  <2>2. Distinct(new, Chunks) /\ ToSet(new) = Needs(item) \ ToSet(p.srcs)
    BY <2>1, MissingDistinct
  <2>3. /\ Distinct(p.srcs, Chunks) /\ Distinct(p.rels, Rels) /\ p.used \in Nat /\ p.size \in Nat
    BY DEF PromptOf, PromptType, Distinct
  <2>4. ToSet(p.srcs) \cap ToSet(new) = {}
    BY <2>2
  <2>5. q.srcs = p.srcs \o new /\ q.used = p.used + 1 /\ q.size = size
        /\ q.rels = IF item \in Rels THEN Append(p.rels, item) ELSE p.rels
    OBVIOUS
  <2>6. Distinct(q.srcs, Chunks) /\ ToSet(q.srcs) = ToSet(p.srcs) \cup Needs(item)
    <3>1. Distinct(q.srcs, Chunks) /\ ToSet(q.srcs) = ToSet(p.srcs) \cup ToSet(new)
      BY <2>2, <2>3, <2>4, <2>5, ConcatDistinct, ZenonT(60)
    <3> QED BY <2>2, <3>1
  <2>7. /\ Distinct(q.rels, Rels)
        /\ ToSet(q.rels) = IF item \in Rels THEN ToSet(p.rels) \cup {item} ELSE ToSet(p.rels)
    <3>1. CASE item \in Rels
      <4>1. /\ Distinct(Append(p.rels, item), Rels)
            /\ ToSet(Append(p.rels, item)) = ToSet(p.rels) \cup {item}
        BY <2>3, <3>1, AppendDistinct
      <4> QED BY <2>5, <3>1, <4>1
    <3>2. CASE item \notin Rels
      BY <2>3, <2>5, <3>2
    <3> QED BY <3>1, <3>2
  <2>8. Len(new) \in Nat
    BY <2>2, Members DEF Distinct
  <2> HIDE DEF new
  <2>9. size \in Nat
    <3>1. ChunkCost \in Nat /\ RelCost \in Nat
      BY RetrievalAssumption
    <3>2. Len(new) * ChunkCost \in Nat
      BY <2>8, <3>1
    <3> QED BY <2>3, <3>1, <3>2
  <2>10. q.used \in Nat /\ q.used <= MaxItems /\ q.size \in Nat /\ q.size <= budget
    <3>1. MaxItems \in Nat
      BY RetrievalAssumption
    <3> HIDE DEF size
    <3> QED BY <1>3, <2>3, <2>5, <2>9, <3>1
  <2>11. q = [srcs |-> q.srcs, rels |-> q.rels, used |-> q.used, size |-> q.size]
    OBVIOUS
  <2> HIDE DEF q, size
  <2>12. q \in PromptType
    BY <2>6, <2>7, <2>10, <2>11 DEF Distinct, PromptType
  <2>13. ASSUME NEW e \in ToSet(q.rels)
         PROVE  EndsOf[e][1] \in ToSet(q.srcs) /\ EndsOf[e][2] \in ToSet(q.srcs)
    <3>1. CASE e \in ToSet(p.rels)
      BY <2>6, <3>1 DEF PromptOf
    <3>2. CASE e = item /\ item \in Rels
      BY <2>6, <3>2, Ends DEF Needs
    <3> QED BY <2>7, <2>13, <3>1, <3>2
  <2>14. ASSUME NEW c \in ToSet(q.srcs) PROVE Uses(S, ToSet(q.rels), c)
    <3>1. CASE c \in ToSet(p.srcs)
      <4>1. Uses(S, ToSet(p.rels), c)
        BY <3>1 DEF PromptOf
      <4> QED BY <2>7, <4>1 DEF Uses
    <3>2. CASE c \in Needs(item) /\ item \in Chunks
      BY <3>2 DEF Needs, Uses
    <3>3. CASE c \in Needs(item) /\ item \notin Chunks
      <4>1. item \in Rels /\ item \in ToSet(q.rels)
        BY <2>1, <2>7, <3>3
      <4> QED BY <3>3, <4>1 DEF Needs, Uses
    <3> QED BY <2>6, <2>14, <3>1, <3>2, <3>3
  <2>15. ToSet(q.rels) \subseteq S /\ ToSet(q.rels) \subseteq ToSet(p.rels) \cup {item}
    BY <2>7 DEF PromptOf
  <2>16. PromptOf(q, S, budget)
    BY <2>6, <2>7, <2>10, <2>12, <2>13, <2>14, <2>15 DEF PromptOf, Distinct
  <2>17. AddItem(p, item, budget) = q
    BY <1>1, <1>3
  <2> QED BY <2>15, <2>16, <2>17
<1> QED BY <1>2, <1>3

\* A round of the loop makes a prompt of a prompt.
LEMMA AddItemTypes ==
    ASSUME NEW p \in PromptType, NEW item \in Chunks \cup Rels, NEW budget \in Nat
    PROVE  AddItem(p, item, budget) \in PromptType
<1> DEFINE new  == Missing(p, item)
           size == p.size + Len(new) * ChunkCost + (IF item \in Rels THEN RelCost ELSE 0)
           srcs == p.srcs \o new
           rels == IF item \in Rels THEN Append(p.rels, item) ELSE p.rels
<1>1. AddItem(p, item, budget) =
          IF p.used >= MaxItems \/ size > budget THEN p
          ELSE [srcs |-> srcs, rels |-> rels, used |-> p.used + 1, size |-> size]
  BY DEF AddItem
<1>2. p.srcs \in Seq(Chunks) /\ p.rels \in Seq(Rels) /\ p.used \in Nat /\ p.size \in Nat
  BY DEF PromptType
<1>3. new \in Seq(Chunks) /\ Len(new) \in Nat
  <2>1. Distinct(new, Chunks)
    BY MissingDistinct
  <2> QED BY <2>1, Members DEF Distinct
<1> HIDE DEF new
<1>4. srcs = p.srcs \o new
  OBVIOUS
<1> HIDE DEF srcs
<1>5. srcs \in Seq(Chunks)
  BY <1>2, <1>3, <1>4, Joined
<1>6. rels \in Seq(Rels)
  BY <1>2, AppendProperties
<1>7. size \in Nat
  <2>1. ChunkCost \in Nat /\ RelCost \in Nat
    BY RetrievalAssumption
  <2>2. Len(new) * ChunkCost \in Nat
    BY <1>3, <2>1
  <2> QED BY <1>2, <2>1, <2>2
<1> HIDE DEF size, rels
<1>8. [srcs |-> srcs, rels |-> rels, used |-> p.used + 1, size |-> size] \in PromptType
  BY <1>2, <1>5, <1>6, <1>7 DEF PromptType
<1> QED BY <1>1, <1>8

\* The loop of ContextBuilder::build, by its equation.
LEMMA PromptsEq ==
    ASSUME NEW evidence \in Seq(Chunks \cup Rels), NEW budget \in Nat
    PROVE  /\ Prompts(evidence, budget)[0] = NoPrompt
           /\ \A i \in 1..Len(evidence) :
                 Prompts(evidence, budget)[i] =
                     AddItem(Prompts(evidence, budget)[i - 1], evidence[i], budget)
<1> DEFINE N == Len(evidence)
           F == [i \in 1..N |-> [p \in PromptType |-> AddItem(p, evidence[i], budget)]]
           P(x) == x = [i \in 0..N |-> IF i = 0 THEN NoPrompt
                                       ELSE AddItem(x[i - 1], evidence[i], budget)]
<1>1. N \in Nat /\ NoPrompt \in PromptType /\ \A i \in 1..N : evidence[i] \in Chunks \cup Rels
  <2>1. NoPrompt \in PromptType
    BY EmptySeq DEF NoPrompt, PromptType
  <2> QED BY <2>1, Members
<1>2. \A i \in 1..N, p \in PromptType : AddItem(p, evidence[i], budget) \in PromptType
  BY <1>1, AddItemTypes
<1>3. F \in Steps(N, PromptType)
  BY <1>2 DEF Steps
<1>4. \A i \in 1..N, p \in PromptType : F[i][p] = AddItem(p, evidence[i], budget)
  OBVIOUS
<1> HIDE DEF F, N
<1>5. PICK g : Runs(g, PromptType, N, NoPrompt, F)
  BY <1>1, <1>3, RunExists
<1>6. /\ g \in [0..N -> PromptType] /\ g[0] = NoPrompt
      /\ \A i \in 1..N : g[i] = F[i][g[i - 1]]
  BY <1>5 DEF Runs
<1>7. P(g)
  <2>1. ASSUME NEW i \in 0..N
        PROVE  g[i] = IF i = 0 THEN NoPrompt ELSE AddItem(g[i - 1], evidence[i], budget)
    <3>1. CASE i = 0
      BY <1>6, <3>1
    <3>2. CASE i # 0
      <4>1. i \in 1..N /\ i - 1 \in 0..N
        BY <1>1, <3>2
      <4>2. g[i - 1] \in PromptType /\ g[i] = F[i][g[i - 1]]
        BY <1>6, <4>1
      <4> QED BY <1>4, <3>2, <4>1, <4>2
    <3> QED BY <3>1, <3>2
  <2> QED BY <1>6, <2>1
<1> DEFINE at == Prompts(evidence, budget)
<1>8. P(at)
  <2>1. at = CHOOSE x : P(x)
    BY DEF Prompts, N
  <2> HIDE DEF P, at
  <2> QED BY <1>7, <2>1, Zenon
<1> HIDE DEF at
<1>9. at[0] = NoPrompt /\ \A i \in 1..N : at[i] = AddItem(at[i - 1], evidence[i], budget)
  <2>1. 0 \in 0..N /\ \A i \in 1..N : i \in 0..N /\ i # 0
    BY <1>1
  <2> QED BY <1>8, <2>1
<1> QED BY <1>9 DEF at, N

\* The prompt of a list without repetition is whole.
LEMMA BuildsWhole ==
    ASSUME NEW evidence, Distinct(evidence, Chunks \cup Rels), NEW budget \in Nat
    PROVE  PromptOf(BuildContext(evidence, budget), ToSet(evidence), budget)
<1> DEFINE at == Prompts(evidence, budget)
           N == Len(evidence)
           S == ToSet(evidence)
           Before(i) == {evidence[j] : j \in 1..i}
           Ok == {i \in 0..N : PromptOf(at[i], S, budget) /\ ToSet(at[i].rels) \subseteq Before(i)}
<1>1. /\ evidence \in Seq(Chunks \cup Rels) /\ N \in Nat /\ S \in SUBSET (Chunks \cup Rels)
      /\ \A i \in 1..N : evidence[i] \in S
      /\ \A i, j \in 1..N : evidence[i] = evidence[j] => i = j
  BY Members, DistinctPlaces DEF Distinct
<1>2. at[0] = NoPrompt /\ \A i \in 1..N : at[i] = AddItem(at[i - 1], evidence[i], budget)
  BY <1>1, PromptsEq
<1>3. BuildContext(evidence, budget) = at[N]
  BY DEF BuildContext
<1> HIDE DEF at, N, S
<1>4. PromptOf(NoPrompt, S, budget) /\ ToSet(NoPrompt.rels) = {}
  <2>1. NoPrompt.srcs = <<>> /\ NoPrompt.rels = <<>> /\ NoPrompt.used = 0 /\ NoPrompt.size = 0
    BY DEF NoPrompt
  <2>2. NoPrompt \in PromptType
    BY EmptySeq DEF NoPrompt, PromptType
  <2>3. IsInjective(<<>>) /\ ToSet(<<>>) = {}
    BY EmptyList DEF Distinct
  <2>4. 0 <= MaxItems /\ 0 <= budget
    BY RetrievalAssumption
  <2> QED BY <2>1, <2>2, <2>3, <2>4 DEF PromptOf
<1>5. 0 \in Ok
  BY <1>1, <1>2, <1>4
<1>6. ASSUME NEW i \in 1..N, i - 1 \in Ok PROVE i \in Ok
  <2>1. PromptOf(at[i - 1], S, budget) /\ ToSet(at[i - 1].rels) \subseteq Before(i - 1)
    BY <1>6
  <2>2. evidence[i] \notin Before(i - 1) /\ Before(i - 1) \subseteq Before(i)
        /\ evidence[i] \in Before(i)
    BY <1>1
  <2> HIDE DEF Before
  <2>3. evidence[i] \in S /\ evidence[i] \notin ToSet(at[i - 1].rels)
    BY <1>1, <2>1, <2>2
  <2>4. /\ PromptOf(AddItem(at[i - 1], evidence[i], budget), S, budget)
        /\ ToSet(AddItem(at[i - 1], evidence[i], budget).rels)
              \subseteq ToSet(at[i - 1].rels) \cup {evidence[i]}
    BY <1>1, <2>1, <2>3, AddItemKeeps
  <2>5. PromptOf(at[i], S, budget) /\ ToSet(at[i].rels) \subseteq Before(i) /\ i \in 0..N
    BY <1>1, <1>2, <2>1, <2>2, <2>4
  <2> QED BY <2>5
<1> HIDE DEF Ok
<1>7. 0..N \subseteq Ok
  BY <1>1, <1>5, <1>6, BoundedInduction
<1>8. PromptOf(at[N], S, budget)
  BY <1>1, <1>7 DEF Ok
<1> QED BY <1>3, <1>8 DEF S

-----------------------------------------------------------------------------
(* The inductive invariant of the requests                                 *)

Entered == {"handler", "user", "unit", "embed", "lookup", "validate", "resolve", "store",
            "resolved", "gate", "edges", "edgegate", "build", "llm"}

\* With a relationship come its endpoints.
Closed(S) == \A e \in S \cap Rels : EndsOf[e][1] \in S /\ EndsOf[e][2] \in S

\* What a request could read: all that the scopes it has seen admit, with the
\* endpoints of every relationship; and the user was active.
CouldOK(r) ==
    /\ ~Waiting(r) => \A s \in seen[r] : Admits(s) \subseteq could[r]
    /\ Closed(could[r])
    /\ ~Waiting(r) /\ active => known[r]
    /\ pc[r] \in Entered => known[r]

\* A list without repetition of what the request may hand out.
List(r, s, S) ==
    /\ Distinct(s, S)
    /\ ~misled[r] => ToSet(s) \subseteq could[r]

\* The lists of a request, by where it stands.
TaskOK(r) ==
    LET t == task[r] IN
    /\ pc[r] # "done" => t.code = 0
    /\ pc[r] \notin {"edges", "edgegate", "build", "llm"} => t.allowed = <<>>
    /\ pc[r] = "gate" => Distinct(t.found, Chunks)
    /\ pc[r] = "edgegate" => t.found \in Seq(Rels)
    /\ pc[r] \in {"edges", "edgegate"} => List(r, t.allowed, Chunks)
    /\ pc[r] \in {"build", "llm"} => List(r, t.allowed, Chunks \cup Rels)
    /\ pc[r] = "llm" => \E b \in Budgets : PromptOf(t.prompt, ToSet(t.allowed), b)

\* What a response has, the request could read.
Delivered(r) ==
    task[r].code = 200 /\ ~misled[r] =>
        /\ task[r].items \ Units \subseteq could[r]
        /\ ~task[r].admin => task[r].items \cap Units \subseteq UNION seen[r]
        /\ known[r]

RequestInv ==
    /\ TypeOK
    /\ \A r \in Requests : CouldOK(r) /\ TaskOK(r) /\ Delivered(r)

\* The invariant has the properties.
LEMMA RequestInvGives ==
    ASSUME RequestInv
    PROVE  OnlyReadableDelivered /\ ContextWhole
<1>1. ASSUME NEW r \in Requests, task[r].code = 200, ~misled[r]
      PROVE  /\ task[r].items \ Units \subseteq could[r]
             /\ \A e \in task[r].items \cap Rels :
                    {EndsOf[e][1], EndsOf[e][2]} \subseteq could[r]
             /\ ~task[r].admin => task[r].items \cap Units \subseteq UNION seen[r]
             /\ known[r]
  <2>1. /\ task[r].items \ Units \subseteq could[r]
        /\ ~task[r].admin => task[r].items \cap Units \subseteq UNION seen[r]
        /\ known[r]
    BY <1>1 DEF RequestInv, Delivered
  <2>2. Closed(could[r]) /\ Rels \cap Units = {}
    BY RetrievalAssumption DEF RequestInv, CouldOK
  <2>3. ASSUME NEW e \in task[r].items \cap Rels PROVE {EndsOf[e][1], EndsOf[e][2]} \subseteq could[r]
    BY <2>1, <2>2 DEF Closed
  <2> QED BY <2>1, <2>3
<1>2. OnlyReadableDelivered
  BY <1>1 DEF OnlyReadableDelivered
<1>3. ASSUME NEW r \in Requests, pc[r] = "llm"
      PROVE  \E b \in Budgets : PromptOf(task[r].prompt, ToSet(task[r].allowed), b)
  BY <1>3 DEF RequestInv, TaskOK
<1>4. ContextWhole
  <2> SUFFICES ASSUME NEW r \in Requests, pc[r] = "llm"
               PROVE  LET p    == task[r].prompt
                          srcs == ToSet(p.srcs)
                          rels == ToSet(p.rels)
                      IN  /\ IsInjective(p.srcs) /\ IsInjective(p.rels)
                          /\ \A e \in rels : {EndsOf[e][1], EndsOf[e][2]} \subseteq srcs
                          /\ \A c \in srcs : \/ c \in ToSet(task[r].allowed)
                                             \/ \E e \in rels : c \in {EndsOf[e][1], EndsOf[e][2]}
                          /\ rels \subseteq ToSet(task[r].allowed)
                          /\ p.used <= MaxItems
                          /\ \E b \in Budgets : p.size <= b
    BY DEF ContextWhole
  <2>1. PICK b \in Budgets : PromptOf(task[r].prompt, ToSet(task[r].allowed), b)
    BY <1>3
  <2> QED BY <2>1 DEF PromptOf, Uses
<1> QED BY <1>2, <1>4

\* What a gate admits has both endpoints of a relationship.
LEMMA AdmitsClosed ==
    ASSUME NEW s, usable \in SUBSET Rels, NEW A, A = Admits(s)
    PROVE  A \in SUBSET (Chunks \cup Rels) /\ Closed(A)
<1>1. A \in SUBSET (Chunks \cup Rels)
  BY DEF Admits
<1>2. ASSUME NEW e \in A \cap Rels PROVE EndsOf[e][1] \in A /\ EndsOf[e][2] \in A
  <2>1. EndsOf[e][1] \in Chunks /\ EndsOf[e][2] \in Chunks /\ e \notin Chunks
    BY Ends
  <2>2. \A i \in {1, 2} : DocOf[EndsOf[e][i]] \in served \cap VisibleDocs(s)
    BY <2>1 DEF Admits
  <2> QED BY <2>1, <2>2 DEF Admits
<1> QED BY <1>1, <1>2 DEF Closed

\* The same of what it admits after a step.
LEMMA AdmitsClosedNext ==
    ASSUME NEW CONSTANT s, usable' \in SUBSET Rels, NEW A, A = Admits(s)'
    PROVE  A \in SUBSET (Chunks \cup Rels) /\ Closed(A)
<1>1. A \in SUBSET (Chunks \cup Rels)
  BY DEF Admits
<1>2. ASSUME NEW e \in A \cap Rels PROVE EndsOf[e][1] \in A /\ EndsOf[e][2] \in A
  <2>1. EndsOf[e][1] \in Chunks /\ EndsOf[e][2] \in Chunks /\ e \notin Chunks
    BY Ends
  <2>2. \A i \in {1, 2} : DocOf[EndsOf[e][i]] \in served' \cap VisibleDocs(s)'
    BY <2>1 DEF Admits
  <2> QED BY <2>1, <2>2 DEF Admits
<1> QED BY <1>1, <1>2 DEF Closed

\* What a request under way may read after a step, added to what it could.
Adds(r) == UNION {Admits(s)' : s \in seen'[r]}

\* That has endpoints, too.
LEMMA AddsClosed ==
    ASSUME NEW r, usable' \in SUBSET Rels
    PROVE  /\ Adds(r) \in SUBSET (Chunks \cup Rels) /\ Closed(Adds(r))
           /\ \A s \in seen'[r] : Admits(s)' \subseteq Adds(r)
<1>1. \A s \in seen'[r] : Admits(s)' \subseteq Adds(r)
  BY DEF Adds
<1>2. ASSUME NEW x \in Adds(r) PROVE \E s \in seen'[r] : x \in Admits(s)'
  BY DEF Adds
<1>3. ASSUME NEW x \in Adds(r)
      PROVE  /\ x \in Chunks \cup Rels
             /\ x \in Rels => EndsOf[x][1] \in Adds(r) /\ EndsOf[x][2] \in Adds(r)
  <2>1. PICK s \in seen'[r] : x \in Admits(s)'
    BY <1>2
  <2>2. Admits(s)' \in SUBSET (Chunks \cup Rels) /\ Closed(Admits(s)')
    BY AdmitsClosedNext
  <2>3. x \in Chunks \cup Rels /\ Admits(s)' \subseteq Adds(r)
    BY <1>1, <2>1, <2>2
  <2>4. x \in Rels => EndsOf[x][1] \in Admits(s)' /\ EndsOf[x][2] \in Admits(s)'
    BY <2>1, <2>2 DEF Closed
  <2> QED BY <2>3, <2>4
<1> QED BY <1>1, <1>3 DEF Closed

\* A step of the world: requests under way could read what they may read now.
LEMMA WorldNoted ==
    ASSUME RequestInv, AccessInv', NoteVisible, UNCHANGED <<pc, misled, task>>,
           \A r \in Requests : seen[r] \subseteq seen'[r],
           active' \in BOOLEAN, readers' \in [Docs -> SUBSET Units],
           served' \in SUBSET Docs, usable' \in SUBSET Rels
    PROVE  RequestInv'
<1>1. /\ could \in [Requests -> SUBSET Items] /\ known \in [Requests -> BOOLEAN]
      /\ task \in [Requests -> Tasks]
  BY DEF RequestInv, TypeOK
<1>2. could' = [r \in Requests |-> IF pc[r] \in {"idle", "done"} THEN could[r]
                                   ELSE could[r] \cup Adds(r)]
  BY DEF NoteVisible, Adds
<1>3. known' = [r \in Requests |-> known[r] \/ (pc[r] \notin {"idle", "done"} /\ active')]
  BY DEF NoteVisible
<1>4. \A r \in Requests : could[r] \subseteq could'[r]
  BY <1>2
<1>5. known' \in [Requests -> BOOLEAN] /\ \A r \in Requests : known[r] => known'[r]
  BY <1>1, <1>3, Zenon
<1>6. \A r \in Requests : Adds(r) \in SUBSET Items
  BY AddsClosed DEF Items
<1>7. could' \in [Requests -> SUBSET Items]
  BY <1>1, <1>2, <1>6
<1>8. TypeOK'
  BY <1>1, <1>5, <1>7 DEF TypeOK, AccessInv, Labels
<1>9. ASSUME NEW r \in Requests PROVE CouldOK(r)'
  <2>1. CouldOK(r)
    BY DEF RequestInv
  <2>2. CASE Waiting(r)
    <3>1. could'[r] = could[r] /\ Waiting(r)'
      BY <1>2, <2>2 DEF Waiting
    <3> QED BY <1>5, <2>1, <3>1 DEF CouldOK, Closed
  <2>3. CASE ~Waiting(r)
    <3>1. could'[r] = could[r] \cup Adds(r)
      BY <1>2, <2>3 DEF Waiting
    <3>2. \A s \in seen'[r] : Admits(s)' \subseteq could'[r]
      BY <3>1, AddsClosed
    <3>3. Closed(could'[r])
      <4>1. Closed(could[r]) /\ Closed(Adds(r))
        BY <2>1, AddsClosed DEF CouldOK
      <4> QED BY <3>1, <4>1 DEF Closed
    <3>4. active' => known'[r]
      BY <1>3, <2>3 DEF Waiting
    <3>5. pc[r] \in Entered => known'[r]
      BY <1>5, <2>1 DEF CouldOK
    <3> QED BY <3>2, <3>3, <3>4, <3>5 DEF CouldOK, Closed
  <2> QED BY <2>2, <2>3
<1>10. ASSUME NEW r \in Requests PROVE TaskOK(r)'
  <2>1. TaskOK(r) /\ could[r] \subseteq could'[r]
    BY <1>4 DEF RequestInv
  <2> QED BY <2>1 DEF TaskOK, List
<1>11. ASSUME NEW r \in Requests PROVE Delivered(r)'
  <2>1. Delivered(r) /\ could[r] \subseteq could'[r] /\ (known[r] => known'[r])
        /\ seen[r] \subseteq seen'[r]
    BY <1>4, <1>5 DEF RequestInv
  <2>2. UNION seen[r] \subseteq UNION seen'[r]
    BY <2>1
  <2> QED BY <2>1, <2>2 DEF Delivered
<1> QED BY <1>8, <1>9, <1>10, <1>11 DEF RequestInv

\* The steps of the database, of the clock and of the entry leave the requests
\* where they are.
LEMMA WorldLeaves ==
    ASSUME AccessInv, Environment
    PROVE  /\ UNCHANGED <<pc, misled>>
           /\ \A r \in Requests : seen[r] \subseteq seen'[r]
<1>1. UNCHANGED seen \/ Witness
  BY DEF Environment, EditMembership, EditGroup, EditTree, Open, Commit, Rollback, Tick, EntryLost,
         history
<1>2. UNCHANGED <<pc, misled>>
  BY DEF Environment, EditMembership, EditGroup, EditTree, Open, Commit, Rollback, Tick, EntryLost,
         history
<1>3. \A r \in Requests : seen[r] \subseteq seen'[r]
  BY <1>1 DEF Witness
<1> QED BY <1>2, <1>3

\* Every step of the world keeps the invariant.
LEMMA WorldKeeps ==
    ASSUME AccessInv, RequestInv, AccessInv',
           \/ Environment /\ UNCHANGED <<docVars, task>> /\ NoteVisible
           \/ \E d \in Docs, us \in SUBSET Units : EditGrants(d, us)
           \/ \E d \in Docs : EditDocument(d)
           \/ \E e \in Rels : EditEdge(e)
           \/ EditUser
    PROVE  RequestInv'
<1>1. /\ active \in BOOLEAN /\ readers \in [Docs -> SUBSET Units]
      /\ served \in SUBSET Docs /\ usable \in SUBSET Rels
  BY DEF RequestInv, TypeOK
<1>2. CASE Environment /\ UNCHANGED <<docVars, task>> /\ NoteVisible
  <2>1. UNCHANGED <<active, readers, served, usable>>
    BY <1>2 DEF docVars
  <2> QED BY <1>1, <1>2, <2>1, WorldLeaves, WorldNoted
<1>3. Edit => UNCHANGED <<pc, misled, task>> /\ \A r \in Requests : seen[r] \subseteq seen'[r]
  BY DEF Edit, history
<1>4. ASSUME NEW d \in Docs, NEW us \in SUBSET Units, EditGrants(d, us) PROVE RequestInv'
  <2>1. readers' \in [Docs -> SUBSET Units] /\ UNCHANGED <<active, served, usable>>
        /\ Edit /\ NoteVisible
    BY <1>1, <1>4 DEF EditGrants
  <2> QED BY <1>1, <1>3, <2>1, WorldNoted
<1>5. ASSUME NEW d \in Docs, EditDocument(d) PROVE RequestInv'
  <2>1. served' \in SUBSET Docs /\ UNCHANGED <<active, readers, usable>> /\ Edit /\ NoteVisible
    BY <1>1, <1>5 DEF EditDocument
  <2> QED BY <1>1, <1>3, <2>1, WorldNoted
<1>6. ASSUME NEW e \in Rels, EditEdge(e) PROVE RequestInv'
  <2>1. usable' \in SUBSET Rels /\ UNCHANGED <<active, readers, served>> /\ Edit /\ NoteVisible
    BY <1>1, <1>6 DEF EditEdge
  <2> QED BY <1>1, <1>3, <2>1, WorldNoted
<1>7. CASE EditUser
  <2>1. active' \in BOOLEAN
    BY <1>1, <1>7 DEF EditUser
  <2>2. UNCHANGED <<readers, served, usable>> /\ Edit /\ NoteVisible
    BY <1>7 DEF EditUser
  <2> QED BY <1>1, <1>3, <2>1, <2>2, WorldNoted
<1> QED BY <1>2, <1>4, <1>5, <1>6, <1>7

-----------------------------------------------------------------------------
(* The steps of a request                                                  *)

\* The other requests do not notice.
Same(q) ==
    /\ pc'[q] = pc[q] /\ seen'[q] = seen[q] /\ misled'[q] = misled[q]
    /\ could'[q] = could[q] /\ known'[q] = known[q] /\ task'[q] = task[q]

\* A step of a request, given what it does to the request.
LEMMA RequestAlone ==
    ASSUME RequestInv, TypeOK', NEW r \in Requests, UNCHANGED docVars,
           \A q \in Requests \ {r} : Same(q),
           CouldOK(r)', TaskOK(r)', Delivered(r)'
    PROVE  RequestInv'
<1>1. UNCHANGED <<active, readers, served, usable>>
  BY DEF docVars
<1>2. ASSUME NEW q \in Requests, q # r PROVE CouldOK(q)' /\ TaskOK(q)' /\ Delivered(q)'
  <2>1. Same(q) /\ CouldOK(q) /\ TaskOK(q) /\ Delivered(q)
    BY <1>2 DEF RequestInv
  <2>2. \A s : Admits(s)' = Admits(s)
    BY <1>1 DEF Admits, VisibleDocs
  <2>3. CouldOK(q)'
    BY <1>1, <2>1, <2>2 DEF CouldOK, Same, Waiting, Closed
  <2>4. TaskOK(q)'
    BY <2>1 DEF TaskOK, List, Same
  <2>5. Delivered(q)'
    BY <2>1 DEF Delivered, Same
  <2> QED BY <2>3, <2>4, <2>5
<1> QED BY <1>2 DEF RequestInv

\* A step of a handler: t is the task it leaves.
LEMMA HandlerAlone ==
    ASSUME AccessInv, RequestInv, AccessInv', NEW r \in Requests, NEW l, Handles(r, l),
           l \in Entered => pc[r] \in Entered \/ active,
           NEW t \in Tasks, task' = [task EXCEPT ![r] = t],
           TaskOK(r)', Delivered(r)'
    PROVE  RequestInv'
<1>1. /\ UNCHANGED <<seen, misled, could, known, docVars>> /\ Goto(r, l)
      /\ UNCHANGED <<active, readers, served, usable>>
  BY StillHolds DEF Handles, Unwitnessed, witnesses, docVars
<1>2. /\ pc \in [Requests -> Labels] /\ task \in [Requests -> Tasks]
  BY DEF AccessInv, RequestInv, TypeOK
<1>3. TypeOK'
  <2>1. task' \in [Requests -> Tasks]
    BY <1>2
  <2> QED BY <1>1, <2>1 DEF RequestInv, TypeOK, AccessInv, Labels
<1>4. \A q \in Requests \ {r} : Same(q)
  BY <1>1, <1>2 DEF Same, Goto
<1>5. CouldOK(r)'
  <2>1. CouldOK(r) /\ pc'[r] = l /\ pc[r] \notin {"idle", "done"}
    BY <1>1, <1>2 DEF RequestInv, Goto, Handles
  <2>2. \A s : Admits(s)' = Admits(s)
    BY <1>1 DEF Admits, VisibleDocs
  <2> QED BY <1>1, <2>1, <2>2 DEF CouldOK, Waiting, Closed
<1> QED BY <1>1, <1>3, <1>4, <1>5, RequestAlone

Codes == {0, 200, 400, 401, 403, 404, 500, 503}

\* A task, by its fields, and as the steps of a request write it.
Record(A, B, C, D, E, F, G) ==
    [admin: A, answers: A, intent: B, found: C, allowed: D, prompt: E, code: F, items: G]
Questions == {"fact", "bridge", "automatic"}
Flags == BOOLEAN
Naming(t, x)       == [t EXCEPT !.admin = x]
Asking(t, x, y)    == [t EXCEPT !.answers = x, !.intent = y]
Finding(t, cs)     == [t EXCEPT !.found = cs]
Allowing(t, es)    == [t EXCEPT !.allowed = es, !.found = <<>>]
Prompting(t, p)    == [t EXCEPT !.prompt = p]
Answering(t, x, y, z) == [t EXCEPT !.code = x, !.items = y, !.admin = z]

\* What writing it does.
LEMMA TaskFields ==
    ASSUME NEW t \in Tasks
    PROVE  /\ t.admin \in Flags
           /\ \A x \in Flags : LET u == Naming(t, x) IN
                 u \in Tasks /\ u.code = t.code /\ u.allowed = t.allowed
           /\ \A x \in Flags, y \in Questions : LET u == Asking(t, x, y) IN
                 u \in Tasks /\ u.code = t.code /\ u.allowed = t.allowed
           /\ \A x \in Seq(Items) : LET u == Finding(t, x) IN
                 u \in Tasks /\ u.found = x /\ u.code = t.code /\ u.allowed = t.allowed
           /\ \A y \in Seq(Items) : LET u == Allowing(t, y) IN
                 u \in Tasks /\ u.code = t.code /\ u.allowed = y
           /\ \A x \in PromptType : LET u == Prompting(t, x) IN
                 u \in Tasks /\ u.prompt = x /\ u.code = t.code /\ u.allowed = t.allowed
           /\ \A x \in Codes, y \in SUBSET Items, z \in Flags : LET u == Answering(t, x, y, z) IN
                 u \in Tasks /\ u.items = y /\ u.code = x /\ u.admin = z /\ u.allowed = t.allowed
<1> DEFINE A == Flags
           L == Seq(Items)
           G == SUBSET Items
<1>1. Tasks = Record(A, Questions, L, L, PromptType, Codes, G) /\ <<>> \in L
  BY EmptySeq DEF Tasks, Record, Questions, PromptType, Codes, Flags
<1> HIDE DEF A, L, G
<1>2. t \in Record(A, Questions, L, L, PromptType, Codes, G)
  BY <1>1
<1>3. \A x \in A, y \in Questions : LET u == Asking(t, x, y) IN
          u \in Tasks /\ u.code = t.code /\ u.allowed = t.allowed
  BY <1>1, <1>2 DEF Record, Asking
<1>4. \A x \in L : LET u == Finding(t, x) IN
          u \in Tasks /\ u.found = x /\ u.code = t.code /\ u.allowed = t.allowed
  BY <1>1, <1>2 DEF Record, Finding
<1>5. \A y \in L : LET u == Allowing(t, y) IN
          u \in Tasks /\ u.code = t.code /\ u.allowed = y
  BY <1>1, <1>2 DEF Record, Allowing
<1>6. \A x \in PromptType : LET u == Prompting(t, x) IN
          u \in Tasks /\ u.prompt = x /\ u.code = t.code /\ u.allowed = t.allowed
  BY <1>1, <1>2 DEF Record, Prompting
<1>7. \A x \in Codes, y \in G, z \in A : LET u == Answering(t, x, y, z) IN
          u \in Tasks /\ u.items = y /\ u.code = x /\ u.admin = z /\ u.allowed = t.allowed
  BY <1>1, <1>2 DEF Record, Answering
<1>8. t.admin \in A /\ \A x \in A : LET u == Naming(t, x) IN
          u \in Tasks /\ u.code = t.code /\ u.allowed = t.allowed
  BY <1>1, <1>2 DEF Record, Naming
<1> QED BY <1>3, <1>4, <1>5, <1>6, <1>7, <1>8, Zenon DEF A, L, G

\* The task of a request that has not begun.
LEMMA NoTaskTypes == NoTask \in Tasks /\ NoTask.code = 0 /\ NoTask.allowed = <<>>
<1>1. NoPrompt \in [srcs: Seq(Chunks), rels: Seq(Rels), used: Nat, size: Nat]
  BY EmptySeq DEF NoPrompt
<1>2. <<>> \in Seq(Items) /\ {} \in SUBSET Items /\ 0 \in Codes /\ FALSE \in BOOLEAN
      /\ "fact" \in {"fact", "bridge", "automatic"}
  BY EmptySeq DEF Codes
<1>3. NoTask \in Tasks
  BY <1>1, <1>2 DEF NoTask, Tasks, Codes
<1>4. NoTask.code = 0 /\ NoTask.allowed = <<>>
  BY DEF NoTask
<1> QED BY <1>3, <1>4

\* The tasks written over it: a response, and a question.
LEMMA FreshTasks ==
    /\ \A x \in Codes, y \in SUBSET Items, z \in Flags : LET t == Answering(NoTask, x, y, z) IN
          t \in Tasks /\ t.items = y /\ t.code = x /\ t.admin = z /\ t.allowed = <<>>
    /\ \A x \in Flags, y \in Questions : LET t == Asking(NoTask, x, y) IN
          t \in Tasks /\ t.code = 0 /\ t.allowed = <<>>
<1> DEFINE A == Flags
           L == Seq(Items)
           G == SUBSET Items
<1>1. Tasks = Record(A, Questions, L, L, PromptType, Codes, G)
  BY DEF Tasks, Record, Questions, PromptType, Codes, Flags
<1>2. NoTask \in Tasks /\ NoTask.code = 0 /\ NoTask.allowed = <<>>
  BY NoTaskTypes
<1> HIDE DEF A, L, G
<1>3. \A x \in Codes, y \in G, z \in A : LET t == Answering(NoTask, x, y, z) IN
          t \in Tasks /\ t.items = y /\ t.code = x /\ t.admin = z /\ t.allowed = <<>>
  BY <1>1, <1>2 DEF Record, Answering
<1>4. \A x \in A, y \in Questions : LET t == Asking(NoTask, x, y) IN
          t \in Tasks /\ t.code = 0 /\ t.allowed = <<>>
  BY <1>1, <1>2 DEF Record, Asking
<1> QED BY <1>3, <1>4, Zenon DEF A, G

\* Whose request it is.
LEMMA AdminTyped ==
    ASSUME RequestInv, NEW r \in Requests
    PROVE  task[r].admin \in Flags
<1>1. task[r] \in Tasks
  BY DEF RequestInv, TypeOK
<1> QED BY <1>1, TaskFields, Zenon

\* A response of a handler, given what it hands out.
LEMMA ResponseStep ==
    ASSUME AccessInv, RequestInv, AccessInv', NEW r \in Requests, pc[r] \notin {"idle", "done"},
           Unwitnessed, NEW code \in Codes, NEW items \in SUBSET Items, Respond(r, code, items),
           code = 200 /\ ~misled[r] =>
               /\ items \ Units \subseteq could[r]
               /\ ~task[r].admin => items \cap Units \subseteq UNION seen[r]
               /\ known[r]
    PROVE  RequestInv'
<1> DEFINE t == Answering(NoTask, code, items, task[r].admin)
<1>0. task[r].admin \in Flags
  BY AdminTyped
<1>1. t \in Tasks /\ t.code = code /\ t.items = items /\ t.allowed = <<>> /\ t.admin = task[r].admin
  BY <1>0, FreshTasks
<1>2. /\ task' = [task EXCEPT ![r] = t] /\ scope' = [scope EXCEPT ![r] = {}] /\ Goto(r, "done")
  BY DEF Respond, Answering
<1> HIDE DEF t
<1>3. "done" \in Labels /\ "done" \notin Entered
  BY DEF Labels, Entered
<1>4. Handles(r, "done")
  BY <1>2, <1>3 DEF Handles
<1>5. pc'[r] = "done" /\ task'[r] = t /\ UNCHANGED <<misled, could, known, seen>>
  BY <1>2, StillHolds DEF Goto, AccessInv, RequestInv, TypeOK, Unwitnessed, witnesses
<1>6. TaskOK(r)'
  BY <1>1, <1>5 DEF TaskOK
<1>7. Delivered(r)'
  BY <1>1, <1>5 DEF Delivered
<1> QED BY <1>1, <1>2, <1>3, <1>4, <1>6, <1>7, HandlerAlone

\* A response with nothing in it.
LEMMA EmptyResponse ==
    ASSUME AccessInv, RequestInv, AccessInv', NEW r \in Requests, pc[r] \notin {"idle", "done"},
           Unwitnessed, NEW code \in Codes, Respond(r, code, {}), code = 200 => known[r]
    PROVE  RequestInv'
<1>1. {} \in SUBSET Items
  OBVIOUS
<1> QED BY <1>1, ResponseStep

\* A step on, before there are lists.
LEMMA ProceedStep ==
    ASSUME AccessInv, RequestInv, AccessInv', NEW r \in Requests,
           pc[r] \in {"auth", "jwt", "key", "handler", "user", "unit"}, Unwitnessed,
           NEW l \in {"key", "jwt", "handler", "user", "unit", "embed"}, Goto(r, l), UNCHANGED scope,
           NEW t \in Tasks, task' = [task EXCEPT ![r] = t],
           t.code = task[r].code, t.allowed = task[r].allowed,
           l \in Entered => pc[r] \in Entered \/ active
    PROVE  RequestInv'
<1>1. l \in Labels /\ l \notin {"idle", "lookup", "validate", "done"} /\ l \notin Working
  BY DEF Labels, Working
<1>2. pc[r] \notin {"idle", "done"}
  OBVIOUS
<1>3. Handles(r, l)
  BY <1>1, <1>2 DEF Handles
<1>4. pc'[r] = l /\ task'[r] = t
  BY DEF Goto, AccessInv, RequestInv, TypeOK
<1>5. TaskOK(r) /\ t.code = 0 /\ t.allowed = <<>>
  BY DEF RequestInv, TaskOK
<1>6. TaskOK(r)'
  BY <1>1, <1>4, <1>5 DEF TaskOK
<1>7. Delivered(r)'
  BY <1>4, <1>5 DEF Delivered
<1> QED BY <1>3, <1>6, <1>7, HandlerAlone

\* The task as it is.
LEMMA SameTask ==
    ASSUME RequestInv, NEW r \in Requests
    PROVE  task[r] \in Tasks /\ task = [task EXCEPT ![r] = task[r]]
<1>1. task \in [Requests -> Tasks]
  BY DEF RequestInv, TypeOK
<1> QED BY <1>1, Zenon

\* Authentication, and the handlers as far as the question: the user was not
\* deactivated, or the request is refused.
LEMMA EarlySteps ==
    ASSUME AccessInv, RequestInv, AccessInv', NEW r \in Requests,
           \/ ValidateJwt(r) \/ ResolveJwtUser(r) \/ ValidateApiKey(r) \/ Me(r)
           \/ FindUser(r) \/ FindUnit(r)
    PROVE  RequestInv'
<1>1. ASSUME NEW code \in Codes, Respond(r, code, {}), code = 200 => known[r]
      PROVE  RequestInv'
  <2>1. pc[r] \notin {"idle", "done"} /\ Unwitnessed
    BY DEF ValidateJwt, ResolveJwtUser, ValidateApiKey, Me, FindUser, FindUnit
  <2> QED BY <1>1, <2>1, EmptyResponse
<1>2. ASSUME NEW l \in {"key", "jwt", "handler", "user", "unit", "embed"}, Proceed(r, l),
             l \in Entered => pc[r] \in Entered \/ active
      PROVE  RequestInv'
  <2>1. pc[r] \in {"auth", "jwt", "key", "handler", "user", "unit"} /\ Unwitnessed
    BY DEF ValidateJwt, ResolveJwtUser, ValidateApiKey, Me, FindUser, FindUnit
  <2>2. task[r] \in Tasks /\ task' = [task EXCEPT ![r] = task[r]] /\ UNCHANGED scope /\ Goto(r, l)
    BY <1>2, SameTask DEF Proceed
  <2> QED BY <1>2, <2>1, <2>2, ProceedStep
<1>3. 200 \in Codes /\ 401 \in Codes /\ 403 \in Codes /\ 404 \in Codes
  BY DEF Codes
<1>4. pc[r] = "handler" => known[r]
  BY DEF RequestInv, CouldOK, Entered
<1>5. "jwt" \notin Entered /\ "key" \notin Entered /\ "user" \in Entered /\ "unit" \in Entered
  BY DEF Entered
<1>6. CASE ValidateJwt(r)
  BY <1>1, <1>2, <1>3, <1>5, <1>6 DEF ValidateJwt
<1>9. CASE ResolveJwtUser(r) \/ ValidateApiKey(r)
  <2>1. Respond(r, 401, {}) \/ Authenticate(r)
    BY <1>9 DEF ResolveJwtUser, ValidateApiKey
  <2>2. CASE Authenticate(r)
    <3>1. pc[r] \in {"jwt", "key"} /\ Unwitnessed
      BY <1>9 DEF ResolveJwtUser, ValidateApiKey
    <3>2. PICK admin \in Flags : task' = [task EXCEPT ![r].admin = admin]
      BY <2>2 DEF Authenticate, Flags
    <3> DEFINE t == Naming(task[r], admin)
    <3>3. task[r] \in Tasks /\ task \in [Requests -> Tasks]
      BY DEF RequestInv, TypeOK
    <3>4. t \in Tasks /\ t.code = task[r].code /\ t.allowed = task[r].allowed
      BY <3>3, TaskFields
    <3>5. task' = [task EXCEPT ![r] = t]
      BY <3>2, <3>3 DEF Naming
    <3> HIDE DEF t
    <3>6. Goto(r, "handler") /\ UNCHANGED scope /\ active
      BY <2>2 DEF Authenticate
    <3> QED BY <3>1, <3>4, <3>5, <3>6, ProceedStep
  <2> QED BY <1>1, <1>3, <2>1, <2>2
<1>7. CASE Me(r)
  <2>1. PICK code \in {200, 403} : Respond(r, code, {})
    BY <1>7 DEF Me
  <2>2. code \in Codes
    BY <1>3
  <2> QED BY <1>1, <1>4, <1>7, <2>1, <2>2 DEF Me
<1>8. CASE FindUser(r) \/ FindUnit(r)
  BY <1>1, <1>2, <1>3, <1>5, <1>8 DEF FindUser, FindUnit
<1> QED BY <1>6, <1>7, <1>8, <1>9

\* GET /api/orgs/{id}: the unit is in the live scope, which the request has
\* seen, or an administrator asked.
LEMMA OrgGetStep ==
    ASSUME AccessInv, RequestInv, AccessInv', NEW r \in Requests, OrgGet(r)
    PROVE  RequestInv'
<1>1. pc[r] = "handler" /\ Unwitnessed
  BY DEF OrgGet
<1>2. known[r] /\ LiveScope \in seen[r]
  BY <1>1, RequestHolds DEF RequestInv, CouldOK, Entered
<1>3. 200 \in Codes /\ 403 \in Codes /\ 404 \in Codes
  BY DEF Codes
<1>4. CASE (task[r].admin \/ Asked \in LiveScope) /\ Respond(r, 200, {Asked})
  <2>1. Asked \in Units
    BY ConstantsAssumption
  <2>2. {Asked} \in SUBSET Items /\ {Asked} \ Units \subseteq could[r]
        /\ (~task[r].admin => {Asked} \cap Units \subseteq UNION seen[r])
    BY <1>2, <1>4, <2>1 DEF Items
  <2> QED BY <1>1, <1>2, <1>3, <1>4, <2>2, ResponseStep
<1>5. CASE Respond(r, 403, {}) \/ Respond(r, 404, {})
  BY <1>1, <1>2, <1>3, <1>5, EmptyResponse
<1> QED BY <1>4, <1>5 DEF OrgGet

\* A question is parsed, or refused.
LEMMA ParseStep ==
    ASSUME AccessInv, RequestInv, AccessInv', NEW r \in Requests, NEW answers \in BOOLEAN,
           NEW i \in {"fact", "bridge", "automatic"}, Parse(r, answers, i)
    PROVE  RequestInv'
<1>1. pc[r] = "handler" /\ Unwitnessed
  BY DEF Parse
<1>2. CASE Respond(r, 400, {})
  <2>1. 400 \in Codes
    BY DEF Codes
  <2> QED BY <1>1, <1>2, <2>1, EmptyResponse
<1>3. CASE /\ task' = [task EXCEPT ![r] = [NoTask EXCEPT !.answers = answers, !.intent = i]]
           /\ Goto(r, "user") /\ UNCHANGED scope
  <2> DEFINE t == Asking(NoTask, answers, i)
  <2>1. task[r].code = 0 /\ task[r].allowed = <<>>
    BY <1>1 DEF RequestInv, TaskOK
  <2>2. task' = [task EXCEPT ![r] = t]
    BY <1>3 DEF Asking
  <2>3. t \in Tasks /\ t.code = task[r].code /\ t.allowed = task[r].allowed
    BY <2>1, FreshTasks DEF Questions, Flags
  <2> HIDE DEF t
  <2>4. pc[r] \in Entered
    BY <1>1 DEF Entered
  <2> QED BY <1>1, <1>3, <2>2, <2>3, <2>4, ProceedStep
<1> QED BY <1>2, <1>3 DEF Parse

\* The resolver: no lists yet, and the user was active.
LEMMA ResolvingStep ==
    ASSUME AccessInv, RequestInv, AccessInv', NEW r \in Requests, Embed(r) \/ ResolveScope(r)
    PROVE  RequestInv'
<1> DEFINE Before == {"embed", "lookup", "validate", "resolve", "store"}
           After == {"lookup", "validate", "resolve", "store", "resolved"}
<1>1. UNCHANGED <<seen, docVars, task, witnesses>> /\ pc[r] \in Before
  BY DEF Embed, ResolveScope, BeginResolve, ResolveStep, Lookup, Validate, Resolve, Store, history
<1>2. PICK l \in After : Goto(r, l)
  BY DEF Embed, ResolveScope, BeginResolve, ResolveStep, Lookup, Validate, Resolve, Store
<1>3. UNCHANGED misled \/ misled' = [misled EXCEPT ![r] = missed]
  BY DEF Embed, ResolveScope, BeginResolve, ResolveStep, Lookup, Validate, Resolve, Store, history
<1>4. /\ pc \in [Requests -> Labels] /\ misled \in [Requests -> BOOLEAN]
  BY DEF AccessInv, AccessTypeOK
<1>5. UNCHANGED <<active, readers, served, usable, could, known>>
  BY <1>1 DEF docVars, witnesses
<1>6. TypeOK'
  BY <1>1, <1>5 DEF AccessInv, Labels, RequestInv, TypeOK
<1>7. \A q \in Requests \ {r} : Same(q)
  BY <1>1, <1>2, <1>3, <1>4, <1>5 DEF Same, Goto
<1>8. pc'[r] = l /\ TaskOK(r) /\ CouldOK(r)
  BY <1>2, <1>4 DEF Goto, RequestInv
<1>9. task[r].code = 0 /\ task[r].allowed = <<>>
  BY <1>1, <1>8 DEF TaskOK
<1>10. TaskOK(r)' /\ Delivered(r)'
  BY <1>1, <1>8, <1>9 DEF TaskOK, Delivered
<1>11. CouldOK(r)'
  <2>1. \A s : Admits(s)' = Admits(s)
    BY <1>5 DEF Admits, VisibleDocs
  <2>2. pc[r] \in Entered /\ ~Waiting(r)
    BY <1>1 DEF Entered, Waiting
  <2> QED BY <1>1, <1>5, <1>8, <2>1, <2>2 DEF CouldOK, Closed
<1> QED BY <1>1, <1>6, <1>7, <1>10, <1>11, RequestAlone

\* The task of a request is written.
Writes(r, t) == task' = [task EXCEPT ![r] = t]

\* A request arrives, and could read what its user may read now.
LEMMA ReceivingStep ==
    ASSUME AccessInv, RequestInv, AccessInv', NEW r \in Requests, Receive(r)
    PROVE  RequestInv'
<1>1. /\ pc[r] = "idle" /\ UNCHANGED <<misled, docVars>>
      /\ UNCHANGED <<active, readers, served, usable>>
      /\ seen' = [seen EXCEPT ![r] = {LiveScope}]
      /\ could' = [could EXCEPT ![r] = Admits(LiveScope)]
      /\ known' = [known EXCEPT ![r] = active]
  BY StillHolds DEF Receive, docVars
<1>2. PICK l \in {"auth", "key", "done"}, t \in Tasks :
          /\ Goto(r, l) /\ Writes(r, t)
          /\ t.allowed = <<>> /\ (l # "done" => t.code = 0) /\ t.code # 200
  <2>1. TaskOK(r) /\ task[r] \in Tasks /\ task = [task EXCEPT ![r] = task[r]]
    BY SameTask DEF RequestInv
  <2>2. task[r].code = 0 /\ task[r].allowed = <<>>
    BY <1>1, <2>1 DEF TaskOK
  <2>3. CASE Proceed(r, "auth") \/ Proceed(r, "key")
    BY <2>1, <2>2, <2>3 DEF Proceed, Writes
  <2>4. CASE Respond(r, 401, {})
    <3> DEFINE t == Answering(NoTask, 401, {}, task[r].admin)
    <3>0. 401 \in Codes /\ {} \in SUBSET Items
      BY DEF Codes
    <3>1. task[r].admin \in Flags
      BY AdminTyped
    <3>2. t \in Tasks /\ t.code = 401 /\ t.allowed = <<>>
      BY <3>0, <3>1, FreshTasks
    <3>3. Writes(r, t) /\ Goto(r, "done")
      BY <2>4 DEF Respond, Answering, Writes
    <3> HIDE DEF t
    <3> QED BY <3>2, <3>3
  <2> QED BY <2>3, <2>4 DEF Receive
<1>3. /\ pc \in [Requests -> Labels] /\ seen \in [Requests -> SUBSET SUBSET Units]
      /\ could \in [Requests -> SUBSET Items] /\ known \in [Requests -> BOOLEAN]
      /\ task \in [Requests -> Tasks] /\ usable \in SUBSET Rels /\ active \in BOOLEAN
  BY DEF AccessInv, AccessTypeOK, RequestInv, TypeOK
<1>4. Admits(LiveScope) \in SUBSET (Chunks \cup Rels) /\ Closed(Admits(LiveScope))
  BY <1>3, AdmitsClosed
<1>5. TypeOK'
  <2>1. could' \in [Requests -> SUBSET Items]
    BY <1>1, <1>3, <1>4 DEF Items
  <2>2. known' \in [Requests -> BOOLEAN]
    BY <1>1, <1>3
  <2>3. task' \in [Requests -> Tasks]
    BY <1>2, <1>3 DEF Writes
  <2> QED BY <1>1, <2>1, <2>2, <2>3 DEF RequestInv, TypeOK, AccessInv, Labels
<1>6. \A q \in Requests \ {r} : Same(q)
  BY <1>1, <1>2, <1>3 DEF Same, Goto, Writes
<1>7. /\ pc'[r] = l /\ task'[r] = t /\ seen'[r] = {LiveScope} /\ could'[r] = Admits(LiveScope)
  BY <1>1, <1>2, <1>3 DEF Goto, Writes
<1>8. known'[r] = active
  BY <1>1, <1>3
<1>9. TaskOK(r)' /\ Delivered(r)'
  BY <1>2, <1>7 DEF TaskOK, Delivered
<1>10. CouldOK(r)'
  <2>1. \A s : Admits(s)' = Admits(s)
    BY <1>1 DEF Admits, VisibleDocs
  <2>2. l \notin Entered
    BY DEF Entered
  <2>3. \A s \in seen'[r] : Admits(s)' \subseteq could'[r]
    BY <1>7, <2>1
  <2> QED BY <1>1, <1>4, <1>7, <1>8, <2>2, <2>3 DEF CouldOK, Closed
<1> QED BY <1>1, <1>5, <1>6, <1>9, <1>10, RequestAlone

\* A request is given up: nothing goes out.
LEMMA AbortingStep ==
    ASSUME AccessInv, RequestInv, AccessInv', NEW r \in Requests, Abort(r)
    PROVE  RequestInv'
<1>1. /\ UNCHANGED <<seen, misled, docVars, could, known>>
      /\ UNCHANGED <<active, readers, served, usable>>
  BY DEF Abort, history, docVars, witnesses
<1>2. PICK code \in {400, 404, 500, 503} : Respond(r, code, {})
  BY DEF Abort, Failures
<1> DEFINE t == Answering(NoTask, code, {}, task[r].admin)
<1>3. code \in Codes /\ {} \in SUBSET Items
  BY DEF Codes
<1>0. task[r].admin \in Flags
  BY AdminTyped
<1>4. t \in Tasks /\ t.code = code /\ t.allowed = <<>>
  BY <1>0, <1>3, FreshTasks
<1>5. task' = [task EXCEPT ![r] = t] /\ Goto(r, "done")
  BY <1>2 DEF Respond, Answering
<1> HIDE DEF t
<1>6. pc \in [Requests -> Labels] /\ task \in [Requests -> Tasks]
  BY DEF AccessInv, RequestInv, TypeOK
<1>7. TypeOK'
  <2>1. task' \in [Requests -> Tasks]
    BY <1>4, <1>5, <1>6
  <2> QED BY <1>1, <2>1 DEF RequestInv, TypeOK, AccessInv, Labels
<1>8. \A q \in Requests \ {r} : Same(q)
  BY <1>1, <1>5, <1>6 DEF Same, Goto
<1>9. pc'[r] = "done" /\ task'[r] = t /\ "done" \notin Entered /\ t.code # 200
  BY <1>4, <1>5, <1>6 DEF Goto, Entered
<1>10. TaskOK(r)' /\ Delivered(r)'
  BY <1>4, <1>9 DEF TaskOK, Delivered
<1>11. CouldOK(r)'
  <2>1. CouldOK(r)
    BY DEF RequestInv
  <2> QED BY <1>1, <1>9, <2>1 DEF CouldOK, Waiting, Closed
<1> QED BY <1>1, <1>7, <1>8, <1>10, <1>11, RequestAlone

\* The lists are lists of items.
LEMMA ListTypes ==
    ASSUME NEW S, S \subseteq Items, NEW s, Distinct(s, S)
    PROVE  s \in Seq(Items) /\ ToSet(s) \in SUBSET S /\ ToSet(s) \in SUBSET Items
<1>1. s \in Seq(S)
  BY DEF Distinct
<1>2. s \in Seq(Items)
  BY <1>1, SeqMonotonic
<1> QED BY <1>1, <1>2, Members

\* Chunks and edges are items, and neither is a unit.
LEMMA ItemKinds ==
    /\ Chunks \subseteq Items /\ Rels \subseteq Items /\ Chunks \cup Rels \subseteq Items
    /\ (Chunks \cup Rels) \cap Units = {}
  BY RetrievalAssumption DEF Items

\* A step on that writes the lists.
LEMMA ListStep ==
    ASSUME AccessInv, RequestInv, AccessInv', NEW r \in Requests,
           pc[r] \in {"resolved", "gate", "edges", "edgegate", "build"}, Unwitnessed,
           NEW l \in {"gate", "edges", "edgegate", "build", "llm"}, Goto(r, l), UNCHANGED scope,
           NEW t \in Tasks, Writes(r, t), t.code = task[r].code,
           l = "gate" => t.allowed = <<>> /\ Distinct(t.found, Chunks),
           l = "edgegate" => t.found \in Seq(Rels),
           l \in {"edges", "edgegate"} => List(r, t.allowed, Chunks),
           l \in {"build", "llm"} => List(r, t.allowed, Chunks \cup Rels),
           l = "llm" => \E b \in Budgets : PromptOf(t.prompt, ToSet(t.allowed), b)
    PROVE  RequestInv'
<1>1. l \in Labels /\ l \notin {"idle", "lookup", "validate", "done"} /\ pc[r] \in Working
      /\ pc[r] \in Entered
  BY DEF Labels, Working, Entered
<1>2. pc[r] \notin {"idle", "done"}
  OBVIOUS
<1>3. Handles(r, l)
  BY <1>1, <1>2 DEF Handles
<1>4. pc'[r] = l /\ task'[r] = t /\ UNCHANGED <<misled, could>>
  BY StillHolds DEF Goto, AccessInv, RequestInv, TypeOK, Writes, Unwitnessed, witnesses
<1>5. TaskOK(r) /\ t.code = 0
  BY DEF RequestInv, TaskOK
<1>6. TaskOK(r)'
  BY <1>1, <1>4, <1>5 DEF TaskOK, List
<1>7. Delivered(r)'
  BY <1>4, <1>5 DEF Delivered
<1> QED BY <1>1, <1>3, <1>6, <1>7, HandlerAlone DEF Writes

\* Both searches: any list of candidates.
LEMMA SearchSteps ==
    ASSUME AccessInv, RequestInv, AccessInv', NEW r \in Requests, Search(r) \/ SearchEdges(r)
    PROVE  RequestInv'
<1>1. task[r] \in Tasks /\ task \in [Requests -> Tasks] /\ TaskOK(r)
  BY DEF RequestInv, TypeOK
<1>2. CASE Search(r)
  <2>1. PICK cs \in IF scope[r] = {} THEN {<<>>} ELSE Candidates :
            task' = [task EXCEPT ![r].found = cs]
    BY <1>2 DEF Search
  <2>2. Distinct(cs, Chunks)
    BY CandidatesDistinct, EmptyList
  <2> DEFINE t == Finding(task[r], cs)
  <2>3. cs \in Seq(Items)
    BY <2>2, ItemKinds, ListTypes
  <2>4. t \in Tasks /\ t.found = cs /\ t.code = task[r].code /\ t.allowed = task[r].allowed
    BY <1>1, <2>3, TaskFields
  <2>5. Writes(r, t)
    BY <1>1, <2>1 DEF Writes, Finding
  <2> HIDE DEF t
  <2>6. pc[r] = "resolved" /\ Goto(r, "gate") /\ UNCHANGED scope /\ Unwitnessed
    BY <1>2 DEF Search
  <2>7. t.allowed = <<>>
    BY <1>1, <2>4, <2>6 DEF TaskOK
  <2> QED BY <2>2, <2>4, <2>5, <2>6, <2>7, ListStep
<1>3. CASE SearchEdges(r)
  <2>1. PICK es \in EdgeCandidates : task' = [task EXCEPT ![r].found = es]
    BY <1>3 DEF SearchEdges
  <2>2. es \in Seq(Rels)
    BY EdgeCandidatesList
  <2> DEFINE t == Finding(task[r], es)
  <2>3. es \in Seq(Items)
    BY <2>2, ItemKinds, SeqMonotonic
  <2>4. t \in Tasks /\ t.found = es /\ t.code = task[r].code /\ t.allowed = task[r].allowed
    BY <1>1, <2>3, TaskFields
  <2>5. Writes(r, t)
    BY <1>1, <2>1 DEF Writes, Finding
  <2> HIDE DEF t
  <2>6. pc[r] \in {"edges", "resolved"} /\ Goto(r, "edgegate") /\ UNCHANGED scope /\ Unwitnessed
    BY <1>3 DEF SearchEdges
  <2>7. List(r, t.allowed, Chunks)
    <3>1. CASE pc[r] = "edges"
      BY <1>1, <2>4, <3>1 DEF TaskOK
    <3>2. CASE pc[r] = "resolved"
      <4>1. t.allowed = <<>>
        BY <1>1, <2>4, <3>2 DEF TaskOK
      <4> QED BY <4>1, EmptyList DEF List
    <3> QED BY <2>6, <3>1, <3>2
  <2> QED BY <2>2, <2>4, <2>5, <2>6, <2>7, ListStep
<1> QED BY <1>2, <1>3

\* What passes a gate, the request could read.
LEMMA PassReadable ==
    ASSUME AccessInv, RequestInv, NEW r \in Requests, pc[r] \in {"gate", "edgegate"},
           NEW S, NEW cs \in Seq(S), IsInjective(cs) \/ S \subseteq Rels
    PROVE  List(r, Pass(scope[r], cs), S)
<1>1. Distinct(Pass(scope[r], cs), S) /\ ToSet(Pass(scope[r], cs)) \subseteq Admits(scope[r])
  BY PassDistinct
<1>2. ~misled[r] => scope[r] \in seen[r]
  BY DEF AccessInv, ScopeWasLive
<1>3. ~Waiting(r) /\ CouldOK(r)
  BY DEF RequestInv, Waiting
<1>4. ~misled[r] => Admits(scope[r]) \subseteq could[r]
  BY <1>2, <1>3 DEF CouldOK
<1> QED BY <1>1, <1>4 DEF List

\* The evidence goes out, or to the ContextBuilder.
LEMMA EvidenceStep ==
    ASSUME AccessInv, RequestInv, AccessInv', NEW r \in Requests, pc[r] \in {"gate", "edgegate"},
           Unwitnessed, NEW es, List(r, es, Chunks \cup Rels), Evidence(r, es)
    PROVE  RequestInv'
<1>1. task[r] \in Tasks /\ task \in [Requests -> Tasks]
  BY DEF RequestInv, TypeOK
<1>2. Distinct(es, Chunks \cup Rels) /\ (~misled[r] => ToSet(es) \subseteq could[r])
  BY DEF List
<1>3. es \in Seq(Items) /\ ToSet(es) \in SUBSET (Chunks \cup Rels) /\ ToSet(es) \in SUBSET Items
  BY <1>2, ItemKinds, ListTypes
<1>4. CASE /\ task' = [task EXCEPT ![r].allowed = es, ![r].found = <<>>]
           /\ Goto(r, "build") /\ UNCHANGED scope
  <2> DEFINE t == Allowing(task[r], es)
  <2>1. t \in Tasks /\ t.code = task[r].code /\ t.allowed = es
    BY <1>1, <1>3, TaskFields
  <2>2. Writes(r, t)
    BY <1>1, <1>4 DEF Writes, Allowing
  <2> HIDE DEF t
  <2>3. List(r, t.allowed, Chunks \cup Rels)
    BY <2>1
  <2> QED BY <1>4, <2>1, <2>2, <2>3, ListStep
<1>5. CASE Respond(r, 200, ToSet(es))
  <2>1. known[r] /\ 200 \in Codes /\ pc[r] \notin {"idle", "done"}
    BY DEF RequestInv, CouldOK, Entered, Codes
  <2>2. ToSet(es) \cap Units = {} /\ ToSet(es) \ Units = ToSet(es)
    BY <1>3, ItemKinds
  <2> QED BY <1>2, <1>3, <1>5, <2>1, <2>2, ResponseStep
<1> QED BY <1>4, <1>5 DEF Evidence

\* The gates.
LEMMA GateSteps ==
    ASSUME AccessInv, RequestInv, AccessInv', NEW r \in Requests, Gate(r) \/ EdgeGate(r)
    PROVE  RequestInv'
<1>1. task[r] \in Tasks /\ task \in [Requests -> Tasks] /\ TaskOK(r)
  BY DEF RequestInv, TypeOK
<1>2. CASE Gate(r)
  <2> DEFINE cs == Pass(scope[r], task[r].found)
  <2>1. pc[r] = "gate" /\ Unwitnessed
    BY <1>2 DEF Gate
  <2>2. Distinct(task[r].found, Chunks)
    BY <1>1, <2>1 DEF TaskOK
  <2>3. List(r, cs, Chunks)
    BY <2>1, <2>2, PassReadable DEF Distinct
  <2>4. \/ /\ task' = [task EXCEPT ![r].allowed = cs, ![r].found = <<>>]
           /\ Goto(r, "edges") /\ UNCHANGED scope
        \/ Evidence(r, cs)
    BY <1>2 DEF Gate
  <2> HIDE DEF cs
  <2>5. CASE /\ task' = [task EXCEPT ![r].allowed = cs, ![r].found = <<>>]
             /\ Goto(r, "edges") /\ UNCHANGED scope
    <3> DEFINE t == Allowing(task[r], cs)
    <3>1. cs \in Seq(Items)
      BY <2>3, ItemKinds, ListTypes DEF List
    <3>2. t \in Tasks /\ t.code = task[r].code /\ t.allowed = cs
      BY <1>1, <3>1, TaskFields
    <3>3. Writes(r, t)
      BY <1>1, <2>5 DEF Writes, Allowing
    <3> HIDE DEF t
    <3>4. List(r, t.allowed, Chunks)
      BY <2>3, <3>2
    <3> QED BY <2>1, <2>5, <3>2, <3>3, <3>4, ListStep
  <2>6. CASE Evidence(r, cs)
    <3>1. List(r, cs, Chunks \cup Rels)
      <4>1. cs \in Seq(Chunks \cup Rels)
        BY <2>3, SeqMonotonic DEF List, Distinct
      <4> QED BY <2>3, <4>1 DEF List, Distinct
    <3> QED BY <2>1, <2>6, <3>1, EvidenceStep
  <2> QED BY <2>4, <2>5, <2>6
<1>3. CASE EdgeGate(r)
  <2> DEFINE es == Pass(scope[r], task[r].found)
             ms == MergeEvidence(task[r].allowed, es)
  <2>1. pc[r] = "edgegate" /\ Unwitnessed /\ Evidence(r, ms)
    BY <1>3 DEF EdgeGate
  <2>2. task[r].found \in Seq(Rels) /\ List(r, task[r].allowed, Chunks)
    BY <1>1, <2>1 DEF TaskOK
  <2>3. List(r, es, Rels)
    BY <2>1, <2>2, PassReadable
  <2> HIDE DEF es
  <2>4. Distinct(ms, Chunks \cup Rels) /\ ToSet(ms) \subseteq ToSet(task[r].allowed) \cup ToSet(es)
    BY <2>2, <2>3, MergeDistinct DEF List
  <2> HIDE DEF ms
  <2>5. List(r, ms, Chunks \cup Rels)
    BY <2>2, <2>3, <2>4 DEF List
  <2> QED BY <2>1, <2>5, EvidenceStep
<1> QED BY <1>2, <1>3

\* The prompt is built.
LEMMA BuildStep ==
    ASSUME AccessInv, RequestInv, AccessInv', NEW r \in Requests, Build(r)
    PROVE  RequestInv'
<1>1. task[r] \in Tasks /\ task \in [Requests -> Tasks] /\ TaskOK(r)
  BY DEF RequestInv, TypeOK
<1>2. pc[r] = "build" /\ Unwitnessed
  BY DEF Build
<1>3. CASE Respond(r, 400, {})
  <2>1. 400 \in Codes
    BY DEF Codes
  <2> QED BY <1>2, <1>3, <2>1, EmptyResponse
<1>4. CASE /\ \E b \in Budgets : task' = [task EXCEPT ![r].prompt = BuildContext(task[r].allowed, b)]
           /\ Goto(r, "llm") /\ UNCHANGED scope
  <2>1. PICK b \in Budgets : task' = [task EXCEPT ![r].prompt = BuildContext(task[r].allowed, b)]
    BY <1>4
  <2> DEFINE p == BuildContext(task[r].allowed, b)
             t == Prompting(task[r], p)
  <2>2. List(r, task[r].allowed, Chunks \cup Rels) /\ b \in Nat
    BY <1>1, <1>2, RetrievalAssumption DEF TaskOK
  <2>3. PromptOf(p, ToSet(task[r].allowed), b)
    BY <2>2, BuildsWhole DEF List
  <2>4. task' = [task EXCEPT ![r].prompt = p]
    BY <2>1
  <2> HIDE DEF p
  <2>5. p \in PromptType
    BY <2>3 DEF PromptOf
  <2>6. t \in Tasks /\ t.prompt = p /\ t.code = task[r].code /\ t.allowed = task[r].allowed
    BY <1>1, <2>5, TaskFields
  <2>7. Writes(r, t)
    BY <1>1, <2>4 DEF Writes, Prompting
  <2> HIDE DEF t
  <2>8. List(r, t.allowed, Chunks \cup Rels) /\ PromptOf(t.prompt, ToSet(t.allowed), b)
    BY <2>2, <2>3, <2>6
  <2> QED BY <1>2, <1>4, <2>6, <2>7, <2>8, ListStep
<1> QED BY <1>3, <1>4 DEF Build

\* The answer goes out with its citations.
LEMMA ChatStep ==
    ASSUME AccessInv, RequestInv, AccessInv', NEW r \in Requests, Chat(r)
    PROVE  RequestInv'
<1>1. pc[r] = "llm" /\ Unwitnessed /\ TaskOK(r) /\ CouldOK(r)
  BY DEF Chat, RequestInv
<1> DEFINE p == task[r].prompt
           S == ToSet(task[r].allowed)
           out == ToSet(p.srcs) \cup ToSet(p.rels)
<1>2. PICK b \in Budgets : PromptOf(p, S, b)
  BY <1>1 DEF TaskOK
<1>3. ~misled[r] => S \subseteq could[r]
  BY <1>1 DEF TaskOK, List
<1>4. Respond(r, 200, out)
  BY DEF Chat
<1> HIDE DEF p, S
<1>5. p.srcs \in Seq(Chunks) /\ p.rels \in Seq(Rels)
  BY <1>2 DEF PromptOf, PromptType
<1>6. ToSet(p.srcs) \in SUBSET Chunks /\ ToSet(p.rels) \in SUBSET Rels
  BY <1>5, Members
<1>7. /\ ToSet(p.rels) \subseteq S
      /\ \A c \in ToSet(p.srcs) :
            c \in S \/ \E e \in ToSet(p.rels) : c = EndsOf[e][1] \/ c = EndsOf[e][2]
  BY <1>2 DEF PromptOf, Uses
<1>8. ~misled[r] => out \subseteq could[r]
  BY <1>1, <1>3, <1>6, <1>7 DEF CouldOK, Closed
<1>9. out \in SUBSET Items /\ out \cap Units = {} /\ out \ Units = out
  BY <1>6, ItemKinds
<1>10. known[r] /\ 200 \in Codes /\ pc[r] \notin {"idle", "done"}
  BY <1>1 DEF CouldOK, Entered, Codes
<1> HIDE DEF out
<1> QED BY <1>1, <1>4, <1>8, <1>9, <1>10, ResponseStep

-----------------------------------------------------------------------------
(* The theorems                                                            *)

AnswerInv == AccessInv /\ RequestInv

\* The initial states.
LEMMA AnswersStart ==
    ASSUME Init
    PROVE  AnswerInv
<1>1. AccessInv
  BY AccessStarts DEF Init
<1>2. /\ active = TRUE /\ readers \in [Docs -> SUBSET Units]
      /\ served \in SUBSET Docs /\ usable \in SUBSET Rels
      /\ task = [r \in Requests |-> NoTask] /\ could = [r \in Requests |-> {}]
      /\ known = [r \in Requests |-> FALSE] /\ pc = [r \in Requests |-> "idle"]
  BY DEF Init, AccessInit
<1>3. known \in [Requests -> BOOLEAN] /\ active \in BOOLEAN
  BY <1>2, Zenon
<1>4. TypeOK
  BY <1>1, <1>2, <1>3, NoTaskTypes DEF TypeOK, AccessInv, Labels
<1>5. ASSUME NEW r \in Requests PROVE CouldOK(r) /\ TaskOK(r) /\ Delivered(r)
  <2>1. pc[r] = "idle" /\ could[r] = {} /\ task[r].code = 0 /\ task[r].allowed = <<>>
    BY <1>2, NoTaskTypes
  <2> QED BY <2>1 DEF CouldOK, TaskOK, Delivered, Waiting, Closed, Entered
<1> QED BY <1>1, <1>4, <1>5 DEF AnswerInv, RequestInv

\* The invariant is inductive.
LEMMA AnswersKept ==
    ASSUME AnswerInv, [Next]_vars
    PROVE  AnswerInv'
<1>1. AccessInv /\ RequestInv /\ AccessInv'
  BY AccessKept DEF AnswerInv
<1> SUFFICES RequestInv'
  BY <1>1 DEF AnswerInv
<1>2. ASSUME NEW r \in Requests, Receive(r) \/ RequestStep(r) \/ Abort(r) PROVE RequestInv'
  BY <1>1, <1>2, RequestCases, ReceivingStep, AbortingStep, EarlySteps, OrgGetStep, ParseStep,
     ResolvingStep, SearchSteps, GateSteps, BuildStep, ChatStep
<1>3. CASE UNCHANGED vars
  <2>1. UNCHANGED <<pc, seen, misled, active, readers, served, usable, task, could, known>>
    BY <1>3 DEF vars, accessVars, history, docVars, witnesses
  <2>2. \A s : Admits(s)' = Admits(s)
    BY <2>1 DEF Admits, VisibleDocs
  <2>3. TypeOK'
    BY <1>1, <2>1 DEF RequestInv, TypeOK, AccessInv, Labels
  <2>4. ASSUME NEW r \in Requests PROVE CouldOK(r)' /\ TaskOK(r)' /\ Delivered(r)'
    <3>1. CouldOK(r) /\ TaskOK(r) /\ Delivered(r)
      BY <1>1 DEF RequestInv
    <3> QED BY <2>1, <2>2, <3>1 DEF CouldOK, TaskOK, Delivered, Waiting, Closed, List
  <2>5. (\A r \in Requests : CouldOK(r) /\ TaskOK(r) /\ Delivered(r))'
    BY <2>4
  <2> QED BY <2>3, <2>5 DEF RequestInv
<1>4. CASE Next
  <2>1. CASE \/ Environment /\ UNCHANGED <<docVars, task>> /\ NoteVisible
             \/ \E d \in Docs, us \in SUBSET Units : EditGrants(d, us)
             \/ \E d \in Docs : EditDocument(d)
             \/ \E e \in Rels : EditEdge(e)
             \/ EditUser
    BY <1>1, <2>1, WorldKeeps
  <2> QED BY <1>2, <1>4, <2>1 DEF Next
<1> QED BY <1>3, <1>4

\* The invariant holds in every state of every behaviour.
LEMMA AnswersInvariant == Spec => []AnswerInv
<1>1. Init => AnswerInv
  BY AnswersStart
<1>2. AnswerInv /\ [Next]_vars => AnswerInv'
  BY AnswersKept
<1> QED BY <1>1, <1>2, PTL DEF Spec

\* The variables of the resolver, of the documents and of the requests keep
\* their types.
THEOREM RequestsTypeCorrect == Spec => []TypeOK
<1>1. AnswerInv => TypeOK
  BY DEF AnswerInv, RequestInv
<1> QED BY <1>1, AnswersInvariant, PTL

\* Query, evidence, answer and org_get: whatever the index returns, however
\* stale the cached scope, and whatever is edited while the request runs, what
\* it hands out its user could read while it ran, the endpoints of every
\* relationship too.
THEOREM OnlyReadableEverDelivered == Spec => []OnlyReadableDelivered
<1>1. AnswerInv => OnlyReadableDelivered
  BY RequestInvGives DEF AnswerInv
<1> QED BY <1>1, AnswersInvariant, PTL

\* ContextBuilder::build: the prompt that goes to the model is whole, for any
\* evidence and any budget.
THEOREM ContextAlwaysWhole == Spec => []ContextWhole
<1>1. AnswerInv => ContextWhole
  BY RequestInvGives DEF AnswerInv
<1> QED BY <1>1, AnswersInvariant, PTL
=============================================================================
