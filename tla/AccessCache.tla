---------------------------- MODULE AccessCache -----------------------------
(***************************************************************************)
(* The scope of a reader and its cache: the transactions that edit         *)
(* memberships, groups and the tree, with the triggers of V032 that advance*)
(* companies.acl_epoch and users.scope_epoch; the resolver that computes a *)
(* scope in one statement, and the cache in Redis in front of it           *)
(* (src/src/access_resolver.cpp).                                          *)
(*                                                                         *)
(* One user, who may be a member of one group, asks for the subtree of     *)
(* Asked.  A transaction is open from its statement to its commit; the     *)
(* trigger works on what its statement sees.  Every co_await and every call*)
(* to Redis of a request is a step of its own.                             *)
(***************************************************************************)
EXTENDS Naturals

CONSTANTS
    Units,          \* org units of the company
    Asked,          \* scope_org_unit_id of the requests
    Rows,           \* what a membership may say: [until, deep]
    Closures,       \* the trees, as sets of <<ancestor, descendant>>
    Writers,        \* database sessions that edit memberships and the tree
    Requests,       \* calls of CachedAccessResolver::resolve
    Ttl,            \* kDefaultTtl
    MaxTime,        \* bound: the clock
    MaxChanges,     \* bound: transactions in a behaviour
    MaxFaults       \* bound: failures of Redis and Postgres in a behaviour

\* No membership; expires_at IS NULL is an expiry no clock reaches.
NoRow == [until |-> 0, deep |-> FALSE]
Never == MaxTime + 1

ASSUME ConstantsAssumption ==
    /\ Asked \in Units
    /\ Rows \subseteq [until: 1..(MaxTime + 1), deep: BOOLEAN]
    /\ Closures \subseteq SUBSET (Units \X Units)
    /\ \A c \in Closures, u \in Units : <<u, u>> \in c
    /\ Ttl \in Nat \ {0}
    /\ MaxTime \in Nat
    /\ MaxChanges \in Nat
    /\ MaxFaults \in Nat

VARIABLES
    \* committed state: memberships of the user and of the group, the user's
    \* row in group_members, the closure, the two epochs
    rows, ingroup, closure, acl_epoch, scope_epoch,
    \* open transactions, and the time
    tx, clock,
    \* the entry lr:eff:<company>:<user>:<unit>
    entry,
    \* a request: program counter, `now`, its copy of the entry, its scope
    pc, now, dto, scope,
    \* what the properties need: the live scopes since a request began; a
    \* change of the scope that advanced no epoch, since the last that did;
    \* a request that validated against such epochs; bounds
    seen, missed, misled, changes, faults

dbVars   == <<rows, ingroup, closure, acl_epoch, scope_epoch>>
scopeVars == <<now, dto, scope>>
history  == <<seen, missed, misled>>
accessVars == <<dbVars, tx, clock, entry, pc, scopeVars, history, changes, faults>>

Principals == {"user", "group"}
RowValues  == Rows \cup {NoRow}

\* AccessService::effective_read_orgs and the scope CTE of the resolver: the
\* memberships that count, expanded by the closure, below the asked unit.
LiveRows == {p \in Principals \X Units :
                 /\ p[1] = "user" \/ ingroup
                 /\ rows[p[1]][p[2]].until > clock}
LiveScope == {d \in Units :
                  /\ <<Asked, d>> \in closure
                  /\ \E p \in LiveRows :
                        \/ p[2] = d
                        \/ rows[p[1]][p[2]].deep /\ <<p[2], d>> \in closure}

\* Mutant: the expiry of the memberships does not limit the entry.
CacheUntilTtl == clock + Ttl

\* cache_until: the TTL, cut at the first expiry of the memberships.
CacheUntil ==
    LET ends == {rows[p[1]][p[2]].until : p \in LiveRows} \cup {clock + Ttl}
    IN  CHOOSE t \in ends : \A e \in ends : t <= e

\* One statement reads scope and epochs in one snapshot.
Snapshot == [scope |-> LiveScope, acl |-> acl_epoch, usr |-> scope_epoch,
             until |-> CacheUntil]
NoEntry == [scope |-> {}, acl |-> 0, usr |-> 0, until |-> 0]
Entries == [scope: SUBSET Units, acl: Nat, usr: Nat, until: Nat]

-----------------------------------------------------------------------------
(* Transactions                                                            *)

\* op: what is written ("row", "member" or "tree"); scopebump, treebump: the
\* counters the triggers advance.
NoTx == [op |-> "none"]
Txs ==
    [op: {"row"}, who: Principals, unit: Units, row: RowValues,
     scopebump: BOOLEAN, treebump: {FALSE}]
    \cup [op: {"member"}, in: BOOLEAN, scopebump: {TRUE}, treebump: {FALSE}]
    \cup [op: {"tree"}, closure: Closures, scopebump: {FALSE}, treebump: {TRUE}]
    \cup {NoTx}

\* Two transactions collide on the row both write: the membership, the group
\* member, the user whose epoch advances, the company.
Collide(a, b) ==
    /\ a # NoTx /\ b # NoTx
    /\ \/ a.scopebump /\ b.scopebump
       \/ a.treebump /\ b.treebump
       \/ a.op = "row" /\ b.op = "row" /\ a.who = b.who /\ a.unit = b.unit

\* A statement that meets a locked row waits.  (The code decides whom to bump
\* before it waits for the user's row, the model after it: a bump too many.)
Open(w, t) ==
    /\ tx[w] = NoTx
    /\ changes < MaxChanges
    /\ \A v \in Writers : ~Collide(tx[v], t)
    /\ tx' = [tx EXCEPT ![w] = t]
    /\ changes' = changes + 1
    /\ UNCHANGED <<dbVars, clock, entry, pc, scopeVars, history, faults>>

\* wikore_bump_membership_principal(): the user, or the members of the group
\* that the statement sees.
BumpsUser(who) == who = "user" \/ ingroup

\* INSERT, UPDATE or DELETE of a membership.
EditMembership(w, who, u, row) ==
    /\ row # rows[who][u]
    /\ Open(w, [op |-> "row", who |-> who, unit |-> u, row |-> row,
                scopebump |-> BumpsUser(who), treebump |-> FALSE])

\* INSERT or DELETE of the user's row in group_members.
EditGroup(w) ==
    Open(w, [op |-> "member", in |-> ~ingroup, scopebump |-> TRUE, treebump |-> FALSE])

\* An org unit is moved; with the closure unchanged, one that nobody here is a
\* member of is created or deleted, or the operator's break-glass call
\* wikore_bump_company_acl_epoch() is made.
EditTree(w, c) ==
    Open(w, [op |-> "tree", closure |-> c, scopebump |-> FALSE, treebump |-> TRUE])

\* A request under way has seen the scope that is live now.
Witness ==
    seen' = [r \in Requests |->
        IF pc[r] \in {"idle", "done"} THEN seen[r] ELSE seen[r] \cup {LiveScope'}]

Commit(w) ==
    LET t == tx[w] IN
    /\ t # NoTx
    /\ rows' = IF t.op = "row" THEN [rows EXCEPT ![t.who][t.unit] = t.row] ELSE rows
    /\ ingroup' = IF t.op = "member" THEN t.in ELSE ingroup
    /\ closure' = IF t.op = "tree" THEN t.closure ELSE closure
    /\ scope_epoch' = IF t.scopebump THEN scope_epoch + 1 ELSE scope_epoch
    /\ acl_epoch' = IF t.treebump THEN acl_epoch + 1 ELSE acl_epoch
    /\ missed' = /\ ~t.scopebump
                 /\ ~t.treebump
                 /\ missed \/ (t.op = "row" /\ t.who = "group" /\ ingroup)
    /\ tx' = [tx EXCEPT ![w] = NoTx]
    /\ UNCHANGED <<clock, entry, pc, scopeVars, misled, changes, faults>>
    /\ Witness

Rollback(w) ==
    /\ tx[w] # NoTx
    /\ tx' = [tx EXCEPT ![w] = NoTx]
    /\ UNCHANGED <<dbVars, clock, entry, pc, scopeVars, history, changes, faults>>

Tick ==
    /\ clock < MaxTime
    /\ clock' = clock + 1
    /\ UNCHANGED <<dbVars, tx, entry, pc, scopeVars, missed, misled, changes, faults>>
    /\ Witness

\* The entry goes: its TTL in Redis, an eviction, a restart.
EntryLost ==
    /\ entry # NoEntry
    /\ entry' = NoEntry
    /\ UNCHANGED <<dbVars, tx, clock, pc, scopeVars, history, changes, faults>>

-----------------------------------------------------------------------------
(* CachedAccessResolver::resolve                                           *)

Fault == faults < MaxFaults /\ faults' = faults + 1
Goto(r, l) == pc' = [pc EXCEPT ![r] = l]

\* system_clock::now(), before the entry is read.  `from` is where the caller
\* stands, and the request has seen what is live now.
BeginResolve(r, from) ==
    /\ pc[r] = from
    /\ now' = [now EXCEPT ![r] = clock]
    /\ Goto(r, "lookup")
    /\ UNCHANGED <<dbVars, tx, clock, entry, dto, scope, changes, faults>>

\* Redis::get: nothing, too, when Redis does not answer.
RedisGet(value) ==
    \/ value = entry /\ UNCHANGED faults
    \/ value = NoEntry /\ Fault

\* Redis::set; a failure is noticed by nobody.
RedisSet(value) ==
    \/ entry' = value /\ UNCHANGED faults
    \/ UNCHANGED entry /\ Fault

\* The entry, and the test of cache_until.
Lookup(r) ==
    /\ pc[r] = "lookup"
    /\ \E value \in {entry, NoEntry} :
          /\ RedisGet(value)
          /\ IF value # NoEntry /\ now[r] < value.until
             THEN dto' = [dto EXCEPT ![r] = value] /\ Goto(r, "validate")
             ELSE UNCHANGED dto /\ Goto(r, "resolve")
    /\ UNCHANGED <<dbVars, tx, clock, entry, now, scope, history, changes>>

\* Mutant: an entry is trusted until it expires.
EpochsAny(d) == TRUE

\* The stamp against the live epochs.
EpochsMatch(d) == d.acl = acl_epoch /\ d.usr = scope_epoch

\* The epochs are read and compared; an error falls through to the resolver.
Validate(r) ==
    /\ pc[r] = "validate"
    /\ \/ /\ EpochsMatch(dto[r])
          /\ scope' = [scope EXCEPT ![r] = dto[r].scope]
          /\ misled' = [misled EXCEPT ![r] = missed]
          /\ now' = [now EXCEPT ![r] = 0]
          /\ Goto(r, "resolved")
          /\ UNCHANGED faults
       \/ /\ ~EpochsMatch(dto[r])
          /\ Goto(r, "resolve")
          /\ UNCHANGED <<now, scope, misled, faults>>
       \/ /\ Fault
          /\ Goto(r, "resolve")
          /\ UNCHANGED <<now, scope, misled>>
    /\ dto' = [dto EXCEPT ![r] = NoEntry]
    /\ UNCHANGED <<dbVars, tx, clock, entry, seen, missed, changes>>

\* PostgresAccessResolver::resolve(): one statement.
Resolve(r) ==
    /\ pc[r] = "resolve"
    /\ dto' = [dto EXCEPT ![r] = Snapshot]
    /\ scope' = [scope EXCEPT ![r] = LiveScope]
    /\ Goto(r, "store")
    /\ UNCHANGED <<dbVars, tx, clock, entry, now, history, changes, faults>>

\* The answer is stored for the rest of its lifetime, measured from `now`.
Store(r) ==
    /\ pc[r] = "store"
    /\ IF dto[r].until > now[r] THEN RedisSet(dto[r])
       ELSE UNCHANGED <<entry, faults>>
    /\ now' = [now EXCEPT ![r] = 0]
    /\ dto' = [dto EXCEPT ![r] = NoEntry]
    /\ Goto(r, "resolved")
    /\ UNCHANGED <<dbVars, tx, clock, scope, history, changes>>

ResolveStep(r) == Lookup(r) \/ Validate(r) \/ Resolve(r) \/ Store(r)

Environment ==
    \/ \E w \in Writers :
        \/ \E p \in Principals, u \in Units, row \in RowValues :
               EditMembership(w, p, u, row)
        \/ EditGroup(w)
        \/ \E c \in Closures : EditTree(w, c)
        \/ Commit(w) \/ Rollback(w)
    \/ Tick
    \/ EntryLost

AccessTypeOK ==
    /\ rows \in [Principals -> [Units -> RowValues]]
    /\ ingroup \in BOOLEAN
    /\ closure \in Closures
    /\ acl_epoch \in Nat /\ scope_epoch \in Nat
    /\ tx \in [Writers -> Txs]
    /\ clock \in 0..MaxTime
    /\ entry \in Entries
    /\ now \in [Requests -> 0..MaxTime]
    /\ dto \in [Requests -> Entries]
    /\ scope \in [Requests -> SUBSET Units]
    /\ seen \in [Requests -> SUBSET SUBSET Units]
    /\ missed \in BOOLEAN
    /\ misled \in [Requests -> BOOLEAN]
    /\ changes \in 0..MaxChanges
    /\ faults \in 0..MaxFaults

AccessInit ==
    /\ rows \in [Principals -> [Units -> RowValues]]
    /\ ingroup \in BOOLEAN
    /\ closure \in Closures
    /\ acl_epoch = 0 /\ scope_epoch = 0
    /\ tx = [w \in Writers |-> NoTx]
    /\ clock = 0
    /\ entry \in {NoEntry, Snapshot}
    /\ pc = [r \in Requests |-> "idle"]
    /\ now = [r \in Requests |-> 0]
    /\ dto = [r \in Requests |-> NoEntry]
    /\ scope = [r \in Requests |-> {}]
    /\ seen = [r \in Requests |-> {}]
    /\ missed = FALSE
    /\ misled = [r \in Requests |-> FALSE]
    /\ changes = 0
    /\ faults = 0

-----------------------------------------------------------------------------
(* The resolver by itself: a request is one call.                          *)

Begin(r) ==
    /\ BeginResolve(r, "idle")
    /\ seen' = [seen EXCEPT ![r] = {LiveScope}]
    /\ UNCHANGED <<missed, misled>>

AccessNext ==
    \/ Environment
    \/ \E r \in Requests : Begin(r) \/ ResolveStep(r)

AccessSpec == AccessInit /\ [][AccessNext]_accessVars

-----------------------------------------------------------------------------
(* Properties                                                              *)

\* What the cache is for: an entry whose stamp is current and whose lifetime
\* is not over is the scope that is live, unless a change of a group's
\* memberships advanced no epoch (missed), which access_race reports.
CachedScopeCurrent ==
    entry # NoEntry /\ EpochsMatch(entry) /\ clock < entry.until /\ ~missed
        => entry.scope = LiveScope

\* The scope a request works with, from the cache or not, was the user's
\* scope at some moment since the request began.  Excepted is a request that
\* trusted an entry while such a change was missed (misled).
ScopeWasLive ==
    \A r \in Requests :
        pc[r] \in {"store", "resolved", "gate", "edges", "edgegate", "build", "llm"}
            /\ ~misled[r] => scope[r] \in seen[r]

\* access_resolver.hpp: "a stale entry is detected even if its lr:eff
\* invalidation was lost".
StaleEntryDetected ==
    entry # NoEntry /\ EpochsMatch(entry) /\ clock < entry.until
        => entry.scope = LiveScope
=============================================================================
