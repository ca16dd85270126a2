---------------------------- MODULE TreeReaders -----------------------------
(***************************************************************************)
(* What is read from the organisation tree while OrgTree's transactions    *)
(* change it: the chart of GET /api/orgs/tree (src/apps/api/orgs_tree.cpp),*)
(* the units and roles a user has (src/src/access.cpp), the units a        *)
(* document's chunks are stored with                                       *)
(* (src/src/ingest/document_repo.cpp) and the documents a scope may read   *)
(* (V038).                                                                 *)
(*                                                                         *)
(* Each reads one snapshot, a single statement or one REPEATABLE READ      *)
(* transaction, and writes nothing: it is a function of the tables as they *)
(* are committed at some moment.  Memberships and grants that have expired *)
(* are skipped by all of them and are left out.                            *)
(***************************************************************************)
EXTENDS OrgTree, Sequences

CONSTANTS
    MaxDepth,   \* kMaxDepth of the chart
    MaxNodes    \* kMaxNodes of the chart

ASSUME ReadersAssumption == MaxDepth \in Nat /\ MaxNodes \in Nat

Roles == {"viewer", "editor", "admin"}

\* A user's membership, its own or a group's: of one unit alone, or of all
\* that is below it as well.
Memberships == [unit : Units, below : BOOLEAN, role : Roles]

\* A grant on a unit (alone, or with all below) or on the document itself
\* (NoUnit), to a principal (alone, or with all below).
Grants == [resource : Units \cup {NoUnit}, below : BOOLEAN,
           principal : Units, deep : BOOLEAN]

-----------------------------------------------------------------------------
(* Access                                                                  *)

\* The rows a membership stands on: all below its unit, or the unit.
Applies(m, r) == r.anc = m.unit /\ (m.below \/ r.depth = 0)

\* AccessService::effective_read_orgs, the scope of the resolver as well: the
\* units of the memberships, as far as they are below the unit asked for.
EffectiveReadOrgs(ms, asked) ==
    {u \in Units : /\ \E m \in ms, r \in closure : Applies(m, r) /\ r.desc = u
                   /\ \E r \in closure : r.anc = asked /\ r.desc = u}

AtLeast(role) ==
    CASE role = "viewer" -> Roles
      [] role = "editor" -> {"editor", "admin"}
      [] role = "admin"  -> {"admin"}

\* AccessService::has_role.
HasRole(ms, u, required) ==
    \E m \in ms, r \in closure :
        Applies(m, r) /\ r.desc = u /\ m.role \in AtLeast(required)

\* The grant is one on the document, or on a unit that covers its owner.
Covers(g, owner) ==
    \/ g.resource = NoUnit
    \/ \E r \in closure : /\ r.anc = g.resource /\ r.desc = owner
                          /\ g.below \/ r.depth = 0

\* Mutant: the units below the principal are not stored.
PrincipalsShallow(g) == {g.principal}

\* The units a grant lets in: expanded downwards when it is stored.
Principals(g) ==
    IF g.deep THEN {r.desc : r \in {q \in closure : q.anc = g.principal}}
    ELSE {g.principal}

\* DocumentRepo::fetch_access_scopes: what the chunks of a document are
\* stored with, for the filter of the vector search.
FetchAccessScopes(owner, gs) ==
    {owner} \cup UNION {Principals(g) : g \in {h \in gs : Covers(h, owner)}}

\* reader_grant_keys: the scope, and everything above it.
GrantKeys(scope) == scope \cup {r.anc : r \in {q \in closure : q.desc \in scope}}

\* wikore_visible_doc_ids(), on one document: the evidence gates ask it at
\* query time, and it looks upwards from the reader.
VisibleDoc(owner, gs, scope) ==
    \/ owner \in scope
    \/ \E g \in gs : /\ Covers(g, owner)
                     /\ g.principal \in IF g.deep THEN GrantKeys(scope) ELSE scope

-----------------------------------------------------------------------------
(* GET /api/orgs/tree                                                      *)

\* What a transaction that only reads may meet: the client's timeout, a
\* statement_timeout, a conflict, and the rest.
DbErrors == {"timeout", "query_canceled", "serialization_failure", "deadlock",
             "other"}

\* The caller, and the error the transaction meets, if any.
Callers == [active : BOOLEAN, admin : BOOLEAN, ms : SUBSET Memberships,
            db : DbErrors \cup {"ok"}]

\* map_db_exception(): constraints and casts aside.
MapDbException(db) ==
    CASE db \in {"timeout", "query_canceled"}            -> "ServiceUnavailable"
      [] db \in {"serialization_failure", "deadlock"}    -> "Conflict"
      [] db = "other"                                    -> "DatabaseError"

\* status_for(): nothing of the caller's making.
StatusFor(kind) == IF kind = "ServiceUnavailable" THEN 503 ELSE 500

\* The rows that are kept.
Shown(who) == IF who.admin THEN Existing
              ELSE Existing \cap EffectiveReadOrgs(who.ms, Root)

Kids(shown, u) == {c \in shown : parent[c] = u}

\* Mutant: a forest starts at units without a parent.
ForestRootsParentless(shown) == {u \in shown : parent[u] = NoUnit}

\* No parent, or one that is not shown.
ForestRoots(shown) == {u \in shown : parent[u] \notin shown}

\* The forest build() makes, as the paths to its nodes: it descends to
\* MaxDepth and no further.
Forest(shown) ==
    LET level[d \in 0..MaxDepth] ==
          IF d = 0 THEN {<<u>> : u \in ForestRoots(shown)}
          ELSE UNION {{Append(path, c) : c \in Kids(shown, path[Len(path)])} :
                         path \in level[d - 1]}
    IN  UNION {level[d] : d \in 0..MaxDepth}

TooDeep(shown) ==
    \E path \in Forest(shown) :
        Len(path) = MaxDepth + 1 /\ Kids(shown, path[Len(path)]) # {}

\* The whole handler: the account and the number of units, the scope, the
\* forest.
OrgsTree(who) ==
    IF who.db # "ok" THEN [status |-> StatusFor(MapDbException(who.db)), forest |-> {}]
    ELSE IF ~who.active THEN [status |-> 403, forest |-> {}]
    ELSE IF Cardinality(Existing) > MaxNodes THEN [status |-> 500, forest |-> {}]
    ELSE IF TooDeep(Shown(who)) THEN [status |-> 500, forest |-> {}]
    ELSE [status |-> 200, forest |-> Forest(Shown(who))]

-----------------------------------------------------------------------------
(* Properties, on the committed tables.  TLC evaluates them between        *)
(* transactions only: any transaction may abort, so every state of the     *)
(* tables is seen there.                                                   *)

Quiet == \A t \in Txs : pc[t] = "idle"

\* The filter of the vector search and the gates decide alike.
Agree(owner, gs, scope) ==
    FetchAccessScopes(owner, gs) \cap scope # {} <=> VisibleDoc(owner, gs, scope)

\* "SET-ALGEBRA CONTRACT" (document_repo.cpp, access.cpp): the units stored
\* with the chunks, which expand every grant downwards, meet a reader's scope
\* exactly when wikore_visible_doc_ids(), which looks upwards from the reader,
\* lets the document through; a search loses no document the gates would
\* admit.  (More grants only add up.)
ScopesAgree ==
    Quiet => \A owner \in Existing, g \in Grants, scope \in SUBSET Existing :
                 Agree(owner, {}, scope) /\ Agree(owner, {g}, scope)

\* has_role() and effective_read_orgs(), two queries, on one membership.
RolesAgree(m) ==
    \A u \in Units : u \in EffectiveReadOrgs({m}, Root) <=> HasRole({m}, u, "viewer")

\* The units a caller reaches by parent_id.
Reach(who) ==
    {u \in Existing :
        \/ who.admin
        \/ \E m \in who.ms : m.unit \in Existing /\
              (u = m.unit \/ (m.below /\ u \in Tree!Subtree(m.unit)))}

\* Callers whose memberships are a viewer's, and an error of each kind.
Viewers == {[active |-> a, admin |-> b, ms |-> ms, db |-> db] :
               a \in BOOLEAN, b \in BOOLEAN, db \in {"ok", "timeout", "deadlock"},
               ms \in SUBSET {m \in Memberships : m.role = "viewer"}}

\* The chart of organisations is never "a silently truncated tree presented as
\* complete" (orgs_tree.cpp): an answer that is not an error has every unit
\* the caller's memberships reach by parent_id, each in one place, below its
\* parent or at the top where that is out of reach, and no unit more; and the
\* units of the chart are those has_role() lets the caller view.
ForestWhole ==
    Quiet =>
      /\ \A m \in Memberships : RolesAgree(m)
      /\ \A who \in Viewers :
            LET answer  == OrgsTree(who)
                places(u) == {path \in answer.forest : path[Len(path)] = u}
            IN  answer.status = 200 =>
                    /\ {path[Len(path)] : path \in answer.forest} = Reach(who)
                    /\ \A u \in Reach(who) : \E path \in answer.forest :
                          /\ places(u) = {path}
                          /\ IF Len(path) = 1 THEN parent[u] \notin Reach(who)
                             ELSE parent[u] = path[Len(path) - 1]
=============================================================================
