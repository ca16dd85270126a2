----------------------------- MODULE Retrieval ------------------------------
(***************************************************************************)
(* A request to the API from its arrival to its answer: the AuthFilter     *)
(* (src/src/auth.cpp), the handlers wiki_query, wiki_evidence,             *)
(* wiki_answer, org_get and me (src/apps/api), the RetrievalOrchestrator,  *)
(* the two evidence gates, the ContextBuilder and the AnswerUseCase        *)
(* (src/src/rag), composed with the resolver of AccessCache and with the   *)
(* edits of documents, grants and edges that go on meanwhile.              *)
(*                                                                         *)
(* Qdrant's answer is external: any candidates in any order, because its   *)
(* payload may be stale (VectorSync and EdgeIndex show how).  The gates    *)
(* read Postgres in one statement each.  The deadline of a request may     *)
(* pass before any of its steps.                                           *)
(***************************************************************************)
EXTENDS AccessCache, Sequences, SequencesExt

CONSTANTS
    Docs,           \* documents of the company
    Chunks,         \* chunks of their current versions
    Rels,           \* knowledge edges
    DocOf,          \* the document of a chunk
    EndsOf,         \* the two endpoint chunks of an edge
    EdgePoints,     \* points of an edge in the one collection of edges: one
                    \* for each model and formula
    Intents,        \* RetrievalIntent: "fact", "bridge", "automatic"
    Limit,          \* limit of a request
    MaxItems,       \* ContextBuilderOptions::max_evidence_items
    ChunkCost,      \* size of a [SRC] block
    RelCost,        \* size of a [REL] block
    Budgets         \* what system prompt and question leave for evidence

ASSUME RetrievalAssumption ==
    /\ IsFiniteSet(Chunks) /\ IsFiniteSet(Rels)
    /\ DocOf \in [Chunks -> Docs]
    /\ EndsOf \in [Rels -> Chunks \X Chunks]
    /\ EdgePoints \in Nat
    /\ Chunks \cap Rels = {} /\ (Chunks \cup Rels) \cap Units = {}
    /\ Intents \subseteq {"fact", "bridge", "automatic"}
    /\ Limit \in Nat \ {0}
    /\ MaxItems \in Nat
    /\ ChunkCost \in Nat /\ RelCost \in Nat /\ Budgets \subseteq Nat

VARIABLES
    \* users.deactivated_at IS NULL; the units each document is granted to;
    \* documents whose version is active and within the user's clearance;
    \* edges in an allowed review state, not expired and not superseded
    active, readers, served, usable,
    \* a request: Identity::is_admin, whether it is for an answer, its intent,
    \* candidates of a search, allowed evidence, prompt, and in the end the
    \* response
    task,
    \* what the properties need: items a scope seen by the request could read
    \* at some moment since; whether the user was active at some moment
    could, known

docVars   == <<active, readers, served, usable>>
witnesses == <<could, known>>
vars == <<accessVars, docVars, task, witnesses>>

Items == Chunks \cup Rels \cup Units

\* wikore_visible_doc_ids(): the documents a scope may read.
VisibleDocs(s) == {d \in Docs : readers[d] \cap s # {}}

\* Mutant: an endpoint is enough.
AdmitsOneEnd(s) ==
    {c \in Chunks : DocOf[c] \in served \cap VisibleDocs(s)}
    \cup {e \in usable : \E i \in {1, 2} : DocOf[EndsOf[e][i]] \in served \cap VisibleDocs(s)}

\* The two gate statements: the chunks of the documents that are served and
\* visible, the edges both of whose endpoints are such chunks.
Admits(s) ==
    {c \in Chunks : DocOf[c] \in served \cap VisibleDocs(s)}
    \cup {e \in usable : \A i \in {1, 2} : DocOf[EndsOf[e][i]] \in served \cap VisibleDocs(s)}

\* What Qdrant may answer, any of them in any order.  A collection of chunks has
\* one model (embedding_models.qdrant_collection is unique) and so a point for
\* each chunk; that of the edges is shared by the models, and an edge may come
\* back once for each of its points.
Candidates == {cs \in SeqOf(Chunks, Cardinality(Chunks)) : IsInjective(cs)}
EdgeCandidates == SeqOf(Rels, EdgePoints * Cardinality(Rels))

NoPrompt == [srcs |-> <<>>, rels |-> <<>>, used |-> 0, size |-> 0]
NoTask   == [admin |-> FALSE, answers |-> FALSE, intent |-> "fact", found |-> <<>>, allowed |-> <<>>,
             prompt |-> NoPrompt, code |-> 0, items |-> {}]
Tasks    == [admin: BOOLEAN, answers: BOOLEAN, intent: {"fact", "bridge", "automatic"}, found: Seq(Items),
             allowed: Seq(Items),
             prompt: [srcs: Seq(Chunks), rels: Seq(Rels), used: Nat, size: Nat],
             code: {0, 200, 400, 401, 403, 404, 500, 503}, items: SUBSET Items]

-----------------------------------------------------------------------------
(* Pure parts                                                              *)

Truncate(s) == SubSeq(s, 1, IF Len(s) < Limit THEN Len(s) ELSE Limit)

\* RetrievalIntent::Automatic: chunk, edge, chunk, edge, ..., and the rest of
\* the longer list, up to the limit.
Merged(cs, es) ==
    LET n == IF Len(cs) < Len(es) THEN Len(cs) ELSE Len(es) IN
    [i \in 1..(Len(cs) + Len(es)) |->
        IF i <= 2 * n THEN (IF i % 2 = 1 THEN cs[(i + 1) \div 2] ELSE es[i \div 2])
        ELSE IF Len(cs) > n THEN cs[i - n] ELSE es[i - n]]
MergeEvidence(cs, es) == Truncate(Merged(cs, es))

\* The [SRC] blocks an item still needs, in the order of its endpoints.
Block(p, c) == IF c \in ToSet(p.srcs) THEN <<>> ELSE <<c>>
Missing(p, item) ==
    IF item \in Chunks THEN Block(p, item)
    ELSE IF EndsOf[item][1] = EndsOf[item][2] THEN Block(p, EndsOf[item][1])
    ELSE Block(p, EndsOf[item][1]) \o Block(p, EndsOf[item][2])

\* Mutant: the endpoints of a relationship that does not fit stay.
AddItemOrphans(p, item, budget) ==
    LET new  == Missing(p, item)
        srcs == p.size + Len(new) * ChunkCost
        size == srcs + (IF item \in Rels THEN RelCost ELSE 0)
    IN  IF p.used >= MaxItems \/ srcs > budget THEN p
        ELSE IF size > budget THEN [p EXCEPT !.srcs = p.srcs \o new, !.size = srcs]
        ELSE [srcs |-> p.srcs \o new,
              rels |-> IF item \in Rels THEN Append(p.rels, item) ELSE p.rels,
              used |-> p.used + 1,
              size |-> size]

\* Mutant: chunks are listed as relationships too.
AddItemUntyped(p, item, budget) ==
    [srcs |-> p.srcs \o Missing(p, item), rels |-> Append(p.rels, item),
     used |-> p.used, size |-> p.size]

\* One round of the loop of ContextBuilder::build: the item cap, the blocks
\* already emitted, and all or nothing against the budget.
AddItem(p, item, budget) ==
    LET new  == Missing(p, item)
        size == p.size + Len(new) * ChunkCost + (IF item \in Rels THEN RelCost ELSE 0)
    IN  IF p.used >= MaxItems \/ size > budget THEN p
        ELSE [srcs |-> p.srcs \o new,
              rels |-> IF item \in Rels THEN Append(p.rels, item) ELSE p.rels,
              used |-> p.used + 1,
              size |-> size]

\* The prompt after each item of the evidence.
Prompts(evidence, budget) ==
    LET at[i \in 0..Len(evidence)] ==
            IF i = 0 THEN NoPrompt ELSE AddItem(at[i - 1], evidence[i], budget)
    IN  at
BuildContext(evidence, budget) == Prompts(evidence, budget)[Len(evidence)]

-----------------------------------------------------------------------------
(* Edits that go on meanwhile                                              *)

\* What the requests under way could read after the step.
NoteVisible ==
    /\ could' = [r \in Requests |->
           IF pc[r] \in {"idle", "done"} THEN could[r]
           ELSE could[r] \cup UNION {Admits(s)' : s \in seen'[r]}]
    /\ known' = [r \in Requests |-> known[r] \/ (pc[r] \notin {"idle", "done"} /\ active')]

Edit ==
    /\ changes < MaxChanges
    /\ changes' = changes + 1
    /\ UNCHANGED <<dbVars, tx, clock, entry, pc, scopeVars, history, faults, task>>

\* A grant is added or removed, a document changes its owner.
EditGrants(d, us) ==
    /\ readers[d] # us
    /\ readers' = [readers EXCEPT ![d] = us]
    /\ Edit
    /\ UNCHANGED <<active, served, usable>>
    /\ NoteVisible

\* A version is promoted, superseded, archived or labelled.
EditDocument(d) ==
    /\ served' = IF d \in served THEN served \ {d} ELSE served \cup {d}
    /\ Edit
    /\ UNCHANGED <<active, readers, usable>>
    /\ NoteVisible

\* An edge is reviewed, expires, is superseded or deleted.
EditEdge(e) ==
    /\ usable' = IF e \in usable THEN usable \ {e} ELSE usable \cup {e}
    /\ Edit
    /\ UNCHANGED <<active, readers, served>>
    /\ NoteVisible

\* The user is deactivated, or reactivated.
EditUser ==
    /\ active' = ~active
    /\ Edit
    /\ UNCHANGED <<readers, served, usable>>
    /\ NoteVisible

-----------------------------------------------------------------------------
(* The request                                                             *)

\* The response; everything the handler held is gone with it.  Whom it went to
\* stays, for the properties.
Respond(r, code, items) ==
    /\ task' = [task EXCEPT ![r] = [NoTask EXCEPT !.code = code, !.items = items,
                                                  !.admin = task[r].admin]]
    /\ scope' = [scope EXCEPT ![r] = {}]
    /\ Goto(r, "done")

Proceed(r, l) == Goto(r, l) /\ UNCHANGED <<task, scope>>

Still == UNCHANGED <<dbVars, tx, clock, entry, now, dto, missed, misled, changes, faults, docVars>>
Unwitnessed == Still /\ UNCHANGED <<seen, witnesses>>

\* A request arrives with a bearer token, an API key or neither.
Receive(r) ==
    /\ pc[r] = "idle"
    /\ Proceed(r, "auth") \/ Proceed(r, "key") \/ Respond(r, 401, {})
    /\ seen' = [seen EXCEPT ![r] = {LiveScope}]
    /\ could' = [could EXCEPT ![r] = Admits(LiveScope)]
    /\ known' = [known EXCEPT ![r] = active]
    /\ Still

\* validate_jwt() verifies the token in memory; one that does not verify leaves
\* the API key, or nothing.
ValidateJwt(r) ==
    /\ pc[r] = "auth"
    /\ Proceed(r, "jwt") \/ Proceed(r, "key") \/ Respond(r, 401, {})
    /\ Unwitnessed

\* The Identity of the request: the roles of the token or the key say whether it
\* is an administrator's.
Authenticate(r) ==
    /\ active
    /\ \E admin \in BOOLEAN : task' = [task EXCEPT ![r].admin = admin]
    /\ Goto(r, "handler")
    /\ UNCHANGED scope

\* The subject is looked up among the users that are not deactivated; none, or
\* more than one, is refused.
ResolveJwtUser(r) ==
    /\ pc[r] = "jwt"
    /\ Authenticate(r) \/ Respond(r, 401, {})
    /\ Unwitnessed

\* The key and its user in one statement; the key may be unknown, revoked or
\* expired.
ValidateApiKey(r) ==
    /\ pc[r] = "key"
    /\ Authenticate(r) \/ Respond(r, 401, {})
    /\ Unwitnessed

\* GET /api/me
Me(r) ==
    /\ pc[r] = "handler"
    /\ Respond(r, IF active THEN 200 ELSE 403, {})
    /\ Unwitnessed

\* GET /api/orgs/{id}: user, unit and scope in one snapshot, past the cache.  The
\* unit may not be one of the company, or not exist; one that does, an
\* administrator gets whatever the scope.
OrgGet(r) ==
    /\ pc[r] = "handler"
    /\ \/ ~active /\ Respond(r, 403, {})
       \/ active /\ Respond(r, 404, {})
       \/ active /\ (task[r].admin \/ Asked \in LiveScope) /\ Respond(r, 200, {Asked})
    /\ Unwitnessed

\* The body of a question is parsed and checked.  Whether an administrator asks
\* makes no difference from here on.
Parse(r, answers, i) ==
    /\ pc[r] = "handler"
    /\ \/ /\ task' = [task EXCEPT ![r] = [NoTask EXCEPT !.answers = answers, !.intent = i]]
          /\ Goto(r, "user")
          /\ UNCHANGED scope
       \/ Respond(r, 400, {})
    /\ Unwitnessed

WikiQuery(r)       == Parse(r, FALSE, "fact")
WikiEvidence(r, i) == Parse(r, FALSE, i)
WikiAnswer(r, i)   == Parse(r, TRUE, i)

\* prep_request(): the user is not deactivated.
FindUser(r) ==
    /\ pc[r] = "user"
    /\ \/ active /\ Proceed(r, "unit")
       \/ ~active /\ Respond(r, 403, {})
    /\ Unwitnessed

\* prep_request(): the unit of the path is one of the user's company or not.
FindUnit(r) ==
    /\ pc[r] = "unit"
    /\ Proceed(r, "embed") \/ Respond(r, 404, {})
    /\ Unwitnessed

\* The question is embedded, then the scope is resolved.
Embed(r) == BeginResolve(r, "embed") /\ UNCHANGED <<history, docVars, task, witnesses>>

ResolveScope(r) == ResolveStep(r) /\ UNCHANGED <<docVars, task, witnesses>>

\* QdrantVectorStore::search: nothing for an empty scope, else any candidates.
Search(r) ==
    /\ pc[r] = "resolved" /\ task[r].intent # "bridge"
    /\ \E cs \in IF scope[r] = {} THEN {<<>>} ELSE Candidates :
           task' = [task EXCEPT ![r].found = cs]
    /\ Goto(r, "gate")
    /\ UNCHANGED scope
    /\ Unwitnessed

\* Survivors in the order of the candidates, after each of them, no more than
\* the limit.  The row of an edge is moved into its first survivor: a repeat
\* finds it empty.
Survivors(allowed, cs) ==
    LET at[i \in 0..Len(cs)] ==
            IF i = 0 THEN <<>>
            ELSE IF cs[i] \in allowed \ (Rels \cap ToSet(at[i - 1])) THEN Append(at[i - 1], cs[i])
            ELSE at[i - 1]
    IN  at
Pass(s, cs) == Truncate(Survivors(Admits(s), cs)[Len(cs)])

\* The handler has its evidence: query and evidence answer with it, answer
\* goes on to build the prompt.
Evidence(r, es) ==
    IF task[r].answers
    THEN /\ task' = [task EXCEPT ![r].allowed = es, ![r].found = <<>>]
         /\ Goto(r, "build")
         /\ UNCHANGED scope
    ELSE Respond(r, 200, ToSet(es))

\* EvidenceGate::evaluate.
Gate(r) ==
    LET cs == Pass(scope[r], task[r].found) IN
    /\ pc[r] = "gate"
    /\ IF task[r].intent = "automatic"
       THEN /\ task' = [task EXCEPT ![r].allowed = cs, ![r].found = <<>>]
            /\ Goto(r, "edges")
            /\ UNCHANGED scope
       ELSE Evidence(r, cs)
    /\ Unwitnessed

\* QdrantRelationshipVectorStore::search: any candidates, or none where the
\* collection does not exist.
SearchEdges(r) ==
    /\ pc[r] = "edges" \/ (pc[r] = "resolved" /\ task[r].intent = "bridge")
    /\ \E es \in EdgeCandidates : task' = [task EXCEPT ![r].found = es]
    /\ Goto(r, "edgegate")
    /\ UNCHANGED scope
    /\ Unwitnessed

\* RelationshipEvidenceGate::evaluate, and the merge of the two lists.
EdgeGate(r) ==
    /\ pc[r] = "edgegate"
    /\ Evidence(r, MergeEvidence(task[r].allowed, Pass(scope[r], task[r].found)))
    /\ Unwitnessed

\* ContextBuilder::build; a question that leaves no room is the client's error.
Build(r) ==
    /\ pc[r] = "build"
    /\ \/ /\ \E b \in Budgets :
                 task' = [task EXCEPT ![r].prompt = BuildContext(task[r].allowed, b)]
          /\ Goto(r, "llm")
          /\ UNCHANGED scope
       \/ Respond(r, 400, {})
    /\ Unwitnessed

\* The answer of the model goes out with the citations of the prompt.
Chat(r) ==
    /\ pc[r] = "llm"
    /\ Respond(r, 200, ToSet(task[r].prompt.srcs) \cup ToSet(task[r].prompt.rels))
    /\ Unwitnessed

\* status_for(): what an error of the services looks like to the client,
\* InvalidInput and NotFound of a resolver or a provider included.
Failures == {400, 404, 500, 503}

\* The deadline has passed, or a call failed; whatever was found is dropped.
Abort(r) ==
    /\ pc[r] \notin {"idle", "done"}
    /\ \E code \in Failures : Respond(r, code, {})
    /\ now' = [now EXCEPT ![r] = 0]
    /\ dto' = [dto EXCEPT ![r] = NoEntry]
    /\ UNCHANGED <<dbVars, tx, clock, entry, history, changes, faults, docVars, witnesses>>

RequestStep(r) ==
    \/ ValidateJwt(r) \/ ResolveJwtUser(r) \/ ValidateApiKey(r) \/ Me(r) \/ OrgGet(r) \/ WikiQuery(r)
    \/ \E i \in Intents : WikiEvidence(r, i) \/ WikiAnswer(r, i)
    \/ FindUser(r) \/ FindUnit(r) \/ Embed(r) \/ ResolveScope(r)
    \/ Search(r) \/ Gate(r) \/ SearchEdges(r) \/ EdgeGate(r) \/ Build(r) \/ Chat(r)

Next ==
    \/ Environment /\ UNCHANGED <<docVars, task>> /\ NoteVisible
    \/ \E d \in Docs, us \in SUBSET Units : EditGrants(d, us)
    \/ \E d \in Docs : EditDocument(d)
    \/ \E e \in Rels : EditEdge(e)
    \/ EditUser
    \/ \E r \in Requests : Receive(r) \/ RequestStep(r) \/ Abort(r)

Init ==
    /\ AccessInit
    /\ active = TRUE
    /\ readers \in [Docs -> SUBSET Units]
    /\ served \in SUBSET Docs
    /\ usable \in SUBSET Rels
    /\ task = [r \in Requests |-> NoTask]
    /\ could = [r \in Requests |-> {}]
    /\ known = [r \in Requests |-> FALSE]

Spec == Init /\ [][Next]_vars

TypeOK ==
    /\ AccessTypeOK
    /\ pc \in [Requests -> {"idle", "auth", "jwt", "key", "handler", "user", "unit", "embed", "lookup", "validate",
                            "resolve", "store", "resolved", "gate", "edges",
                            "edgegate", "build", "llm", "done"}]
    /\ active \in BOOLEAN
    /\ readers \in [Docs -> SUBSET Units]
    /\ served \in SUBSET Docs
    /\ usable \in SUBSET Rels
    /\ task \in [Requests -> Tasks]
    /\ could \in [Requests -> SUBSET Items]
    /\ known \in [Requests -> BOOLEAN]

-----------------------------------------------------------------------------
(* Properties                                                              *)

\* Whatever the index returns, and whatever changes while the request runs: a
\* chunk or a relationship it hands out, a scope the user had during the
\* request could read during the request, both ends of the relationship as
\* well; a unit was in such a scope, unless an administrator asked, who may
\* read any unit of the company; and the user was not deactivated all along.
\* Excepted are requests misled by an entry that no epoch gave away, the case
\* of StaleEntryDetected.
OnlyReadableDelivered ==
    \A r \in Requests :
        task[r].code = 200 /\ ~misled[r] =>
            /\ task[r].items \ Units \subseteq could[r]
            /\ \A e \in task[r].items \cap Rels : {EndsOf[e][1], EndsOf[e][2]} \subseteq could[r]
            /\ ~task[r].admin => task[r].items \cap Units \subseteq UNION seen[r]
            /\ known[r]

\* The prompt is whole: no block twice, no chunk that is neither evidence nor
\* an endpoint of a relationship of the prompt, no relationship without both
\* endpoints, within the item cap and a budget.
ContextWhole ==
    \A r \in Requests :
        LET p    == task[r].prompt
            srcs == ToSet(p.srcs)
            rels == ToSet(p.rels)
        IN  pc[r] = "llm" =>
            /\ IsInjective(p.srcs) /\ IsInjective(p.rels)
            /\ \A e \in rels : {EndsOf[e][1], EndsOf[e][2]} \subseteq srcs
            /\ \A c \in srcs : \/ c \in ToSet(task[r].allowed)
                               \/ \E e \in rels : c \in {EndsOf[e][1], EndsOf[e][2]}
            /\ rels \subseteq ToSet(task[r].allowed)
            /\ p.used <= MaxItems
            /\ \E b \in Budgets : p.size <= b
=============================================================================
