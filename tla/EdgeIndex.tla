----------------------------- MODULE EdgeIndex ------------------------------
(***************************************************************************)
(* The vector index of the knowledge edges: the admin API that edits the   *)
(* edges (src/apps/api/edges.cpp over src/src/rag/knowledge_edge_repo.cpp),*)
(* the triggers that enqueue an event for every edit (V034, V037), the     *)
(* embed-edge workers that write one Qdrant point per edge and embedding   *)
(* model (src/src/scheduler/embed_edge_worker.cpp) and the cleanup workers *)
(* that delete the points of deleted edges                                 *)
(* (src/src/scheduler/edge_vector_cleanup_worker.cpp).                     *)
(*                                                                         *)
(* Every field of a point but its vector comes from the row of the edge,   *)
(* and every edit of the row advances edge_version, so a version stands for*)
(* the payload.  Each co_await of process() on the database or on Qdrant is*)
(* a step of its own.  Failures (crash, shutdown, database error, request  *)
(* without an answer, lease running out under a live worker) spend one of  *)
(* MaxFaults.                                                              *)
(***************************************************************************)
EXTENDS Integers, FiniteSets

CONSTANTS
    Edges,          \* ids of knowledge_edges; never used twice
    Models,         \* rows of embedding_models
    Routed,         \* models whose collection has a vector store bound to it
    Workers,        \* embed-edge workers, one per scheduler process
    Cleaners,       \* edge-cleanup workers, one per scheduler process
    Nobody,         \* claimed_by IS NULL
    NoModel,        \* in place of a model in the event that deletes points
    MaxAttempts,    \* Options::max_attempts
    BatchSize,      \* Options::batch_size
    MaxVersion,     \* bound: edits of an edge
    MaxFaults       \* bound: failures in a behaviour

Procs == Workers \cup Cleaners

ASSUME ConstantsAssumption ==
    /\ Routed \subseteq Models
    /\ NoModel \notin Models
    /\ Nobody \notin Procs
    /\ Workers \cap Cleaners = {}
    /\ MaxAttempts \in Nat \ {0}
    /\ BatchSize \in Nat \ {0}
    /\ MaxVersion \in Nat \ {0}
    /\ MaxFaults \in Nat

VARIABLES
    \* the tables: knowledge_edges (state and edge_version), the enabled
    \* embedding_models, knowledge_edge_embeddings.indexed_edge_version (0:
    \* no row), what the vector formula needs besides the edge, outbox_events
    edge, ver, enabled, indexed, inputs, row, doomed,
    \* Qdrant: version in the payload of each point (0: no point), and
    \* upserts whose sender has given up on them
    point, in_flight,
    \* the workers: program counter, events of the batch still to handle,
    \* event in hand, edge_version of the live edge
    pc, batch, event, live,
    \* upsert events completed as ModelDisabled; keys whose point was
    \* overwritten by an older version, and keys whose point was written
    \* without a bookkeeping row since; failures so far
    dropped, overtaken, unbooked, faults

edgeVars == <<edge, ver, enabled, inputs>>
procVars == <<pc, batch, event, live>>
ghosts   == <<dropped, overtaken, unbooked>>
vars == <<edgeVars, indexed, row, doomed, point, in_flight, procVars, ghosts,
          faults>>

Keys     == Edges \X Models
Versions == 1..MaxVersion

\* outbox_events rows by idempotency key: one upsert per edge, model and
\* version (V037), one delete per edge (V034).
Upserts == [edge: Edges, model: Models, ver: Versions]
Deletes == [edge: Edges, model: {NoModel}, ver: {0}]
Events  == Upserts \cup Deletes
NoEvent == [edge |-> Nobody, model |-> NoModel, ver |-> 0]

DeleteOf(e) == [edge |-> e, model |-> NoModel, ver |-> 0]
KeyOf(ev)   == <<ev.edge, ev.model>>
Jobs(p)     == IF p \in Workers THEN Upserts ELSE Deletes

PCs == {"idle", "drain", "probe", "gate", "model", "prepare",
        "upsert", "book", "delete", "completed", "failed"}

Absent == [st |-> "none", by |-> Nobody, tries |-> 0]

TypeOK ==
    /\ edge \in [Edges -> {"none", "live", "gone"}]
    /\ ver \in [Edges -> 0..MaxVersion]
    /\ enabled \in SUBSET Models
    /\ inputs \in [Models -> SUBSET {"endpoints", "type"}]
    /\ indexed \in [Keys -> 0..MaxVersion]
    /\ row \in [Events -> [st: {"none", "due", "claimed", "stale", "done"},
                           by: Procs \cup {Nobody}, tries: 0..MaxAttempts]]
    /\ doomed \in [Edges -> SUBSET Models]
    /\ point \in [Keys -> 0..MaxVersion]
    /\ in_flight \in SUBSET (Keys \X Versions)
    /\ pc \in [Procs -> PCs]
    /\ batch \in [Procs -> SUBSET Events]
    /\ event \in [Procs -> Events \cup {NoEvent}]
    /\ live \in [Procs -> 0..MaxVersion]
    /\ dropped \in SUBSET Upserts
    /\ overtaken \in SUBSET Keys
    /\ unbooked \in SUBSET Keys
    /\ faults \in 0..MaxFaults

Init ==
    /\ edge = [e \in Edges |-> "none"]
    /\ ver = [e \in Edges |-> 0]
    /\ enabled = Models
    /\ inputs = [m \in Models |-> {}]
    /\ indexed = [k \in Keys |-> 0]
    /\ row = [ev \in Events |-> Absent]
    /\ doomed = [e \in Edges |-> {}]
    /\ point = [k \in Keys |-> 0]
    /\ in_flight = {}
    /\ pc = [p \in Procs |-> "idle"]
    /\ batch = [p \in Procs |-> {}]
    /\ event = [p \in Procs |-> NoEvent]
    /\ live = [p \in Procs |-> 0]
    /\ dropped = {}
    /\ overtaken = {}
    /\ unbooked = {}
    /\ faults = 0

Fault == faults < MaxFaults /\ faults' = faults + 1

-----------------------------------------------------------------------------
(* The admin API.  The checks that answer 400, 403, 404 or 503 before the  *)
(* statement change nothing, and the row is only read back after it.       *)

\* V037: an upsert event for each enabled model.
EnqueueUpserts(e, v) ==
    row' = [ev \in Events |->
               IF ev.edge = e /\ ev.model \in enabled /\ ev.ver = v
               THEN [st |-> "due", by |-> Nobody, tries |-> 0] ELSE row[ev]]

\* POST /api/admin/edges: the edge and its endpoints in one statement.
Create(e) ==
    /\ edge[e] = "none"
    /\ edge' = [edge EXCEPT ![e] = "live"]
    /\ ver' = [ver EXCEPT ![e] = 1]
    /\ EnqueueUpserts(e, 1)

EdgesCreate(e) ==
    /\ Create(e)
    /\ UNCHANGED <<enabled, inputs, indexed, doomed, point, in_flight, procVars,
                   ghosts, faults>>

\* PATCH /api/admin/edges/{id} with at least one field: edge_version + 1.
Update(e) ==
    /\ edge[e] = "live"
    /\ ver[e] < MaxVersion
    /\ ver' = [ver EXCEPT ![e] = @ + 1]
    /\ EnqueueUpserts(e, ver[e] + 1)

EdgesUpdate(e) ==
    /\ Update(e)
    /\ UNCHANGED <<edge, enabled, inputs, indexed, doomed, point, in_flight,
                   procVars, ghosts, faults>>

\* Mutant: the delete event is left to the rows that outlive the cascade.
EnqueueDeleteNone(e) == UNCHANGED <<row, doomed>>

\* V034: the points known from the bookkeeping go into one delete event; no
\* event when there are none.
EnqueueDelete(e) ==
    LET known == {m \in Models : indexed[<<e, m>>] # 0} IN
    IF known = {} THEN UNCHANGED <<row, doomed>>
    ELSE /\ row' = [row EXCEPT ![DeleteOf(e)] =
                       [st |-> "due", by |-> Nobody, tries |-> 0]]
         /\ doomed' = [doomed EXCEPT ![e] = known]

\* DELETE /api/admin/edges/{id}: bookkeeping and endpoints go by cascade.
Remove(e) ==
    /\ edge[e] = "live"
    /\ edge' = [edge EXCEPT ![e] = "gone"]
    /\ indexed' = [k \in Keys |-> IF k[1] = e THEN 0 ELSE indexed[k]]
    /\ EnqueueDelete(e)

EdgesDelete(e) ==
    /\ Remove(e)
    /\ UNCHANGED <<ver, enabled, inputs, point, in_flight, procVars, ghosts,
                   faults>>

-----------------------------------------------------------------------------
(* What the vectors are made from                                          *)

\* EmbedTypeVectorsUseCase reaches the type of the edges: the rows are
\* written one statement per type, so a failed run leaves a prefix of them.
EmbedTypeVectors(m) ==
    /\ "type" \notin inputs[m]
    /\ inputs' = [inputs EXCEPT ![m] = @ \cup {"type"}]
    /\ UNCHANGED <<edge, ver, enabled, indexed, row, doomed, point, in_flight,
                   procVars, ghosts, faults>>

\* OutboxWorker has embedded both endpoint chunks: their points are in Qdrant
\* and their rows in document_chunk_vectors.
EmbedEndpoints(m) ==
    /\ "endpoints" \notin inputs[m]
    /\ inputs' = [inputs EXCEPT ![m] = @ \cup {"endpoints"}]
    /\ UNCHANGED <<edge, ver, enabled, indexed, row, doomed, point, in_flight,
                   procVars, ghosts, faults>>

\* An operator disables a model, once.
DisableModel(m) ==
    /\ m \in enabled
    /\ enabled' = enabled \ {m}
    /\ UNCHANGED <<edge, ver, inputs, indexed, row, doomed, point, in_flight,
                   procVars, ghosts, faults>>

-----------------------------------------------------------------------------
(* Claims, as in OutboxEvents; both kinds of worker run the same SQL       *)

Claimed(ev) == row[ev].st \in {"claimed", "stale"}

\* GREATEST(attempt_count - 1, 0)
GiveBack(n) == IF n > 0 THEN n - 1 ELSE 0

Released(r) == [st |-> "due", by |-> Nobody, tries |-> GiveBack(r.tries)]

\* The lease of a claim runs out: that of a worker that no longer has the
\* event in time, that of a slow worker as a failure.
LeaseExpires(ev) ==
    /\ row[ev].st = "claimed"
    /\ row' = [row EXCEPT ![ev].st = "stale"]
    /\ IF \E p \in Procs : event[p] = ev \/ ev \in batch[p]
       THEN Fault ELSE UNCHANGED faults
    /\ UNCHANGED <<edgeVars, indexed, doomed, point, in_flight, procVars, ghosts>>

\* reap_stale_claims(), on the job type of the worker.
Reaped(p) ==
    [ev \in Events |-> IF ev \in Jobs(p) /\ row[ev].st = "stale"
                       THEN Released(row[ev]) ELSE row[ev]]

\* Mutant: attempts are not limited.
ClaimableEver(p, rows) == {ev \in Jobs(p) : rows[ev].st = "due"}

\* Events a worker may claim among the rows: nobody's, with attempts left.
Claimable(p, rows) ==
    {ev \in Jobs(p) : rows[ev].st = "due" /\ rows[ev].tries < MaxAttempts}

\* claim_batch(): reaps, then claims as many of the claimable events as fit.
\* What happens between the two statements, or a reap that fails, looks like
\* a lease that runs out a little later.
ClaimBatch(p) ==
    LET rows == Reaped(p) IN
    /\ pc[p] = "idle"
    /\ \E S \in SUBSET Claimable(p, rows) :
          /\ Cardinality(S) <= BatchSize
          /\ S = Claimable(p, rows) \/ Cardinality(S) = BatchSize
          /\ batch' = [batch EXCEPT ![p] = S]
          /\ row' = [ev \in Events |->
                IF ev \in S
                THEN [st |-> "claimed", by |-> p, tries |-> rows[ev].tries + 1]
                ELSE rows[ev]]
          /\ pc' = [pc EXCEPT ![p] = IF S = {} THEN "idle" ELSE "drain"]
    /\ UNCHANGED <<edgeVars, indexed, doomed, point, in_flight, event, live,
                   ghosts, faults>>

\* drain_once(): the next event of the batch.
NextEvent(p, first) ==
    /\ pc[p] = "drain"
    /\ \E ev \in batch[p] :
          /\ batch' = [batch EXCEPT ![p] = @ \ {ev}]
          /\ event' = [event EXCEPT ![p] = ev]
          /\ pc' = [pc EXCEPT ![p] = first]
    /\ UNCHANGED <<edgeVars, indexed, row, doomed, point, in_flight, live,
                   ghosts, faults>>

\* The event in hand is done with.
Put(p) ==
    /\ pc' = [pc EXCEPT ![p] = IF batch[p] = {} THEN "idle" ELSE "drain"]
    /\ event' = [event EXCEPT ![p] = NoEvent]
    /\ UNCHANGED <<batch, live>>

\* mark_completed(), by id alone; a database error leaves the claim.  The
\* claimed_by it leaves on a completed row is read by no statement.
MarkCompleted(p) ==
    /\ pc[p] = "completed"
    /\ \/ row' = [row EXCEPT ![event[p]] = [@ EXCEPT !.st = "done", !.by = Nobody]]
          /\ UNCHANGED faults
       \/ Fault /\ UNCHANGED row
    /\ Put(p)
    /\ UNCHANGED <<edgeVars, indexed, doomed, point, in_flight, ghosts>>

\* mark_failed(), by id alone: the claim is given up, the attempt stays
\* counted; completed_at is left alone.
MarkFailed(p) ==
    /\ pc[p] = "failed"
    /\ \/ row' = [row EXCEPT ![event[p]] =
                     IF @.st = "done" THEN @
                     ELSE [@ EXCEPT !.st = "due", !.by = Nobody]]
          /\ UNCHANGED faults
       \/ Fault /\ UNCHANGED row
    /\ Put(p)
    /\ UNCHANGED <<edgeVars, indexed, doomed, point, in_flight, ghosts>>

\* The process dies and comes back: its claims stay until they are reaped.
Crash(p) ==
    /\ pc[p] # "idle"
    /\ Fault
    /\ pc' = [pc EXCEPT ![p] = "idle"]
    /\ batch' = [batch EXCEPT ![p] = {}]
    /\ event' = [event EXCEPT ![p] = NoEvent]
    /\ live' = [live EXCEPT ![p] = 0]
    /\ UNCHANGED <<edgeVars, indexed, row, doomed, point, in_flight, ghosts>>

\* run(): shutdown_() ends the batch, release_my_claims() gives the claims
\* back, and the process comes back later.
ReleaseMyClaims(p) ==
    /\ pc[p] = "drain"
    /\ batch[p] # {}
    /\ Fault
    /\ row' = [ev \in Events |->
          IF ev \in Jobs(p) /\ row[ev].st # "done" /\ row[ev].by = p
          THEN Released(row[ev]) ELSE row[ev]]
    /\ batch' = [batch EXCEPT ![p] = {}]
    /\ pc' = [pc EXCEPT ![p] = "idle"]
    /\ UNCHANGED <<edgeVars, indexed, doomed, point, in_flight, event, live,
                   ghosts>>

-----------------------------------------------------------------------------
(* EmbedEdgeWorker::process                                                *)

\* Control moves on; the snapshot of the edge is dead once the event is
\* settled.
Goto(w, label) ==
    /\ pc' = [pc EXCEPT ![w] = label]
    /\ live' = [live EXCEPT ![w] = IF label \in {"completed", "failed"} THEN 0 ELSE @]

\* A statement or a request fails: the event is marked failed.
StepFails(w) ==
    /\ pc[w] \in {"probe", "gate", "model", "prepare", "upsert", "book", "delete"}
    /\ Fault
    /\ Goto(w, "failed")
    /\ UNCHANGED <<edgeVars, indexed, row, doomed, point, in_flight, batch,
                   event, ghosts>>

\* 1. The row of the edge as it is now; no row: NoEdge.
LoadLiveEdge(w) ==
    /\ pc[w] = "probe"
    /\ IF edge[event[w].edge] = "live"
       THEN /\ pc' = [pc EXCEPT ![w] = "gate"]
            /\ live' = [live EXCEPT ![w] = ver[event[w].edge]]
       ELSE Goto(w, "completed")
    /\ UNCHANGED <<edgeVars, indexed, row, doomed, point, in_flight, batch,
                   event, ghosts, faults>>

\* 2. Superseded when the bookkeeping has this version already.
LoadIndexedEdgeVersion(w) ==
    /\ pc[w] = "gate"
    /\ Goto(w, IF indexed[KeyOf(event[w])] >= live[w] THEN "completed" ELSE "model")
    /\ UNCHANGED <<edgeVars, indexed, row, doomed, point, in_flight, batch,
                   event, ghosts, faults>>

\* 3. ModelDisabled unless the model is enabled now.
LoadModelCollection(w) ==
    /\ pc[w] = "model"
    /\ IF event[w].model \in enabled
       THEN Goto(w, "prepare") /\ UNCHANGED dropped
       ELSE Goto(w, "completed") /\ dropped' = dropped \cup {event[w]}
    /\ UNCHANGED <<edgeVars, indexed, row, doomed, point, in_flight, batch,
                   event, overtaken, unbooked, faults>>

\* The rows of document_chunk_vectors name the points of both endpoints.
LoadEndpointPointIds(m) == "endpoints" \in inputs[m]

\* fetch_vectors_by_id() leaves out ids that Qdrant does not have: a point is
\* written before its row, and no worker deletes it.
FetchVectorsById(m) == "endpoints" \in inputs[m]

\* The row of edge_type_vectors.
LoadTypeVector(m) == "type" \in inputs[m]

\* What the formula needs is there: both endpoint vectors and that of the type.
VectorsReady(m) ==
    m \in Routed /\ LoadEndpointPointIds(m) /\ FetchVectorsById(m) /\ LoadTypeVector(m)

\* Mutant: the bookkeeping comes first, and the upsert is forgotten.
PrepareBookFirst(w) ==
    /\ pc[w] = "prepare"
    /\ Goto(w, IF VectorsReady(event[w].model) THEN "book" ELSE "failed")
    /\ UNCHANGED <<edgeVars, indexed, row, doomed, point, in_flight, batch,
                   event, ghosts, faults>>

\* 4..7. No store for the collection, or a vector missing: an error, so retry.
PrepareEdgeVector(w) ==
    /\ pc[w] = "prepare"
    /\ Goto(w, IF VectorsReady(event[w].model) THEN "upsert" ELSE "failed")
    /\ UNCHANGED <<edgeVars, indexed, row, doomed, point, in_flight, batch,
                   event, ghosts, faults>>

\* Qdrant applies an upsert: the point is replaced, whatever its version.
Lands(k, v) ==
    /\ point' = [point EXCEPT ![k] = v]
    /\ overtaken' = IF v < point[k] THEN overtaken \cup {k} ELSE overtaken
    /\ unbooked' = IF indexed[k] = 0 THEN unbooked \cup {k} ELSE unbooked

\* upsert_raw() waits until the point is applied.  Without an answer in time
\* it is an error, and the request may still be applied later.
UpsertRaw(k, v, w) ==
    \/ /\ Lands(k, v)
       /\ Goto(w, "book")
       /\ UNCHANGED <<in_flight, faults>>
    \/ /\ Fault
       /\ in_flight' = in_flight \cup {<<k, v>>}
       /\ Goto(w, "failed")
       /\ UNCHANGED <<point, overtaken, unbooked>>

\* 8. The point, with the payload of the live edge.
ApplyEdgeVector(w) ==
    /\ pc[w] = "upsert"
    /\ UpsertRaw(KeyOf(event[w]), live[w], w)
    /\ UNCHANGED <<edgeVars, indexed, row, doomed, batch, event, dropped>>

\* An upsert nobody waits for any more is applied.
LateUpsert(f) ==
    /\ f \in in_flight
    /\ in_flight' = in_flight \ {f}
    /\ Lands(f[1], f[2])
    /\ UNCHANGED <<edgeVars, indexed, row, doomed, procVars, dropped, faults>>

\* Mutant: the bookkeeping takes any version.
RecordVersionAny(k, v) == indexed' = [indexed EXCEPT ![k] = v]

\* ON CONFLICT DO UPDATE ... WHERE indexed_edge_version < EXCLUDED: an older
\* version is skipped without an error.
RecordVersion(k, v) ==
    indexed' = [indexed EXCEPT ![k] = IF @ < v THEN v ELSE @]

\* 9. The bookkeeping row; its foreign key fails when the edge is gone.
UpsertBookkeeping(w) ==
    LET k == KeyOf(event[w]) IN
    /\ pc[w] = "book"
    /\ IF edge[event[w].edge] = "live"
       THEN /\ RecordVersion(k, live[w])
            /\ unbooked' = unbooked \ {k}
            /\ Goto(w, "completed")
       ELSE Goto(w, "failed") /\ UNCHANGED <<indexed, unbooked>>
    /\ UNCHANGED <<edgeVars, row, doomed, point, in_flight, batch, event,
                   dropped, overtaken, faults>>

\* A step of the worker, but for its failures.
EmbedStep(w) ==
    \/ ClaimBatch(w) \/ NextEvent(w, "probe")
    \/ LoadLiveEdge(w) \/ LoadIndexedEdgeVersion(w) \/ LoadModelCollection(w)
    \/ PrepareEdgeVector(w) \/ ApplyEdgeVector(w) \/ UpsertBookkeeping(w)
    \/ MarkCompleted(w) \/ MarkFailed(w)

-----------------------------------------------------------------------------
(* EdgeVectorCleanupWorker                                                 *)

CleanupClaim(c) == ClaimBatch(c)
CleanupDrain(c) == NextEvent(c, "delete")

\* delete_points_by_id() waits until the points are gone, whoever wrote them;
\* the answer may be lost.  A second delete of a point changes nothing.
DeletePointsById(gone, c) ==
    /\ point' = [k \in Keys |-> IF k \in gone THEN 0 ELSE point[k]]
    /\ overtaken' = overtaken \ gone
    /\ unbooked' = unbooked \ gone
    /\ \/ Goto(c, "completed") /\ UNCHANGED faults
       \/ Goto(c, "failed") /\ Fault

\* process(): the points the event names.
CleanupProcess(c) ==
    /\ pc[c] = "delete"
    /\ DeletePointsById({<<event[c].edge, m>> : m \in doomed[event[c].edge]}, c)
    /\ UNCHANGED <<edgeVars, indexed, row, doomed, in_flight, batch, event, dropped>>

CleanupCompleted(c) == MarkCompleted(c)
CleanupFailed(c)    == MarkFailed(c)
CleanupRelease(c)   == ReleaseMyClaims(c)

CleanupStep(c) ==
    \/ CleanupClaim(c) \/ CleanupDrain(c)
    \/ CleanupProcess(c) \/ CleanupCompleted(c) \/ CleanupFailed(c)

-----------------------------------------------------------------------------
Next ==
    \/ \E e \in Edges : EdgesCreate(e) \/ EdgesUpdate(e) \/ EdgesDelete(e)
    \/ \E m \in Models : EmbedTypeVectors(m) \/ EmbedEndpoints(m) \/ DisableModel(m)
    \/ \E w \in Workers : EmbedStep(w)
    \/ \E c \in Cleaners : CleanupStep(c)
    \/ \E p \in Procs : StepFails(p) \/ Crash(p)
    \/ \E w \in Workers : ReleaseMyClaims(w)
    \/ \E c \in Cleaners : CleanupRelease(c)
    \/ \E ev \in Events : LeaseExpires(ev)
    \/ \E f \in in_flight : LateUpsert(f)

Spec == Init /\ [][Next]_vars

-----------------------------------------------------------------------------
(* Properties                                                              *)

\* The row of the bookkeeping behind a completed upsert event: an event is
\* completed only when its version, or a later one, is indexed, unless the
\* edge is gone or its model was disabled.  A worker with an older snapshot
\* must not take the bookkeeping back.
CompletedIsIndexed ==
    \A ev \in Upserts \ dropped :
        row[ev].st = "done" /\ edge[ev.edge] = "live" => indexed[KeyOf(ev)] >= ev.ver

\* The point is written before the bookkeeping says so: a point is behind its
\* bookkeeping only when an older upsert was applied after a newer one.
BehindOnlyWhenOvertaken ==
    \A k \in Keys : point[k] < indexed[k] => k \in overtaken

\* An upsert event of the key is still to be completed, or was completed as
\* ModelDisabled.
Pending(k) ==
    \E ev \in Upserts :
        /\ KeyOf(ev) = k
        /\ row[ev].st \notin {"none", "done"} \/ ev \in dropped

\* Which points somebody still knows of.  That of a live edge has a bookkeeping
\* row, or an upsert event that is not completed (or found its model disabled)
\* stands behind it.  That of a deleted edge is named by a delete event that is
\* not completed, unless it was written while there was no bookkeeping row and
\* never booked: the delete trigger cannot know such a point, and NoOrphans is
\* about the ones that stay for ever.
PointsAccountedFor ==
    \A k \in Keys : point[k] # 0 =>
        IF edge[k[1]] = "live"
        THEN indexed[k] # 0 \/ Pending(k)
        ELSE \/ k[2] \in doomed[k[1]] /\ row[DeleteOf(k[1])].st # "done"
             \/ k \in unbooked

\* The bookkeeping of the edges is a versioned index of them.
Index == INSTANCE VersionedIndex WITH
    current  <- [k \in Keys |-> IF edge[k[1]] = "live" THEN ver[k[1]] ELSE 0],
    recorded <- indexed

IndexedForward == Index!Spec

\* Every event is completed, no worker has one and no request is under way:
\* nothing more will happen to the points until the next edit.
Quiescent ==
    /\ \A ev \in Events : row[ev].st \in {"none", "done"}
    /\ \A p \in Procs : event[p] = NoEvent /\ batch[p] = {}
    /\ in_flight = {}

\* embed_edge_worker.hpp: "a stale event cannot durably stamp the wrong
\* review_state".  At rest, the point of an edge carries the version the
\* bookkeeping records.
NoDurableStaleness == Quiescent => \A k \in Keys : point[k] >= indexed[k]

\* V037: "upsert-in-place, no orphans", and of an edge that is gone when its
\* event is handled, "the V034 delete path already owns Qdrant cleanup".  At
\* rest, every point is that of a live edge.
NoOrphans == Quiescent => \A k \in Keys : point[k] # 0 => edge[k[1]] = "live"
=============================================================================
