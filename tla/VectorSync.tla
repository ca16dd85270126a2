----------------------------- MODULE VectorSync -----------------------------
(***************************************************************************)
(* The Qdrant payload of one document: how the access scope, acl_version   *)
(* and lifecycle_status that retrieval filters on follow Postgres.         *)
(* Writers: the ingest use case (chunks and an upsert event), the outbox   *)
(* worker (upsert of a version's points), the V032 triggers (acl_version   *)
(* and a resync event), the resync worker (set_payload on the active       *)
(* version's points) and the promotion use case.                           *)
(*                                                                         *)
(* The scope fetch_access_scopes() computes is represented by its          *)
(* generation: it grows with every change of owner, grants or tree.  The   *)
(* payload's owner is read in the row of acl_version and goes with it.     *)
(* The points of a version are written together and stand as one; there is *)
(* one embedding model.  Events are claimed as in OutboxEvents, which      *)
(* allows two workers to handle one event; here an event is pending until  *)
(* mark_completed().  A retry budget is never used up (MaxFaults).         *)
(***************************************************************************)
EXTENDS Integers, FiniteSets

CONSTANTS
    Versions,       \* document_versions of the document
    Workers,        \* coroutines that run process() (outbox or resync worker)
    NoWorker,       \* nobody holds the document's advisory lock
    MaxAcl,         \* bound: acl_version
    MaxExpiries,    \* bound: scope changes no trigger notices
    MaxPromotions,  \* bound: calls of the promotion use case
    MaxFaults,      \* bound: failures of process(), lost replies, crashes
    MaxLate         \* bound: Qdrant requests in flight without their caller

ASSUME ConstantsAssumption ==
    /\ NoWorker \notin Workers
    /\ MaxAcl \in Nat \ {0}
    /\ MaxExpiries \in Nat
    /\ MaxPromotions \in Nat
    /\ MaxFaults \in Nat
    /\ MaxLate \in Nat

VARIABLES
    \* documents: acl_version, qdrant_synced_version; generation of the scope
    acl_version, synced_version, scope,
    \* outbox_events: acl_versions with a resync event, the completed ones;
    \* versions with a pending upsert event
    resyncs, resynced, upserts,
    \* document_versions and document_chunks: lifecycle_status, versions with
    \* ingest_status 'done', qdrant_prefilter_scope_ids (0: no chunks), the
    \* scope an ingest under way has read (0: none)
    lifecycle, ingested, prefilter, ingest_scope,
    \* document_chunk_vectors; the points in Qdrant
    vectors, points,
    \* pg_advisory_xact_lock('resync:doc:' || id)
    lock,
    \* process(): where it stands, its event, its points and their payload
    pc, kind, event, targets, payload,
    \* Qdrant requests whose caller has given up
    in_flight,
    \* ghosts: the scope right after the last bump; versions whose staleness
    \* no event answers for; promotions and faults so far
    bumped_scope, unnoticed, promotions, faults

docVars     == <<acl_version, synced_version, scope, bumped_scope>>
eventVars   == <<resyncs, resynced, upserts>>
versionVars == <<lifecycle, ingested, prefilter, ingest_scope>>
indexVars   == <<vectors, points, in_flight>>
workerVars  == <<lock, pc, kind, event, targets, payload>>
countVars   == <<promotions, faults>>
vars == <<docVars, eventVars, versionVars, indexVars, workerVars, unnoticed,
          countVars>>

Statuses == {"draft", "active", "deprecated"}
Payloads == [acl : Nat, scope : Nat, lifecycle : Statuses]

\* No point in the index; nothing read yet.
NoPoint == [acl |-> 0, scope |-> 0, lifecycle |-> "draft"]

PCs == {"idle", "lock", "scope", "points", "write", "commit", "finish"}
Requests == [targets : SUBSET Versions, payload : Payloads]

TypeOK ==
    /\ acl_version \in 1..MaxAcl
    /\ synced_version \in 0..acl_version
    /\ scope \in acl_version..(acl_version + MaxExpiries)
    /\ bumped_scope \in acl_version..scope
    /\ resyncs \in SUBSET (1..acl_version)
    /\ resynced \in SUBSET resyncs
    /\ upserts \in SUBSET Versions
    /\ lifecycle \in [Versions -> Statuses]
    /\ ingested \in SUBSET Versions
    /\ prefilter \in [Versions -> 0..scope]
    /\ ingest_scope \in [Versions -> 0..scope]
    /\ vectors \in SUBSET Versions
    /\ points \in [Versions -> Payloads]
    /\ in_flight \in SUBSET Requests
    /\ lock \in Workers \cup {NoWorker}
    /\ pc \in [Workers -> PCs]
    /\ kind \in [Workers -> {"none", "resync", "upsert"}]
    /\ event \in [Workers -> 0..acl_version]
    /\ targets \in [Workers -> SUBSET Versions]
    /\ payload \in [Workers -> Payloads]
    /\ unnoticed \in SUBSET Versions
    /\ promotions \in 0..MaxPromotions
    /\ faults \in 0..MaxFaults

Init ==
    /\ acl_version = 1
    /\ synced_version = 0
    /\ scope = 1
    /\ bumped_scope = 1
    /\ resyncs = {}
    /\ resynced = {}
    /\ upserts = {}
    /\ lifecycle = [v \in Versions |-> "draft"]
    /\ ingested = {}
    /\ prefilter = [v \in Versions |-> 0]
    /\ ingest_scope = [v \in Versions |-> 0]
    /\ vectors = {}
    /\ points = [v \in Versions |-> NoPoint]
    /\ in_flight = {}
    /\ lock = NoWorker
    /\ pc = [w \in Workers |-> "idle"]
    /\ kind = [w \in Workers |-> "none"]
    /\ event = [w \in Workers |-> 0]
    /\ targets = [w \in Workers |-> {}]
    /\ payload = [w \in Workers |-> NoPoint]
    /\ unnoticed = {}
    /\ promotions = 0
    /\ faults = 0

Fault == faults < MaxFaults /\ faults' = faults + 1

PendingResyncs == resyncs \ resynced

\* A payload from before the last bump.
Outdated(p) == p.acl < acl_version \/ p.scope < bumped_scope

-----------------------------------------------------------------------------
(* Changes of the access scope                                             *)

\* A grant is inserted, changed or deleted, or the document gets another
\* owner: the trigger bumps acl_version and enqueues the resync event in the
\* transaction of the change.
Bump ==
    /\ acl_version < MaxAcl
    /\ acl_version' = acl_version + 1
    /\ scope' = scope + 1
    /\ bumped_scope' = scope'
    /\ resyncs' = resyncs \cup {acl_version'}
    /\ unnoticed' = {}
    /\ UNCHANGED <<synced_version, resynced, upserts, versionVars, indexVars,
                   workerVars, countVars>>

\* A grant expires, or an org unit of a grant moves: the scope changes and no
\* trigger bumps acl_version (a move bumps the company's epoch).
ScopeDrifts ==
    /\ scope < acl_version + MaxExpiries
    /\ scope' = scope + 1
    /\ UNCHANGED <<acl_version, synced_version, bumped_scope, eventVars,
                   versionVars, indexVars, workerVars, unnoticed, countVars>>

\* Mutant: the event is for the version after the current one.
BackfillNextVersion ==
    /\ \E v \in Versions : lifecycle[v] = "active"
    /\ acl_version + 1 \notin resyncs
    /\ resyncs' = resyncs \cup {acl_version + 1}
    /\ UNCHANGED <<docVars, resynced, upserts, versionVars, indexVars,
                   workerVars, unnoticed, countVars>>

\* wikore_backfill_acl_resync(), on this document: an event for the current
\* acl_version, unless that version ever had one.
Backfill ==
    /\ \E v \in Versions : lifecycle[v] = "active"
    /\ acl_version \notin resyncs
    /\ resyncs' = resyncs \cup {acl_version}
    /\ UNCHANGED <<docVars, resynced, upserts, versionVars, indexVars,
                   workerVars, unnoticed, countVars>>

-----------------------------------------------------------------------------
(* Ingest and promotion                                                    *)

\* The use case reads the scopes on a connection of its own, before its
\* transaction; a retry reads them again.
IngestReadScopes(v) ==
    /\ v \notin ingested
    /\ ingest_scope[v] # scope
    /\ ingest_scope' = [ingest_scope EXCEPT ![v] = scope]
    /\ UNCHANGED <<docVars, eventVars, lifecycle, ingested, prefilter,
                   indexVars, workerVars, unnoticed, countVars>>

\* write_chunks(): every chunk with those scopes.  A document without content
\* has no chunks.
WriteChunks(v) ==
    \/ prefilter' = [prefilter EXCEPT ![v] = ingest_scope[v]]
    \/ UNCHANGED prefilter

\* Its transaction: the chunks, the upsert event, done.
IngestCommit(v) ==
    /\ ingest_scope[v] # 0
    /\ ingested' = ingested \cup {v}
    /\ upserts' = upserts \cup {v}
    /\ WriteChunks(v)
    /\ ingest_scope' = [ingest_scope EXCEPT ![v] = 0]
    /\ unnoticed' = IF ingest_scope[v] < bumped_scope
                    THEN unnoticed \cup {v} ELSE unnoticed
    /\ UNCHANGED <<docVars, resyncs, resynced, lifecycle, indexVars,
                   workerVars, countVars>>

\* promote_document_version(): the active version is deprecated, v activated
\* (promoting the active version again changes nothing).
\* The 'qdrant_resync_version_lifecycle' event has no consumer.
Promote(v) ==
    /\ promotions < MaxPromotions
    /\ v \in ingested
    /\ lifecycle[v] # "active"
    /\ lifecycle' = [u \in Versions |->
          IF u = v THEN "active"
          ELSE IF lifecycle[u] = "active" THEN "deprecated"
          ELSE lifecycle[u]]
    /\ promotions' = promotions + 1
    /\ unnoticed' = IF v \in vectors /\ Outdated(points[v])
                    THEN unnoticed \cup {v} ELSE unnoticed
    /\ UNCHANGED <<docVars, eventVars, ingested, prefilter, ingest_scope,
                   indexVars, workerVars, faults>>

-----------------------------------------------------------------------------
(* The index                                                               *)

\* Qdrant applies a write: an upsert or set_payload on the targets.  A late
\* one may put an old scope back.
Apply(ts, p) ==
    points' = [v \in Versions |-> IF v \in ts THEN p ELSE points[v]]

-----------------------------------------------------------------------------
(* What process() of either worker has in common                           *)

\* process() has returned; w is ready for an event.
Idle(w) ==
    /\ pc' = [pc EXCEPT ![w] = "idle"]
    /\ kind' = [kind EXCEPT ![w] = "none"]
    /\ event' = [event EXCEPT ![w] = 0]
    /\ targets' = [targets EXCEPT ![w] = {}]
    /\ payload' = [payload EXCEPT ![w] = NoPoint]

\* The end of w's transaction, if it has one.
Unlock(w) == lock' = IF lock = w THEN NoWorker ELSE lock

\* The write is sent and Qdrant answers that it is applied (wait=true).
Write(w) ==
    /\ pc[w] = "write"
    /\ Apply(targets[w], payload[w])
    /\ pc' = [pc EXCEPT ![w] = "commit"]
    /\ UNCHANGED <<docVars, eventVars, versionVars, vectors, in_flight, lock,
                   kind, event, targets, payload, unnoticed, countVars>>

\* A statement or a call of process() fails, or the process dies: the
\* transaction is rolled back, which releases the lock.  mark_failed() or the
\* reaper makes the event claimable again.
Fail(w) ==
    /\ pc[w] # "idle"
    /\ Fault
    /\ Unlock(w)
    /\ Idle(w)
    /\ UNCHANGED <<docVars, eventVars, versionVars, indexVars, unnoticed,
                   promotions>>

\* The call times out, or w's database session ends during it: w's transaction
\* is over and the request is still on its way.
WriteOrphaned(w) ==
    /\ pc[w] = "write"
    /\ targets[w] # {}
    /\ Fault
    /\ Cardinality(in_flight) < MaxLate
    /\ in_flight' = in_flight \cup
          {[targets |-> targets[w], payload |-> payload[w]]}
    /\ Unlock(w)
    /\ Idle(w)
    /\ UNCHANGED <<docVars, eventVars, versionVars, vectors, points,
                   unnoticed, promotions>>

\* Such a request arrives.
LateWrite(r) ==
    /\ in_flight' = in_flight \ {r}
    /\ Apply(r.targets, r.payload)
    /\ unnoticed' = IF Outdated(r.payload)
                    THEN unnoticed \cup r.targets ELSE unnoticed
    /\ UNCHANGED <<docVars, eventVars, versionVars, vectors, workerVars,
                   countVars>>

\* mark_completed().
Complete(w) ==
    /\ pc[w] = "finish"
    /\ \/ /\ kind[w] = "resync"
          /\ resynced' = resynced \cup {event[w]}
          /\ UNCHANGED upserts
       \/ /\ kind[w] = "upsert"
          /\ upserts' = upserts \ targets[w]
          /\ UNCHANGED resynced
    /\ Idle(w)
    /\ UNCHANGED <<docVars, resyncs, versionVars, indexVars, lock, unnoticed,
                   countVars>>

-----------------------------------------------------------------------------
(* OutboxWorker::process(): embed a version and upsert its points          *)

\* What the chunks of v say of the payload now.
ChunkPayload(v) ==
    [acl |-> acl_version, scope |-> prefilter[v], lifecycle |-> lifecycle[v]]

\* The chunks are read and embedded, outside any lock; without chunks the
\* event is done.
UpsertStart(w, v) ==
    /\ pc[w] = "idle"
    /\ v \in upserts
    /\ kind' = [kind EXCEPT ![w] = "upsert"]
    /\ targets' = [targets EXCEPT ![w] = {v}]
    /\ payload' = [payload EXCEPT ![w] = ChunkPayload(v)]
    /\ pc' = [pc EXCEPT ![w] = IF prefilter[v] = 0 THEN "finish" ELSE "lock"]
    /\ UNCHANGED <<docVars, eventVars, versionVars, indexVars, lock, event,
                   unnoticed, countVars>>

\* Mutant: the payload read before the embedding is written.
UpsertLockKeepsPayload(w) ==
    /\ pc[w] = "lock"
    /\ kind[w] = "upsert"
    /\ lock = NoWorker
    /\ lock' = w
    /\ pc' = [pc EXCEPT ![w] = "write"]
    /\ UNCHANGED <<docVars, eventVars, versionVars, indexVars, kind, event,
                   targets, payload, unnoticed, countVars>>

\* The document's lock is taken and the payload read again under it.
UpsertLock(w) ==
    /\ pc[w] = "lock"
    /\ kind[w] = "upsert"
    /\ lock = NoWorker
    /\ lock' = w
    /\ \E v \in targets[w] : payload' = [payload EXCEPT ![w] = ChunkPayload(v)]
    /\ pc' = [pc EXCEPT ![w] = "write"]
    /\ UNCHANGED <<docVars, eventVars, versionVars, indexVars, kind, event,
                   targets, unnoticed, countVars>>

\* Mutant: the bookkeeping rows are rolled back with the lock.
UpsertCommitNoRows(w) ==
    /\ pc[w] = "commit"
    /\ kind[w] = "upsert"
    /\ UNCHANGED vectors
    /\ Unlock(w)
    /\ pc' = [pc EXCEPT ![w] = "finish"]
    /\ UNCHANGED <<docVars, eventVars, versionVars, points, in_flight, kind,
                   event, targets, payload, unnoticed, countVars>>

\* The rows of document_chunk_vectors are committed.
UpsertCommit(w) ==
    /\ pc[w] = "commit"
    /\ kind[w] = "upsert"
    /\ vectors' = vectors \cup targets[w]
    /\ Unlock(w)
    /\ pc' = [pc EXCEPT ![w] = "finish"]
    /\ UNCHANGED <<docVars, eventVars, versionVars, points, in_flight, kind,
                   event, targets, payload, unnoticed, countVars>>

-----------------------------------------------------------------------------
(* ResyncWorker::process(): rewrite the payload after a change of scope    *)

ResyncStart(w, n) ==
    /\ pc[w] = "idle"
    /\ n \in PendingResyncs
    /\ kind' = [kind EXCEPT ![w] = "resync"]
    /\ event' = [event EXCEPT ![w] = n]
    /\ pc' = [pc EXCEPT ![w] = "lock"]
    /\ UNCHANGED <<docVars, eventVars, versionVars, indexVars, lock, targets,
                   payload, unnoticed, countVars>>

\* Mutant: no lock is taken.
ResyncLockNone(w) ==
    /\ pc[w] = "lock"
    /\ kind[w] = "resync"
    /\ event[w] >= acl_version
    /\ payload' = [payload EXCEPT ![w].acl = acl_version]
    /\ pc' = [pc EXCEPT ![w] = "scope"]
    /\ UNCHANGED <<docVars, eventVars, versionVars, indexVars, lock, kind,
                   event, targets, unnoticed, countVars>>

\* The lock is taken and acl_version read.
ResyncLock(w) ==
    /\ pc[w] = "lock"
    /\ kind[w] = "resync"
    /\ lock = NoWorker
    /\ event[w] >= acl_version
    /\ lock' = w
    /\ payload' = [payload EXCEPT ![w].acl = acl_version]
    /\ pc' = [pc EXCEPT ![w] = "scope"]
    /\ UNCHANGED <<docVars, eventVars, versionVars, indexVars, kind, event,
                   targets, unnoticed, countVars>>

\* Mutant: the event of the current acl_version counts as superseded.
ResyncSupersededEqual(w) ==
    /\ pc[w] = "lock"
    /\ kind[w] = "resync"
    /\ lock = NoWorker
    /\ event[w] <= acl_version
    /\ pc' = [pc EXCEPT ![w] = "finish"]
    /\ UNCHANGED <<docVars, eventVars, versionVars, indexVars, lock, kind,
                   event, targets, payload, unnoticed, countVars>>

\* Mutant: the early return forgets the rollback.
ResyncSupersededKeepsLock(w) ==
    /\ pc[w] = "lock"
    /\ kind[w] = "resync"
    /\ lock = NoWorker
    /\ event[w] < acl_version
    /\ lock' = w
    /\ pc' = [pc EXCEPT ![w] = "finish"]
    /\ UNCHANGED <<docVars, eventVars, versionVars, indexVars, kind, event,
                   targets, payload, unnoticed, countVars>>

\* ... or, under the lock, the event is found to be older: it is dropped, the
\* newer bump has an event of its own.
ResyncSuperseded(w) ==
    /\ pc[w] = "lock"
    /\ kind[w] = "resync"
    /\ lock = NoWorker
    /\ event[w] < acl_version
    /\ pc' = [pc EXCEPT ![w] = "finish"]
    /\ UNCHANGED <<docVars, eventVars, versionVars, indexVars, lock, kind,
                   event, targets, payload, unnoticed, countVars>>

\* fetch_access_scopes(), on another connection: the latest scope.
ResyncScope(w) ==
    /\ pc[w] = "scope"
    /\ payload' = [payload EXCEPT ![w].scope = scope]
    /\ pc' = [pc EXCEPT ![w] = "points"]
    /\ UNCHANGED <<docVars, eventVars, versionVars, indexVars, lock, kind,
                   event, targets, unnoticed, countVars>>

\* The points of the active version that have a bookkeeping row.
ResyncPoints(w) ==
    /\ pc[w] = "points"
    /\ targets' = [targets EXCEPT ![w] =
          {v \in vectors : lifecycle[v] = "active"}]
    /\ payload' = [payload EXCEPT ![w].lifecycle = "active"]
    /\ pc' = [pc EXCEPT ![w] = "write"]
    /\ UNCHANGED <<docVars, eventVars, versionVars, indexVars, lock, kind,
                   event, unnoticed, countVars>>

\* UPDATE documents ... WHERE acl_version = v_cur.
Cas(w) ==
    synced_version' = IF acl_version = payload[w].acl THEN acl_version
                      ELSE synced_version

\* The column of every chunk of the document, the compare-and-set and the
\* commit.  A set that failed drops the event as superseded all the same.
ResyncCommit(w) ==
    /\ pc[w] = "commit"
    /\ kind[w] = "resync"
    /\ prefilter' = [v \in Versions |->
          IF prefilter[v] = 0 THEN 0 ELSE payload[w].scope]
    /\ Cas(w)
    /\ Unlock(w)
    /\ pc' = [pc EXCEPT ![w] = "finish"]
    /\ UNCHANGED <<acl_version, scope, bumped_scope, eventVars, lifecycle,
                   ingested, ingest_scope, indexVars, kind, event, targets,
                   payload, unnoticed, countVars>>

-----------------------------------------------------------------------------
\* The steps a worker takes of itself, and those that wait for the lock.
ProcessStep(w) ==
    \/ \E v \in upserts : UpsertStart(w, v)
    \/ \E n \in PendingResyncs : ResyncStart(w, n)
    \/ ResyncScope(w) \/ ResyncPoints(w) \/ Write(w)
    \/ UpsertCommit(w) \/ ResyncCommit(w) \/ Complete(w)

LockStep(w) == UpsertLock(w) \/ ResyncLock(w) \/ ResyncSuperseded(w)

Next ==
    \/ Bump \/ ScopeDrifts \/ Backfill
    \/ \E v \in Versions : IngestReadScopes(v) \/ IngestCommit(v) \/ Promote(v)
    \/ \E w \in Workers :
          ProcessStep(w) \/ LockStep(w) \/ Fail(w) \/ WriteOrphaned(w)
    \/ \E r \in in_flight : LateWrite(r)

Spec == Init /\ [][Next]_vars

\* Each worker's coroutine is resumed, and the server grants a lock to those
\* waiting for it in turn.
FairSpec ==
    /\ Spec
    /\ \A w \in Workers : WF_vars(ProcessStep(w)) /\ SF_vars(LockStep(w))

-----------------------------------------------------------------------------
(* Properties                                                              *)

\* v's points are what a search may find: the version is active and its
\* bookkeeping committed.
Served(v) == lifecycle[v] = "active" /\ v \in vectors

\* The index is never silently stale.  Points of the active version with a
\* scope older than the last change a trigger noticed have the resync event
\* of that change still open, or are stale by one of three races that no
\* event answers for: an ingest that committed scopes read before the change,
\* the promotion of a version that resyncs had passed over, a Qdrant request
\* that outlived its caller - each since the last change: the next one heals
\* them all.
NoSilentStaleness ==
    \A v \in Versions :
        Served(v) /\ points[v].scope < bumped_scope =>
            acl_version \in PendingResyncs \/ v \in unnoticed

\* A sync is owed until it is done: as long as synced_version is behind a
\* change, the event of that change is open, however the events were
\* reordered, superseded, stolen or retried.
SyncIsOwed ==
    synced_version < acl_version /\ acl_version > 1 =>
        acl_version \in PendingResyncs

\* The bookkeeping of a version (chunk -> vector -> point) is never ahead of
\* the index.
BookkeepingHasPoints == \A v \in vectors : points[v].acl > 0

\* The payload of a point never goes back to an older acl_version (what the
\* advisory lock is for).
PayloadNeverGoesBack ==
    [][\A v \in Versions : points'[v].acl >= points[v].acl]_vars

\* qdrant_synced_version is not advanced past what Qdrant reflects: when it
\* reaches a version, the payload of that version has been written to all
\* points of the active version (but for those races).
SyncedNotAhead ==
    [][synced_version' # synced_version =>
          \A v \in Versions :
              Served(v) => points[v].acl >= synced_version' \/ v \in unnoticed
      ]_vars

\* Once the changes stop, synced_version catches up with them.
SyncCatchesUp == <>[](acl_version > 1 => synced_version = acl_version)

\* The chunks of every ingested version get into the index.
IngestReachesIndex ==
    \A v \in Versions : prefilter[v] # 0 ~> v \in vectors

-----------------------------------------------------------------------------
(* Why: the inductive invariant behind the properties                      *)

InTransaction == {"scope", "points", "write", "commit"}

\* The lock is held exactly by the worker whose transaction is open.
LockHeld == \A w \in Workers : pc[w] \in InTransaction <=> lock = w

\* What process() has in hand.  A resync that got past the test for newer
\* events writes the payload of its own event's version.
JobOK ==
    \A w \in Workers :
        /\ pc[w] = "idle" <=> kind[w] = "none"
        /\ pc[w] \in {"scope", "points"} => kind[w] = "resync"
        /\ pc[w] \in InTransaction => payload[w].acl \in 1..acl_version
        /\ pc[w] \in {"points", "write", "commit"} =>
              payload[w].scope \in 1..scope
        /\ kind[w] = "resync" => event[w] \in resyncs
        /\ kind[w] = "resync" /\ pc[w] \in InTransaction =>
              payload[w].acl = event[w]
        /\ kind[w] = "upsert" =>
              \E v \in ingested : /\ targets[w] = {v}
                                  /\ pc[w] # "finish" => prefilter[v] # 0

\* A version is ingested once.
IngestedOnce ==
    /\ upserts \subseteq ingested
    /\ \A v \in ingested : ingest_scope[v] = 0

\* ... and an event about to be completed leaves nothing owed.
SyncDone ==
    \A w \in Workers :
        pc[w] = "finish" /\ kind[w] = "resync" /\ event[w] = acl_version =>
            synced_version = acl_version

\* A write has left points behind, whoever sent it.
WritesLeavePoints ==
    /\ \A w \in Workers : pc[w] = "commit" =>
          \A v \in targets[w] : points[v].acl > 0
    /\ \A r \in in_flight : r.payload.acl > 0

\* No open event answers for the current acl_version any more, or a worker is
\* about to complete it.
Settled ==
    \/ acl_version \notin PendingResyncs
    \/ \E w \in Workers :
          pc[w] = "finish" /\ kind[w] = "resync" /\ event[w] = acl_version

\* All that is in the column and in the index, or on its way there in an
\* upsert, has the scope of the last bump, but for the unnoticed versions.
Clean ==
    /\ \A v \in Versions \ unnoticed :
          /\ prefilter[v] = 0 \/ prefilter[v] >= bumped_scope
          /\ Served(v) => points[v].scope >= bumped_scope
    /\ \A w \in Workers : kind[w] = "upsert" =>
          \A v \in targets[w] \ unnoticed :
              /\ pc[w] = "write" => payload[w].scope >= bumped_scope
              /\ pc[w] = "commit" => points[v].scope >= bumped_scope

SettledIsClean == Settled => Clean

\* A resync under way either has been overtaken by a bump, whose event is then
\* open, or is about to bring the index to the current version.
ResyncIsFresh ==
    \A w \in Workers : kind[w] = "resync" /\ pc[w] \in InTransaction =>
        /\ payload[w].acl < acl_version => ~Settled
        /\ payload[w].acl = acl_version /\ pc[w] # "scope" =>
              payload[w].scope >= bumped_scope
        /\ payload[w].acl = acl_version /\ pc[w] \in {"write", "commit"} =>
              \A v \in Versions \ unnoticed :
                  Served(v) /\ Outdated(points[v]) =>
                      pc[w] = "write" /\ v \in targets[w]

IInv ==
    /\ TypeOK /\ LockHeld /\ JobOK /\ IngestedOnce
    /\ SyncIsOwed /\ SyncDone
    /\ BookkeepingHasPoints /\ WritesLeavePoints
    /\ SettledIsClean /\ ResyncIsFresh

\* Without requests that outlive their caller, points hold no newer version
\* than the transaction under way has read.
PointsBehind ==
    /\ in_flight = {}
    /\ \A v \in Versions : points[v].acl <= acl_version
    /\ \A w \in Workers : pc[w] \in InTransaction =>
          \A v \in Versions : points[v].acl <= payload[w].acl
=============================================================================
