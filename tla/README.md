# TLA+ models of wikore

wikore is a multi-tenant knowledge server in C++: documents are ingested into
PostgreSQL and embedded into Qdrant, questions are answered from what the asking
user may see. PostgreSQL is the source of truth; Redis carries ingest jobs,
caches and semaphores; Qdrant holds vectors with a payload on which retrieval
filters. Nearly everything that is hard in it is about keeping three stores
without a common transaction in step while processes crash, time out and
overtake each other. These modules model that, TLC checks them on small
instances and TLAPS proves the safety properties for every instance.

Paths below are relative to the repository unless they end in `.tla` or `.cfg`.

## Inventory

| Part | State | Operations | Hard because | Module |
|---|---|---|---|---|
| Ingest worker (`src/ingest/worker.cpp`) | a processing list and a heartbeat key in Redis | LMOVE, dispatch, acknowledge (LREM), transfer back, fatal state | crash between any two steps, lost replies, heartbeats that expire under a live worker | `IngestQueue` |
| Ingest use case (`src/application/ingest_document_version.cpp`, `src/ingest/document_repo.cpp`, V029, V030) | `ingest_status`, payload, claim token, retry count of `document_versions` | claim, commit of chunks with audit row and outbox event, fail | a slow worker whose row was reset and claimed again | `IngestQueue` |
| Polling fallback (`src/scheduler/polling_fallback.cpp`) | none of its own | reaper of dead workers' lists, database sweeps, requeue after commit with compensation | several schedulers at once; Redis effects cannot be rolled back | `IngestQueue` |
| Outbox (`src/scheduler/outbox_worker.cpp`, V015) | `outbox_events`: claim, lease, attempts, backoff | claim a batch, process, complete, fail, release, reap | leases stolen from live workers, late updates on stolen rows | `OutboxEvents` |
| Embedding worker (`src/scheduler/outbox_worker.cpp`) | points in Qdrant, `document_chunk_vectors` | read chunks, embed, lock, refresh, upsert, record | slow external calls between reading and writing | `VectorSync` |
| Resync worker (`src/scheduler/resync_worker.cpp`) | `qdrant_synced_version`, `qdrant_prefilter_scope_ids` | lock, compare versions, scopes, set_payload, compare-and-set | events out of order, requests that outlive their caller | `VectorSync` |
| ACL triggers (V032) | `acl_version`, epochs of companies and users | bump and enqueue | changes no trigger sees (expiry, moves); a trigger sees what its statement sees | `VectorSync` (versions), `AccessCache` (epochs) |
| Promotion (`src/application/promote_document_version.cpp`, V010) | `lifecycle_status` | promote, supersede | two versions, one active | `VectorSync` as one step |
| Organisation tree (V001, V012, V032) | `org_units`, `org_unit_closure` | insert, `move_org_unit()`, delete | READ COMMITTED, row locks on two units only | `OrgTree`, `AtomicTree` |
| Tree readers (`apps/api/orgs_tree.cpp`, `src/access.cpp`, V038) | none | chart of the tree, roles and scope of a user, scopes of a document, visible documents | several implementations of one rule | `TreeReaders` |
| Knowledge edges and their index (`apps/api/edges.cpp`, `src/rag/knowledge_edge_repo.cpp`, `src/scheduler/embed_edge_worker.cpp`, `src/scheduler/edge_vector_cleanup_worker.cpp`, V034, V037) | edges with versions, events, bookkeeping, points in Qdrant | edit, embed, clean up | written without a lock after a slow fetch | `EdgeIndex`, `VersionedIndex` |
| Access resolver (`src/access_resolver.cpp`) | Redis entry stamped with two epochs | resolve, cache, validate | stale entries, expiry by time | `AccessCache` |
| Requests (`src/auth.cpp`, `apps/api/wiki_*.cpp`, `src/rag/retrieval_orchestrator.cpp`, both evidence gates, `src/rag/context_builder.cpp`, `src/rag/answer_use_case.cpp`) | one request | authenticate, resolve, search, gate, build, ask the LLM | access changes between the steps; the index may return anything | `Retrieval` over `AccessCache` |
| LLM gate (`src/rag/llm_gate.cpp`, scripts of `src/redis.cpp`) | semaphore leases and token bucket in Redis | acquire, release, refill | leases that run out under a live call, lost answers | `LlmGate` |
| LLM adapters (`src/rag/llm_provider_*.cpp`) | none | chat, streamed chat | streams that end anywhere | `LlmStream`, used by `LlmGate` |
| Tenant rotation (`src/ingest/worker.cpp`) | cursor over the tenants' queues | rescan, next tenant | a cursor over a list that changes | not modelled |
| Privileged access (V036) | sessions, approvals, scopes | state machine in triggers | counts taken under concurrent transactions | not modelled |
| Partitions (V031, `src/scheduler/partition_maintainer.cpp`) | monthly partitions | ensure months ahead | calendar arithmetic | not modelled |
| Parsers, chunker | none | bytes to text to chunks | formats, boundaries | not modelled |

Interactions: an upload inserts a version and pushes a job (Redis); the worker
claims the row and commits chunks with an outbox event (PostgreSQL); the outbox
worker writes points (Qdrant). A change of grants or owner bumps `acl_version`
and enqueues a resync event in the same transaction; the resync worker brings
the payloads up to date. Upserts and resyncs of one document exclude each other
by a transaction-level advisory lock. Moves in the tree only bump the epoch of
the company, which the access resolver reads. An edit of an edge enqueues one
event per enabled model by trigger, its delete one that names the points to
remove. A request trusts none of the indexes: it resolves the reader's scope
through the cache, searches Qdrant with it, and asks PostgreSQL again, in the
gates, what of the result that scope may read.

What makes each part correct: a job is neither lost nor done twice, a poison job
stops, and every row reaches an end (ingest); only failures spend the retry
budget, a completed event has been applied, claims exclude each other as far as
the lease promises (outbox); the index is never stale without an event that will
repair it, and never goes back (sync); the closure table is that of the tree, and
all who read it agree on who may see what (tree); bookkeeping and points of an
edge follow its versions (edges); a cached scope is current, and a request hands
out only what its user could read (requests); no more calls than the cap, and a
stream is whole or an error (LLM). `PROJECT.json` lists every component, also those left out, and under
`hazards` the places where these can go wrong.

## Modules

### IngestQueue

One tenant. State: the row's ingest columns, the source queue as a sequence, each
worker's processing list as a count per entry (it is only searched by value), the
heartbeat keys, the program counters of workers and schedulers and what each has
read and not yet used. Actions, per process:

* worker: `Start`, `TakeJob` (LMOVE; also with its reply lost), `Claim`
  (`claim_for_processing`), `FinishWork` (the unit of work with
  `mark_ingest_done`), `Fail`, `Acknowledge`, `TransferBack` (the Lua script) and
  the fatal state when that fails, `Shutdown`, `Crash`, heartbeats;
* scheduler: `StartSweep`, `ReapList`, `ReapMalformed`, `ReapTouch`,
  `ReapTransfer`, `ReapDone`, `Sweep` (both sweeps, one transaction under the
  advisory lock), `Requeue` and its compensation `RequeueFails`, `SchedulerCrash`;
* environment: uploads, malformed entries, time.

Abstractions. A message is the version it names; its text as pushed and its text
as PostgreSQL's `jsonb` prints it again are not told apart, although LREM
compares them, and neither are the worker's strict parse and the reaper's lenient
one: an entry is malformed to both or to none. A row is `stuck` once `updated_at` is older than the threshold; a
sweep cycle is assumed shorter than the threshold. A worker id names one
incarnation of the process, as in the code, where it is random.

### OutboxEvents

The rows of one job type and the workers that drain them; the resync, edge and
cleanup workers run the same statements. Time is discrete: a claim has an age,
stale once it exceeds `Lease`, and handling an event takes up to `EventTime`
ticks, or longer once the worker stalls on it (`Stall`: a service that does not
answer, a suspended process). A batch is claimed at once and handled one by one,
and its claims are not renewed. `process()` succeeds or fails. Actions: `Enqueue`,
`BecomeDue`, `Tick`, claim with reaping, handling step by step, completion, failure
with backoff, release, shutdown, stall, crash and restart. `ORDER BY next_attempt_at` is abstracted to
any choice of due rows.

### VectorSync

One document with its versions. The scope that `fetch_access_scopes()` computes is
represented by its generation, so that "older scope" can be said; payloads carry
`acl_version`, scope and lifecycle status. Actions: `Bump` (the triggers),
`ScopeDrifts` (changes no trigger sees), `Backfill`, `IngestReadScopes` and
`IngestCommit`, `Promote`, the steps of both workers around the advisory lock,
`Fail`, `WriteOrphaned` and `LateWrite` (a Qdrant request that timed out and is
applied later or never). Abstractions: the points of a version are one; one
embedding model and collection; the owner and sensitivity travel with the row;
no document is deleted and nothing archives a version (no code does); the retry
budget is never used up (that is OutboxEvents' subject).

### OrgTree and AtomicTree

`AtomicTree` says what the tree promises: one operation at a time, and a closure
table that is the set of ancestors with their distance. `OrgTree` has the
transactions: each statement reads what is committed when it starts (with its own
writes) and then waits for rows and locks. Locks are PostgreSQL's: FOR UPDATE and
DELETE against the FOR KEY SHARE of foreign key checks on `org_units`, the row of
`companies` that the epoch trigger updates, keys of the closure table that other
transactions have in hand. `Abort` stands for a failed check or constraint, a
deadlock the server breaks, a client that leaves, and for the early exit of a
move that changes nothing. `ActsAtomically` states the refinement: `parent` and
`closure` map to themselves. A delete cascades unit by unit in any order and
removes closure rows afterwards; the deletion of a company is left out.

`TreeReaders` extends `OrgTree` with what is read from the committed tables in one
snapshot each: `OrgsTree` (the handler of the chart, with its limits and the
mapping of database errors to statuses), `EffectiveReadOrgs` and `HasRole`
(`access.cpp`), `FetchAccessScopes` (grants expanded downwards when chunks are
stored) and `VisibleDoc` (`wikore_visible_doc_ids()`, looking upwards from the
reader). They are state functions, evaluated on every tree the writers leave
behind. Expired rows and the validation triggers of V009 are left out.

### EdgeIndex and VersionedIndex

`VersionedIndex` promises that what is recorded of a key is a version the key has
had, that it only moves forward, and that it goes when the key goes. `EdgeIndex`
has the edges, the events by idempotency key, the bookkeeping table, the points
and the two kinds of workers; the bookkeeping with `current` mapped to the live
edge's version implements `VersionedIndex` (`IndexedForward`). Actions:
`EdgesCreate`, `EdgesUpdate`, `EdgesDelete` with their triggers (`EnqueueUpserts`,
`EnqueueDelete`), a model disabled, its inputs becoming available; per worker
`ClaimBatch`, `NextEvent`, `LoadLiveEdge`, `LoadIndexedEdgeVersion`,
`LoadModelCollection`, `PrepareEdgeVector`, `ApplyEdgeVector`,
`UpsertBookkeeping`, `MarkCompleted`, `MarkFailed`; `CleanupProcess`; crash,
shutdown, a lease that runs out, an upsert that is applied after its sender gave
up. The state of an edge is its version: every other field of a point comes from
the row and every edit advances the version. The vector is present or not; the
awaits in which it is put together only read, and are one step. A point whose
writer found no bookkeeping row, and has not booked it, is `unbooked`.

### AccessCache and Retrieval

`AccessCache` has one user, who may be in a group; transactions that edit a
membership, the group or the tree and are open from their statement to their
commit, so that a trigger sees or misses another's rows; the clock; the Redis
entry; and requests at `Lookup`, `Validate`, `Resolve`, `Store`. `Retrieval`
extends it with the whole request: authentication by token or key, the handlers
of wiki query, evidence and answer, org_get and me, search, both gates, merging,
truncation, the context with its budget, the LLM call and a failure or passed
deadline before any step; and with edits of grants, documents, edges and the
account at any moment. The tree changes by moves; units, and with them
memberships, are not created or deleted. A caller may be an administrator, to whom
org_get gives any unit of the tenant. Qdrant answers with any list of chunks, each
once (a collection of chunks belongs to one model, and a chunk has one point in
it), and any list of edges, each up to `EdgePoints` times (the models share one
collection of edges); the gate drops the repeats. Clearance, lifecycle and
review state are one flag each. The ghosts `seen` and `could` collect what was
live and readable since the request began; `missed` and `misled` mark the one
gap, a change of a group that advanced no epoch (run `access_race`).

### LlmGate and LlmStream

`LlmStream` is a pure model of the adapters: a body is a sequence of SSE lines,
cut, spoilt or interrupted by an error anywhere, and each adapter a recursive
function over its lines.
`LlmGate` has the scripts on the sorted set and on the hash, each also with its
answer lost, the lease with its margin, the call and its end, the release by the
destructor, crash, and a Redis that loses its data. Times are relative to now. A
call may have any `max_hold` of `Holds`, and its admission sets the life of the
whole key to twice its own lease; slots that go with the key while their leases
run are collected in `dropped`. The rate is a whole number of units a tick: that
`std::to_string` hands the script six decimals, so that a rate below 0.0000005 a
second becomes 0, is not modelled.

## Runs

`tlc -config X.cfg MCModule`. Passing runs:

| Run | Instance | Shows |
|---|---|---|
| `ingest` | 1 version, archived or not, 2 workers, 1 scheduler, 2 failures, fair | `CommittedOnce`, `AttemptsBounded`, `UnclaimedJobKept`, `TerminalIsFinal`, `LatestClaimCommits`, `ReapedJobSpared`, `EventuallyTerminal`, `OrphansDrained` |
| `outbox` | 2 events of 1 tick, 2 workers, batch 2, lease 2, 2 failures, fair | `BudgetSpentByFailuresOnly`, `CompletedWasApplied`, `OneHandler`, `EventSettles` |
| `sync_versions` | 2 versions, 2 promotions, 1 change and 1 drift of the scope, 2 workers, 1 failure | `NoSilentStaleness`, `PayloadNeverGoesBack` |
| `sync_late` | 1 version, 2 changes of scope, 2 workers, 1 failure that may leave a request behind, fair | `SyncIsOwed`, `SyncCatchesUp`, `IngestReachesIndex` |
| `tree_writers` | root and 4 units, 2 transactions, charts of depth 2 and 4 units | `ClosureExact`, `ActsAtomically`, `ForestWhole`, `ScopesAgree` |
| `edge_index` | 1 edge, 1 model, 2 versions, 2 embed workers, 1 cleaner, batch 2, 2 failures | `CompletedIsIndexed`, `BehindOnlyWhenOvertaken`, `PointsAccountedFor`, `IndexedForward` |
| `answers` | 1 request, of an administrator or not, 2 units, 2 documents of one chunk, 1 edge with 2 points, 2 changes, 1 tick, 1 failure | `CachedScopeCurrent`, `ScopeWasLive`, `OnlyReadableDelivered`, `ContextWhole` |
| `llm_gate` | 2 calls, cap 1, holds of 1 and 5, all four providers, 2 failures, fair | `CapHeld`, `BucketExact`, `StreamWhole`, `SlotsReturn` |

Each of the runs with safety properties also checks its module's type invariant.

Why the bounds are enough for the cases that matter: two workers and a fallback
give a stale worker, its successor and the one that reset it; two failures give a
failure during the recovery from another (a reaper whose UPDATE fails on a dead
worker's entry); `MaxResume = 1` reaches both a resume and the end of the budget;
an archived version is never claimed and has to be ended by the sweeps alone. One
scheduler is enough there because the safety properties are theorems for any number
of them, and a second one only adds sweeps that the liveness properties do not need.
In the outbox, a batch of two and a lease of exactly two events is the tightest one
that still promises exclusive claims: the second event is handled in the last tick
of its claim, and a stall, a crash or a shutdown in the middle of a batch lets the
other worker take what is left of it. In
`VectorSync`, two changes in a row let an older event arrive after a newer one.
In the tree, four units below the root allow two moves, each below a descendant
of the other's node, that lock four different rows, and a chart that is too deep
or too large as well as one that is not. In `EdgeIndex`, two versions and two
workers make a slow and a fast one, and two failures a crash during the repair of
another. In `Retrieval`, two changes are what it takes for a group change and the
membership it hides, or for an edit before and after the gate; two chunks, one
edge and the budgets 4 and 5 let a relationship fit with none, one or both of
its endpoints there. In `LlmGate`, a cap of one makes any excess visible and two failures
a lost answer after a crash; the holds are further apart than a lease, but under a
cap of one nobody can shorten the key of a live call, so that `dropped` stays empty
there. `CapHeld` was also checked by itself with three calls, a cap of two and two
failures; the run `llm_hold` fills `dropped`, and the theorem covers all of it.
`MaxVersion`, `MaxTime`, `MaxChanges`, `MaxPieces`, `MaxFaults`, `MaxAcl`,
`MaxExpiries`, `MaxPromotions` and `MaxLate` bound counters in the guards.
Symmetry is used in the safety runs alone; runs with liveness have none. VectorSync's, EdgeIndex's
and the access runs do not check for deadlock: with their bounds used up, nothing
is left to do. Everywhere else
deadlock is checked.

Fairness. `IngestQueue`: schedulers keep sweeping, a running worker keeps
stepping and its heartbeat timer keeps firing, time passes for rows and for the
heartbeats of dead workers; a sweep is skipped for the advisory lock only while
another one is under way, so one of them is made in the end (strong fairness of
"some scheduler sweeps"); nobody need upload or start a worker. The heartbeat
timer is needed: a live worker whose key is never set again and a job it may not
claim would be handed back and taken for ever. `OutboxEvents`: weak fairness of workers, restarts and
due times, strong fairness of `Tick`, because a clock ticks however often the
workers' steps that take no time come in between; a stalled worker is resumed. `VectorSync`: weak fairness of the
workers' steps, strong fairness of obtaining the advisory lock, because
PostgreSQL queues waiters; none for `LateWrite`. `LlmGate`: weak fairness of the
steps of a call, because its timer fires and the lease has a destructor, and of
`Tick`; nobody need start a call.

Runs that show the code and what is written about it disagree (the `findings` of
`PROJECT.json` quote the lines):

* `edge_stale`: the edge worker compares versions before it fetches vectors and
  writes the point afterwards without comparing again. Two schedulers that handle
  the events of two versions leave the older payload in Qdrant, every event
  completed; only the bookkeeping keeps the newer version. `edge_index` states
  what remains true: nothing but such an overtaking leaves a point behind.
* `edge_orphan`: the delete trigger names the points it finds in the bookkeeping, and
  the worker writes the point before that row. An edge deleted in between leaves a
  point that no event names: the retry finds no edge and completes. V037 says "no
  orphans". In `edge_index`, `PointsAccountedFor` exempts the points of deleted edges
  that were never booked and nothing else.
* `llm_hold`: a call with a long timeout, then one with a short one, whose PEXPIRE
  shortens the life of the key both leases are in. The key goes under the long call,
  and the cap is exceeded, although `llm_gate.hpp` says that "a lease can never
  expire under a live call". `CapHeld` states what is true for every set of timeouts:
  only the key, never a lease, ends too soon, and only under a call that, with its
  gap, lasts two leases of some other.
* `access_race`: the trigger on memberships bumps the users its statement sees in
  the group. With a member's row uncommitted it bumps nobody, and an entry stored
  between the two commits has the final epochs and the older scope until it
  expires. `answers` excludes exactly the requests such an entry misled.

`NoSilentStaleness` names the gaps of the chunk index in the ghost `unnoticed`
rather than assume them away: versions whose staleness comes from a late ingest, a
promotion or a late request since the last change. `OnlyReadableDelivered` shows
that none of this reaches a reader: the gates ask PostgreSQL again, so `Retrieval`
lets the index return anything.

Met while modelling and not the subject of a run.

Ingest and outbox: sweep 1 ends a row as `error` although its job still waits on
the source queue when the backlog is longer than the threshold
(`polling_fallback.cpp` line 229, against lines 171-173); a batch is claimed at
once and handled one by one, so a claim goes stale under a live worker although
every event is within the lease (`outbox_worker.cpp` line 95). V015 lines 18-20
take such a claim for a dead worker's, and `outbox_worker.hpp` lines 29-32 ask of the
lease that it is longer than the handling of one event; exclusive claims need it to
be as long as that of a whole batch. With
the defaults, 16 events and 10 minutes, an event may take 37 seconds.

Chunk index: scopes read before a change may be committed after its resync
(`ingest_document_version.cpp` line 147); a request that timed out may be applied
after a newer one (`resync_worker.cpp` line 300); no worker consumes the event
`qdrant_resync_version_lifecycle` a promotion writes
(`promote_document_version.cpp` line 72).

Edges: an
event may spend its attempts while its endpoints are not embedded yet, and a model
that is enabled again is not filled up; a handler reads an edge back after its
committed write and answers 404 if it is gone by then.

Requests: a membership removed and a document granted to another unit in the
middle of a request can together deliver what the user could not read at any one
moment (the scope is of one moment, the grant of a later one), which is why
`OnlyReadableDelivered` speaks of a scope the user had during the request;
`min_confidence` is filtered by Qdrant's payload alone, which may be stale;
`auth.cpp`'s header speaks of a Redis cache for API keys that is no longer there;
with 0 seconds left a request to the embedder or Qdrant gets its default timeout.

LLM: the gate has no caller yet; the clock of Redis is assumed not to go back.

Older notes: expiry of a grant and moves in
the tree change the scope without a resync event (`ScopeDrifts`), although
`resync_worker.hpp` lines 18-20 list both among the triggers; the reaper skips a
list while the dead worker's heartbeat key lives, and sweep 1 of the same cycle may
then give its row up, although `polling_fallback.cpp` lines 84-91 say the transfer
comes first; `polling_fallback.hpp` lines 27-36 describe a third sweep that
consults the database; V015 lines 14-16 speak of a
`job_schema_version` that no worker checks; in `OrgTree`, dropping the test for
cycles of `move_org_unit()` changes nothing, because the primary key of the
closure table rejects every such move.

One dependency worth knowing: a new unit inherits its closure safely only because
`org_units_acl_epoch_bump` sorts before `org_units_closure_insert`. PostgreSQL
fires triggers of one event by name, so the row lock of `companies` is held before
the parent's rows are read. With the two in the other order (the mutant of
`ClosureExact`) an insert below a unit that is being moved corrupts the closure.

## Proofs

Each proof module extends its component's module; between them they prove every
safety property the passing runs check, for every value of the constants. The
assumptions are the named `ASSUME`s of the modules, which TLC evaluates in the
runs: null values are not members, bounds are naturals, `Events` is finite
(`ConstantsAssumption`, `ReadersAssumption`, `StreamAssumption`), the corpus is
finite, its chunks belong to documents and limits and costs are naturals
(`RetrievalAssumption`), and the margin of a lease exceeds the gap of its release
(`GateAssumption`). Two theorems have a hypothesis of their own, `Prompt` and
`SimilarHolds`, where the code is right only under a condition on its settings.

* `IngestQueueProofs`. `IInv` adds to the properties how claims and row agree
  (`RowInv`: a token is the latest claim's, and an attempt is paid by the first
  claim, a resume or a compensation), what a worker in each state may rely on
  (`WorkerInv`: an entry is acknowledged only once its row is settled), what a
  reaper owes its sweep (`SchedulerInv`) and that entries belong to rows
  (`EntryInv`). `UnclaimedJobKept` is not inductive without these: LREM of the
  last copy is harmless only because of `WorkerInv`. Proved: `TypeCorrect`,
  `CommitsExactlyOnce`, `NoJobLost`, `PoisonJobStops`, `TerminalRowsStay`,
  `OnlyLatestClaimCommits`, `ReapedJobsSpared`.
* `OutboxEventsProofs`. `IInv` adds `HandConsistent`, what a worker in each state
  has done to its event; from it `OnlyFailuresSpendBudget`, `ClaimsConsistent`,
  `CompletionMeansApplied`, `BudgetIsFinal` and `OrderlyExit`. `PromptInv` bounds
  the age of a claim: with the time of the events still left in its worker's batch it
  is no more than the time of a whole batch and what was spent on the event in hand
  (`Young`). Under `Prompt` (`BatchSize * EventTime <= Lease`) it gives
  `PromptWorkersExclude` and `PromptClaimsNotStolen`, for batches of any size; only
  what a worker was holding when it stalled is excepted.
* `VectorSyncProofs`. The heart of `IInv` is `SettledIsClean`: once no open event
  answers for the current `acl_version`, all that is in the column and the index,
  or on its way there, has the scope of the last change, and `ResyncIsFresh`: a
  resync under way is either overtaken, and the newer event open, or about to
  establish that. `LockHeld` makes the write of the lock's holder the last one.
  Proved: `IndexNeverSilentlyStale`, `SyncStaysOwed`, `BookkeepingBacked`,
  `SyncedBehindIndex`, and with `PointsBehind` and `MaxLate = 0`
  `LockKeepsPayloadsMonotonic`, which needs that assumption: a late request
  overwrites a newer payload.
* `TreeReadersProofs`, in three layers.
  - `IInv` adds to the types that no transaction is about to reparent or remove the
    root (`RootInv`), which operation runs at which place (`StageInv`), that every
    unit has a closure row of itself (`SelfRows`) and that no transaction takes such
    a row from a unit it does not remove (`SelfInv`). From `SelfRows` alone follows
    the set-algebra contract: `SetAlgebraContract` for every set of grants at every
    moment, `ScopesAlwaysAgree` as the run states it, and `TreeTypeCorrect`.
  - `TreeInv` says what every transaction under way has in hand in terms of the
    closure as it is now: an insert's rows are what its parent has (`InsertOK`), a
    move's are the rows into its subtree and those from the new parent's ancestors
    (`MoveOK`), a delete's all rows of the units that go, which are closed downwards
    (`DeleteOK`); the closure is right step by step, each unit having what its parent
    has one step further away (`Exact`). The argument: a commit changes only the
    ancestors of units its transaction has locked (`Replaces`); another transaction
    that holds its own two units is `Clear` of them, so the rows it has read, deleted
    or checked are the same afterwards (`OutsideKept`, `SubtreeKept`, `LinksSeen`,
    `TouchingKept`); inserts, which hold no more than their parent's row, are safe
    because they read under the company's lock, as every commit is made under it.
    `InsertExact`, `MoveExact` and `DeleteExact` are the operations on a closure.
    Proved: `TreeAlwaysExact`, from it `ClosureAlwaysExact` (`Exact` determines the
    paths of `AtomicTree`, by induction on the distance; a distance is below the
    number of units because each step up names another unit) and the refinement
    `TransactionsActAtomically`.
  - The chart: the levels of `Forest` are known by their equation, a unit has one
    place by induction on its distance to the root, and what memberships reach
    through the closure is what `parent_id` gives: `ForestAlwaysWhole`, and
    `ChartsAlwaysWhole` for every caller at every moment.
* `EdgeIndexProofs`. `IInv` ties the edges to their events and bookkeeping
  (`EdgesOK`, `UpsertsOK`) and says what a process with an event in hand may rely on
  (`Hand`): its snapshot lies between the event's version and the edge's, the point
  is there when the bookkeeping is written, a completed event is indexed or dropped,
  a completed cleanup has deleted what it names or it was written again. That a point
  of a live edge is booked or has an open event behind it (`PointsTraced`) follows from
  `PointsEnqueued`, every point comes from an event, and from what completion means;
  the rest from `PointsFound`. Proved: all invariants of the run, and `BookkeepingIsVersionedIndex`, the refinement.
* `RetrievalProofs`. `AccessInv` speaks of copies of a snapshot, in Redis or in a
  request's hands (`CopyOK`): the stamp is not from the future; while epochs and
  lifetime let the copy through it is the live scope, and no membership behind it
  ends before the copy does; a request that took its `now` in time has seen it.
  `CachedScopeCurrent` is not inductive without that: an entry is a copy made
  earlier, and becomes current or not by steps of writers and of the clock.
  `RequestInv` adds that a request's lists have no repetition and, unless it was
  misled, only what a scope of its user could read since it began, and that the
  prompt is one of its evidence (`PromptOf`), by induction over the evidence. Of units
  it says nothing for an administrator.
  Proved: `CacheAlwaysCurrent`, `ScopeAlwaysWasLive`, `OnlyReadableEverDelivered`,
  `ContextAlwaysWhole`, `RequestsTypeCorrect`, and `ResolverAlwaysCurrent` for the
  resolver by itself.
* `LlmGateProofs`. `LimitInv`: the lease of a live slot outlasts all the time its call
  may still need it, the key has what is left of twice some lease that was new when
  this one was no newer (`Covered`), a slot went with the key only under a call as
  long as two leases of another (`LostOK`), and the set never exceeds the cap; the
  bucket filled lazily equals one filled at every tick. From it `CapAlwaysHeld`, for
  every set of timeouts, `BucketAlwaysExact`, and `SimilarHoldsKeepCap`: what
  `llm_gate.hpp` promises is true if no timeout, with the gap, reaches two leases of
  another. `StreamsAlwaysWhole` is an induction over the lines of a body,
  for every adapter, number of pieces, cut and error.
* `FoldFacts`. Induction over the natural numbers for a set instead of an operator,
  and that a loop has a run: what the proofs about loops, paths and recursive
  functions use in place of the library's induction theorems.

Some theorems state properties that no run checks, since the proof covers every
instance: `ClaimConsistent`, `ExhaustedStays`, `ExitReleases`, `StaleMeansDead`,
`BookkeepingHasPoints`, `SyncedNotAhead`, `ContractHolds`, `ChartsWhole`, and the
inductive invariants. `TreeInv` was also checked by TLC, with 4 units and two and
three transactions, before it was proved.

Only model-checked: the liveness properties `EventuallyTerminal`, `OrphansDrained`,
`EventSettles`, `SyncCatchesUp`, `IngestReachesIndex` and `SlotsReturn` (fairness and
ENABLED are out of the prover's reach). Of the four runs that expect a violation
the property is proved, under its condition, for `llm_hold` alone.

## Plan

1. Proofs: the step lemmas behind the liveness properties (which steps never take
   back what a fair one achieves), as action properties of their own.
2. `PrivilegedAccess`: the state machine of V036 under concurrent transactions,
   once code calls it.
3. `TenantRotation` (no tenant starves) and promotion statement by statement.

## Not modelled

* Parsers and chunker: pure functions on file formats and text, where a model that
  told the interesting cases apart would be the program again.
* Cryptography and HTTP: signatures, the refresh of the key set in a detached
  thread, connections of Redis, PostgreSQL and Qdrant.
* The rotation over tenants, partition maintenance, the exit of one scheduler
  worker that stops the others: independent of what is modelled.
* Privileged access, capability grants, access history, wiki, chat, retention,
  feedback, usage and prompt tables: schemas no code operates on.
* Reads of the edge administration and history, configuration, start-up, evaluation,
  and test doubles.

`PROJECT.json` has the list by component.
