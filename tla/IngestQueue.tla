----------------------------- MODULE IngestQueue -----------------------------
(***************************************************************************)
(* The ingest pipeline of one tenant: the Redis source queue and the       *)
(* per-worker processing lists, the ingest columns of document_versions,   *)
(* the ingest workers (src/src/ingest/worker.cpp and                       *)
(* src/src/application/ingest_document_version.cpp) and the schedulers'    *)
(* polling fallback (src/src/scheduler/polling_fallback.cpp).              *)
(*                                                                         *)
(* A message is the version it asks to ingest, or Malformed.  A worker id  *)
(* names one incarnation of the process: a restarted process draws a new   *)
(* random id, so Workers are never reused.  Time is abstracted: a row is   *)
(* `stuck' once its updated_at is older than stuck_threshold, and a        *)
(* heartbeat key may expire.  Every failure (a lost reply, a database      *)
(* error, a crash, a missed heartbeat) spends one of MaxFaults.            *)
(***************************************************************************)
EXTENDS Integers, Sequences, FiniteSets

CONSTANTS
    Versions,       \* document_versions rows of the tenant
    Workers,        \* ids of ingest worker incarnations
    Schedulers,     \* scheduler processes that run PollingFallback
    Malformed,      \* a queue entry that is not a valid IngestJob
    NoJob,          \* the worker or the reaper has no entry in hand
    NoWorker,       \* the reaper is on no processing list
    MaxResume,      \* Options::max_resume_attempts
    MaxFaults       \* bound: failures in a behaviour

ASSUME ConstantsAssumption ==
    /\ Malformed \notin Versions
    /\ NoJob \notin Versions \cup {Malformed}
    /\ NoWorker \notin Workers
    /\ MaxResume \in Nat
    /\ MaxFaults \in Nat

Messages == Versions \cup {Malformed}

VARIABLES
    \* PostgreSQL: one document_versions row per version; archived holds those
    \* with lifecycle_status 'archived' (set by hand: nothing here archives)
    ingest_status, ingest_job_payload, ingest_claim_token,
    ingest_retry_count, stuck, archived,
    \* Redis: source queue (head = right end), processing lists, heartbeats
    queue, proc, heartbeat,
    \* ingest workers
    wpc, wjob, wtoken,
    \* schedulers
    spc, todo, reaping, entries, entry, seen, deferred, to_requeue,
    \* the uploader has pushed the job; claims so far; commits of the unit of
    \* work; compensations of a failed requeue; failures so far
    uploaded, claims, commits, rollbacks, faults

rowVars    == <<ingest_status, ingest_job_payload, ingest_claim_token,
                ingest_retry_count, stuck, archived>>
redisVars  == <<queue, proc, heartbeat>>
workerVars == <<wpc, wjob, wtoken>>
schedVars  == <<spc, todo, reaping, entries, entry, seen, deferred, to_requeue>>
ghostVars  == <<claims, commits, rollbacks>>
vars == <<rowVars, redisVars, workerVars, schedVars, uploaded, ghostVars,
          faults>>

Terminal  == {"done", "error"}
Statuses  == {"absent", "pending", "processing"} \cup Terminal
WorkerPCs == {"off", "idle", "claim", "work", "fail", "ack", "back", "dead"}
SchedPCs  == {"idle", "reap", "transfer", "sweep", "push"}

NoToken == 0
NoEntries == [m \in Messages |-> 0]

TypeOK ==
    /\ ingest_status \in [Versions -> Statuses]
    /\ ingest_job_payload \in [Versions -> BOOLEAN]
    /\ ingest_claim_token \in [Versions -> Nat]
    /\ ingest_retry_count \in [Versions -> Nat]
    /\ stuck \in [Versions -> BOOLEAN]
    /\ archived \in SUBSET Versions
    /\ queue \in Seq(Messages)
    /\ proc \in [Workers -> [Messages -> Nat]]
    /\ heartbeat \in [Workers -> BOOLEAN]
    /\ wpc \in [Workers -> WorkerPCs]
    /\ wjob \in [Workers -> Messages \cup {NoJob}]
    /\ wtoken \in [Workers -> Nat]
    /\ spc \in [Schedulers -> SchedPCs]
    /\ todo \in [Schedulers -> SUBSET Workers]
    /\ reaping \in [Schedulers -> Workers \cup {NoWorker}]
    /\ entries \in [Schedulers -> [Messages -> Nat]]
    /\ entry \in [Schedulers -> Messages \cup {NoJob}]
    /\ seen \in [Schedulers -> SUBSET Versions]
    /\ deferred \in [Schedulers -> SUBSET Versions]
    /\ to_requeue \in [Schedulers -> SUBSET Versions]
    /\ uploaded \in [Versions -> BOOLEAN]
    /\ claims \in [Versions -> Nat]
    /\ commits \in [Versions -> Nat]
    /\ rollbacks \in [Versions -> Nat]
    /\ faults \in 0..MaxFaults

Init ==
    /\ ingest_status = [v \in Versions |-> "absent"]
    /\ ingest_job_payload = [v \in Versions |-> FALSE]
    /\ ingest_claim_token = [v \in Versions |-> NoToken]
    /\ ingest_retry_count = [v \in Versions |-> 0]
    /\ stuck = [v \in Versions |-> FALSE]
    /\ archived \in SUBSET Versions
    /\ queue = <<>>
    /\ proc = [w \in Workers |-> NoEntries]
    /\ heartbeat = [w \in Workers |-> FALSE]
    /\ wpc = [w \in Workers |-> "off"]
    /\ wjob = [w \in Workers |-> NoJob]
    /\ wtoken = [w \in Workers |-> NoToken]
    /\ spc = [s \in Schedulers |-> "idle"]
    /\ todo = [s \in Schedulers |-> {}]
    /\ reaping = [s \in Schedulers |-> NoWorker]
    /\ entries = [s \in Schedulers |-> NoEntries]
    /\ entry = [s \in Schedulers |-> NoJob]
    /\ seen = [s \in Schedulers |-> {}]
    /\ deferred = [s \in Schedulers |-> {}]
    /\ to_requeue = [s \in Schedulers |-> {}]
    /\ uploaded = [v \in Versions |-> FALSE]
    /\ claims = [v \in Versions |-> 0]
    /\ commits = [v \in Versions |-> 0]
    /\ rollbacks = [v \in Versions |-> 0]
    /\ faults = 0

\* One more failure happens.
Fault == faults < MaxFaults /\ faults' = faults + 1
NoFault == faults' = faults

-----------------------------------------------------------------------------
(* Redis lists.  The queue is used from both ends, so it is a sequence;    *)
(* a processing list is only searched by value, so it is a count per value.*)

\* LPUSH source m
Lpush(m) == queue' = Append(queue, m)

\* LREM list 1 m
Lrem(list, m) == [list EXCEPT ![m] = IF @ > 0 THEN @ - 1 ELSE 0]

\* Mutant: the removed entry is not pushed back.
TransferDropsEntry(w, m) ==
    /\ proc' = [proc EXCEPT ![w] = Lrem(@, m)]
    /\ UNCHANGED queue

\* transfer_proc_to_source: only the caller whose LREM removed the entry
\* pushes it back.
TransferProcToSource(w, m) ==
    /\ proc' = [proc EXCEPT ![w] = Lrem(@, m)]
    /\ IF proc[w][m] > 0 THEN Lpush(m) ELSE UNCHANGED queue

-----------------------------------------------------------------------------
(* The uploader (external): inserts the row, then pushes the job; it may   *)
(* stop in between.                                                        *)

InsertVersion(v) ==
    /\ ingest_status[v] = "absent"
    /\ ingest_status' = [ingest_status EXCEPT ![v] = "pending"]
    /\ UNCHANGED <<ingest_job_payload, ingest_claim_token, ingest_retry_count,
                   stuck, archived, redisVars, workerVars, schedVars, uploaded,
                   ghostVars, faults>>

PushJob(v) ==
    /\ ingest_status[v] # "absent"
    /\ ~uploaded[v]
    /\ uploaded' = [uploaded EXCEPT ![v] = TRUE]
    /\ Lpush(v)
    /\ UNCHANGED <<rowVars, proc, heartbeat, workerVars, schedVars,
                   ghostVars, faults>>

PushMalformed ==
    /\ Fault
    /\ Lpush(Malformed)
    /\ UNCHANGED <<rowVars, proc, heartbeat, workerVars, schedVars, uploaded,
                   ghostVars>>

\* updated_at of a row that waits falls behind now() - stuck_threshold.  A
\* sweep cycle is assumed shorter than the threshold, so a row whose entry the
\* reaper handles in this cycle does not fall behind before the cycle ends.
BecomeStuck(v) ==
    /\ ingest_status[v] \in {"pending", "processing"}
    /\ ~stuck[v]
    /\ \A s \in Schedulers : v \notin seen[s]
    /\ stuck' = [stuck EXCEPT ![v] = TRUE]
    /\ UNCHANGED <<ingest_status, ingest_job_payload, ingest_claim_token,
                   ingest_retry_count, archived, redisVars, workerVars,
                   schedVars, uploaded, ghostVars, faults>>

-----------------------------------------------------------------------------
(* IngestWorker                                                            *)

\* Mutant: a fatal failure does not stop the heartbeat.
RunningDespiteFatal(w) == wpc[w] # "off"

\* The process is up and its coroutine has not left run().
Running(w) == wpc[w] \notin {"off", "dead"}

\* w drops what it has in hand and continues at pc.
Goto(w, pc) ==
    /\ wpc' = [wpc EXCEPT ![w] = pc]
    /\ UNCHANGED <<wjob, wtoken>>

Release(w, pc) ==
    /\ wpc' = [wpc EXCEPT ![w] = pc]
    /\ wjob' = [wjob EXCEPT ![w] = NoJob]
    /\ wtoken' = [wtoken EXCEPT ![w] = NoToken]

\* run(): the first heartbeat, then the rotation.
Start(w) ==
    /\ wpc[w] = "off"
    /\ Goto(w, "idle")
    /\ heartbeat' = [heartbeat EXCEPT ![w] = TRUE]
    /\ UNCHANGED <<rowVars, queue, proc, schedVars, uploaded, ghostVars,
                   faults>>

\* The heartbeat timer; a no-op once fatal_failure_ is set (pc "dead").
RefreshHeartbeat(w) ==
    /\ Running(w)
    /\ ~heartbeat[w]
    /\ heartbeat' = [heartbeat EXCEPT ![w] = TRUE]
    /\ UNCHANGED <<rowVars, queue, proc, workerVars, schedVars, uploaded,
                   ghostVars, faults>>

\* The key's TTL elapses: always in the end for a worker that is gone, and by
\* a failure (blocked loop, unreachable Redis) for one that still runs.
HeartbeatExpires(w) ==
    /\ heartbeat[w]
    /\ IF Running(w) THEN Fault ELSE NoFault
    /\ heartbeat' = [heartbeat EXCEPT ![w] = FALSE]
    /\ UNCHANGED <<rowVars, queue, proc, workerVars, schedVars, uploaded,
                   ghostVars>>

\* try_one_rotation(): LMOVE source -> processing list.  A malformed payload
\* goes straight to its LREM.
TakeJob(w) ==
    /\ wpc[w] = "idle"
    /\ queue # <<>>
    /\ queue' = Tail(queue)
    /\ proc' = [proc EXCEPT ![w][Head(queue)] = @ + 1]
    /\ wpc' = [wpc EXCEPT ![w] = IF Head(queue) = Malformed
                                   THEN "ack" ELSE "claim"]
    /\ wjob' = [wjob EXCEPT ![w] = Head(queue)]
    /\ UNCHANGED <<rowVars, heartbeat, wtoken, schedVars, uploaded, ghostVars,
                   faults>>

\* The LMOVE ran but its reply was lost: the worker moves on, the entry stays
\* on its processing list.
TakeJobReplyLost(w) ==
    /\ wpc[w] = "idle"
    /\ queue # <<>>
    /\ Fault
    /\ queue' = Tail(queue)
    /\ proc' = [proc EXCEPT ![w][Head(queue)] = @ + 1]
    /\ UNCHANGED <<rowVars, heartbeat, workerVars, schedVars, uploaded,
                   ghostVars>>

\* Mutant: the claim does not test the status.
ClaimableAny(v) == v \notin archived

\* claim_for_processing: the WHERE clause of the compare-and-set.
Claimable(v) == ingest_status[v] = "pending" /\ v \notin archived

\* ... and its SET clause: payload and a fresh token with the status.
ClaimRow(v) ==
    /\ ingest_status' = [ingest_status EXCEPT ![v] = "processing"]
    /\ ingest_job_payload' = [ingest_job_payload EXCEPT ![v] = TRUE]
    /\ ingest_claim_token' = [ingest_claim_token EXCEPT ![v] = claims[v] + 1]
    /\ claims' = [claims EXCEPT ![v] = @ + 1]
    /\ stuck' = [stuck EXCEPT ![v] = FALSE]
    /\ UNCHANGED <<ingest_retry_count, archived>>

\* execute() step 1: a lost compare-and-set is DuplicateSkipped.
Claim(w) ==
    LET v == wjob[w] IN
    /\ wpc[w] = "claim"
    /\ IF Claimable(v)
         THEN /\ ClaimRow(v)
              /\ wpc' = [wpc EXCEPT ![w] = "work"]
              /\ wtoken' = [wtoken EXCEPT ![w] = claims[v] + 1]
         ELSE /\ wpc' = [wpc EXCEPT ![w] = "ack"]
              /\ UNCHANGED <<wtoken, rowVars, claims>>
    /\ UNCHANGED <<wjob, redisVars, schedVars, uploaded, commits, rollbacks,
                   faults>>

\* The claim fails with a database error, before or after it took effect:
\* execute() returns Err and the worker never learns the token.
ClaimFails(w) ==
    LET v == wjob[w] IN
    /\ wpc[w] = "claim"
    /\ Fault
    /\ \/ UNCHANGED <<rowVars, claims>>
       \/ Claimable(v) /\ ClaimRow(v)
    /\ Goto(w, "back")
    /\ UNCHANGED <<redisVars, schedVars, uploaded, commits, rollbacks>>

\* Reading, parsing, fetching the scopes or a write inside the unit of work
\* fails: the unit of work is rolled back and fail() runs.
WorkFails(w) ==
    /\ wpc[w] = "work"
    /\ Goto(w, "fail")
    /\ UNCHANGED <<rowVars, redisVars, schedVars, uploaded, ghostVars, faults>>

\* Mutant: the status stands for the token.
OwnsByStatus(w) == ingest_status[wjob[w]] = "processing"

\* The token test both terminal writes make.
OwnsClaim(w) == ingest_claim_token[wjob[w]] = wtoken[w]

\* A terminal write: status, and payload and token cleared.
EndRow(v, st) ==
    /\ ingest_status' = [ingest_status EXCEPT ![v] = st]
    /\ ingest_job_payload' = [ingest_job_payload EXCEPT ![v] = FALSE]
    /\ ingest_claim_token' = [ingest_claim_token EXCEPT ![v] = NoToken]
    /\ stuck' = [stuck EXCEPT ![v] = FALSE]
    /\ UNCHANGED <<ingest_retry_count, archived>>

\* Mutant: mark_ingest_done without its token test.
CommitDoneUnchecked(w) ==
    /\ EndRow(wjob[w], "done")
    /\ commits' = [commits EXCEPT ![wjob[w]] = @ + 1]

\* The unit of work as the database commits it: sections, chunks, audit and
\* outbox rows, and mark_ingest_done under the claim token.
CommitDone(w) ==
    /\ OwnsClaim(w)
    /\ EndRow(wjob[w], "done")
    /\ commits' = [commits EXCEPT ![wjob[w]] = @ + 1]

\* The unit of work commits (Processed), or mark_ingest_done matches no row
\* and everything is rolled back (OwnershipLost).
FinishWork(w) ==
    /\ wpc[w] = "work"
    /\ \/ CommitDone(w)
       \/ ~OwnsClaim(w) /\ UNCHANGED <<rowVars, commits>>
    /\ Goto(w, "ack")
    /\ UNCHANGED <<redisVars, schedVars, uploaded, claims, rollbacks, faults>>

\* COMMIT is reported as failed; it may have taken effect all the same.
CommitFails(w) ==
    /\ wpc[w] = "work"
    /\ OwnsClaim(w)
    /\ Fault
    /\ \/ UNCHANGED <<rowVars, commits>>
       \/ CommitDone(w)
    /\ Goto(w, "back")
    /\ UNCHANGED <<redisVars, schedVars, uploaded, claims, rollbacks>>

\* Mutant: a status outside the CHECK constraint of the column.
SetIngestFailed(w) == OwnsClaim(w) /\ EndRow(wjob[w], "failed")

\* set_ingest_status('error') under the claim token.
SetIngestError(w) == OwnsClaim(w) /\ EndRow(wjob[w], "error")

\* fail(): TerminalError, or OwnershipLost when no row matches.
Fail(w) ==
    /\ wpc[w] = "fail"
    /\ \/ SetIngestError(w)
       \/ ~OwnsClaim(w) /\ UNCHANGED rowVars
    /\ Goto(w, "ack")
    /\ UNCHANGED <<redisVars, schedVars, uploaded, ghostVars, faults>>

\* fail() itself meets a database error, before or after the write.
FailFails(w) ==
    /\ wpc[w] = "fail"
    /\ Fault
    /\ UNCHANGED rowVars \/ SetIngestError(w)
    /\ Goto(w, "back")
    /\ UNCHANGED <<redisVars, schedVars, uploaded, ghostVars>>

\* dispatch(): every outcome but Err removes the processing-list entry and
\* leaves the row alone; a failed LREM is ignored.
Acknowledge(w) ==
    /\ wpc[w] = "ack"
    /\ \/ /\ proc' = [proc EXCEPT ![w] = Lrem(@, wjob[w])]
          /\ NoFault
       \/ Fault /\ UNCHANGED proc
    /\ Release(w, "idle")
    /\ UNCHANGED <<rowVars, queue, heartbeat, schedVars, uploaded, ghostVars>>

\* dispatch(), Err: the entry goes back to the source queue unless a reaper
\* already moved it.
TransferBack(w) ==
    /\ wpc[w] = "back"
    /\ TransferProcToSource(w, wjob[w])
    /\ Release(w, "idle")
    /\ UNCHANGED <<rowVars, heartbeat, schedVars, uploaded, ghostVars, faults>>

\* All kXferAttempts transfers report -1 (one may have run): fatal_failure_,
\* and the heartbeat key is deleted if Redis answers.
TransferBackFatal(w) ==
    /\ wpc[w] = "back"
    /\ Fault
    /\ UNCHANGED <<queue, proc>> \/ TransferProcToSource(w, wjob[w])
    /\ Release(w, "dead")
    /\ \E hb \in {FALSE, heartbeat[w]} :
         heartbeat' = [heartbeat EXCEPT ![w] = hb]
    /\ UNCHANGED <<rowVars, schedVars, uploaded, ghostVars>>

\* SIGTERM between two jobs: run() returns and deletes the heartbeat key.
Shutdown(w) ==
    /\ wpc[w] = "idle"
    /\ Fault
    /\ Goto(w, "dead")
    /\ heartbeat' = [heartbeat EXCEPT ![w] = FALSE]
    /\ UNCHANGED <<rowVars, queue, proc, schedVars, uploaded, ghostVars>>

\* The process dies anywhere (also when UnitOfWork::begin throws, which
\* nothing in run() catches); its heartbeat key outlives it.
Crash(w) ==
    /\ Running(w)
    /\ Fault
    /\ Release(w, "dead")
    /\ UNCHANGED <<rowVars, redisVars, schedVars, uploaded, ghostVars>>

-----------------------------------------------------------------------------
(* PollingFallback.  sweep_once() is the reaper, the two database sweeps   *)
(* in one transaction under the advisory lock, then the post-commit pushes.*)

HasEntries(w) == \E m \in Messages : proc[w][m] > 0

\* Redis::scan_keys: a list without entries has no key.
ScanKeys == {w \in Workers : HasEntries(w)}

\* Redis::lrange, of a whole processing list.
Lrange(w) == proc[w]

\* The processing lists.
StartSweep(s) ==
    /\ spc[s] = "idle"
    /\ spc' = [spc EXCEPT ![s] = "reap"]
    /\ todo' = [todo EXCEPT ![s] = ScanKeys]
    /\ UNCHANGED <<rowVars, redisVars, workerVars, reaping, entries, entry,
                   seen, deferred, to_requeue, uploaded, ghostVars, faults>>

\* The heartbeat of the next list's worker is tested once; a list whose worker
\* is confirmed gone is read whole.  A failed EXISTS skips the list, and so does
\* a failed LRANGE, which looks like an empty one.
ReapList(s, w) ==
    /\ spc[s] = "reap"
    /\ w \in todo[s]
    /\ \A m \in Messages : entries[s][m] = 0
    /\ todo' = [todo EXCEPT ![s] = @ \ {w}]
    /\ \/ /\ ~heartbeat[w]
          /\ reaping' = [reaping EXCEPT ![s] = w]
          /\ entries' = [entries EXCEPT ![s] = Lrange(w)]
          /\ seen' = [seen EXCEPT ![s] = @ \cup {v \in Versions : proc[w][v] > 0}]
          /\ NoFault
       \/ /\ IF heartbeat[w] THEN NoFault ELSE Fault
          /\ UNCHANGED <<reaping, entries, seen>>
    /\ UNCHANGED <<rowVars, redisVars, workerVars, spc, entry, deferred,
                   to_requeue, uploaded, ghostVars>>

\* The reaper drops a malformed entry (the LREM may fail).
ReapMalformed(s) ==
    /\ spc[s] = "reap"
    /\ entries[s][Malformed] > 0
    /\ entries' = [entries EXCEPT ![s] = Lrem(@, Malformed)]
    /\ \/ /\ proc' = [proc EXCEPT ![reaping[s]] = Lrem(@, Malformed)]
          /\ NoFault
       \/ Fault /\ UNCHANGED proc
    /\ UNCHANGED <<rowVars, queue, heartbeat, workerVars, spc, todo, reaping,
                   entry, seen, deferred, to_requeue, uploaded, ghostVars>>

\* The no-op UPDATE of a pending row that bumps updated_at.
TouchPending(v) ==
    stuck' = [stuck EXCEPT ![v] = @ /\ ingest_status[v] # "pending"]

\* The reaper bumps updated_at of a pending row before it moves the entry; a
\* database error leaves the entry and defers the version.
ReapTouch(s, v) ==
    /\ spc[s] = "reap"
    /\ entries[s][v] > 0
    /\ entries' = [entries EXCEPT ![s] = Lrem(@, v)]
    /\ \/ /\ TouchPending(v)
          /\ spc' = [spc EXCEPT ![s] = "transfer"]
          /\ entry' = [entry EXCEPT ![s] = v]
          /\ NoFault
          /\ UNCHANGED deferred
       \/ /\ Fault
          /\ deferred' = [deferred EXCEPT ![s] = @ \cup {v}]
          /\ UNCHANGED stuck \/ TouchPending(v)
          /\ UNCHANGED <<spc, entry>>
    /\ UNCHANGED <<ingest_status, ingest_job_payload, ingest_claim_token,
                   ingest_retry_count, archived, redisVars, workerVars, todo,
                   reaping, seen, to_requeue, uploaded, ghostVars>>

\* The atomic transfer; on error the entry stays for the next cycle.
ReapTransfer(s) ==
    /\ spc[s] = "transfer"
    /\ \/ TransferProcToSource(reaping[s], entry[s]) /\ NoFault
       \/ Fault /\ UNCHANGED <<queue, proc>>
    /\ spc' = [spc EXCEPT ![s] = "reap"]
    /\ entry' = [entry EXCEPT ![s] = NoJob]
    /\ UNCHANGED <<rowVars, heartbeat, workerVars, todo, reaping, entries,
                   seen, deferred, to_requeue, uploaded, ghostVars>>

ReapDone(s) ==
    /\ spc[s] = "reap"
    /\ todo[s] = {}
    /\ \A m \in Messages : entries[s][m] = 0
    /\ spc' = [spc EXCEPT ![s] = "sweep"]
    /\ reaping' = [reaping EXCEPT ![s] = NoWorker]
    /\ UNCHANGED <<rowVars, redisVars, workerVars, todo, entries, entry,
                   seen, deferred, to_requeue, uploaded, ghostVars, faults>>

\* Mutants: sweep 1 ignores the deferred versions; sweep 2 selects only rows
\* that may still be resumed; the resume limit is off by one.
StuckPendingAll(s) ==
    {v \in Versions : ingest_status[v] = "pending" /\ stuck[v]}
StuckProcessingResumable ==
    {v \in Versions : /\ ingest_status[v] = "processing"
                      /\ stuck[v]
                      /\ ingest_retry_count[v] < MaxResume}
CanRequeueOnceMore(v) ==
    ingest_job_payload[v] /\ ingest_retry_count[v] <= MaxResume

\* Sweep 1: pending too long, and not deferred by the reaper of this cycle.
StuckPending(s) ==
    {v \in Versions : /\ ingest_status[v] = "pending"
                      /\ stuck[v]
                      /\ v \notin deferred[s]}

\* Sweep 2: processing too long.
StuckProcessing ==
    {v \in Versions : ingest_status[v] = "processing" /\ stuck[v]}

CanRequeue(v) ==
    ingest_job_payload[v] /\ ingest_retry_count[v] < MaxResume

\* What the transaction writes: back to 'pending' and one more resume, or
\* 'error' with the payload cleared; the claim token is cleared either way.
SweepRows(s) ==
    LET S == StuckPending(s) \cup StuckProcessing
        Requeued == {v \in S : CanRequeue(v)}
    IN  /\ ingest_status' = [v \in Versions |->
              IF v \in Requeued THEN "pending"
              ELSE IF v \in S THEN "error" ELSE ingest_status[v]]
        /\ ingest_job_payload' = [v \in Versions |->
              ingest_job_payload[v] /\ v \notin S \ Requeued]
        /\ ingest_claim_token' = [v \in Versions |->
              IF v \in S THEN NoToken ELSE ingest_claim_token[v]]
        /\ ingest_retry_count' = [v \in Versions |->
              IF v \in Requeued THEN ingest_retry_count[v] + 1
              ELSE ingest_retry_count[v]]
        /\ stuck' = [v \in Versions |-> stuck[v] /\ v \notin S]
        /\ UNCHANGED archived

EndSweep(s) ==
    /\ spc' = [spc EXCEPT ![s] = "idle"]
    /\ seen' = [seen EXCEPT ![s] = {}]
    /\ deferred' = [deferred EXCEPT ![s] = {}]

\* The transaction commits and the requeued versions are pushed next.
Sweep(s) ==
    /\ spc[s] = "sweep"
    /\ SweepRows(s)
    /\ to_requeue' = [to_requeue EXCEPT ![s] =
          {v \in StuckPending(s) \cup StuckProcessing : CanRequeue(v)}]
    /\ spc' = [spc EXCEPT ![s] = "push"]
    /\ UNCHANGED <<redisVars, workerVars, todo, reaping, entries, entry,
                   seen, deferred, uploaded, ghostVars, faults>>

\* The cycle ends without a sweep: another scheduler holds the advisory lock,
\* or begin, a statement or the commit failed.
SweepSkipped(s) ==
    /\ spc[s] = "sweep"
    /\ \/ (\E t \in Schedulers \ {s} : spc[t] = "sweep") /\ NoFault
       \/ Fault
    /\ EndSweep(s)
    /\ UNCHANGED <<rowVars, redisVars, workerVars, todo, reaping, entries,
                   entry, to_requeue, uploaded, ghostVars>>

\* The commit took effect but was reported as failed: nothing is pushed.
SweepReplyLost(s) ==
    /\ spc[s] = "sweep"
    /\ Fault
    /\ SweepRows(s)
    /\ EndSweep(s)
    /\ UNCHANGED <<redisVars, workerVars, todo, reaping, entries, entry,
                   to_requeue, uploaded, ghostVars>>

\* One LPUSH of the post-commit loop; when its reply is lost the next attempt
\* pushes a second copy.
Requeue(s, v) ==
    /\ spc[s] = "push"
    /\ v \in to_requeue[s]
    /\ Lpush(v)
    /\ \/ NoFault /\ to_requeue' = [to_requeue EXCEPT ![s] = @ \ {v}]
       \/ Fault /\ UNCHANGED to_requeue
    /\ UNCHANGED <<rowVars, proc, heartbeat, workerVars, spc, todo, reaping,
                   entries, entry, seen, deferred, uploaded, ghostVars>>

\* All kPushAttempts failed: the resume is given back by an unconditional
\* UPDATE, which may fail as well.
RequeueFails(s, v) ==
    /\ spc[s] = "push"
    /\ v \in to_requeue[s]
    /\ Fault
    /\ to_requeue' = [to_requeue EXCEPT ![s] = @ \ {v}]
    /\ \/ /\ ingest_retry_count' = [ingest_retry_count EXCEPT ![v] =
                                       IF @ > 0 THEN @ - 1 ELSE 0]
          /\ stuck' = [stuck EXCEPT ![v] = FALSE]
          /\ rollbacks' = [rollbacks EXCEPT ![v] = @ + 1]
       \/ UNCHANGED <<ingest_retry_count, stuck, rollbacks>>
    /\ UNCHANGED <<ingest_status, ingest_job_payload, ingest_claim_token,
                   archived, redisVars, workerVars, spc, todo, reaping,
                   entries, entry, seen, deferred, uploaded, claims, commits>>

RequeueDone(s) ==
    /\ spc[s] = "push"
    /\ to_requeue[s] = {}
    /\ EndSweep(s)
    /\ UNCHANGED <<rowVars, redisVars, workerVars, todo, reaping, entries,
                   entry, to_requeue, uploaded, ghostVars, faults>>

\* The scheduler process dies and is restarted: everything it held is gone.
SchedulerCrash(s) ==
    /\ spc[s] # "idle"
    /\ Fault
    /\ EndSweep(s)
    /\ todo' = [todo EXCEPT ![s] = {}]
    /\ reaping' = [reaping EXCEPT ![s] = NoWorker]
    /\ entries' = [entries EXCEPT ![s] = NoEntries]
    /\ entry' = [entry EXCEPT ![s] = NoJob]
    /\ to_requeue' = [to_requeue EXCEPT ![s] = {}]
    /\ UNCHANGED <<rowVars, redisVars, workerVars, uploaded, ghostVars>>

-----------------------------------------------------------------------------
Uploader == PushMalformed \/ \E v \in Versions : InsertVersion(v) \/ PushJob(v)

\* The steps a running worker takes by itself.
WorkerStep(w) ==
    \/ TakeJob(w) \/ Claim(w) \/ WorkFails(w) \/ FinishWork(w) \/ Fail(w)
    \/ Acknowledge(w) \/ TransferBack(w)

WorkerFault(w) ==
    \/ TakeJobReplyLost(w) \/ ClaimFails(w) \/ CommitFails(w) \/ FailFails(w)
    \/ TransferBackFatal(w) \/ Shutdown(w) \/ Crash(w)

SchedulerStep(s) ==
    \/ StartSweep(s)
    \/ \E w \in Workers : ReapList(s, w)
    \/ ReapMalformed(s)
    \/ \E v \in Versions : ReapTouch(s, v)
    \/ ReapTransfer(s) \/ ReapDone(s) \/ Sweep(s)
    \/ \E v \in Versions : Requeue(s, v)
    \/ RequeueDone(s)

SchedulerFault(s) ==
    \/ SweepSkipped(s) \/ SweepReplyLost(s) \/ SchedulerCrash(s)
    \/ \E v \in Versions : RequeueFails(s, v)

Next ==
    \/ Uploader
    \/ \E v \in Versions : BecomeStuck(v)
    \/ \E w \in Workers : \/ Start(w) \/ RefreshHeartbeat(w)
                          \/ HeartbeatExpires(w)
                          \/ WorkerStep(w) \/ WorkerFault(w)
    \/ \E s \in Schedulers : SchedulerStep(s) \/ SchedulerFault(s)

Spec == Init /\ [][Next]_vars

\* What the deployment schedules: the schedulers keep sweeping, time passes
\* for rows and for the heartbeats of dead workers, and a worker that is up
\* keeps going, its heartbeat timer too.  A sweep is skipped for the advisory
\* lock only while another one is under way, so one of them is always made in
\* the end.  The uploader may stop and no worker need ever start.
Fairness ==
    /\ \A v \in Versions : WF_vars(BecomeStuck(v))
    /\ \A w \in Workers : /\ WF_vars(WorkerStep(w))
                          /\ WF_vars(RefreshHeartbeat(w))
                          /\ WF_vars(~Running(w) /\ HeartbeatExpires(w))
    /\ \A s \in Schedulers : WF_vars(SchedulerStep(s))
    /\ SF_vars(\E s \in Schedulers : Sweep(s))

FairSpec == Spec /\ Fairness

-----------------------------------------------------------------------------
(* Properties                                                              *)

\* A version's chunks, audit row and outbox event are committed exactly when
\* its row is 'done', and never twice, whatever copies of its job circulate
\* and whichever worker the fallback has reset (mark_ingest_done's token test
\* with claim_for_processing's compare-and-set).
CommittedOnce ==
    \A v \in Versions : commits[v] = IF ingest_status[v] = "done" THEN 1 ELSE 0

\* A row that reached 'done' or 'error' is never moved again: not by a stale
\* worker, a redelivered job or a late sweep.
TerminalIsFinal ==
    [][\A v \in Versions :
          ingest_status[v] \in Terminal => ingest_status'[v] = ingest_status[v]]_vars

\* Only the worker of the latest claim commits, and only while that claim
\* stands: a worker the fallback reset commits nothing, even if nobody has
\* claimed the row again.
LatestClaimCommits ==
    [][\A v \in Versions :
          commits'[v] # commits[v] =>
             /\ ingest_status[v] = "processing"
             /\ \E w \in Workers : /\ wpc[w] = "work"
                                   /\ wjob[w] = v
                                   /\ wtoken[w] = claims[v]]_vars

\* A copy of v's job is on the queue or on a processing list.
InQueue(m) == \E i \in 1..Len(queue) : queue[i] = m
OnList(m) == \E w \in Workers : proc[w][m] > 0
HasEntry(v) == InQueue(v) \/ OnList(v)

\* A pushed job that no worker has claimed is still in Redis: neither lost
\* replies, crashes, reapers nor transfers drop the only copy.
UnclaimedJobKept ==
    \A v \in Versions \ archived :
       (uploaded[v] /\ ingest_status[v] = "pending" /\ ~ingest_job_payload[v])
          => HasEntry(v)

\* A poison job is attempted a bounded number of times: one claim, one more
\* per resume, and one more per resume given back by a failed requeue.
AttemptsBounded ==
    \A v \in Versions :
       /\ ingest_retry_count[v] <= MaxResume
       /\ claims[v] <= 1 + ingest_retry_count[v] + rollbacks[v]

\* The database sweeps never give up an unclaimed job whose entry the reaper
\* of the same cycle found on a dead worker's list: its row was touched or the
\* version deferred.
ReapedJobSpared ==
    [][\A s \in Schedulers :
          (spc[s] = "sweep" /\ spc'[s] # "sweep") =>
             \A v \in seen[s] :
                (ingest_status[v] = "pending" /\ ~ingest_job_payload[v])
                   => ingest_status'[v] # "error"]_vars

\* Every row that was inserted ends 'done' or 'error'.
EventuallyTerminal ==
    \A v \in Versions :
       ingest_status[v] = "pending" ~> ingest_status[v] \in Terminal

\* The processing list of a dead worker is emptied.
OrphansDrained ==
    \A w \in Workers : wpc[w] = "dead" ~> ~HasEntries(w)

-----------------------------------------------------------------------------
(* The inductive invariant behind the safety properties.                   *)

\* The row has been claimed or has ended: its payload is in the database, or
\* nothing is left to do.
Settled(v) ==
    ingest_status[v] \in {"processing"} \cup Terminal \/ ingest_job_payload[v]

\* Claims and the row agree.
RowInv ==
    \A v \in Versions :
       /\ ingest_status[v] # "processing" => ingest_claim_token[v] = NoToken
       /\ ingest_claim_token[v] \in {NoToken, claims[v]}
       /\ ingest_status[v] = "absent" => ~ingest_job_payload[v] /\ ~uploaded[v]
       /\ ingest_status[v] = "absent" => claims[v] = 0
       /\ ingest_retry_count[v] <= MaxResume
       /\ claims[v] <= ingest_retry_count[v] + rollbacks[v]
                       + (IF ingest_status[v] = "pending" THEN 0 ELSE 1)

\* What a worker has in hand.
WorkerInv ==
    \A w \in Workers :
       /\ wpc[w] \in {"claim", "work", "fail", "back"} => wjob[w] \in Versions
       /\ wpc[w] = "ack" => wjob[w] \in Messages
       /\ wpc[w] \in {"work", "fail"} => wtoken[w] > 0 /\ Settled(wjob[w])
       /\ (wpc[w] = "ack" /\ wjob[w] \in Versions \ archived)
             => Settled(wjob[w])

\* What a scheduler has in hand, and what its reaper owes the sweep.
SchedulerInv ==
    \A s \in Schedulers :
       /\ (\E m \in Messages : entries[s][m] > 0) => reaping[s] \in Workers
       /\ spc[s] = "transfer" => reaping[s] \in Workers /\ entry[s] \in Versions
       /\ spc[s] = "sweep" => \A m \in Messages : entries[s][m] = 0
       /\ \A v \in seen[s] :
             (stuck[v] /\ ~Settled(v)) => entries[s][v] > 0 \/ v \in deferred[s]

\* Every copy of a job belongs to a row.
EntryInv ==
    /\ \A v \in Versions : HasEntry(v) => ingest_status[v] # "absent"
    /\ \A w \in Workers :
          wjob[w] \in Versions => ingest_status[wjob[w]] # "absent"
    /\ \A s \in Schedulers : \A v \in seen[s] \cup to_requeue[s] :
          ingest_status[v] # "absent"

IInv ==
    /\ TypeOK
    /\ RowInv
    /\ WorkerInv
    /\ SchedulerInv
    /\ EntryInv
    /\ CommittedOnce
    /\ UnclaimedJobKept
=============================================================================
