---------------------------- MODULE OutboxEvents ----------------------------
(***************************************************************************)
(* The life of the outbox_events rows of one job type and the scheduler    *)
(* workers that drain them (src/src/scheduler/outbox_worker.cpp; the       *)
(* resync, embed-edge and edge-cleanup workers run the same SQL on their   *)
(* own job types).  What process() does to the index is left to the modules*)
(* about the index: here it only succeeds or fails, some time later.       *)
(*                                                                         *)
(* Time is discrete.  claim_age is the number of ticks since claimed_at,   *)
(* or Unclaimed where claimed_at IS NULL; it stops counting once past the  *)
(* lease.  Handling one event takes at most EventTime ticks, unless the    *)
(* worker stalls on it.  Failures (crash, stall, shutdown, database error) *)
(* spend one of MaxFaults.                                                 *)
(***************************************************************************)
EXTENDS Integers, FiniteSets

CONSTANTS
    Events,         \* rows of the job type
    Workers,        \* scheduler processes, by worker_id (host:pid)
    NoWorker,       \* claimed_by IS NULL
    NoEvent,        \* the worker has no event in hand
    MaxAttempts,    \* Options::max_attempts
    BatchSize,      \* Options::batch_size
    Lease,          \* Options::claim_lease, in ticks
    EventTime,      \* ticks the handling of one event takes without a stall
    MaxFaults       \* bound: failures in a behaviour

ASSUME ConstantsAssumption ==
    /\ NoWorker \notin Workers
    /\ NoEvent \notin Events
    /\ IsFiniteSet(Events)
    /\ MaxAttempts \in Nat \ {0}
    /\ BatchSize \in Nat \ {0}
    /\ Lease \in Nat
    /\ EventTime \in Nat
    /\ MaxFaults \in Nat

VARIABLES
    \* the rows
    enqueued, completed, claim_age, claimed_by, attempt_count, due,
    \* the workers: program counter, rest of the batch, event in hand, ticks
    \* spent on it, shutdown_()
    pc, batch, event, spent, stopping,
    \* process() has succeeded on the event; runs of mark_failed() on it, up
    \* to MaxAttempts; events a worker was holding when it stalled; failures
    \* so far
    applied, failures, hung, faults

rowVars    == <<enqueued, completed, claim_age, claimed_by, attempt_count, due>>
workerVars == <<pc, batch, event, spent, stopping>>
vars == <<rowVars, workerVars, applied, failures, hung, faults>>

Unclaimed == -1
Stalled   == EventTime + 1
PCs == {"idle", "claim", "drain", "process", "completed", "failed", "down"}

TypeOK ==
    /\ enqueued \in SUBSET Events
    /\ completed \in SUBSET Events
    /\ claim_age \in [Events -> Unclaimed..(Lease + 1)]
    /\ claimed_by \in [Events -> Workers \cup {NoWorker}]
    /\ attempt_count \in [Events -> 0..MaxAttempts]
    /\ due \in SUBSET Events
    /\ pc \in [Workers -> PCs]
    /\ batch \in [Workers -> SUBSET Events]
    /\ event \in [Workers -> Events \cup {NoEvent}]
    /\ spent \in [Workers -> 0..Stalled]
    /\ stopping \in SUBSET Workers
    /\ applied \in SUBSET Events
    /\ failures \in [Events -> 0..MaxAttempts]
    /\ hung \in SUBSET Events
    /\ faults \in 0..MaxFaults

Init ==
    /\ enqueued = {}
    /\ completed = {}
    /\ claim_age = [e \in Events |-> Unclaimed]
    /\ claimed_by = [e \in Events |-> NoWorker]
    /\ attempt_count = [e \in Events |-> 0]
    /\ due = {}
    /\ pc = [w \in Workers |-> "down"]
    /\ batch = [w \in Workers |-> {}]
    /\ event = [w \in Workers |-> NoEvent]
    /\ spent = [w \in Workers |-> 0]
    /\ stopping = {}
    /\ applied = {}
    /\ failures = [e \in Events |-> 0]
    /\ hung = {}
    /\ faults = 0

Fault == faults < MaxFaults /\ faults' = faults + 1

Claimed(e) == claim_age[e] # Unclaimed

-----------------------------------------------------------------------------
(* Producers and time                                                      *)

\* A trigger or a use case inserts the row, due at once.
Enqueue(e) ==
    /\ e \notin enqueued
    /\ enqueued' = enqueued \cup {e}
    /\ due' = due \cup {e}
    /\ UNCHANGED <<completed, claim_age, claimed_by, attempt_count, workerVars,
                   applied, failures, hung, faults>>

\* next_attempt_at passes.
BecomeDue(e) ==
    /\ e \in enqueued \ due
    /\ due' = due \cup {e}
    /\ UNCHANGED <<enqueued, completed, claim_age, claimed_by, attempt_count,
                   workerVars, applied, failures, hung, faults>>

\* A tick of the clock.  It passes while events are being handled, up to
\* EventTime for each unless the worker stalled; the loop around them takes no
\* time.
Tick ==
    /\ \A w \in Workers :
          /\ pc[w] = "drain" => batch[w] = {}
          /\ event[w] # NoEvent => spent[w] # EventTime
    /\ \/ \E w \in Workers : event[w] # NoEvent
       \/ \E e \in Events : claim_age[e] \in 0..Lease
    /\ claim_age' = [e \in Events |->
          IF claim_age[e] \in 0..Lease THEN claim_age[e] + 1 ELSE claim_age[e]]
    /\ spent' = [w \in Workers |->
          IF event[w] # NoEvent /\ spent[w] < EventTime
            THEN spent[w] + 1 ELSE spent[w]]
    /\ UNCHANGED <<enqueued, completed, claimed_by, attempt_count, due, pc,
                   batch, event, stopping, applied, failures, hung, faults>>

-----------------------------------------------------------------------------
(* OutboxWorker                                                            *)

\* GREATEST(attempt_count - 1, 0)
GiveBack(n) == IF n > 0 THEN n - 1 ELSE 0

\* Mutant: giving a claim up leaves the attempt counted.
ReleaseClaimsCounted(S) ==
    /\ claim_age' = [e \in Events |->
          IF e \in S THEN Unclaimed ELSE claim_age[e]]
    /\ claimed_by' = [e \in Events |->
          IF e \in S THEN NoWorker ELSE claimed_by[e]]
    /\ UNCHANGED attempt_count

\* The claims on S are given up and their attempts given back.
ReleaseClaims(S) ==
    /\ claim_age' = [e \in Events |->
          IF e \in S THEN Unclaimed ELSE claim_age[e]]
    /\ claimed_by' = [e \in Events |->
          IF e \in S THEN NoWorker ELSE claimed_by[e]]
    /\ attempt_count' = [e \in Events |->
          IF e \in S THEN GiveBack(attempt_count[e]) ELSE attempt_count[e]]

\* Mutant: no claim is ever old enough.
StaleNever == {e \in Events \ completed : claim_age[e] > Lease + 1}

\* claimed_at < now() - claim_lease
Stale == {e \in Events \ completed : claim_age[e] > Lease}

\* reap_stale_claims(), the first statement of claim_batch(); on a database
\* error it gives nothing up.
Reap(w) ==
    /\ pc[w] = "idle"
    /\ w \notin stopping
    /\ \/ ReleaseClaims(Stale) /\ UNCHANGED faults
       \/ Fault /\ UNCHANGED <<claim_age, claimed_by, attempt_count>>
    /\ pc' = [pc EXCEPT ![w] = "claim"]
    /\ UNCHANGED <<enqueued, completed, due, batch, event, spent, stopping,
                   applied, failures, hung>>

\* Mutant: rows somebody holds are claimed again.
ClaimableHeld ==
    {e \in enqueued \ completed : attempt_count[e] < MaxAttempts /\ e \in due}

\* Mutant: the attempts are not compared with max_attempts.
ClaimableForever == {e \in enqueued \ completed : ~Claimed(e) /\ e \in due}

\* The WHERE clause of claim_batch().
Claimable ==
    {e \in enqueued \ completed : /\ ~Claimed(e)
                                  /\ attempt_count[e] < MaxAttempts
                                  /\ e \in due}

\* LIMIT batch_size: as many claimable rows as fit.
Batches ==
    {S \in SUBSET Claimable :
        \/ Cardinality(S) = BatchSize
        \/ S = Claimable /\ Cardinality(S) < BatchSize}

\* ... and its SET clause.
ClaimRows(w, S) ==
    /\ claim_age' = [e \in Events |-> IF e \in S THEN 0 ELSE claim_age[e]]
    /\ claimed_by' = [e \in Events |-> IF e \in S THEN w ELSE claimed_by[e]]
    /\ attempt_count' = [e \in Events |->
          IF e \in S THEN attempt_count[e] + 1 ELSE attempt_count[e]]

ClaimBatch(w) ==
    /\ pc[w] = "claim"
    /\ \E S \in Batches :
          /\ ClaimRows(w, S)
          /\ batch' = [batch EXCEPT ![w] = S]
    /\ pc' = [pc EXCEPT ![w] = "drain"]
    /\ UNCHANGED <<enqueued, completed, due, event, spent, stopping, applied,
                   failures, hung, faults>>

\* The claim throws, before or after it took effect: the batch is empty.
ClaimBatchFails(w) ==
    /\ pc[w] = "claim"
    /\ Fault
    /\ \/ UNCHANGED <<claim_age, claimed_by, attempt_count>>
       \/ \E S \in Batches : ClaimRows(w, S)
    /\ pc' = [pc EXCEPT ![w] = "drain"]
    /\ UNCHANGED <<enqueued, completed, due, batch, event, spent, stopping,
                   applied, failures, hung>>

\* drain_once(): the next event of the batch, unless shutdown was requested.
NextEvent(w) ==
    /\ pc[w] = "drain"
    /\ w \notin stopping
    /\ \E e \in batch[w] :
          /\ event' = [event EXCEPT ![w] = e]
          /\ batch' = [batch EXCEPT ![w] = @ \ {e}]
    /\ pc' = [pc EXCEPT ![w] = "process"]
    /\ UNCHANGED <<rowVars, spent, stopping, applied, failures, hung, faults>>

\* drain_once() returns; the rest of the batch stays claimed.
EndDrain(w) ==
    /\ pc[w] = "drain"
    /\ batch[w] = {} \/ w \in stopping
    /\ batch' = [batch EXCEPT ![w] = {}]
    /\ pc' = [pc EXCEPT ![w] = "idle"]
    /\ UNCHANGED <<rowVars, event, spent, stopping, applied, failures, hung,
                   faults>>

\* process() returns: the side effect is in place, or an error.
Process(w) ==
    /\ pc[w] = "process"
    /\ \/ /\ applied' = applied \cup {event[w]}
          /\ pc' = [pc EXCEPT ![w] = "completed"]
       \/ /\ UNCHANGED applied
          /\ pc' = [pc EXCEPT ![w] = "failed"]
    /\ UNCHANGED <<rowVars, batch, event, spent, stopping, failures, hung,
                   faults>>

\* The event leaves w's hand.
NextOfBatch(w) ==
    /\ pc' = [pc EXCEPT ![w] = "drain"]
    /\ event' = [event EXCEPT ![w] = NoEvent]
    /\ spent' = [spent EXCEPT ![w] = 0]
    /\ UNCHANGED <<batch, stopping>>

\* Mutant: an event that failed is marked completed all the same.
MarkCompletedAlways(w) ==
    /\ pc[w] \in {"completed", "failed"}
    /\ completed' = completed \cup {event[w]}
    /\ claim_age' = [claim_age EXCEPT ![event[w]] = Unclaimed]
    /\ NextOfBatch(w)
    /\ UNCHANGED <<enqueued, claimed_by, attempt_count, due, applied, failures,
                   hung, faults>>

\* mark_completed(): by id alone, whoever holds the claim by now.
MarkCompleted(w) ==
    /\ pc[w] = "completed"
    /\ completed' = completed \cup {event[w]}
    /\ claim_age' = [claim_age EXCEPT ![event[w]] = Unclaimed]
    /\ NextOfBatch(w)
    /\ UNCHANGED <<enqueued, claimed_by, attempt_count, due, applied, failures,
                   hung, faults>>

\* mark_failed(): by id alone; the next attempt waits for its backoff.
MarkFailed(w) ==
    /\ pc[w] = "failed"
    /\ claim_age' = [claim_age EXCEPT ![event[w]] = Unclaimed]
    /\ claimed_by' = [claimed_by EXCEPT ![event[w]] = NoWorker]
    /\ due' = due \ {event[w]}
    /\ failures' = [failures EXCEPT ![event[w]] =
                       IF @ < MaxAttempts THEN @ + 1 ELSE @]
    /\ NextOfBatch(w)
    /\ UNCHANGED <<enqueued, completed, attempt_count, applied, hung, faults>>

\* Either update throws; the error is logged and the loop goes on.
MarkFails(w) ==
    /\ pc[w] \in {"completed", "failed"}
    /\ Fault
    /\ NextOfBatch(w)
    /\ UNCHANGED <<rowVars, applied, failures, hung>>

-----------------------------------------------------------------------------
(* Start, shutdown and crash                                               *)

Start(w) ==
    /\ pc[w] = "down"
    /\ pc' = [pc EXCEPT ![w] = "idle"]
    /\ UNCHANGED <<rowVars, batch, event, spent, stopping, applied, failures,
                   hung, faults>>

RequestShutdown(w) ==
    /\ pc[w] # "down"
    /\ w \notin stopping
    /\ Fault
    /\ stopping' = stopping \cup {w}
    /\ UNCHANGED <<rowVars, pc, batch, event, spent, applied, failures, hung>>

\* The claims release_my_claims() gives up.
Mine(w) == {e \in Events \ completed : claimed_by[e] = w}

\* The end of run(): release_my_claims(), which may fail.
Exit(w) ==
    /\ pc[w] = "idle"
    /\ w \in stopping
    /\ \/ ReleaseClaims(Mine(w)) /\ UNCHANGED faults
       \/ Fault /\ UNCHANGED <<claim_age, claimed_by, attempt_count>>
    /\ pc' = [pc EXCEPT ![w] = "down"]
    /\ stopping' = stopping \ {w}
    /\ UNCHANGED <<enqueued, completed, due, batch, event, spent, applied,
                   failures, hung>>

Crash(w) ==
    /\ pc[w] # "down"
    /\ Fault
    /\ pc' = [pc EXCEPT ![w] = "down"]
    /\ batch' = [batch EXCEPT ![w] = {}]
    /\ event' = [event EXCEPT ![w] = NoEvent]
    /\ spent' = [spent EXCEPT ![w] = 0]
    /\ stopping' = stopping \ {w}
    /\ UNCHANGED <<rowVars, applied, failures, hung>>

\* EventTime is over and the event is not marked: process() waits for a service
\* without a timeout, or the process is suspended.
Stall(w) ==
    /\ event[w] # NoEvent
    /\ spent[w] = EventTime
    /\ Fault
    /\ spent' = [spent EXCEPT ![w] = Stalled]
    /\ hung' = hung \cup {event[w]} \cup batch[w]
    /\ UNCHANGED <<rowVars, pc, batch, event, stopping, applied, failures>>

-----------------------------------------------------------------------------
\* A step of run() and of what it calls.
WorkerStep(w) ==
    \/ Reap(w) \/ ClaimBatch(w) \/ NextEvent(w) \/ EndDrain(w) \/ Process(w)
    \/ MarkCompleted(w) \/ MarkFailed(w) \/ Exit(w)

Next ==
    \/ \E e \in Events : Enqueue(e) \/ BecomeDue(e)
    \/ Tick
    \/ \E w \in Workers :
          \/ Start(w) \/ WorkerStep(w) \/ ClaimBatchFails(w) \/ MarkFails(w)
          \/ RequestShutdown(w) \/ Crash(w) \/ Stall(w)

Spec == Init /\ [][Next]_vars

\* The clock always runs on (strong fairness: a tick waits for a step of the
\* loop, never for ever), backoffs end, a process that stopped is started again
\* and each worker's coroutine is resumed, after a stall too.
FairSpec ==
    /\ Spec
    /\ SF_vars(Tick)
    /\ \A e \in Events : WF_vars(BecomeDue(e))
    /\ \A w \in Workers : WF_vars(Start(w)) /\ WF_vars(WorkerStep(w))

-----------------------------------------------------------------------------
(* Properties                                                              *)

\* Only failures spend the retry budget: every attempt that counts on an
\* unclaimed row ended in mark_failed().  Attempts that ended in a crash, a
\* reaped lease, a shutdown or a lost reply were given back, however the
\* workers' statements interleaved.
BudgetSpentByFailuresOnly ==
    \A e \in Events \ completed :
        attempt_count[e] <= failures[e] + (IF Claimed(e) THEN 1 ELSE 0)

\* A row is completed only after process() has succeeded on it, in the hands of
\* whichever worker, whatever failed, was retried or was abandoned before.
CompletedWasApplied == completed \subseteq applied

\* What w has taken from its batch and not yet marked.
Handling(w, e) == event[w] = e

\* No event of a batch takes its worker past the lease: the claim is taken for
\* the whole batch at once and not renewed between its events.
Prompt == BatchSize * EventTime <= Lease

\* The claim is exclusive: no event is handled by two workers at once, while
\* batch after batch is claimed, shutdowns leave the rest of one claimed and
\* crashed workers' claims are reaped.  The exception is an event a worker was
\* holding, in hand or later in its batch, when it stalled.  It takes a lease
\* as long as the batch (Prompt), not as one event.
OneHandler ==
    \A v, w \in Workers : \A e \in Events \ hung :
        Handling(v, e) /\ Handling(w, e) => v = w

\* A claim past its lease means that the worker holding it died (the reading
\* V015 gives of claimed_at, and outbox_worker.hpp of claim_lease): it is not
\* waiting in the batch or in the hand of a worker that is up, unless that
\* worker stalled.
StaleMeansDead ==
    \A w \in Workers : \A e \in Stale \ hung :
        claimed_by[e] = w => e \notin batch[w] /\ ~Handling(w, e)

\* Claims are consistent: while a row is open, claimed_at and claimed_by are
\* set and cleared together and a claimed row has an attempt to give back, so
\* GREATEST(attempt_count - 1, 0) never clips.
ClaimConsistent ==
    \A e \in Events \ completed :
        /\ Claimed(e) <=> claimed_by[e] # NoWorker
        /\ Claimed(e) => attempt_count[e] > 0

\* What a worker has in hand: an event exactly while it handles one, and
\* process() has succeeded on the one it is about to mark completed.
HandConsistent ==
    \A w \in Workers :
        /\ event[w] # NoEvent <=> pc[w] \in {"process", "completed", "failed"}
        /\ pc[w] = "completed" => event[w] \in applied

\* The inductive invariant behind the safety properties.
IInv ==
    /\ TypeOK
    /\ ClaimConsistent
    /\ BudgetSpentByFailuresOnly
    /\ CompletedWasApplied
    /\ HandConsistent

\* Events w still has to work through, the one in hand included.
Left(w) == Cardinality(batch[w]) + (IF event[w] # NoEvent THEN 1 ELSE 0)

\* The events w has, in its hand or in its batch, that it did not stall on.
Has(w) == {e \in Events \ hung : Handling(w, e) \/ e \in batch[w]}

\* w's claim on e is w's own and no older than the work on the events that left
\* the batch, so that it lasts for those still in it.
Young(w, e) ==
    /\ e \notin completed
    /\ claimed_by[e] = w
    /\ Claimed(e)
    /\ claim_age[e] + Left(w) * EventTime <= BatchSize * EventTime + spent[w]

\* The one behind OneHandler, for a batch that is handled within the lease.
PromptInv ==
    \A w \in Workers :
        /\ pc[w] \in {"idle", "claim", "down"} => batch[w] = {}
        /\ event[w] \notin batch[w]
        /\ event[w] = NoEvent => spent[w] = 0
        /\ spent[w] = Stalled => Has(w) = {}
        /\ \A e \in Has(w) : Young(w, e)

\* The retry budget is spent on a row nobody holds.
Exhausted(e) == attempt_count[e] = MaxAttempts /\ ~Claimed(e)

\* An exhausted row stays exhausted: no late reaper, shutdown or crash revives
\* it (a worker that still has it in hand may yet complete it).
ExhaustedStays ==
    [][\A e \in Events : Exhausted(e) => Exhausted(e)']_vars

\* A worker that exits in order leaves no open claim behind.
ExitReleases ==
    [][\A w \in Workers : Exit(w) /\ faults' = faults =>
          \A e \in Events \ completed' : claimed_by'[e] # w]_vars

\* Every event is in the end completed or has its retry budget spent, and stays
\* so: neither crashes nor stalls nor lost claims strand it or revive it.
EventSettles ==
    <>[](\A e \in enqueued : e \in completed \/ Exhausted(e))
=============================================================================
