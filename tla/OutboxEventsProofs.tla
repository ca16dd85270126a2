------------------------- MODULE OutboxEventsProofs -------------------------
(***************************************************************************)
(* Proofs about OutboxEvents: what the claim, the lease and the retry      *)
(* budget of outbox_events guarantee for every number of events, workers,  *)
(* attempts, ticks and failures.                                           *)
(***************************************************************************)
EXTENDS OutboxEvents, FiniteSetTheorems, TLAPS

-----------------------------------------------------------------------------
\* Types are preserved by every step of the workers and of their environment.
LEMMA TypeStep ==
    ASSUME TypeOK, HandConsistent, [Next]_vars
    PROVE  TypeOK'
<1> USE ConstantsAssumption
<1>1. ASSUME NEW e \in Events, Enqueue(e) PROVE TypeOK'
  BY <1>1 DEF TypeOK, Enqueue, workerVars
<1>2. ASSUME NEW e \in Events, BecomeDue(e) PROVE TypeOK'
  BY <1>2 DEF TypeOK, BecomeDue, workerVars
<1>3. CASE Tick
  <2>1. claim_age' \in [Events -> Unclaimed..(Lease + 1)]
    BY <1>3 DEF TypeOK, Tick, Unclaimed
  <2>2. spent' \in [Workers -> 0..Stalled]
    BY <1>3 DEF TypeOK, Tick, Stalled
  <2> QED BY <1>3, <2>1, <2>2 DEF TypeOK, Tick
<1>4. ASSUME NEW S \in SUBSET Events, ReleaseClaims(S)
      PROVE  /\ claim_age' \in [Events -> Unclaimed..(Lease + 1)]
             /\ claimed_by' \in [Events -> Workers \cup {NoWorker}]
             /\ attempt_count' \in [Events -> 0..MaxAttempts]
  BY <1>4 DEF TypeOK, ReleaseClaims, GiveBack, Unclaimed
<1>5. ASSUME NEW w \in Workers, NEW S \in Batches, ClaimRows(w, S)
      PROVE  /\ claim_age' \in [Events -> Unclaimed..(Lease + 1)]
             /\ claimed_by' \in [Events -> Workers \cup {NoWorker}]
             /\ attempt_count' \in [Events -> 0..MaxAttempts]
  BY <1>5 DEF TypeOK, ClaimRows, Unclaimed, Batches, Claimable
<1>6. ASSUME NEW w \in Workers, Start(w) PROVE TypeOK'
  BY <1>6 DEF TypeOK, Start, rowVars, PCs
<1>7. ASSUME NEW w \in Workers, Reap(w) PROVE TypeOK'
  <2>1. Stale \in SUBSET Events
    BY DEF Stale
  <2>2. /\ claim_age' \in [Events -> Unclaimed..(Lease + 1)]
        /\ claimed_by' \in [Events -> Workers \cup {NoWorker}]
        /\ attempt_count' \in [Events -> 0..MaxAttempts]
    BY <1>4, <1>7, <2>1 DEF TypeOK, Reap
  <2> QED BY <1>7, <2>2 DEF TypeOK, Reap, Fault, PCs
<1>8. ASSUME NEW w \in Workers, ClaimBatch(w) PROVE TypeOK'
  <2>1. PICK S \in Batches : ClaimRows(w, S) /\ batch' = [batch EXCEPT ![w] = S]
    BY <1>8 DEF ClaimBatch
  <2>2. S \in SUBSET Events
    BY DEF Batches, Claimable, TypeOK
  <2> QED BY <1>5, <1>8, <2>1, <2>2 DEF TypeOK, ClaimBatch, PCs
<1>9. ASSUME NEW w \in Workers, ClaimBatchFails(w) PROVE TypeOK'
  <2>1. /\ claim_age' \in [Events -> Unclaimed..(Lease + 1)]
        /\ claimed_by' \in [Events -> Workers \cup {NoWorker}]
        /\ attempt_count' \in [Events -> 0..MaxAttempts]
    BY <1>5, <1>9 DEF TypeOK, ClaimBatchFails
  <2> QED BY <1>9, <2>1 DEF TypeOK, ClaimBatchFails, Fault, PCs
<1>10. ASSUME NEW w \in Workers, NextEvent(w) PROVE TypeOK'
  BY <1>10 DEF TypeOK, NextEvent, rowVars, PCs
<1>11. ASSUME NEW w \in Workers, EndDrain(w) PROVE TypeOK'
  BY <1>11 DEF TypeOK, EndDrain, rowVars, PCs
<1>12. ASSUME NEW w \in Workers, Process(w) PROVE TypeOK'
  BY <1>12 DEF TypeOK, HandConsistent, Process, rowVars, PCs
<1>13. ASSUME NEW w \in Workers, MarkCompleted(w) PROVE TypeOK'
  BY <1>13 DEF TypeOK, HandConsistent, MarkCompleted, NextOfBatch, PCs,
               Unclaimed, Stalled
<1>14. ASSUME NEW w \in Workers, MarkFailed(w) PROVE TypeOK'
  BY <1>14 DEF TypeOK, HandConsistent, MarkFailed, NextOfBatch, PCs,
               Unclaimed, Stalled
<1>15. ASSUME NEW w \in Workers, MarkFails(w) PROVE TypeOK'
  BY <1>15 DEF TypeOK, MarkFails, NextOfBatch, Fault, rowVars, PCs,
              Stalled
<1>16. ASSUME NEW w \in Workers, RequestShutdown(w) PROVE TypeOK'
  BY <1>16 DEF TypeOK, RequestShutdown, Fault, rowVars
<1>17. ASSUME NEW w \in Workers, Exit(w) PROVE TypeOK'
  <2>1. Mine(w) \in SUBSET Events
    BY DEF Mine
  <2>2. /\ claim_age' \in [Events -> Unclaimed..(Lease + 1)]
        /\ claimed_by' \in [Events -> Workers \cup {NoWorker}]
        /\ attempt_count' \in [Events -> 0..MaxAttempts]
    BY <1>4, <1>17, <2>1 DEF TypeOK, Exit
  <2> QED BY <1>17, <2>2 DEF TypeOK, Exit, Fault, PCs
<1>18. ASSUME NEW w \in Workers, Crash(w) PROVE TypeOK'
  BY <1>18 DEF TypeOK, Crash, Fault, rowVars, PCs, Stalled
<1>19. CASE UNCHANGED vars
  BY <1>19 DEF TypeOK, vars, rowVars, workerVars
<1>20. ASSUME NEW w \in Workers, Stall(w) PROVE TypeOK'
  <2>1. spent' \in [Workers -> 0..Stalled]
    BY <1>20 DEF TypeOK, Stall, Stalled
  <2>2. hung' \in SUBSET Events
    BY <1>20 DEF TypeOK, Stall
  <2> QED BY <1>20, <2>1, <2>2 DEF TypeOK, Stall, Fault, rowVars
<1> QED
  BY <1>1, <1>2, <1>3, <1>6, <1>7, <1>8, <1>9, <1>10, <1>11, <1>12, <1>13,
     <1>14, <1>15, <1>16, <1>17, <1>18, <1>19, <1>20 DEF Next, WorkerStep

-----------------------------------------------------------------------------
\* How giving claims up changes one row.
LEMMA ReleasedRow ==
    ASSUME TypeOK, NEW S \in SUBSET Events, ReleaseClaims(S), NEW e \in Events
    PROVE  /\ e \in S => /\ ~Claimed(e)'
                         /\ claimed_by'[e] = NoWorker
                         /\ attempt_count'[e] = GiveBack(attempt_count[e])
           /\ e \notin S => /\ claim_age'[e] = claim_age[e]
                            /\ claimed_by'[e] = claimed_by[e]
                            /\ attempt_count'[e] = attempt_count[e]
  BY DEF ReleaseClaims, Claimed

\* ... and how the claim changes one row.
LEMMA ClaimedRow ==
    ASSUME TypeOK, NEW w \in Workers, NEW S \in Batches, ClaimRows(w, S),
           NEW e \in Events
    PROVE  /\ e \in S => /\ claim_age'[e] = 0
                         /\ claimed_by'[e] = w
                         /\ attempt_count'[e] = attempt_count[e] + 1
                         /\ e \notin completed
                         /\ ~Claimed(e)
                         /\ attempt_count[e] < MaxAttempts
           /\ e \notin S => /\ claim_age'[e] = claim_age[e]
                            /\ claimed_by'[e] = claimed_by[e]
                            /\ attempt_count'[e] = attempt_count[e]
  BY DEF ClaimRows, Batches, Claimable

\* A stale claim is a claim.
LEMMA StaleClaimed ==
    ASSUME TypeOK, NEW e \in Stale
    PROVE  e \in Events /\ e \notin completed /\ Claimed(e)
  BY ConstantsAssumption DEF Stale, Claimed, Unclaimed, TypeOK

\* Every column of the rows that a claim is made of is left alone.
Quiet ==
    UNCHANGED <<completed, claim_age, claimed_by, attempt_count, failures>>

\* The steps of a worker that do so.
LEMMA QuietWorkers ==
    ASSUME NEW w \in Workers,
           \/ Start(w) \/ NextEvent(w) \/ EndDrain(w) \/ Process(w)
           \/ MarkFails(w) \/ RequestShutdown(w) \/ Crash(w) \/ Stall(w)
    PROVE  Quiet
  BY DEF Quiet, Start, NextEvent, EndDrain, Process, MarkFails,
         RequestShutdown, Crash, Stall, rowVars

\* ... and the same of the producers and of time.
LEMMA QuietRows ==
    ASSUME \/ \E e \in Events : Enqueue(e) \/ BecomeDue(e)
           \/ UNCHANGED vars
    PROVE  Quiet
  BY DEF Quiet, Enqueue, BecomeDue, vars, rowVars

\* What a worker has in hand, step by step.
LEMMA HandStep ==
    ASSUME TypeOK, HandConsistent, [Next]_vars
    PROVE  HandConsistent'
<1> USE ConstantsAssumption
<1>1. ASSUME NEW e \in Events, Enqueue(e) \/ BecomeDue(e)
      PROVE  HandConsistent'
  BY <1>1 DEF HandConsistent, Enqueue, BecomeDue, workerVars
<1>2. CASE Tick
  BY <1>2 DEF HandConsistent, Tick
<1>3. ASSUME NEW w \in Workers, Start(w) \/ RequestShutdown(w) \/ Exit(w)
      PROVE  HandConsistent'
  BY <1>3 DEF TypeOK, HandConsistent, Start, RequestShutdown, Exit
<1>4. ASSUME NEW w \in Workers, Reap(w) \/ ClaimBatch(w) \/ ClaimBatchFails(w)
      PROVE  HandConsistent'
  BY <1>4 DEF TypeOK, HandConsistent, Reap, ClaimBatch, ClaimBatchFails
<1>5. ASSUME NEW w \in Workers, NextEvent(w) PROVE HandConsistent'
  BY <1>5 DEF TypeOK, HandConsistent, NextEvent
<1>6. ASSUME NEW w \in Workers, EndDrain(w) PROVE HandConsistent'
  BY <1>6 DEF TypeOK, HandConsistent, EndDrain
<1>7. ASSUME NEW w \in Workers, Process(w) PROVE HandConsistent'
  BY <1>7 DEF TypeOK, HandConsistent, Process
<1>8. ASSUME NEW w \in Workers,
             MarkCompleted(w) \/ MarkFailed(w) \/ MarkFails(w)
      PROVE  HandConsistent'
  BY <1>8 DEF TypeOK, HandConsistent, MarkCompleted, MarkFailed, MarkFails,
              NextOfBatch
<1>9. ASSUME NEW w \in Workers, Crash(w) \/ Stall(w) PROVE HandConsistent'
  BY <1>9 DEF TypeOK, HandConsistent, Crash, Stall
<1>10. CASE UNCHANGED vars
  BY <1>10 DEF HandConsistent, vars, workerVars
<1> QED
  BY <1>1, <1>2, <1>3, <1>4, <1>5, <1>6, <1>7, <1>8, <1>9, <1>10
     DEF Next, WorkerStep

-----------------------------------------------------------------------------
\* claimed_at and claimed_by stay together on open rows.
LEMMA ConsistentStep ==
    ASSUME TypeOK, HandConsistent, ClaimConsistent, [Next]_vars
    PROVE  ClaimConsistent'
<1> USE ConstantsAssumption
<1>1. CASE Quiet
  BY <1>1 DEF Quiet, ClaimConsistent, Claimed
<1>2. CASE Tick
  BY <1>2 DEF Tick, ClaimConsistent, Claimed, Unclaimed, TypeOK
<1>3. ASSUME NEW S \in SUBSET Events, ReleaseClaims(S), completed' = completed
      PROVE  ClaimConsistent'
  <2> SUFFICES ASSUME NEW e \in Events \ completed
               PROVE  /\ Claimed(e)' <=> claimed_by'[e] # NoWorker
                      /\ Claimed(e)' => attempt_count'[e] > 0
    BY <1>3 DEF ClaimConsistent
  <2>1. CASE e \in S
    BY <1>3, <2>1, ReleasedRow
  <2>2. CASE e \notin S
    BY <1>3, <2>2, ReleasedRow DEF ClaimConsistent, Claimed
  <2> QED BY <2>1, <2>2
<1>4. ASSUME NEW w \in Workers, NEW S \in Batches, ClaimRows(w, S),
             completed' = completed
      PROVE  ClaimConsistent'
  <2> SUFFICES ASSUME NEW e \in Events \ completed
               PROVE  /\ Claimed(e)' <=> claimed_by'[e] # NoWorker
                      /\ Claimed(e)' => attempt_count'[e] > 0
    BY <1>4 DEF ClaimConsistent
  <2>1. CASE e \in S
    BY <1>4, <2>1, ClaimedRow DEF Claimed, Unclaimed, TypeOK
  <2>2. CASE e \notin S
    BY <1>4, <2>2, ClaimedRow DEF ClaimConsistent, Claimed
  <2> QED BY <2>1, <2>2
<1>5. ASSUME NEW w \in Workers, Reap(w) \/ Exit(w) PROVE ClaimConsistent'
  BY <1>1, <1>3, <1>5 DEF Reap, Exit, Stale, Mine, Quiet
<1>6. ASSUME NEW w \in Workers, ClaimBatch(w) \/ ClaimBatchFails(w)
      PROVE  ClaimConsistent'
  BY <1>1, <1>4, <1>6 DEF ClaimBatch, ClaimBatchFails, Quiet
<1>7. ASSUME NEW w \in Workers, MarkCompleted(w) PROVE ClaimConsistent'
  BY <1>7 DEF MarkCompleted, HandConsistent, ClaimConsistent, Claimed, TypeOK
<1>8. ASSUME NEW w \in Workers, MarkFailed(w) PROVE ClaimConsistent'
  BY <1>8 DEF MarkFailed, HandConsistent, ClaimConsistent, Claimed, TypeOK
<1> QED
  BY <1>1, <1>2, <1>5, <1>6, <1>7, <1>8, QuietWorkers,
     QuietRows DEF Next, WorkerStep

\* Attempts that count are failures.
LEMMA BudgetStep ==
    ASSUME TypeOK, HandConsistent, ClaimConsistent, BudgetSpentByFailuresOnly,
           [Next]_vars
    PROVE  BudgetSpentByFailuresOnly'
<1> USE ConstantsAssumption
<1>1. CASE Quiet
  BY <1>1 DEF Quiet, BudgetSpentByFailuresOnly, Claimed
<1>2. CASE Tick
  BY <1>2 DEF Tick, BudgetSpentByFailuresOnly, Claimed, Unclaimed, TypeOK
<1>3. ASSUME NEW S \in SUBSET Events, ReleaseClaims(S), completed' = completed,
             failures' = failures
      PROVE  BudgetSpentByFailuresOnly'
  <2> SUFFICES ASSUME NEW e \in Events \ completed
               PROVE  attempt_count'[e] <=
                        failures[e] + (IF Claimed(e)' THEN 1 ELSE 0)
    BY <1>3 DEF BudgetSpentByFailuresOnly
  <2>1. attempt_count[e] <= failures[e] + (IF Claimed(e) THEN 1 ELSE 0)
    BY DEF BudgetSpentByFailuresOnly
  <2>2. attempt_count[e] \in Nat /\ failures[e] \in Nat
    BY DEF TypeOK
  <2>3. CASE e \in S
    BY <1>3, <2>1, <2>2, <2>3, ReleasedRow DEF GiveBack
  <2>4. CASE e \notin S
    BY <1>3, <2>1, <2>4, ReleasedRow DEF Claimed
  <2> QED BY <2>3, <2>4
<1>4. ASSUME NEW w \in Workers, NEW S \in Batches, ClaimRows(w, S),
             completed' = completed, failures' = failures
      PROVE  BudgetSpentByFailuresOnly'
  <2> SUFFICES ASSUME NEW e \in Events \ completed
               PROVE  attempt_count'[e] <=
                        failures[e] + (IF Claimed(e)' THEN 1 ELSE 0)
    BY <1>4 DEF BudgetSpentByFailuresOnly
  <2>1. attempt_count[e] <= failures[e] + (IF Claimed(e) THEN 1 ELSE 0)
    BY DEF BudgetSpentByFailuresOnly
  <2>2. attempt_count[e] \in Nat /\ failures[e] \in Nat
    BY DEF TypeOK
  <2>3. CASE e \in S
    BY <1>4, <2>1, <2>2, <2>3, ClaimedRow DEF Claimed, Unclaimed
  <2>4. CASE e \notin S
    BY <1>4, <2>1, <2>4, ClaimedRow DEF Claimed
  <2> QED BY <2>3, <2>4
<1>5. ASSUME NEW w \in Workers, Reap(w) \/ Exit(w)
      PROVE  BudgetSpentByFailuresOnly'
  BY <1>1, <1>3, <1>5 DEF Reap, Exit, Stale, Mine, Quiet
<1>6. ASSUME NEW w \in Workers, ClaimBatch(w) \/ ClaimBatchFails(w)
      PROVE  BudgetSpentByFailuresOnly'
  BY <1>1, <1>4, <1>6 DEF ClaimBatch, ClaimBatchFails, Quiet
<1>7. ASSUME NEW w \in Workers, MarkCompleted(w)
      PROVE  BudgetSpentByFailuresOnly'
  BY <1>7 DEF MarkCompleted, HandConsistent, BudgetSpentByFailuresOnly, Claimed,
              TypeOK
<1>8. ASSUME NEW w \in Workers, MarkFailed(w) PROVE BudgetSpentByFailuresOnly'
  <2>1. event[w] \in Events
    BY <1>8 DEF MarkFailed, HandConsistent, TypeOK
  <2> SUFFICES ASSUME NEW e \in Events \ completed
               PROVE  attempt_count[e] <=
                        failures'[e] + (IF Claimed(e)' THEN 1 ELSE 0)
    BY <1>8 DEF BudgetSpentByFailuresOnly, MarkFailed
  <2>2. attempt_count[e] <= failures[e] + (IF Claimed(e) THEN 1 ELSE 0)
    BY DEF BudgetSpentByFailuresOnly
  <2>3. attempt_count[e] \in 0..MaxAttempts /\ failures[e] \in 0..MaxAttempts
    BY DEF TypeOK
  <2>4. CASE e = event[w]
    <3>1. failures'[e] = IF failures[e] < MaxAttempts
                           THEN failures[e] + 1 ELSE failures[e]
      BY <1>8, <2>1, <2>4 DEF MarkFailed, TypeOK
    <3>2. attempt_count[e] <= failures'[e]
      BY <2>2, <2>3, <3>1
    <3>3. ~Claimed(e)'
      BY <1>8, <2>4 DEF MarkFailed, TypeOK, Claimed
    <3> QED BY <2>3, <3>1, <3>2, <3>3
  <2>5. CASE e # event[w]
    BY <1>8, <2>2, <2>5 DEF MarkFailed, TypeOK, Claimed
  <2> QED BY <2>4, <2>5
<1> QED
  BY <1>1, <1>2, <1>5, <1>6, <1>7, <1>8, QuietWorkers,
     QuietRows DEF Next, WorkerStep

\* Only what process() applied is completed.
LEMMA AppliedStep ==
    ASSUME TypeOK, HandConsistent, CompletedWasApplied, [Next]_vars
    PROVE  CompletedWasApplied'
<1>1. ASSUME NEW w \in Workers, MarkCompleted(w) PROVE CompletedWasApplied'
  BY <1>1 DEF MarkCompleted, HandConsistent, CompletedWasApplied
<1>2. ASSUME NEW w \in Workers, Process(w) PROVE CompletedWasApplied'
  BY <1>2 DEF Process, CompletedWasApplied, rowVars
<1>3. ASSUME completed' = completed, applied' = applied
      PROVE  CompletedWasApplied'
  BY <1>3 DEF CompletedWasApplied
<1>4. ASSUME NEW w \in Workers,
             \/ Start(w) \/ Reap(w) \/ ClaimBatch(w) \/ ClaimBatchFails(w)
             \/ NextEvent(w) \/ EndDrain(w) \/ MarkFailed(w) \/ MarkFails(w)
             \/ RequestShutdown(w) \/ Exit(w) \/ Crash(w) \/ Stall(w)
      PROVE  completed' = completed /\ applied' = applied
  BY <1>4 DEF Start, Reap, ClaimBatch, ClaimBatchFails, NextEvent, EndDrain,
              MarkFailed, MarkFails, RequestShutdown, Exit, Crash, Stall,
              rowVars
<1>5. ASSUME NEW e \in Events, Enqueue(e) \/ BecomeDue(e)
      PROVE  completed' = completed /\ applied' = applied
  BY <1>5 DEF Enqueue, BecomeDue
<1>6. CASE Tick \/ UNCHANGED vars
  BY <1>3, <1>6 DEF Tick, vars, rowVars
<1> QED
  BY <1>1, <1>2, <1>3, <1>4, <1>5, <1>6 DEF Next, WorkerStep

-----------------------------------------------------------------------------
\* The inductive invariant of the outbox rows and their workers.
THEOREM Invariance == Spec => []IInv
<1>1. Init => IInv
  BY ConstantsAssumption
     DEF Init, IInv, TypeOK, ClaimConsistent, BudgetSpentByFailuresOnly,
         CompletedWasApplied, HandConsistent, Claimed, Unclaimed, PCs,
         Stalled
<1>2. IInv /\ [Next]_vars => IInv'
  BY TypeStep, HandStep, ConsistentStep, BudgetStep, AppliedStep DEF IInv
<1> QED BY <1>1, <1>2, PTL DEF Spec

\* Rows and workers keep their types; no row is ever attempted more often than
\* max_attempts.
THEOREM TypeCorrect == Spec => []TypeOK
<1>1. IInv => TypeOK
  BY DEF IInv
<1> QED BY <1>1, Invariance, PTL

\* reap_stale_claims() and release_my_claims() give back exactly the attempts
\* that did not fail: only mark_failed() spends the retry budget.
THEOREM OnlyFailuresSpendBudget == Spec => []BudgetSpentByFailuresOnly
<1>1. IInv => BudgetSpentByFailuresOnly
  BY DEF IInv
<1> QED BY <1>1, Invariance, PTL

\* claimed_at and claimed_by of an open row agree, so the GREATEST of the give
\* back never clips.
THEOREM ClaimsConsistent == Spec => []ClaimConsistent
<1>1. IInv => ClaimConsistent
  BY DEF IInv
<1> QED BY <1>1, Invariance, PTL

\* completed_at is only set on rows whose side effect is in place.
THEOREM CompletionMeansApplied == Spec => []CompletedWasApplied
<1>1. IInv => CompletedWasApplied
  BY DEF IInv
<1> QED BY <1>1, Invariance, PTL

-----------------------------------------------------------------------------
\* A row whose retry budget is spent stays so.
LEMMA ExhaustedStep ==
    ASSUME IInv, [Next]_vars, NEW e \in Events, Exhausted(e)
    PROVE  Exhausted(e)'
<1> USE ConstantsAssumption DEF IInv
<1>1. CASE Quiet
  BY <1>1 DEF Quiet, Exhausted, Claimed
<1>2. CASE Tick
  BY <1>2 DEF Tick, Exhausted, Claimed, Unclaimed
<1>3. ASSUME NEW S \in SUBSET Events, ReleaseClaims(S), e \notin S
      PROVE  Exhausted(e)'
  BY <1>3, ReleasedRow DEF Exhausted, Claimed
<1>4. ASSUME NEW w \in Workers, NEW S \in Batches, ClaimRows(w, S)
      PROVE  Exhausted(e)'
  <2>1. attempt_count[e] = MaxAttempts /\ ~Claimed(e)
    BY DEF Exhausted
  <2>2. e \notin S
    BY <1>4, <2>1, ClaimedRow
  <2> QED BY <1>4, <2>1, <2>2, ClaimedRow DEF Exhausted, Claimed
<1>5. ASSUME NEW w \in Workers, Reap(w) PROVE Exhausted(e)'
  <2>1. e \notin Stale
    BY StaleClaimed DEF Exhausted
  <2> QED BY <1>1, <1>3, <1>5, <2>1 DEF Reap, Stale, Quiet
<1>6. ASSUME NEW w \in Workers, Exit(w) PROVE Exhausted(e)'
  <2>1. e \notin Mine(w)
    BY DEF Mine, Exhausted, ClaimConsistent
  <2> QED BY <1>1, <1>3, <1>6, <2>1 DEF Exit, Mine, Quiet
<1>7. ASSUME NEW w \in Workers, ClaimBatch(w) \/ ClaimBatchFails(w)
      PROVE  Exhausted(e)'
  BY <1>1, <1>4, <1>7 DEF ClaimBatch, ClaimBatchFails, Quiet
<1>8. ASSUME NEW w \in Workers, MarkCompleted(w) \/ MarkFailed(w)
      PROVE  Exhausted(e)'
  BY <1>8 DEF MarkCompleted, MarkFailed, Exhausted, Claimed, TypeOK
<1> QED
  BY <1>1, <1>2, <1>5, <1>6, <1>7, <1>8, QuietWorkers, QuietRows
     DEF Next, WorkerStep

\* No late reaper, shutdown or crash revives a row whose budget is spent.
THEOREM BudgetIsFinal == Spec => ExhaustedStays
<1>1. IInv /\ [Next]_vars =>
        [\A e \in Events : Exhausted(e) => Exhausted(e)']_vars
  BY ExhaustedStep
<1> QED BY <1>1, Invariance, PTL DEF Spec, ExhaustedStays

\* An orderly exit leaves no open claim of the worker behind.
THEOREM OrderlyExit == Spec => ExitReleases
<1>1. ASSUME IInv, NEW w \in Workers, Exit(w), faults' = faults,
             NEW e \in Events \ completed'
      PROVE  claimed_by'[e] # w
  <2> USE ConstantsAssumption DEF IInv
  <2>1. ~Fault
    BY <1>1 DEF Fault, TypeOK
  <2>2. ReleaseClaims(Mine(w)) /\ completed' = completed
    BY <1>1, <2>1 DEF Exit
  <2>3. CASE e \in Mine(w)
    BY <1>1, <2>2, <2>3, ReleasedRow DEF Mine
  <2>4. CASE e \notin Mine(w)
    BY <1>1, <2>2, <2>4, ReleasedRow DEF Mine
  <2> QED BY <2>3, <2>4
<1>2. IInv /\ [Next]_vars =>
        [\A w \in Workers : Exit(w) /\ faults' = faults =>
            \A e \in Events \ completed' : claimed_by'[e] # w]_vars
  BY <1>1
<1> QED BY <1>2, Invariance, PTL DEF Spec, ExitReleases

-----------------------------------------------------------------------------
(* A batch whose events are handled within the lease.                      *)

\* n + 1 events take the time of n events and of one more.
LEMMA OneMoreEvent ==
    ASSUME NEW n \in Nat, NEW t \in Nat
    PROVE  n * t \in Nat /\ (n + 1) * t = n * t + t
  OBVIOUS

\* Fewer events take no longer.
LEMMA FewerEvents ==
    ASSUME NEW n \in Nat, NEW m \in Nat, NEW t \in Nat, n <= m
    PROVE  n * t <= m * t
  OBVIOUS

\* No more rows than batch_size are claimed.
LEMMA BatchLimit ==
    ASSUME TypeOK, NEW S \in Batches
    PROVE  /\ S \subseteq Events
           /\ Cardinality(S) \in Nat
           /\ Cardinality(S) <= BatchSize
<1>1. S \subseteq Events /\ IsFiniteSet(Events)
  BY ConstantsAssumption DEF Batches, Claimable, TypeOK
<1>2. IsFiniteSet(S)
  BY <1>1, FS_Subset
<1>3. Cardinality(S) \in Nat
  BY <1>2, FS_CardinalityType
<1> QED BY <1>1, <1>3, ConstantsAssumption DEF Batches

\* The rest of a batch has a size, and it is not empty for a worker that has an
\* event to work on.
LEMMA LeftFacts ==
    ASSUME TypeOK, NEW w \in Workers
    PROVE  /\ IsFiniteSet(batch[w])
           /\ Cardinality(batch[w]) \in Nat
           /\ Left(w) \in Nat
           /\ Has(w) # {} => Left(w) >= 1
<1>1. batch[w] \in SUBSET Events /\ IsFiniteSet(Events)
  BY ConstantsAssumption DEF TypeOK
<1>2. IsFiniteSet(batch[w])
  BY <1>1, FS_Subset
<1>3. Cardinality(batch[w]) \in Nat
  BY <1>2, FS_CardinalityType
<1>4. batch[w] # {} => Cardinality(batch[w]) # 0
  BY <1>2, FS_EmptySet
<1>5. Has(w) # {} => batch[w] # {} \/ event[w] # NoEvent
  BY ConstantsAssumption DEF Has, Handling
<1> QED BY <1>2, <1>3, <1>4, <1>5 DEF Left

\* What PromptInv says of one worker.
PromptAt(w) ==
    /\ pc[w] \in {"idle", "claim", "down"} => batch[w] = {}
    /\ event[w] \notin batch[w]
    /\ event[w] = NoEvent => spent[w] = 0
    /\ spent[w] = Stalled => Has(w) = {}
    /\ \A e \in Has(w) : Young(w, e)

\* Under PromptAt the rows a worker has are open, claimed by it and not stale.
LEMMA HasFacts ==
    ASSUME Prompt, TypeOK, NEW w \in Workers, PromptAt(w), NEW e \in Has(w)
    PROVE  /\ e \in Events /\ e \notin completed /\ e \notin hung
           /\ claimed_by[e] = w
           /\ claim_age[e] \in 0..Lease
           /\ Claimed(e)
           /\ e \notin Stale
           /\ spent[w] \in 0..EventTime
<1> USE ConstantsAssumption
<1>1. e \in Events /\ e \notin hung /\ Young(w, e)
  BY DEF Has, PromptAt
<1>2. spent[w] \in 0..EventTime
  BY DEF PromptAt, TypeOK, Stalled
<1>3. Left(w) \in Nat /\ Left(w) >= 1
  BY LeftFacts
<1>4. EventTime <= Left(w) * EventTime /\ Left(w) * EventTime \in Nat
  <2>1. 1 * EventTime <= Left(w) * EventTime
    BY <1>3, FewerEvents
  <2>2. Left(w) * EventTime \in Nat
    BY <1>3, OneMoreEvent
  <2> QED BY <2>1, <2>2
<1>5. BatchSize * EventTime \in Nat
  BY OneMoreEvent
<1>6. claim_age[e] \in 0..(Lease + 1)
  BY <1>1 DEF TypeOK, Young, Claimed, Unclaimed
<1>7. claim_age[e] <= Lease
  BY <1>1, <1>2, <1>4, <1>5, <1>6 DEF Young, Prompt
<1> QED BY <1>1, <1>2, <1>6, <1>7 DEF Young, Stale

\* A step that leaves a worker and the rows it has alone preserves PromptAt.
LEMMA PromptKept ==
    ASSUME TypeOK, TypeOK', NEW w \in Workers, PromptAt(w),
           pc'[w] = pc[w], batch'[w] = batch[w], event'[w] = event[w],
           spent'[w] = spent[w], hung \subseteq hung',
           \A e \in Has(w) : /\ e \notin completed'
                             /\ claimed_by'[e] = claimed_by[e]
                             /\ claim_age'[e] = claim_age[e]
    PROVE  PromptAt(w)'
<1>1. Has(w)' \subseteq Has(w)
  BY DEF Has, Handling
<1>2. Left(w)' = Left(w)
  BY DEF Left
<1>3. \A e \in Has(w)' : Young(w, e)'
  <2> SUFFICES ASSUME NEW e \in Has(w)' PROVE Young(w, e)'
    OBVIOUS
  <2>1. e \in Has(w) /\ Young(w, e)
    BY <1>1 DEF PromptAt
  <2> QED BY <1>2, <2>1 DEF Young, Claimed
<1> QED BY <1>1, <1>3 DEF PromptAt

\* PromptInv is preserved by every step.
LEMMA PromptStep ==
    ASSUME Prompt, IInv, IInv', PromptInv, [Next]_vars
    PROVE  PromptInv'
<1> USE ConstantsAssumption
<1>0. TypeOK /\ TypeOK' /\ HandConsistent /\ ClaimConsistent
  BY DEF IInv
<1>a. \A w \in Workers : PromptAt(w)
  BY DEF PromptInv, PromptAt
<1>b. ASSUME \A w \in Workers : PromptAt(w)' PROVE PromptInv'
  BY <1>b DEF PromptInv, PromptAt
<1>c. \A v \in Workers : \A e \in Has(v) :
          /\ e \in Events /\ e \notin completed /\ e \notin hung
          /\ claimed_by[e] = v
          /\ claim_age[e] \in 0..Lease
          /\ Claimed(e)
          /\ e \notin Stale
          /\ spent[v] \in 0..EventTime
  BY <1>0, <1>a, HasFacts
<1>d. ASSUME NEW v \in Workers,
             UNCHANGED <<completed, claimed_by, claim_age>>,
             pc'[v] = pc[v], batch'[v] = batch[v], event'[v] = event[v],
             spent'[v] = spent[v], hung \subseteq hung'
      PROVE  PromptAt(v)'
  BY <1>0, <1>a, <1>c, <1>d, PromptKept
<1>e. ASSUME NEW v \in Workers,
             event'[v] = NoEvent, batch'[v] = {}, spent'[v] = 0
      PROVE  PromptAt(v)'
  <2>1. Has(v)' = {}
    BY <1>e DEF Has, Handling
  <2> QED BY <1>e, <2>1 DEF PromptAt
<1>f. \A v \in Workers :
          pc[v] \in {"idle", "claim", "down"} =>
              event[v] = NoEvent /\ batch[v] = {} /\ spent[v] = 0
  BY <1>0, <1>a DEF HandConsistent, PromptAt
<1>1. ASSUME NEW e \in Events, Enqueue(e) \/ BecomeDue(e)
      PROVE  \A v \in Workers : PromptAt(v)'
  BY <1>1, <1>d DEF Enqueue, BecomeDue, workerVars
<1>2. ASSUME Tick PROVE \A v \in Workers : PromptAt(v)'
  <2> SUFFICES ASSUME NEW v \in Workers PROVE PromptAt(v)'
    OBVIOUS
  <2>1. PromptAt(v)
    BY <1>a
  <2>2. /\ Has(v)' = Has(v) /\ Left(v)' = Left(v)
        /\ pc' = pc /\ batch' = batch /\ event' = event
    BY <1>2 DEF Tick, Has, Handling, Left
  <2>3. CASE Has(v) = {}
    <3>1. spent'[v] = IF event[v] # NoEvent /\ spent[v] < EventTime
                        THEN spent[v] + 1 ELSE spent[v]
      BY <1>2 DEF Tick
    <3> QED BY <2>1, <2>2, <2>3, <3>1 DEF PromptAt
  <2>4. CASE Has(v) # {}
    <3>1. event[v] # NoEvent
      <4>1. SUFFICES ASSUME event[v] = NoEvent PROVE FALSE
        OBVIOUS
      <4>2. batch[v] # {}
        BY <2>4, <4>1 DEF Has, Handling
      <4>3. pc[v] = "drain"
        BY <1>0, <2>1, <4>1, <4>2 DEF HandConsistent, PromptAt, TypeOK, PCs
      <4> QED BY <1>2, <4>2, <4>3 DEF Tick
    <3>2. spent[v] \in 0..EventTime
      BY <1>c, <2>4
    <3>3. spent[v] < EventTime
      BY <1>2, <3>1, <3>2 DEF Tick
    <3>4. spent'[v] = spent[v] + 1
      BY <1>2, <3>1, <3>3 DEF Tick
    <3>5. ASSUME NEW e \in Has(v) PROVE Young(v, e)'
      <4>1. Young(v, e) /\ e \in Events /\ claim_age[e] \in 0..Lease
        BY <1>c, <2>1, <3>5 DEF PromptAt
      <4>2. claim_age'[e] = claim_age[e] + 1
        BY <1>2, <4>1 DEF Tick
      <4>3. completed' = completed /\ claimed_by' = claimed_by
        BY <1>2 DEF Tick
      <4>4. Left(v) * EventTime \in Nat /\ BatchSize * EventTime \in Nat
        BY <1>0, LeftFacts, OneMoreEvent
      <4>5. claim_age'[e] + Left(v) * EventTime <=
              BatchSize * EventTime + spent'[v]
        BY <3>2, <3>4, <4>1, <4>2, <4>4 DEF Young
      <4> QED BY <2>2, <4>1, <4>2, <4>3, <4>5 DEF Young, Claimed, Unclaimed
    <3>6. spent'[v] # Stalled
      BY <3>2, <3>3, <3>4 DEF Stalled
    <3> QED BY <2>1, <2>2, <3>1, <3>5, <3>6 DEF PromptAt
  <2> QED BY <2>3, <2>4
<1>3. ASSUME NEW w \in Workers, Start(w) PROVE \A v \in Workers : PromptAt(v)'
  <2> SUFFICES ASSUME NEW v \in Workers PROVE PromptAt(v)'
    OBVIOUS
  <2>1. CASE v = w
    BY <1>0, <1>3, <1>e, <1>f, <2>1 DEF Start
  <2>2. CASE v # w
    BY <1>0, <1>3, <1>d, <2>2 DEF Start, rowVars, TypeOK
  <2> QED BY <2>1, <2>2
<1>4. ASSUME NEW w \in Workers, Reap(w) \/ Exit(w)
      PROVE  \A v \in Workers : PromptAt(v)'
  <2> SUFFICES ASSUME NEW v \in Workers PROVE PromptAt(v)'
    OBVIOUS
  <2>1. event[w] = NoEvent /\ batch[w] = {} /\ spent[w] = 0
    BY <1>4, <1>f DEF Reap, Exit
  <2>2. CASE v = w
    BY <1>4, <1>e, <2>1, <2>2 DEF Reap, Exit
  <2>3. CASE v # w
    <3>1. PICK S \in SUBSET Events :
            /\ \A e \in Has(v) : e \notin S
            /\ ReleaseClaims(S) \/ UNCHANGED <<claim_age, claimed_by>>
      <4>1. CASE Reap(w)
        BY <4>1, <1>c DEF Reap, Stale
      <4>2. CASE Exit(w)
        <5>1. \A e \in Has(v) : e \notin Mine(w)
          BY <1>c, <2>3 DEF Mine
        <5> QED BY <4>2, <5>1 DEF Exit, Mine
      <4> QED BY <1>4, <4>1, <4>2
    <3>2. \A e \in Has(v) : /\ claimed_by'[e] = claimed_by[e]
                            /\ claim_age'[e] = claim_age[e]
      BY <1>0, <1>c, <3>1, ReleasedRow
    <3> QED BY <1>0, <1>4, <1>a, <1>c, <2>3, <3>2, PromptKept
            DEF Reap, Exit, TypeOK
  <2> QED BY <2>2, <2>3
<1>5. ASSUME NEW w \in Workers, NEW S \in Batches, ClaimRows(w, S),
             completed' = completed, hung' = hung,
             NEW v \in Workers,
             batch'[v] = batch[v], event'[v] = event[v], spent'[v] = spent[v],
             pc'[v] = pc[v]
      PROVE  PromptAt(v)'
  <2>1. \A e \in Has(v) : /\ claimed_by'[e] = claimed_by[e]
                          /\ claim_age'[e] = claim_age[e]
    BY <1>0, <1>5, <1>c, ClaimedRow
  <2> QED BY <1>0, <1>5, <1>a, <1>c, <2>1, PromptKept
<1>6. ASSUME NEW w \in Workers, ClaimBatch(w)
      PROVE  \A v \in Workers : PromptAt(v)'
  <2> SUFFICES ASSUME NEW v \in Workers PROVE PromptAt(v)'
    OBVIOUS
  <2>1. PICK S \in Batches : ClaimRows(w, S) /\ batch' = [batch EXCEPT ![w] = S]
    BY <1>6 DEF ClaimBatch
  <2>2. CASE v # w
    BY <1>0, <1>5, <1>6, <2>1, <2>2 DEF ClaimBatch, TypeOK
  <2>3. CASE v = w
    <3>1. event'[w] = NoEvent /\ spent'[w] = 0 /\ pc'[w] = "drain"
      BY <1>0, <1>6, <1>f DEF ClaimBatch, TypeOK
    <3>2. batch'[w] = S /\ S \subseteq Events
      BY <1>0, <2>1, BatchLimit DEF TypeOK
    <3>3. Left(w)' = Cardinality(S) + 0
      BY <3>1, <3>2 DEF Left
    <3>4. Cardinality(S) * EventTime <= BatchSize * EventTime
      BY <1>0, BatchLimit, FewerEvents
    <3>5. Left(w)' * EventTime <= BatchSize * EventTime
      BY <1>0, <3>3, <3>4, BatchLimit
    <3>6. Left(w)' * EventTime \in Nat /\ BatchSize * EventTime \in Nat
      BY <1>0, <3>3, BatchLimit, OneMoreEvent
    <3>7. ASSUME NEW e \in Has(w)' PROVE Young(w, e)'
      <4>1. e \in S
        BY <3>1, <3>2, <3>7 DEF Has, Handling
      <4>2. /\ e \notin completed' /\ claimed_by'[e] = w /\ claim_age'[e] = 0
        BY <1>0, <1>6, <2>1, <3>2, <4>1, ClaimedRow DEF ClaimBatch
      <4>3. claim_age'[e] + Left(w)' * EventTime <=
              BatchSize * EventTime + spent'[w]
        BY <3>1, <3>5, <3>6, <4>2
      <4> QED BY <4>2, <4>3 DEF Young, Claimed, Unclaimed
    <3> QED BY <2>3, <3>1, <3>2, <3>7 DEF PromptAt, Stalled
  <2> QED BY <2>2, <2>3
<1>7. ASSUME NEW w \in Workers, ClaimBatchFails(w)
      PROVE  \A v \in Workers : PromptAt(v)'
  <2> SUFFICES ASSUME NEW v \in Workers PROVE PromptAt(v)'
    OBVIOUS
  <2>1. event[w] = NoEvent /\ batch[w] = {} /\ spent[w] = 0
    BY <1>7, <1>f DEF ClaimBatchFails
  <2>2. CASE v = w
    BY <1>7, <1>e, <2>1, <2>2 DEF ClaimBatchFails
  <2>3. CASE v # w
    BY <1>0, <1>5, <1>7, <1>d, <2>3 DEF ClaimBatchFails, TypeOK
  <2> QED BY <2>2, <2>3
<1>8. ASSUME NEW w \in Workers, NextEvent(w)
      PROVE  \A v \in Workers : PromptAt(v)'
  <2> SUFFICES ASSUME NEW v \in Workers PROVE PromptAt(v)'
    OBVIOUS
  <2>1. CASE v # w
    BY <1>0, <1>8, <1>d, <2>1 DEF NextEvent, rowVars, TypeOK
  <2>2. CASE v = w
    <3>1. PICK e \in batch[w] : /\ event' = [event EXCEPT ![w] = e]
                                /\ batch' = [batch EXCEPT ![w] = @ \ {e}]
      BY <1>8 DEF NextEvent
    <3>2. /\ event'[w] = e /\ batch'[w] = batch[w] \ {e} /\ e \in Events
          /\ pc'[w] = "process"
      BY <1>0, <1>8, <3>1 DEF NextEvent, TypeOK
    <3>3. event[w] = NoEvent /\ spent[w] = 0
      BY <1>0, <1>8, <1>a DEF NextEvent, HandConsistent, PromptAt
    <3>4. Has(w)' \subseteq Has(w)
      BY <1>8, <3>1, <3>2 DEF NextEvent, Has, Handling
    <3>5. Left(w)' = Left(w)
      <4>1. Cardinality(batch[w] \ {e}) = Cardinality(batch[w]) - 1
        BY <1>0, <3>1, LeftFacts, FS_RemoveElement
      <4> QED BY <1>0, <3>2, <3>3, <4>1, LeftFacts DEF Left
    <3>6. UNCHANGED <<completed, claimed_by, claim_age, spent, hung>>
      BY <1>8 DEF NextEvent, rowVars
    <3>7. \A x \in Has(w)' : Young(w, x)'
      BY <1>a, <3>4, <3>5, <3>6 DEF PromptAt, Young, Claimed
    <3> QED BY <2>2, <3>2, <3>3, <3>6, <3>7 DEF PromptAt, Stalled
  <2> QED BY <2>1, <2>2
<1>9. ASSUME NEW w \in Workers, EndDrain(w) \/ Crash(w)
      PROVE  \A v \in Workers : PromptAt(v)'
  <2> SUFFICES ASSUME NEW v \in Workers PROVE PromptAt(v)'
    OBVIOUS
  <2>1. CASE v # w
    BY <1>0, <1>9, <1>d, <2>1 DEF EndDrain, Crash, rowVars, TypeOK
  <2>2. CASE v = w
    BY <1>0, <1>9, <1>a, <1>e, <2>2
       DEF EndDrain, Crash, HandConsistent, PromptAt, TypeOK
  <2> QED BY <2>1, <2>2
<1>10. ASSUME NEW w \in Workers, Process(w)
       PROVE  \A v \in Workers : PromptAt(v)'
  <2> SUFFICES ASSUME NEW v \in Workers PROVE PromptAt(v)'
    OBVIOUS
  <2>1. CASE v # w
    BY <1>0, <1>10, <1>d, <2>1 DEF Process, rowVars, TypeOK
  <2>2. CASE v = w
    <3>1. pc'[w] \in {"completed", "failed"}
      BY <1>0, <1>10 DEF Process, TypeOK
    <3>2. UNCHANGED <<completed, claimed_by, claim_age, batch, event, spent,
                      hung>>
      BY <1>10 DEF Process, rowVars
    <3>3. Has(w)' = Has(w) /\ Left(w)' = Left(w)
      BY <3>2 DEF Has, Handling, Left
    <3>4. \A e \in Has(w)' : Young(w, e)'
      BY <1>a, <3>2, <3>3 DEF PromptAt, Young, Claimed
    <3> QED BY <1>a, <2>2, <3>1, <3>2, <3>3, <3>4 DEF PromptAt
  <2> QED BY <2>1, <2>2
<1>11. ASSUME NEW w \in Workers,
              MarkCompleted(w) \/ MarkFailed(w) \/ MarkFails(w)
       PROVE  \A v \in Workers : PromptAt(v)'
  <2> SUFFICES ASSUME NEW v \in Workers PROVE PromptAt(v)'
    OBVIOUS
  <2>1. event[w] \in Events /\ event[w] # NoEvent
    BY <1>0, <1>11 DEF MarkCompleted, MarkFailed, MarkFails, HandConsistent,
       TypeOK
  <2>2. ASSUME NEW e \in Events, e # event[w], e \notin completed
        PROVE  /\ e \notin completed'
               /\ claimed_by'[e] = claimed_by[e]
               /\ claim_age'[e] = claim_age[e]
    BY <1>0, <1>11, <2>1, <2>2
       DEF MarkCompleted, MarkFailed, MarkFails, rowVars, TypeOK
  <2>3. /\ pc' = [pc EXCEPT ![w] = "drain"]
        /\ event' = [event EXCEPT ![w] = NoEvent]
        /\ spent' = [spent EXCEPT ![w] = 0]
        /\ batch' = batch /\ hung' = hung
    BY <1>11 DEF MarkCompleted, MarkFailed, MarkFails, NextOfBatch
  <2>4. CASE v = w
    <3>1. pc'[w] = "drain" /\ event'[w] = NoEvent /\ spent'[w] = 0
      BY <1>0, <2>3 DEF TypeOK
    <3>2. /\ Left(w)' = Cardinality(batch[w])
          /\ Left(w) = Cardinality(batch[w]) + 1
      BY <1>0, <2>1, <2>3, <3>1, LeftFacts DEF Left
    <3>3. ASSUME NEW e \in Has(w)' PROVE Young(w, e)'
      <4>1. e \in Has(w) /\ e # event[w]
        BY <1>a, <2>3, <3>1, <3>3 DEF Has, Handling, PromptAt
      <4>2. Young(w, e) /\ e \in Events /\ e \notin completed
            /\ spent[w] \in 0..EventTime /\ claim_age[e] \in 0..Lease
        BY <1>a, <1>c, <4>1 DEF PromptAt
      <4>3. /\ e \notin completed'
            /\ claimed_by'[e] = claimed_by[e]
            /\ claim_age'[e] = claim_age[e]
        BY <2>2, <4>1, <4>2
      <4>4. /\ Left(w)' * EventTime \in Nat
            /\ Left(w) * EventTime = Left(w)' * EventTime + EventTime
            /\ BatchSize * EventTime \in Nat
        BY <1>0, <3>2, LeftFacts, OneMoreEvent
      <4>5. claim_age[e] + Left(w) * EventTime <=
              BatchSize * EventTime + spent[w]
        BY <4>2 DEF Young
      <4>6. claim_age[e] + Left(w)' * EventTime <= BatchSize * EventTime
        BY <4>2, <4>4, <4>5
      <4>7. claim_age'[e] + Left(w)' * EventTime <=
              BatchSize * EventTime + spent'[w]
        BY <3>1, <4>3, <4>4, <4>6
      <4> QED BY <4>2, <4>3, <4>7 DEF Young, Claimed
    <3>4. NoEvent \notin batch[w]
      BY <1>0 DEF TypeOK
    <3> QED BY <2>3, <2>4, <3>1, <3>3, <3>4 DEF PromptAt, Stalled
  <2>5. CASE v # w
    <3>1. \A e \in Has(v) : e # event[w]
      <4>1. event[w] \in hung \/ event[w] \in Has(w)
        BY <2>1 DEF Has, Handling
      <4> QED BY <1>c, <2>5, <4>1
    <3>2. \A e \in Has(v) : /\ e \notin completed'
                            /\ claimed_by'[e] = claimed_by[e]
                            /\ claim_age'[e] = claim_age[e]
      BY <1>c, <2>2, <3>1
    <3>3. /\ pc'[v] = pc[v] /\ batch'[v] = batch[v] /\ event'[v] = event[v]
          /\ spent'[v] = spent[v] /\ hung \subseteq hung'
      BY <1>0, <2>3, <2>5 DEF TypeOK
    <3> QED BY <1>0, <1>a, <3>2, <3>3, PromptKept
  <2> QED BY <2>4, <2>5
<1>12. ASSUME NEW w \in Workers, RequestShutdown(w)
       PROVE  \A v \in Workers : PromptAt(v)'
  BY <1>12, <1>d DEF RequestShutdown, rowVars
<1>13. ASSUME NEW w \in Workers, Stall(w) PROVE \A v \in Workers : PromptAt(v)'
  <2> SUFFICES ASSUME NEW v \in Workers PROVE PromptAt(v)'
    OBVIOUS
  <2>1. CASE v # w
    BY <1>0, <1>13, <1>d, <2>1 DEF Stall, rowVars, TypeOK
  <2>2. CASE v = w
    <3>1. Has(w)' = {}
      BY <1>13 DEF Stall, Has, Handling
    <3>2. event[w] # NoEvent /\ UNCHANGED <<pc, batch, event>>
      BY <1>13 DEF Stall
    <3> QED BY <1>a, <2>2, <3>1, <3>2 DEF PromptAt
  <2> QED BY <2>1, <2>2
<1>14. ASSUME UNCHANGED vars PROVE \A v \in Workers : PromptAt(v)'
  BY <1>14, <1>d DEF vars, rowVars, workerVars
<1>15. \A w \in Workers : PromptAt(w)'
  BY <1>1, <1>2, <1>3, <1>4, <1>6, <1>7, <1>8, <1>9, <1>10, <1>11, <1>12,
     <1>13, <1>14 DEF Next, WorkerStep
<1> QED BY <1>15, <1>b

\* At the start nobody has anything.
LEMMA PromptInit ==
    ASSUME Init
    PROVE  PromptInv
  BY ConstantsAssumption DEF Init, PromptInv, Has, Handling, Stalled

\* While a batch as a whole takes no longer than claim_lease, no event is ever
\* handled by two workers at once, but for those a worker stalled on.
THEOREM PromptWorkersExclude == Prompt => (Spec => []OneHandler)
<1>1. Init => PromptInv
  BY PromptInit
<1>2. ASSUME IInv, PromptInv PROVE OneHandler
  <2> SUFFICES ASSUME NEW v \in Workers, NEW w \in Workers,
                      NEW e \in Events \ hung, Handling(v, e), Handling(w, e)
               PROVE  v = w
    BY DEF OneHandler
  <2>1. e \in Has(v) /\ e \in Has(w)
    BY DEF Has
  <2> QED BY <1>2, <2>1 DEF PromptInv, Young
<1>3. ASSUME Prompt PROVE Spec => []OneHandler
  <2>1. IInv /\ IInv' /\ PromptInv /\ [Next]_vars => PromptInv'
    BY <1>3, PromptStep
  <2> QED BY <1>1, <1>2, <2>1, Invariance, PTL DEF Spec
<1> QED BY <1>3

\* Under the same condition a claim past its lease is one of a worker that is
\* gone or that stalled.
THEOREM PromptClaimsNotStolen == Prompt => (Spec => []StaleMeansDead)
<1>1. Init => PromptInv
  BY PromptInit
<1>2. ASSUME Prompt, IInv, PromptInv PROVE StaleMeansDead
  <2> SUFFICES ASSUME NEW w \in Workers, NEW e \in Stale \ hung,
                      claimed_by[e] = w, e \in batch[w] \/ Handling(w, e)
               PROVE  FALSE
    BY DEF StaleMeansDead
  <2>1. TypeOK /\ PromptAt(w) /\ e \in Events
    BY <1>2 DEF IInv, PromptInv, PromptAt, Stale
  <2>2. e \in Has(w)
    BY <2>1 DEF Has
  <2> QED BY <1>2, <2>1, <2>2, HasFacts
<1>3. ASSUME Prompt PROVE Spec => []StaleMeansDead
  <2>1. IInv /\ IInv' /\ PromptInv /\ [Next]_vars => PromptInv'
    BY <1>3, PromptStep
  <2>2. IInv /\ PromptInv => StaleMeansDead
    BY <1>2, <1>3
  <2> QED BY <1>1, <2>1, <2>2, Invariance, PTL DEF Spec
<1> QED BY <1>3
=============================================================================
