-------------------------- MODULE IngestQueueProofs --------------------------
(* Proofs about IngestQueue: IInv is inductive, and the safety properties  *)
(* that follow from it, for any sets of versions, workers and schedulers.  *)
EXTENDS IngestQueue, TLAPS

USE ConstantsAssumption
USE DEF rowVars, redisVars, workerVars, schedVars, ghostVars, NoToken

-----------------------------------------------------------------------------
(* What the Redis operations do to the entries.                            *)

\* The failure counter stays within its bound.
LEMMA FaultFacts ==
    /\ TypeOK /\ Fault => faults' \in 0..MaxFaults
    /\ TypeOK /\ NoFault => faults' \in 0..MaxFaults
  BY DEF TypeOK, Fault, NoFault

\* LREM yields a list with at most one copy of m less.
LEMMA LremFacts ==
    ASSUME NEW m \in Messages, NEW list \in [Messages -> Nat]
    PROVE  /\ Lrem(list, m) \in [Messages -> Nat]
           /\ \A x \in Messages : x # m => Lrem(list, m)[x] = list[x]
           /\ Lrem(list, m)[m] = IF list[m] > 0 THEN list[m] - 1 ELSE 0
  BY DEF Lrem

\* LREM on one processing list touches no other entry.
LEMMA LremProcFacts ==
    ASSUME TypeOK, NEW w \in Workers, NEW m \in Messages,
           proc' = [proc EXCEPT ![w] = Lrem(@, m)]
    PROVE  /\ proc' \in [Workers -> [Messages -> Nat]]
           /\ \A x \in Messages : OnList(x)' => OnList(x)
           /\ \A x \in Messages \ {m} : OnList(x) => OnList(x)'
           /\ proc[w][m] = 0 => \A x \in Messages : OnList(x) => OnList(x)'
  <1> DEFINE L == Lrem(proc[w], m)
  <1>1. L \in [Messages -> Nat] /\ proc' = [proc EXCEPT ![w] = L]
    BY LremFacts DEF TypeOK
  <1>2. \A x \in Messages : x # m => L[x] = proc[w][x]
    BY LremFacts, ZenonT(60) DEF TypeOK
  <1>3. L[m] = IF proc[w][m] > 0 THEN proc[w][m] - 1 ELSE 0
    BY LremFacts DEF TypeOK
  <1> HIDE DEF L
  <1>0. \A u \in Workers : \A x \in Messages : proc[u][x] \in Nat
    BY DEF TypeOK
  <1>4. \A u \in Workers : \A x \in Messages :
           proc'[u][x] = IF u = w /\ x = m THEN L[m] ELSE proc[u][x]
    BY <1>1, <1>2 DEF TypeOK
  <1>5. proc' \in [Workers -> [Messages -> Nat]]
    BY <1>1 DEF TypeOK
  <1>6. \A u \in Workers : \A x \in Messages :
           proc'[u][x] > 0 => proc[u][x] > 0
    BY <1>0, <1>3, <1>4
  <1>7. proc[w][m] = 0 => \A u \in Workers : \A x \in Messages :
                             proc[u][x] > 0 => proc'[u][x] > 0
    BY <1>0, <1>3, <1>4
  <1> QED
    BY <1>4, <1>5, <1>6, <1>7 DEF OnList

\* The reaper drops one copy of m from the entries it read.
LEMMA LremEntriesFacts ==
    ASSUME TypeOK, NEW s \in Schedulers, NEW m \in Messages,
           entries[s][m] > 0, entries' = [entries EXCEPT ![s] = Lrem(@, m)]
    PROVE  /\ entries' \in [Schedulers -> [Messages -> Nat]]
           /\ \A t \in Schedulers : \A x \in Messages :
                entries'[t][x] = IF t = s /\ x = m THEN entries[t][x] - 1
                                 ELSE entries[t][x]
  <1> DEFINE L == Lrem(entries[s], m)
  <1>1. L \in [Messages -> Nat] /\ entries' = [entries EXCEPT ![s] = L]
    BY LremFacts DEF TypeOK
  <1>2. /\ \A x \in Messages : x # m => L[x] = entries[s][x]
        /\ L[m] = entries[s][m] - 1
    BY LremFacts DEF TypeOK
  <1> HIDE DEF L
  <1> QED
    BY <1>1, <1>2 DEF TypeOK

\* LPUSH adds an entry and drops none.
LEMMA LpushFacts ==
    ASSUME TypeOK, NEW m \in Messages, Lpush(m)
    PROVE  /\ queue' \in Seq(Messages)
           /\ InQueue(m)'
           /\ \A x \in Messages : InQueue(x) => InQueue(x)'
           /\ \A x \in Messages : InQueue(x)' => InQueue(x) \/ x = m
  <1>1. queue \in Seq(Messages) /\ queue' = Append(queue, m)
    BY DEF Lpush, TypeOK
  <1>2. /\ queue' \in Seq(Messages)
        /\ Len(queue) \in Nat
        /\ Len(queue') = Len(queue) + 1
        /\ queue'[Len(queue) + 1] = m
        /\ \A i \in 1..Len(queue) : queue'[i] = queue[i]
    BY <1>1
  <1>3. InQueue(m)'
    BY <1>2 DEF InQueue
  <1>4. ASSUME NEW x \in Messages, InQueue(x) PROVE InQueue(x)'
    BY <1>2, <1>4 DEF InQueue
  <1>5. ASSUME NEW x \in Messages, InQueue(x)', x # m PROVE InQueue(x)
    <2>1. PICK i \in 1..(Len(queue) + 1) : queue'[i] = x
      BY <1>2, <1>5 DEF InQueue
    <2>2. i \in 1..Len(queue)
      BY <1>2, <1>5, <2>1
    <2> QED
      BY <1>2, <2>1, <2>2 DEF InQueue
  <1> QED
    BY <1>2, <1>3, <1>4, <1>5

\* A transfer moves an entry: none appears, none disappears.
LEMMA TransferFacts ==
    ASSUME TypeOK, NEW w \in Workers, NEW m \in Messages,
           TransferProcToSource(w, m)
    PROVE  /\ queue' \in Seq(Messages)
           /\ proc' \in [Workers -> [Messages -> Nat]]
           /\ \A x \in Messages : HasEntry(x)' <=> HasEntry(x)
  <1>1. CASE proc[w][m] > 0
    <2>1. Lpush(m) /\ proc' = [proc EXCEPT ![w] = Lrem(@, m)]
      BY <1>1 DEF TransferProcToSource
    <2>2. HasEntry(m)
      BY <1>1 DEF HasEntry, OnList
    <2> QED
      BY <2>1, <2>2, LpushFacts, LremProcFacts DEF HasEntry
  <1>2. CASE ~(proc[w][m] > 0)
    <2>1. queue' = queue /\ proc' = [proc EXCEPT ![w] = Lrem(@, m)]
      BY <1>2 DEF TransferProcToSource
    <2>2. proc[w][m] = 0
      BY <1>2 DEF TypeOK
    <2>3. \A x \in Messages : InQueue(x)' <=> InQueue(x)
      BY <2>1 DEF InQueue
    <2> QED
      BY <2>1, <2>2, <2>3, LremProcFacts DEF HasEntry, TypeOK
  <1> QED
    BY <1>1, <1>2

\* LMOVE moves the oldest entry of the queue to the worker's list.
LEMMA MoveFacts ==
    ASSUME TypeOK, NEW w \in Workers, queue # <<>>, queue' = Tail(queue),
           proc' = [proc EXCEPT ![w][Head(queue)] = @ + 1]
    PROVE  /\ Head(queue) \in Messages
           /\ queue' \in Seq(Messages)
           /\ proc' \in [Workers -> [Messages -> Nat]]
           /\ InQueue(Head(queue))
           /\ \A x \in Messages : HasEntry(x)' <=> HasEntry(x)
  <1>h. PICK m \in Messages : m = Head(queue)
    BY DEF TypeOK
  <1>1. queue' \in Seq(Messages) /\ InQueue(m)
    BY <1>h DEF TypeOK, InQueue
  <1>q. /\ Len(queue) \in Nat /\ Len(queue) > 0
        /\ Len(queue') = Len(queue) - 1
        /\ queue[1] = m
        /\ \A i \in 1..(Len(queue) - 1) : queue'[i] = queue[i + 1]
    BY <1>h DEF TypeOK
  <1>2. ASSUME NEW x \in Messages
        PROVE  /\ InQueue(x)' => InQueue(x)
               /\ InQueue(x) => InQueue(x)' \/ x = m
    <2>1. ASSUME InQueue(x)' PROVE InQueue(x)
      <3>1. PICK i \in 1..(Len(queue) - 1) : queue'[i] = x
        BY <1>q, <2>1 DEF InQueue
      <3> QED
        BY <1>q, <3>1 DEF InQueue
    <2>2. ASSUME InQueue(x), x # m PROVE InQueue(x)'
      <3>1. PICK i \in 1..Len(queue) : queue[i] = x
        BY <2>2 DEF InQueue
      <3>2. i - 1 \in 1..(Len(queue) - 1) /\ queue'[i - 1] = x
        BY <1>q, <2>2, <3>1
      <3> QED
        BY <1>q, <3>2 DEF InQueue
    <2> QED
      BY <2>1, <2>2
  <1>3. proc' = [proc EXCEPT ![w] = [proc[w] EXCEPT ![m] = @ + 1]]
    BY <1>h DEF TypeOK
  <1>4. [proc[w] EXCEPT ![m] = @ + 1] \in [Messages -> Nat]
    BY DEF TypeOK
  <1>5. proc' \in [Workers -> [Messages -> Nat]]
    BY <1>3, <1>4 DEF TypeOK
  <1>0. \A u \in Workers : \A x \in Messages : proc[u][x] \in Nat
    BY DEF TypeOK
  <1>6. \A u \in Workers : \A x \in Messages :
           proc'[u][x] = IF u = w /\ x = m THEN proc[u][x] + 1 ELSE proc[u][x]
    BY <1>3 DEF TypeOK
  <1>7. \A x \in Messages : /\ OnList(x) => OnList(x)'
                            /\ OnList(x)' => OnList(x) \/ x = m
                            /\ OnList(m)'
    BY <1>0, <1>6 DEF OnList
  <1> QED
    BY <1>h, <1>1, <1>2, <1>5, <1>7 DEF HasEntry, InQueue

-----------------------------------------------------------------------------
(* Frames: what a conjunct needs of the parts a step leaves alone.         *)

\* What every step does to a row, but for InsertVersion and BecomeStuck.
RowsAdvance ==
    /\ archived' = archived
    /\ \A v \in Versions :
          /\ Settled(v) => Settled(v)'
          /\ ingest_status[v] # "absent" => ingest_status'[v] # "absent"
          /\ ingest_status'[v] = "pending" => ingest_status[v] # "absent"
          /\ stuck'[v] => stuck[v]

\* No step archives a row.
LEMMA ArchivedKept == TypeOK /\ RowsAdvance => archived' \in SUBSET Versions
  BY DEF TypeOK, RowsAdvance

\* A step that leaves rows and ghosts alone keeps what is said of them.
LEMMA RowsKept ==
    ASSUME IInv, UNCHANGED <<rowVars, uploaded, ghostVars>>
    PROVE  RowInv' /\ CommittedOnce' /\ RowsAdvance
  BY DEF IInv, RowInv, CommittedOnce, RowsAdvance, Settled, TypeOK

\* Copies of jobs are where they were when no Redis list changes.
LEMMA EntriesKept ==
    ASSUME UNCHANGED <<queue, proc>>
    PROVE  \A x \in Messages : HasEntry(x)' <=> HasEntry(x)
  BY DEF HasEntry, InQueue, OnList

\* Rows that only advance disturb nothing a resting worker relies on.
LEMMA WorkersKept ==
    ASSUME IInv, RowsAdvance, UNCHANGED workerVars
    PROVE  WorkerInv'
  BY DEF IInv, WorkerInv, RowsAdvance, Settled

\* Nor anything a resting scheduler relies on.
LEMMA SchedulersKept ==
    ASSUME IInv, RowsAdvance, UNCHANGED schedVars
    PROVE  SchedulerInv'
  BY DEF IInv, SchedulerInv, RowsAdvance, Settled, TypeOK

\* No new copy and no new job in hand: every copy still has its row.
LEMMA EntryFrame ==
    ASSUME IInv, RowsAdvance,
           \A v \in Versions : HasEntry(v)' => HasEntry(v),
           \A w \in Workers : wjob'[w] \in Versions => wjob'[w] = wjob[w],
           UNCHANGED <<seen, to_requeue>>
    PROVE  EntryInv'
  BY DEF IInv, EntryInv, RowsAdvance, TypeOK

\* An unclaimed job is kept by a step that drops no copy of it.
LEMMA UnclaimedFrame ==
    ASSUME IInv, RowsAdvance, UNCHANGED uploaded,
           \A v \in Versions : ~Settled(v) => (HasEntry(v) => HasEntry(v)')
    PROVE  UnclaimedJobKept'
  BY DEF IInv, UnclaimedJobKept, RowsAdvance, Settled, Terminal,
         TypeOK, Statuses

-----------------------------------------------------------------------------
(* Init, and one lemma per action.                                         *)

\* The empty system satisfies the invariant.
LEMMA InitIInv == Init => IInv
  BY DEF Init, IInv, TypeOK, RowInv, WorkerInv, SchedulerInv, EntryInv,
         CommittedOnce, UnclaimedJobKept, Settled, HasEntry, InQueue, OnList,
         NoEntries, Messages, Statuses, Terminal, WorkerPCs, SchedPCs

\* The claim's write: the row is claimed with its next token.
LEMMA ClaimRowFacts ==
    ASSUME IInv, NEW v \in Versions, Claimable(v), ClaimRow(v),
           UNCHANGED <<uploaded, commits, rollbacks>>
    PROVE  /\ ingest_status' \in [Versions -> Statuses]
           /\ ingest_job_payload' \in [Versions -> BOOLEAN]
           /\ ingest_claim_token' \in [Versions -> Nat]
           /\ ingest_retry_count' \in [Versions -> Nat]
           /\ stuck' \in [Versions -> BOOLEAN]
           /\ claims' \in [Versions -> Nat]
           /\ RowInv' /\ CommittedOnce' /\ RowsAdvance /\ Settled(v)'
  <1>1. /\ ingest_status' \in [Versions -> Statuses]
        /\ ingest_job_payload' \in [Versions -> BOOLEAN]
        /\ ingest_claim_token' \in [Versions -> Nat]
        /\ ingest_retry_count' \in [Versions -> Nat]
        /\ stuck' \in [Versions -> BOOLEAN]
        /\ claims' \in [Versions -> Nat]
    BY DEF ClaimRow, IInv, TypeOK, Statuses, Terminal
  <1>2. \A x \in Versions : x # v =>
           /\ ingest_status'[x] = ingest_status[x]
           /\ ingest_job_payload'[x] = ingest_job_payload[x]
           /\ ingest_claim_token'[x] = ingest_claim_token[x]
           /\ ingest_retry_count'[x] = ingest_retry_count[x]
           /\ stuck'[x] = stuck[x]
           /\ claims'[x] = claims[x]
    BY DEF ClaimRow, IInv, TypeOK
  <1>3. /\ ingest_status[v] = "pending" /\ ingest_status'[v] = "processing"
        /\ ingest_job_payload'[v]
        /\ ingest_claim_token'[v] = claims[v] + 1
        /\ ingest_retry_count'[v] = ingest_retry_count[v]
        /\ ~stuck'[v]
        /\ claims'[v] = claims[v] + 1
    BY DEF ClaimRow, Claimable, IInv, TypeOK
  <1>4. RowInv'
    <2> SUFFICES ASSUME NEW x \in Versions
                 PROVE  RowInv!(x)'
      BY DEF RowInv
    <2>1. /\ claims[x] \in Nat /\ rollbacks[x] \in Nat
          /\ ingest_retry_count[x] \in Nat
      BY DEF IInv, TypeOK
    <2>2. CASE x # v
      BY <1>2, <2>2 DEF IInv, RowInv
    <2>3. CASE x = v
      BY <1>3, <2>1, <2>3 DEF IInv, RowInv
    <2> QED
      BY <2>2, <2>3
  <1>5. CommittedOnce'
    BY <1>2, <1>3 DEF IInv, CommittedOnce
  <1>0. archived' = archived
    BY DEF ClaimRow
  <1>6. RowsAdvance /\ Settled(v)'
    BY <1>0, <1>1, <1>2, <1>3 DEF RowsAdvance, Settled
  <1> QED
    BY <1>1, <1>4, <1>5, <1>6

\* A terminal write of a row that is 'processing'.
LEMMA EndRowFacts ==
    ASSUME IInv, NEW v \in Versions, NEW st \in Terminal, EndRow(v, st),
           ingest_status[v] = "processing",
           commits' = IF st = "done" THEN [commits EXCEPT ![v] = @ + 1]
                      ELSE commits,
           UNCHANGED <<uploaded, claims, rollbacks>>
    PROVE  /\ ingest_status' \in [Versions -> Statuses]
           /\ ingest_job_payload' \in [Versions -> BOOLEAN]
           /\ ingest_claim_token' \in [Versions -> Nat]
           /\ ingest_retry_count' \in [Versions -> Nat]
           /\ stuck' \in [Versions -> BOOLEAN]
           /\ commits' \in [Versions -> Nat]
           /\ RowInv' /\ CommittedOnce' /\ RowsAdvance
  <1>1. /\ ingest_status' \in [Versions -> Statuses]
        /\ ingest_job_payload' \in [Versions -> BOOLEAN]
        /\ ingest_claim_token' \in [Versions -> Nat]
        /\ ingest_retry_count' \in [Versions -> Nat]
        /\ stuck' \in [Versions -> BOOLEAN]
        /\ commits' \in [Versions -> Nat]
    BY DEF EndRow, IInv, TypeOK, Statuses, NoToken
  <1>2. \A x \in Versions : x # v =>
           /\ ingest_status'[x] = ingest_status[x]
           /\ ingest_job_payload'[x] = ingest_job_payload[x]
           /\ ingest_claim_token'[x] = ingest_claim_token[x]
           /\ ingest_retry_count'[x] = ingest_retry_count[x]
           /\ stuck'[x] = stuck[x]
           /\ commits'[x] = commits[x]
    BY DEF EndRow, IInv, TypeOK
  <1>3. /\ ingest_status'[v] = st
        /\ ~ingest_job_payload'[v]
        /\ ingest_claim_token'[v] = NoToken
        /\ ingest_retry_count'[v] = ingest_retry_count[v]
        /\ ~stuck'[v]
        /\ commits'[v] = IF st = "done" THEN commits[v] + 1 ELSE commits[v]
    BY DEF EndRow, IInv, TypeOK
  <1>4. RowInv'
    <2> SUFFICES ASSUME NEW x \in Versions
                 PROVE  RowInv!(x)'
      BY DEF RowInv
    <2>2. CASE x # v
      BY <1>2, <2>2 DEF IInv, RowInv
    <2>3. CASE x = v
      BY <1>3, <2>3 DEF IInv, RowInv, Terminal
    <2> QED
      BY <2>2, <2>3
  <1>5. CommittedOnce'
    <2>1. commits[v] = 0
      BY DEF IInv, CommittedOnce
    <2>2. commits'[v] = IF ingest_status'[v] = "done" THEN 1 ELSE 0
      BY <1>3, <2>1
    <2> QED
      BY <1>2, <2>2 DEF IInv, CommittedOnce
  <1>0. archived' = archived
    BY DEF EndRow
  <1>6. RowsAdvance
    BY <1>0, <1>1, <1>2, <1>3 DEF RowsAdvance, Settled, Terminal
  <1> QED
    BY <1>1, <1>4, <1>5, <1>6

\* The sweep's transaction; a row it gives back or gives up was not settled
\* by it unless it was settled before.
LEMMA SweepRowsFacts ==
    ASSUME IInv, NEW s \in Schedulers, SweepRows(s),
           UNCHANGED <<uploaded, claims, commits, rollbacks>>
    PROVE  /\ ingest_status' \in [Versions -> Statuses]
           /\ ingest_job_payload' \in [Versions -> BOOLEAN]
           /\ ingest_claim_token' \in [Versions -> Nat]
           /\ ingest_retry_count' \in [Versions -> Nat]
           /\ stuck' \in [Versions -> BOOLEAN]
           /\ RowInv' /\ CommittedOnce' /\ RowsAdvance
  <1> DEFINE S == StuckPending(s) \cup StuckProcessing
             R == {v \in S : CanRequeue(v)}
  <1>1. \A v \in S : ingest_status[v] \in {"pending", "processing"}
    BY DEF StuckPending, StuckProcessing
  <1>2. \A v \in R : /\ v \in S
                     /\ ingest_job_payload[v]
                     /\ ingest_retry_count[v] < MaxResume
    BY DEF CanRequeue
  <1>0. \A v \in Versions : ingest_retry_count[v] \in Nat
    BY DEF IInv, TypeOK
  <1>3. /\ ingest_status' = [v \in Versions |->
              IF v \in R THEN "pending"
              ELSE IF v \in S THEN "error" ELSE ingest_status[v]]
        /\ ingest_job_payload' = [v \in Versions |->
              ingest_job_payload[v] /\ v \notin S \ R]
        /\ ingest_claim_token' = [v \in Versions |->
              IF v \in S THEN NoToken ELSE ingest_claim_token[v]]
        /\ ingest_retry_count' = [v \in Versions |->
              IF v \in R THEN ingest_retry_count[v] + 1
              ELSE ingest_retry_count[v]]
        /\ stuck' = [v \in Versions |-> stuck[v] /\ v \notin S]
    BY DEF SweepRows
  <1>q. R \subseteq S
    BY <1>2
  <1> HIDE DEF S, R
  <1>4. /\ ingest_status' \in [Versions -> Statuses]
        /\ ingest_claim_token' \in [Versions -> Nat]
        /\ ingest_retry_count' \in [Versions -> Nat]
    BY <1>0, <1>3 DEF IInv, TypeOK, Statuses, Terminal, NoToken
  <1>5. ingest_job_payload' \in [Versions -> BOOLEAN]
    BY <1>3
  <1>6. stuck' \in [Versions -> BOOLEAN]
    BY <1>3
  <1>7. \A x \in Versions : x \notin S =>
           /\ ingest_status'[x] = ingest_status[x]
           /\ ingest_claim_token'[x] = ingest_claim_token[x]
           /\ ingest_retry_count'[x] = ingest_retry_count[x]
    BY <1>3, <1>q
  <1>8. \A x \in Versions : x \notin S =>
           (ingest_job_payload'[x] <=> ingest_job_payload[x])
    BY <1>3
  <1>9. \A x \in Versions : x \in R =>
           /\ ingest_status'[x] = "pending"
           /\ ingest_claim_token'[x] = NoToken
           /\ ingest_retry_count'[x] = ingest_retry_count[x] + 1
    BY <1>3, <1>q
  <1>10. \A x \in Versions : x \in R => ingest_job_payload'[x]
    BY <1>2, <1>3
  <1>11. \A x \in Versions : x \in S /\ x \notin R =>
           /\ ingest_status'[x] = "error"
           /\ ingest_claim_token'[x] = NoToken
           /\ ingest_retry_count'[x] = ingest_retry_count[x]
    BY <1>3
  <1>12. \A x \in Versions : stuck'[x] => stuck[x]
    BY <1>3
  <1>13. RowInv'
    <2> SUFFICES ASSUME NEW x \in Versions
                 PROVE  RowInv!(x)'
      BY DEF RowInv
    <2>1. /\ claims[x] \in Nat /\ rollbacks[x] \in Nat
          /\ ingest_retry_count[x] \in Nat /\ MaxResume \in Nat
      BY ConstantsAssumption DEF IInv, TypeOK
    <2>2. CASE x \notin S
      BY <1>7, <1>8, <2>2 DEF IInv, RowInv
    <2>3. CASE x \in R
      BY <1>2, <1>9, <1>10, <2>1, <2>3 DEF IInv, RowInv
    <2>4. CASE x \in S /\ x \notin R
      <3>1. claims[x] <= ingest_retry_count[x] + rollbacks[x] + 1
        BY <2>1 DEF IInv, RowInv
      <3> QED
        BY <1>11, <2>1, <2>4, <3>1 DEF IInv, RowInv
    <2> QED
      BY <2>2, <2>3, <2>4
  <1>14. CommittedOnce'
    BY <1>1, <1>7, <1>9, <1>11 DEF IInv, CommittedOnce
  <1>15. RowsAdvance
    <2>1. archived' = archived
      BY DEF SweepRows
    <2> SUFFICES ASSUME NEW x \in Versions
                 PROVE  RowsAdvance!2!(x)
      BY <2>1 DEF RowsAdvance
    <2>2. CASE x \notin S
      BY <1>7, <1>8, <1>12, <2>2 DEF Settled
    <2>3. CASE x \in R
      BY <1>1, <1>2, <1>9, <1>10, <1>12, <2>3 DEF Settled
    <2>4. CASE x \in S /\ x \notin R
      BY <1>1, <1>11, <1>12, <2>4 DEF Settled, Terminal
    <2> QED
      BY <2>2, <2>3, <2>4
  <1> QED
    BY <1>4, <1>5, <1>6, <1>13, <1>14, <1>15

\* A worker whose token matches owns a row that is 'processing' under the
\* latest claim: tokens are positive and a row that is not 'processing' has
\* none.
LEMMA OwnerFacts ==
    ASSUME IInv, NEW w \in Workers, wpc[w] \in {"work", "fail"}, OwnsClaim(w)
    PROVE  /\ wjob[w] \in Versions
           /\ ingest_status[wjob[w]] = "processing"
           /\ wtoken[w] = claims[wjob[w]]
  <1>1. PICK v \in Versions : v = wjob[w]
    BY DEF IInv, WorkerInv
  <1>2. wtoken[w] > 0 /\ ingest_claim_token[v] = wtoken[w]
    BY <1>1 DEF IInv, WorkerInv, OwnsClaim
  <1> QED
    BY <1>1, <1>2 DEF IInv, RowInv, NoToken

\* run() takes up no job: only pc and heartbeat change.
LEMMA InvStart ==
    ASSUME IInv, NEW w \in Workers, Start(w)
    PROVE  IInv'
  <1>1. TypeOK'
    BY DEF Start, Goto, IInv, TypeOK, Messages, Statuses, Terminal, WorkerPCs,
       SchedPCs
  <1>2. RowInv' /\ CommittedOnce' /\ RowsAdvance
    BY RowsKept DEF Start, Goto
  <1>3. \A x \in Messages : HasEntry(x)' <=> HasEntry(x)
    BY EntriesKept DEF Start, Goto
  <1>4. WorkerInv'
    BY <1>2 DEF Start, Goto, IInv, WorkerInv, RowsAdvance, Settled, TypeOK
  <1>5. SchedulerInv'
    BY <1>2, SchedulersKept DEF Start, Goto
  <1>6. EntryInv'
    BY <1>2, <1>3, EntryFrame DEF Start, Goto, Messages, IInv, TypeOK
  <1>7. UnclaimedJobKept'
    BY <1>2, <1>3, UnclaimedFrame DEF Start, Goto, Messages
  <1> QED
    BY <1>1, <1>2, <1>4, <1>5, <1>6, <1>7 DEF IInv

\* The heartbeat timer writes no part of the invariant.
LEMMA InvRefreshHeartbeat ==
    ASSUME IInv, NEW w \in Workers, RefreshHeartbeat(w)
    PROVE  IInv'
  <1>1. TypeOK'
    BY DEF RefreshHeartbeat, IInv, TypeOK, Messages, Statuses, Terminal,
       WorkerPCs, SchedPCs
  <1>2. RowInv' /\ CommittedOnce' /\ RowsAdvance
    BY RowsKept DEF RefreshHeartbeat
  <1>3. \A x \in Messages : HasEntry(x)' <=> HasEntry(x)
    BY EntriesKept DEF RefreshHeartbeat
  <1>4. WorkerInv'
    BY <1>2, WorkersKept DEF RefreshHeartbeat
  <1>5. SchedulerInv'
    BY <1>2, SchedulersKept DEF RefreshHeartbeat
  <1>6. EntryInv'
    BY <1>2, <1>3, EntryFrame DEF RefreshHeartbeat, Messages, IInv, TypeOK
  <1>7. UnclaimedJobKept'
    BY <1>2, <1>3, UnclaimedFrame DEF RefreshHeartbeat, Messages
  <1> QED
    BY <1>1, <1>2, <1>4, <1>5, <1>6, <1>7 DEF IInv

\* Nor does the expiry of the key, which may spend a fault.
LEMMA InvHeartbeatExpires ==
    ASSUME IInv, NEW w \in Workers, HeartbeatExpires(w)
    PROVE  IInv'
  <1>1. TypeOK'
    BY FaultFacts DEF HeartbeatExpires, IInv, TypeOK, Messages, Statuses,
       Terminal, WorkerPCs, SchedPCs
  <1>2. RowInv' /\ CommittedOnce' /\ RowsAdvance
    BY RowsKept DEF HeartbeatExpires
  <1>3. \A x \in Messages : HasEntry(x)' <=> HasEntry(x)
    BY EntriesKept DEF HeartbeatExpires
  <1>4. WorkerInv'
    BY <1>2, WorkersKept DEF HeartbeatExpires
  <1>5. SchedulerInv'
    BY <1>2, SchedulersKept DEF HeartbeatExpires
  <1>6. EntryInv'
    BY <1>2, <1>3, EntryFrame DEF HeartbeatExpires, Messages, IInv, TypeOK
  <1>7. UnclaimedJobKept'
    BY <1>2, <1>3, UnclaimedFrame DEF HeartbeatExpires, Messages
  <1> QED
    BY <1>1, <1>2, <1>4, <1>5, <1>6, <1>7 DEF IInv

\* A failing step of the work leads to fail() with the same claim in hand.
LEMMA InvWorkFails ==
    ASSUME IInv, NEW w \in Workers, WorkFails(w)
    PROVE  IInv'
  <1>1. TypeOK'
    BY DEF WorkFails, Goto, IInv, TypeOK, Messages, Statuses, Terminal,
       WorkerPCs, SchedPCs
  <1>2. RowInv' /\ CommittedOnce' /\ RowsAdvance
    BY RowsKept DEF WorkFails, Goto
  <1>3. \A x \in Messages : HasEntry(x)' <=> HasEntry(x)
    BY EntriesKept DEF WorkFails, Goto
  <1>4. WorkerInv'
    BY <1>2 DEF WorkFails, Goto, IInv, WorkerInv, RowsAdvance, Settled, TypeOK
  <1>5. SchedulerInv'
    BY <1>2, SchedulersKept DEF WorkFails, Goto
  <1>6. EntryInv'
    BY <1>2, <1>3, EntryFrame DEF WorkFails, Goto, Messages, IInv, TypeOK
  <1>7. UnclaimedJobKept'
    BY <1>2, <1>3, UnclaimedFrame DEF WorkFails, Goto, Messages
  <1> QED
    BY <1>1, <1>2, <1>4, <1>5, <1>6, <1>7 DEF IInv

\* A worker that stops between jobs holds nothing.
LEMMA InvShutdown ==
    ASSUME IInv, NEW w \in Workers, Shutdown(w)
    PROVE  IInv'
  <1>1. TypeOK'
    BY FaultFacts DEF Shutdown, Goto, IInv, TypeOK, Messages, Statuses,
       Terminal, WorkerPCs, SchedPCs
  <1>2. RowInv' /\ CommittedOnce' /\ RowsAdvance
    BY RowsKept DEF Shutdown, Goto
  <1>3. \A x \in Messages : HasEntry(x)' <=> HasEntry(x)
    BY EntriesKept DEF Shutdown, Goto
  <1>4. WorkerInv'
    BY <1>2 DEF Shutdown, Goto, IInv, WorkerInv, RowsAdvance, Settled, TypeOK
  <1>5. SchedulerInv'
    BY <1>2, SchedulersKept DEF Shutdown, Goto
  <1>6. EntryInv'
    BY <1>2, <1>3, EntryFrame DEF Shutdown, Goto, Messages, IInv, TypeOK
  <1>7. UnclaimedJobKept'
    BY <1>2, <1>3, UnclaimedFrame DEF Shutdown, Goto, Messages
  <1> QED
    BY <1>1, <1>2, <1>4, <1>5, <1>6, <1>7 DEF IInv

\* A crash drops what is in hand; its copy stays on the processing list.
LEMMA InvCrash ==
    ASSUME IInv, NEW w \in Workers, Crash(w)
    PROVE  IInv'
  <1>1. TypeOK'
    BY FaultFacts DEF Crash, Release, Running, IInv, TypeOK, Messages,
       Statuses, Terminal, WorkerPCs, SchedPCs
  <1>2. RowInv' /\ CommittedOnce' /\ RowsAdvance
    BY RowsKept DEF Crash, Release, Running
  <1>3. \A x \in Messages : HasEntry(x)' <=> HasEntry(x)
    BY EntriesKept DEF Crash, Release, Running
  <1>4. WorkerInv'
    BY <1>2 DEF Crash, Release, Running, IInv, WorkerInv, RowsAdvance,
       Settled, TypeOK
  <1>5. SchedulerInv'
    BY <1>2, SchedulersKept DEF Crash, Release, Running
  <1>6. EntryInv'
    BY <1>2, <1>3, EntryFrame DEF Crash, Release, Running, Messages, IInv,
       TypeOK
  <1>7. UnclaimedJobKept'
    BY <1>2, <1>3, UnclaimedFrame DEF Crash, Release, Running, Messages
  <1> QED
    BY <1>1, <1>2, <1>4, <1>5, <1>6, <1>7 DEF IInv

\* A cycle starts with nothing read and nothing owed.
LEMMA InvStartSweep ==
    ASSUME IInv, NEW s \in Schedulers, StartSweep(s)
    PROVE  IInv'
  <1>1. TypeOK'
    BY DEF StartSweep, HasEntries, ScanKeys, IInv, TypeOK, Messages, Statuses, Terminal,
       WorkerPCs, SchedPCs
  <1>2. RowInv' /\ CommittedOnce' /\ RowsAdvance
    BY RowsKept DEF StartSweep, HasEntries, ScanKeys
  <1>3. \A x \in Messages : HasEntry(x)' <=> HasEntry(x)
    BY EntriesKept DEF StartSweep, HasEntries, ScanKeys
  <1>4. WorkerInv'
    BY <1>2, WorkersKept DEF StartSweep, HasEntries, ScanKeys
  <1>5. SchedulerInv'
    BY <1>2 DEF StartSweep, HasEntries, ScanKeys, IInv, SchedulerInv, RowsAdvance,
       Settled, TypeOK, Messages
  <1>6. EntryInv'
    BY <1>2, <1>3, EntryFrame DEF StartSweep, HasEntries, ScanKeys, Messages, IInv,
       TypeOK
  <1>7. UnclaimedJobKept'
    BY <1>2, <1>3, UnclaimedFrame DEF StartSweep, HasEntries, ScanKeys, Messages
  <1> QED
    BY <1>1, <1>2, <1>4, <1>5, <1>6, <1>7 DEF IInv

\* The reaper leaves for the sweep only when every entry is handled.
LEMMA InvReapDone ==
    ASSUME IInv, NEW s \in Schedulers, ReapDone(s)
    PROVE  IInv'
  <1>1. TypeOK'
    BY DEF ReapDone, IInv, TypeOK, Messages, Statuses, Terminal, WorkerPCs,
       SchedPCs
  <1>2. RowInv' /\ CommittedOnce' /\ RowsAdvance
    BY RowsKept DEF ReapDone
  <1>3. \A x \in Messages : HasEntry(x)' <=> HasEntry(x)
    BY EntriesKept DEF ReapDone
  <1>4. WorkerInv'
    BY <1>2, WorkersKept DEF ReapDone
  <1>5. SchedulerInv'
    BY <1>2 DEF ReapDone, IInv, SchedulerInv, RowsAdvance, Settled, TypeOK,
       Messages
  <1>6. EntryInv'
    BY <1>2, <1>3, EntryFrame DEF ReapDone, Messages, IInv, TypeOK
  <1>7. UnclaimedJobKept'
    BY <1>2, <1>3, UnclaimedFrame DEF ReapDone, Messages
  <1> QED
    BY <1>1, <1>2, <1>4, <1>5, <1>6, <1>7 DEF IInv

\* A cycle without a sweep owes nothing.
LEMMA InvSweepSkipped ==
    ASSUME IInv, NEW s \in Schedulers, SweepSkipped(s)
    PROVE  IInv'
  <1>1. TypeOK'
    BY FaultFacts DEF SweepSkipped, EndSweep, IInv, TypeOK, Messages,
       Statuses, Terminal, WorkerPCs, SchedPCs
  <1>2. RowInv' /\ CommittedOnce' /\ RowsAdvance
    BY RowsKept DEF SweepSkipped, EndSweep
  <1>3. \A x \in Messages : HasEntry(x)' <=> HasEntry(x)
    BY EntriesKept DEF SweepSkipped, EndSweep
  <1>4. WorkerInv'
    BY <1>2, WorkersKept DEF SweepSkipped, EndSweep
  <1>5. SchedulerInv'
    BY <1>2 DEF SweepSkipped, EndSweep, IInv, SchedulerInv, RowsAdvance,
       Settled, TypeOK, Messages
  <1>6. EntryInv'
    BY <1>2, <1>3 DEF SweepSkipped, EndSweep, IInv, EntryInv, RowsAdvance,
       Messages, TypeOK
  <1>7. UnclaimedJobKept'
    BY <1>2, <1>3, UnclaimedFrame DEF SweepSkipped, EndSweep, Messages
  <1> QED
    BY <1>1, <1>2, <1>4, <1>5, <1>6, <1>7 DEF IInv

\* The cycle ends with everything pushed.
LEMMA InvRequeueDone ==
    ASSUME IInv, NEW s \in Schedulers, RequeueDone(s)
    PROVE  IInv'
  <1>1. TypeOK'
    BY DEF RequeueDone, EndSweep, IInv, TypeOK, Messages, Statuses, Terminal,
       WorkerPCs, SchedPCs
  <1>2. RowInv' /\ CommittedOnce' /\ RowsAdvance
    BY RowsKept DEF RequeueDone, EndSweep
  <1>3. \A x \in Messages : HasEntry(x)' <=> HasEntry(x)
    BY EntriesKept DEF RequeueDone, EndSweep
  <1>4. WorkerInv'
    BY <1>2, WorkersKept DEF RequeueDone, EndSweep
  <1>5. SchedulerInv'
    BY <1>2 DEF RequeueDone, EndSweep, IInv, SchedulerInv, RowsAdvance,
       Settled, TypeOK, Messages
  <1>6. EntryInv'
    BY <1>2, <1>3 DEF RequeueDone, EndSweep, IInv, EntryInv, RowsAdvance,
       Messages, TypeOK
  <1>7. UnclaimedJobKept'
    BY <1>2, <1>3, UnclaimedFrame DEF RequeueDone, EndSweep, Messages
  <1> QED
    BY <1>1, <1>2, <1>4, <1>5, <1>6, <1>7 DEF IInv

\* A restarted scheduler owes nothing.
LEMMA InvSchedulerCrash ==
    ASSUME IInv, NEW s \in Schedulers, SchedulerCrash(s)
    PROVE  IInv'
  <1>1. TypeOK'
    BY FaultFacts DEF SchedulerCrash, EndSweep, NoEntries, IInv, TypeOK,
       Messages, Statuses, Terminal, WorkerPCs, SchedPCs
  <1>2. RowInv' /\ CommittedOnce' /\ RowsAdvance
    BY RowsKept DEF SchedulerCrash, EndSweep, NoEntries
  <1>3. \A x \in Messages : HasEntry(x)' <=> HasEntry(x)
    BY EntriesKept DEF SchedulerCrash, EndSweep, NoEntries
  <1>4. WorkerInv'
    BY <1>2, WorkersKept DEF SchedulerCrash, EndSweep, NoEntries
  <1>5. SchedulerInv'
    BY <1>2 DEF SchedulerCrash, EndSweep, NoEntries, IInv, SchedulerInv,
       RowsAdvance, Settled, TypeOK, Messages
  <1>6. EntryInv'
    BY <1>2, <1>3 DEF SchedulerCrash, EndSweep, NoEntries, IInv, EntryInv,
       RowsAdvance, Messages, TypeOK
  <1>7. UnclaimedJobKept'
    BY <1>2, <1>3, UnclaimedFrame DEF SchedulerCrash, EndSweep, NoEntries,
       Messages
  <1> QED
    BY <1>1, <1>2, <1>4, <1>5, <1>6, <1>7 DEF IInv

\* LMOVE keeps the copy: it is on the list when it leaves the queue.
LEMMA InvTakeJob ==
    ASSUME IInv, NEW w \in Workers, TakeJob(w)
    PROVE  IInv'
  <1>0. PICK m \in Messages :
           /\ m = Head(queue)
           /\ queue' \in Seq(Messages)
           /\ proc' \in [Workers -> [Messages -> Nat]]
           /\ HasEntry(m)
           /\ \A x \in Messages : HasEntry(x)' <=> HasEntry(x)
    BY MoveFacts DEF TakeJob, IInv, HasEntry
  <1>1. TypeOK'
    BY <1>0 DEF TakeJob, IInv, TypeOK, Messages, Statuses, Terminal,
       WorkerPCs, SchedPCs
  <1>2. RowInv' /\ CommittedOnce' /\ RowsAdvance
    BY RowsKept DEF TakeJob
  <1>3. \A x \in Messages : HasEntry(x)' <=> HasEntry(x)
    BY <1>0
  <1>4. WorkerInv'
    BY <1>0, <1>2 DEF TakeJob, IInv, WorkerInv, RowsAdvance, Settled, TypeOK,
       Messages
  <1>5. SchedulerInv'
    BY <1>2, SchedulersKept DEF TakeJob
  <1>6. EntryInv'
    BY <1>0, <1>2, <1>3 DEF TakeJob, IInv, EntryInv, RowsAdvance, Messages,
       TypeOK
  <1>7. UnclaimedJobKept'
    BY <1>2, <1>3, UnclaimedFrame DEF TakeJob, Messages
  <1> QED
    BY <1>1, <1>2, <1>4, <1>5, <1>6, <1>7 DEF IInv

\* A lost LMOVE reply strands the copy without dropping it.
LEMMA InvTakeJobReplyLost ==
    ASSUME IInv, NEW w \in Workers, TakeJobReplyLost(w)
    PROVE  IInv'
  <1>1. TypeOK'
    BY FaultFacts, MoveFacts DEF TakeJobReplyLost, IInv, TypeOK, Messages,
       Statuses, Terminal, WorkerPCs, SchedPCs
  <1>2. RowInv' /\ CommittedOnce' /\ RowsAdvance
    BY RowsKept DEF TakeJobReplyLost
  <1>3. \A x \in Messages : HasEntry(x)' <=> HasEntry(x)
    BY MoveFacts DEF TakeJobReplyLost, IInv
  <1>4. WorkerInv'
    BY <1>2, WorkersKept DEF TakeJobReplyLost
  <1>5. SchedulerInv'
    BY <1>2, SchedulersKept DEF TakeJobReplyLost
  <1>6. EntryInv'
    BY <1>2, <1>3, EntryFrame DEF TakeJobReplyLost, Messages, IInv, TypeOK
  <1>7. UnclaimedJobKept'
    BY <1>2, <1>3, UnclaimedFrame DEF TakeJobReplyLost, Messages
  <1> QED
    BY <1>1, <1>2, <1>4, <1>5, <1>6, <1>7 DEF IInv

\* LREM may drop the last copy only of a row that is settled.
LEMMA InvAcknowledge ==
    ASSUME IInv, NEW w \in Workers, Acknowledge(w)
    PROVE  IInv'
  <1>1. TypeOK'
    <2>1. wjob[w] \in Messages
      BY DEF Acknowledge, Release, IInv, WorkerInv
    <2>2. proc' \in [Workers -> [Messages -> Nat]]
      BY <2>1, LremProcFacts DEF Acknowledge, Release, IInv, TypeOK
    <2> QED
      BY <2>2, FaultFacts DEF Acknowledge, Release, IInv, TypeOK, Messages,
         Statuses, Terminal, WorkerPCs, SchedPCs
  <1>2. RowInv' /\ CommittedOnce' /\ RowsAdvance
    BY RowsKept DEF Acknowledge, Release
  <1>3. /\ \A v \in Versions : HasEntry(v)' => HasEntry(v)
        /\ \A v \in Versions : ~Settled(v) /\ HasEntry(v) /\ v \notin archived
                                => HasEntry(v)'
    <2>1. wjob[w] \in Messages
      BY DEF Acknowledge, Release, IInv, WorkerInv
    <2>2. \A v \in Versions : InQueue(v)' <=> InQueue(v)
      BY DEF Acknowledge, Release, InQueue
    <2>3. CASE UNCHANGED proc
      BY <2>2, <2>3 DEF HasEntry, OnList
    <2>4. CASE proc' = [proc EXCEPT ![w] = Lrem(@, wjob[w])]
      <3>1. PICK m \in Messages : m = wjob[w]
        BY <2>1
      <3>2. /\ \A x \in Messages : OnList(x)' => OnList(x)
            /\ \A x \in Messages \ {m} : OnList(x) => OnList(x)'
        BY <2>4, <3>1, LremProcFacts DEF IInv
      <3>3. m \in Versions \ archived => Settled(m)
        BY <3>1 DEF Acknowledge, Release, IInv, WorkerInv
      <3> QED
        BY <2>2, <3>2, <3>3 DEF HasEntry, Messages
    <2> QED
      BY <2>3, <2>4 DEF Acknowledge, Release
  <1>4. WorkerInv'
    BY <1>2 DEF Acknowledge, Release, IInv, WorkerInv, RowsAdvance, Settled,
       TypeOK
  <1>5. SchedulerInv'
    BY <1>2, SchedulersKept DEF Acknowledge, Release
  <1>6. EntryInv'
    BY <1>2, <1>3, EntryFrame DEF Acknowledge, Release, IInv, TypeOK
  <1>7. UnclaimedJobKept'
    BY <1>2, <1>3 DEF Acknowledge, Release, IInv, UnclaimedJobKept, Settled,
       Terminal, TypeOK
  <1> QED
    BY <1>1, <1>2, <1>4, <1>5, <1>6, <1>7 DEF IInv

\* The transfer moves the copy back, or finds it moved already.
LEMMA InvTransferBack ==
    ASSUME IInv, NEW w \in Workers, TransferBack(w)
    PROVE  IInv'
  <1>0. PICK m \in Messages : m = wjob[w]
    BY DEF TransferBack, Release, IInv, WorkerInv, Messages
  <1>1. TypeOK'
    BY <1>0, TransferFacts DEF TransferBack, Release, IInv, TypeOK, Messages,
       Statuses, Terminal, WorkerPCs, SchedPCs
  <1>2. RowInv' /\ CommittedOnce' /\ RowsAdvance
    BY RowsKept DEF TransferBack, Release
  <1>3. \A x \in Messages : HasEntry(x)' <=> HasEntry(x)
    BY <1>0, TransferFacts DEF TransferBack, Release, IInv
  <1>4. WorkerInv'
    BY <1>2 DEF TransferBack, Release, IInv, WorkerInv, RowsAdvance, Settled,
       TypeOK
  <1>5. SchedulerInv'
    BY <1>2, SchedulersKept DEF TransferBack, Release
  <1>6. EntryInv'
    BY <1>2, <1>3, EntryFrame DEF TransferBack, Release, Messages, IInv, TypeOK
  <1>7. UnclaimedJobKept'
    BY <1>2, <1>3, UnclaimedFrame DEF TransferBack, Release, Messages
  <1> QED
    BY <1>1, <1>2, <1>4, <1>5, <1>6, <1>7 DEF IInv

\* A failed transfer leaves the copy on the list of a dead worker.
LEMMA InvTransferBackFatal ==
    ASSUME IInv, NEW w \in Workers, TransferBackFatal(w)
    PROVE  IInv'
  <1>0. PICK m \in Messages : m = wjob[w]
    BY DEF TransferBackFatal, Release, IInv, WorkerInv, Messages
  <1>1. TypeOK'
    <2>1. queue' \in Seq(Messages) /\ proc' \in [Workers -> [Messages -> Nat]]
      BY <1>0, TransferFacts DEF TransferBackFatal, Release, IInv, TypeOK
    <2>2. heartbeat' \in [Workers -> BOOLEAN]
      BY DEF TransferBackFatal, Release, IInv, TypeOK
    <2> QED
      BY <2>1, <2>2, FaultFacts DEF TransferBackFatal, Release, IInv, TypeOK,
         Messages, Statuses, Terminal, WorkerPCs, SchedPCs
  <1>2. RowInv' /\ CommittedOnce' /\ RowsAdvance
    BY RowsKept DEF TransferBackFatal, Release
  <1>3. \A x \in Messages : HasEntry(x)' <=> HasEntry(x)
    BY <1>0, TransferFacts, EntriesKept DEF TransferBackFatal, Release, IInv
  <1>4. WorkerInv'
    BY <1>2 DEF TransferBackFatal, Release, IInv, WorkerInv, RowsAdvance,
       Settled, TypeOK
  <1>5. SchedulerInv'
    BY <1>2, SchedulersKept DEF TransferBackFatal, Release
  <1>6. EntryInv'
    BY <1>2, <1>3, EntryFrame DEF TransferBackFatal, Release, Messages, IInv,
       TypeOK
  <1>7. UnclaimedJobKept'
    BY <1>2, <1>3, UnclaimedFrame DEF TransferBackFatal, Release, Messages
  <1> QED
    BY <1>1, <1>2, <1>4, <1>5, <1>6, <1>7 DEF IInv

\* LRANGE: what was seen is exactly what is owed.
LEMMA InvReapList ==
    ASSUME IInv, NEW s \in Schedulers, NEW w \in Workers, ReapList(s, w)
    PROVE  IInv'
  <1>0. /\ entries' \in [Schedulers -> [Messages -> Nat]]
        /\ reaping' \in [Schedulers -> Workers \cup {NoWorker}]
        /\ seen' \in [Schedulers -> SUBSET Versions]
        /\ \A t \in Schedulers \ {s} : /\ entries'[t] = entries[t]
                                      /\ reaping'[t] = reaping[t]
                                      /\ seen'[t] = seen[t]
        /\ \/ /\ entries'[s] = entries[s]
              /\ reaping'[s] = reaping[s]
              /\ seen'[s] = seen[s]
           \/ /\ entries'[s] = proc[w]
              /\ reaping'[s] = w
              /\ seen'[s] = seen[s] \cup {v \in Versions : proc[w][v] > 0}
    <2>1. CASE UNCHANGED <<reaping, entries, seen>>
      BY <2>1 DEF IInv, TypeOK
    <2>2. CASE /\ reaping' = [reaping EXCEPT ![s] = w]
               /\ entries' = [entries EXCEPT ![s] = proc[w]]
               /\ seen' = [seen EXCEPT ![s] =
                             @ \cup {v \in Versions : proc[w][v] > 0}]
      <3>1. proc[w] \in [Messages -> Nat]
        BY DEF IInv, TypeOK
      <3> QED
        BY <2>2, <3>1 DEF IInv, TypeOK
    <2> QED
      BY <2>1, <2>2 DEF ReapList, Lrange
  <1>1. TypeOK'
    <2>1. faults' \in 0..MaxFaults
      BY FaultFacts DEF ReapList, IInv
    <2> QED
      BY <1>0, <2>1 DEF ReapList, Lrange, IInv, TypeOK, Messages, Statuses, Terminal,
         WorkerPCs, SchedPCs
  <1>2. RowInv' /\ CommittedOnce' /\ RowsAdvance
    BY RowsKept DEF ReapList
  <1>3. \A x \in Messages : HasEntry(x)' <=> HasEntry(x)
    BY EntriesKept DEF ReapList
  <1>4. WorkerInv'
    BY <1>2, WorkersKept DEF ReapList
  <1>5. SchedulerInv'
    <2> SUFFICES ASSUME NEW t \in Schedulers
                 PROVE  SchedulerInv!(t)'
      BY DEF SchedulerInv
    <2> QED
      BY <1>0, <1>2, SMTT(60) DEF ReapList, Lrange, IInv, SchedulerInv, RowsAdvance, Settled,
         TypeOK, Messages
  <1>6. EntryInv'
    <2>1. \A v \in Versions : proc[w][v] > 0 => HasEntry(v)
      BY DEF HasEntry, OnList
    <2>2. \A t \in Schedulers : \A v \in seen'[t] :
             v \in seen[t] \/ HasEntry(v)
      BY <1>0, <2>1 DEF IInv, TypeOK
    <2>3. \A v \in Versions : HasEntry(v)' <=> HasEntry(v)
      BY <1>3 DEF Messages
    <2>4. UNCHANGED <<ingest_status, wjob, to_requeue>>
      BY DEF ReapList, Lrange
    <2>5. \A v \in Versions : HasEntry(v) => ingest_status[v] # "absent"
      BY DEF IInv, EntryInv
    <2>6. \A t \in Schedulers : \A v \in seen[t] \cup to_requeue[t] :
             ingest_status[v] # "absent"
      BY DEF IInv, EntryInv
    <2>7. \A t \in Schedulers : seen'[t] \subseteq Versions
      BY <1>0
    <2>8. \A t \in Schedulers : \A v \in seen'[t] \cup to_requeue'[t] :
             ingest_status'[v] # "absent"
      BY <2>2, <2>4, <2>5, <2>6, <2>7
    <2> QED
      BY <2>3, <2>4, <2>8 DEF IInv, EntryInv
  <1>7. UnclaimedJobKept'
    BY <1>2, <1>3, UnclaimedFrame DEF ReapList, Messages
  <1> QED
    BY <1>1, <1>2, <1>4, <1>5, <1>6, <1>7 DEF IInv

\* A malformed entry is no copy of a job.
LEMMA InvPushMalformed ==
    ASSUME IInv, PushMalformed
    PROVE  IInv'
  <1>1. TypeOK'
    BY FaultFacts, LpushFacts DEF PushMalformed, IInv, TypeOK, Messages,
       Statuses, Terminal, WorkerPCs, SchedPCs
  <1>2. RowInv' /\ CommittedOnce' /\ RowsAdvance
    BY RowsKept DEF PushMalformed
  <1>3. \A v \in Versions : HasEntry(v)' <=> HasEntry(v)
    BY LpushFacts DEF PushMalformed, IInv, HasEntry, OnList, Messages
  <1>4. WorkerInv'
    BY <1>2, WorkersKept DEF PushMalformed
  <1>5. SchedulerInv'
    BY <1>2, SchedulersKept DEF PushMalformed
  <1>6. EntryInv'
    BY <1>2, <1>3, EntryFrame DEF PushMalformed, IInv, TypeOK
  <1>7. UnclaimedJobKept'
    BY <1>2, <1>3, UnclaimedFrame DEF PushMalformed
  <1> QED
    BY <1>1, <1>2, <1>4, <1>5, <1>6, <1>7 DEF IInv

\* The uploader pushes the copy it is accountable for.
LEMMA InvPushJob ==
    ASSUME IInv, NEW v \in Versions, PushJob(v)
    PROVE  IInv'
  <1>1. TypeOK'
    BY LpushFacts DEF PushJob, IInv, TypeOK, Messages, Statuses, Terminal,
       WorkerPCs, SchedPCs
  <1>2. RowInv' /\ CommittedOnce' /\ RowsAdvance
    BY DEF PushJob, IInv, TypeOK, RowInv, CommittedOnce, RowsAdvance, Settled,
       Terminal, Statuses
  <1>3. /\ HasEntry(v)'
        /\ \A x \in Versions : HasEntry(x) => HasEntry(x)'
        /\ \A x \in Versions : HasEntry(x)' => HasEntry(x) \/ x = v
    BY LpushFacts DEF PushJob, IInv, HasEntry, OnList, Messages
  <1>4. WorkerInv'
    BY <1>2, WorkersKept DEF PushJob
  <1>5. SchedulerInv'
    BY <1>2, SchedulersKept DEF PushJob
  <1>6. EntryInv'
    BY <1>2, <1>3 DEF PushJob, IInv, EntryInv, RowsAdvance, Messages, TypeOK
  <1>7. UnclaimedJobKept'
    BY <1>2, <1>3 DEF PushJob, IInv, UnclaimedJobKept, TypeOK
  <1> QED
    BY <1>1, <1>2, <1>4, <1>5, <1>6, <1>7 DEF IInv

\* LPUSH of a version whose row exists adds a copy.
LEMMA InvRequeue ==
    ASSUME IInv, NEW s \in Schedulers, NEW v \in Versions, Requeue(s, v)
    PROVE  IInv'
  <1>0. /\ to_requeue' \in [Schedulers -> SUBSET Versions]
        /\ \A t \in Schedulers : to_requeue'[t] \subseteq to_requeue[t]
    <2>1. CASE UNCHANGED to_requeue
      BY <2>1 DEF IInv, TypeOK
    <2>2. CASE to_requeue' = [to_requeue EXCEPT ![s] = @ \ {v}]
      BY <2>2 DEF IInv, TypeOK
    <2> QED
      BY <2>1, <2>2 DEF Requeue
  <1>1. TypeOK'
    <2>1. queue' \in Seq(Messages) /\ faults' \in 0..MaxFaults
      BY FaultFacts, LpushFacts DEF Requeue, IInv, Messages
    <2> QED
      BY <1>0, <2>1 DEF Requeue, IInv, TypeOK, Messages, Statuses, Terminal,
         WorkerPCs, SchedPCs
  <1>2. RowInv' /\ CommittedOnce' /\ RowsAdvance
    BY RowsKept DEF Requeue
  <1>3. /\ \A x \in Versions : HasEntry(x) => HasEntry(x)'
        /\ \A x \in Versions : HasEntry(x)' => HasEntry(x) \/ x = v
    BY LpushFacts DEF Requeue, IInv, HasEntry, OnList, Messages
  <1>4. WorkerInv'
    BY <1>2, WorkersKept DEF Requeue
  <1>5. SchedulerInv'
    BY <1>2 DEF Requeue, IInv, SchedulerInv, RowsAdvance, Settled, TypeOK,
       Messages
  <1>6. EntryInv'
    <2>1. ingest_status[v] # "absent"
      BY DEF Requeue, IInv, EntryInv
    <2> QED
      BY <1>0, <1>2, <1>3, <2>1 DEF Requeue, IInv, EntryInv, RowsAdvance,
         TypeOK
  <1>7. UnclaimedJobKept'
    BY <1>2, <1>3, UnclaimedFrame DEF Requeue
  <1> QED
    BY <1>1, <1>2, <1>4, <1>5, <1>6, <1>7 DEF IInv

\* What the resume count loses, rollbacks gains.
LEMMA InvRequeueFails ==
    ASSUME IInv, NEW s \in Schedulers, NEW v \in Versions, RequeueFails(s, v)
    PROVE  IInv'
  <1>0. /\ to_requeue' \in [Schedulers -> SUBSET Versions]
        /\ \A t \in Schedulers : to_requeue'[t] \subseteq to_requeue[t]
    <2>1. CASE UNCHANGED to_requeue
      BY <2>1 DEF IInv, TypeOK
    <2>2. CASE to_requeue' = [to_requeue EXCEPT ![s] = @ \ {v}]
      BY <2>2 DEF IInv, TypeOK
    <2> QED
      BY <2>1, <2>2 DEF RequeueFails
  <1>r. /\ ingest_retry_count' \in [Versions -> Nat]
        /\ stuck' \in [Versions -> BOOLEAN]
        /\ rollbacks' \in [Versions -> Nat]
        /\ \A x \in Versions :
             /\ stuck'[x] => stuck[x]
             /\ ingest_retry_count'[x] <= ingest_retry_count[x]
             /\ ingest_retry_count[x] + rollbacks[x]
                  <= ingest_retry_count'[x] + rollbacks'[x]
    <2>1. CASE UNCHANGED <<ingest_retry_count, stuck, rollbacks>>
      BY <2>1 DEF IInv, TypeOK
    <2>2. CASE /\ ingest_retry_count' = [ingest_retry_count EXCEPT ![v] =
                                            IF @ > 0 THEN @ - 1 ELSE 0]
               /\ stuck' = [stuck EXCEPT ![v] = FALSE]
               /\ rollbacks' = [rollbacks EXCEPT ![v] = @ + 1]
      BY <2>2, SMTT(60) DEF IInv, TypeOK
    <2> QED
      BY <2>1, <2>2 DEF RequeueFails
  <1>1. TypeOK'
    <2>1. faults' \in 0..MaxFaults
      BY FaultFacts DEF RequeueFails, IInv
    <2> QED
      BY <1>0, <1>r, <2>1 DEF RequeueFails, IInv, TypeOK, Messages, Statuses,
         Terminal, WorkerPCs, SchedPCs
  <1>2. RowInv' /\ CommittedOnce' /\ RowsAdvance
    <2>1. \A x \in Versions : /\ ingest_retry_count[x] \in Nat
                               /\ rollbacks[x] \in Nat /\ claims[x] \in Nat
                               /\ ingest_retry_count'[x] \in Nat
                               /\ rollbacks'[x] \in Nat
      BY <1>r DEF IInv, TypeOK
    <2> QED
      BY <1>r, <2>1 DEF RequeueFails, IInv, RowInv, CommittedOnce,
         RowsAdvance, Settled
  <1>3. \A x \in Messages : HasEntry(x)' <=> HasEntry(x)
    BY EntriesKept DEF RequeueFails
  <1>4. WorkerInv'
    BY <1>2, WorkersKept DEF RequeueFails
  <1>5. SchedulerInv'
    BY <1>2 DEF RequeueFails, IInv, SchedulerInv, RowsAdvance, Settled,
       TypeOK, Messages
  <1>6. EntryInv'
    BY <1>0, <1>2, <1>3 DEF RequeueFails, IInv, EntryInv, RowsAdvance,
       Messages, TypeOK
  <1>7. UnclaimedJobKept'
    BY <1>2, <1>3, UnclaimedFrame DEF RequeueFails, Messages
  <1> QED
    BY <1>1, <1>2, <1>4, <1>5, <1>6, <1>7 DEF IInv

\* LREM of a malformed entry touches no copy of a job.
LEMMA InvReapMalformed ==
    ASSUME IInv, NEW s \in Schedulers, ReapMalformed(s)
    PROVE  IInv'
  <1>0. reaping[s] \in Workers /\ Malformed \in Messages
    BY DEF ReapMalformed, IInv, SchedulerInv, Messages
  <1>1. TypeOK'
    <2>1. proc' \in [Workers -> [Messages -> Nat]]
      BY <1>0, LremProcFacts DEF ReapMalformed, IInv, TypeOK
    <2>2. entries' \in [Schedulers -> [Messages -> Nat]]
      BY <1>0, LremEntriesFacts DEF ReapMalformed, IInv
    <2> QED
      BY <2>1, <2>2, FaultFacts DEF ReapMalformed, IInv, TypeOK, Messages,
         Statuses, Terminal, WorkerPCs, SchedPCs
  <1>2. RowInv' /\ CommittedOnce' /\ RowsAdvance
    BY RowsKept DEF ReapMalformed
  <1>3. \A v \in Versions : HasEntry(v)' <=> HasEntry(v)
    <2>1. \A v \in Versions : InQueue(v)' <=> InQueue(v)
      BY DEF ReapMalformed, InQueue
    <2>2. CASE UNCHANGED proc
      BY <2>1, <2>2 DEF HasEntry, OnList
    <2>3. CASE proc' = [proc EXCEPT ![reaping[s]] = Lrem(@, Malformed)]
      BY <1>0, <2>1, <2>3, LremProcFacts DEF HasEntry, IInv, Messages
    <2> QED
      BY <2>2, <2>3 DEF ReapMalformed
  <1>4. WorkerInv'
    BY <1>2, WorkersKept DEF ReapMalformed
  <1>5. SchedulerInv'
    <2>0. \A t \in Schedulers : \A x \in Messages :
             entries'[t][x] = IF t = s /\ x = Malformed THEN entries[t][x] - 1
                              ELSE entries[t][x]
      <3>1. /\ TypeOK /\ entries[s][Malformed] > 0
            /\ entries' = [entries EXCEPT ![s] = Lrem(@, Malformed)]
        BY DEF ReapMalformed, IInv
      <3> QED
        BY <1>0, <3>1, LremEntriesFacts, ZenonT(60)
    <2>1. /\ \A t \in Schedulers \ {s} : entries'[t] = entries[t]
          /\ \A x \in Versions : entries'[s][x] = entries[s][x]
      BY <2>0 DEF ReapMalformed, IInv, TypeOK, Messages
    <2> SUFFICES ASSUME NEW t \in Schedulers
                 PROVE  SchedulerInv!(t)'
      BY DEF SchedulerInv
    <2> QED
      BY <1>0, <1>2, <2>1 DEF ReapMalformed, IInv, SchedulerInv, RowsAdvance,
         Settled, TypeOK
  <1>6. EntryInv'
    BY <1>2, <1>3, EntryFrame DEF ReapMalformed, IInv, TypeOK
  <1>7. UnclaimedJobKept'
    BY <1>2, <1>3, UnclaimedFrame DEF ReapMalformed
  <1> QED
    BY <1>1, <1>2, <1>4, <1>5, <1>6, <1>7 DEF IInv

\* The reaper transfers by value; no copy is dropped.
LEMMA InvReapTransfer ==
    ASSUME IInv, NEW s \in Schedulers, ReapTransfer(s)
    PROVE  IInv'
  <1>0. reaping[s] \in Workers /\ entry[s] \in Messages
    BY DEF ReapTransfer, IInv, SchedulerInv, Messages
  <1>1. TypeOK'
    <2>1. queue' \in Seq(Messages) /\ proc' \in [Workers -> [Messages -> Nat]]
      BY <1>0, TransferFacts DEF ReapTransfer, IInv, TypeOK
    <2> QED
      BY <2>1, FaultFacts DEF ReapTransfer, IInv, TypeOK, Messages, Statuses,
         Terminal, WorkerPCs, SchedPCs
  <1>2. RowInv' /\ CommittedOnce' /\ RowsAdvance
    BY RowsKept DEF ReapTransfer
  <1>3. \A x \in Messages : HasEntry(x)' <=> HasEntry(x)
    BY <1>0, TransferFacts, EntriesKept DEF ReapTransfer, IInv
  <1>4. WorkerInv'
    BY <1>2, WorkersKept DEF ReapTransfer
  <1>5. SchedulerInv'
    BY <1>2 DEF ReapTransfer, IInv, SchedulerInv, RowsAdvance, Settled,
       TypeOK, Messages
  <1>6. EntryInv'
    BY <1>2, <1>3, EntryFrame DEF ReapTransfer, Messages, IInv, TypeOK
  <1>7. UnclaimedJobKept'
    BY <1>2, <1>3, UnclaimedFrame DEF ReapTransfer, Messages
  <1> QED
    BY <1>1, <1>2, <1>4, <1>5, <1>6, <1>7 DEF IInv

\* The entry is handled: its row is not stuck any more, or is deferred.
LEMMA InvReapTouch ==
    ASSUME IInv, NEW s \in Schedulers, NEW v \in Versions, ReapTouch(s, v)
    PROVE  IInv'
  <1>0. /\ entries' \in [Schedulers -> [Messages -> Nat]]
        /\ \A t \in Schedulers : \A x \in Messages :
             entries'[t][x] = IF t = s /\ x = v THEN entries[t][x] - 1
                              ELSE entries[t][x]
    <2>1. v \in Messages
      BY DEF Messages
    <2>2. /\ TypeOK /\ entries[s][v] > 0
          /\ entries' = [entries EXCEPT ![s] = Lrem(@, v)]
      BY DEF ReapTouch, IInv
    <2> QED
      BY <2>1, <2>2, LremEntriesFacts, ZenonT(60)
  <1>p. /\ spc' \in [Schedulers -> SchedPCs]
        /\ entry' \in [Schedulers -> Messages \cup {NoJob}]
    <2>1. /\ spc \in [Schedulers -> SchedPCs]
          /\ entry \in [Schedulers -> Messages \cup {NoJob}]
          /\ v \in Messages
      BY DEF IInv, TypeOK, Messages
    <2>2. \/ UNCHANGED <<spc, entry>>
          \/ /\ spc' = [spc EXCEPT ![s] = "transfer"]
             /\ entry' = [entry EXCEPT ![s] = v]
      BY DEF ReapTouch
    <2> QED
      BY <2>1, <2>2 DEF SchedPCs
  <1>s. /\ stuck' \in [Versions -> BOOLEAN]
        /\ \A x \in Versions : stuck'[x] => stuck[x]
    <2>1. CASE UNCHANGED stuck
      BY <2>1 DEF IInv, TypeOK
    <2>2. CASE TouchPending(v)
      BY <2>2 DEF TouchPending, IInv, TypeOK
    <2> QED
      BY <2>1, <2>2 DEF ReapTouch
  <1>d. /\ deferred' \in [Schedulers -> SUBSET Versions]
        /\ \A t \in Schedulers : deferred[t] \subseteq deferred'[t]
    <2>1. CASE UNCHANGED deferred
      BY <2>1 DEF IInv, TypeOK
    <2>2. CASE deferred' = [deferred EXCEPT ![s] = @ \cup {v}]
      BY <2>2 DEF IInv, TypeOK
    <2> QED
      BY <2>1, <2>2 DEF ReapTouch
  <1>1. TypeOK'
    <2>1. faults' \in 0..MaxFaults
      BY FaultFacts DEF ReapTouch, IInv
    <2> QED
      BY <1>0, <1>s, <1>d, <1>p, <2>1 DEF ReapTouch, IInv, TypeOK
  <1>2. RowInv' /\ CommittedOnce' /\ RowsAdvance
    BY <1>s DEF ReapTouch, IInv, TypeOK, RowInv, CommittedOnce, RowsAdvance,
       Settled
  <1>3. \A x \in Messages : HasEntry(x)' <=> HasEntry(x)
    BY EntriesKept DEF ReapTouch, TouchPending
  <1>4. WorkerInv'
    BY <1>2, WorkersKept DEF ReapTouch, TouchPending
  <1>5. SchedulerInv'
    <2>1. reaping[s] \in Workers
      BY DEF ReapTouch, IInv, SchedulerInv, Messages
    <2>2. v \in seen[s] /\ stuck'[v] /\ ~Settled(v) => v \in deferred'[s]
      <3>1. CASE deferred' = [deferred EXCEPT ![s] = @ \cup {v}]
        BY <3>1 DEF IInv, TypeOK
      <3>2. CASE TouchPending(v)
        <4>1. v \in seen[s] /\ ~Settled(v) => ingest_status[v] = "pending"
          BY DEF IInv, TypeOK, Settled, EntryInv, Terminal, Statuses
        <4> QED
          BY <3>2, <4>1 DEF TouchPending, IInv, TypeOK
      <3> QED
        BY <3>1, <3>2 DEF ReapTouch
    <2>3. /\ spc'[s] \in {"reap", "transfer"}
          /\ \A t \in Schedulers \ {s} : /\ spc'[t] = spc[t]
                                        /\ entry'[t] = entry[t]
          /\ spc'[s] = "transfer" => entry'[s] = v
      BY DEF ReapTouch, IInv, TypeOK
    <2>4. \A x \in Versions : Settled(x)' <=> Settled(x)
      BY DEF ReapTouch, Settled
    <2>5. UNCHANGED <<reaping, seen>>
      BY DEF ReapTouch
    <2>6. \A t \in Schedulers : \A m \in Messages :
             entries'[t][m] > 0 => entries[t][m] > 0
      <3>1. \A t \in Schedulers : \A m \in Messages : entries[t][m] \in Nat
        BY DEF IInv, TypeOK
      <3> QED
        BY <1>0, <3>1
    <2>7. \A t \in Schedulers : \A x \in seen'[t] :
             (stuck'[x] /\ ~Settled(x)')
                => entries'[t][x] > 0 \/ x \in deferred'[t]
      <3>1. SUFFICES ASSUME NEW t \in Schedulers, NEW x \in seen[t],
                            stuck'[x], ~Settled(x), ~(t = s /\ x = v)
                     PROVE  entries'[t][x] > 0 \/ x \in deferred'[t]
        <4>1. \A t \in Schedulers : seen[t] \subseteq Versions
          BY DEF IInv, TypeOK
        <4> QED
          BY <2>2, <2>4, <2>5, <4>1
      <3>2. x \in Versions /\ x \in Messages
        BY DEF IInv, TypeOK, Messages
      <3>3. entries[t][x] > 0 \/ x \in deferred[t]
        BY <1>s, <3>1, <3>2 DEF IInv, SchedulerInv
      <3> QED
        BY <1>0, <1>d, <3>1, <3>2, <3>3
    <2>8. \A t \in Schedulers :
             /\ (\E m \in Messages : entries'[t][m] > 0)
                  => reaping'[t] \in Workers
             /\ spc'[t] = "transfer"
                  => reaping'[t] \in Workers /\ entry'[t] \in Versions
      BY <2>1, <2>3, <2>5, <2>6 DEF IInv, SchedulerInv
    <2>9. \A t \in Schedulers :
             spc'[t] = "sweep" => \A m \in Messages : entries'[t][m] = 0
      BY <1>0, <2>3 DEF IInv, SchedulerInv
    <2> QED
      BY <2>7, <2>8, <2>9 DEF SchedulerInv
  <1>6. EntryInv'
    BY <1>2, <1>3 DEF ReapTouch, IInv, EntryInv, RowsAdvance, Messages, TypeOK
  <1>7. UnclaimedJobKept'
    BY <1>2, <1>3, UnclaimedFrame DEF ReapTouch, Messages
  <1> QED
    BY <1>1, <1>2, <1>4, <1>5, <1>6, <1>7 DEF IInv

\* After a claim, won or lost, the row of a live version is settled.
LEMMA InvClaim ==
    ASSUME IInv, NEW w \in Workers, Claim(w)
    PROVE  IInv'
  <1>j. PICK v \in Versions : v = wjob[w]
    BY DEF Claim, IInv, WorkerInv
  <1>0. /\ ingest_status' \in [Versions -> Statuses]
        /\ ingest_job_payload' \in [Versions -> BOOLEAN]
        /\ ingest_claim_token' \in [Versions -> Nat]
        /\ ingest_retry_count' \in [Versions -> Nat]
        /\ stuck' \in [Versions -> BOOLEAN]
        /\ claims' \in [Versions -> Nat]
        /\ RowInv' /\ CommittedOnce' /\ RowsAdvance
    <2>1. CASE Claimable(v)
      BY <1>j, <2>1, ClaimRowFacts DEF Claim
    <2>2. CASE ~Claimable(v)
      BY <1>j, <2>2, RowsKept DEF Claim, IInv, TypeOK, rowVars, ghostVars
    <2> QED
      BY <2>1, <2>2
  <1>w. /\ wpc' \in [Workers -> WorkerPCs] /\ wtoken' \in [Workers -> Nat]
        /\ \A u \in Workers \ {w} : wpc'[u] = wpc[u] /\ wtoken'[u] = wtoken[u]
        /\ \/ wpc'[w] = "work" /\ wtoken'[w] > 0 /\ Settled(v)'
           \/ wpc'[w] = "ack" /\ (v \notin archived => Settled(v)')
    <2>0. claims[v] \in Nat
      BY DEF IInv, TypeOK
    <2>1. CASE Claimable(v)
      <3>1. Settled(v)'
        BY <1>j, <2>1, ClaimRowFacts DEF Claim
      <3>2. /\ wpc' = [wpc EXCEPT ![w] = "work"]
            /\ wtoken' = [wtoken EXCEPT ![w] = claims[v] + 1]
        BY <1>j, <2>1 DEF Claim
      <3>3. claims[v] + 1 \in Nat /\ claims[v] + 1 > 0
        BY <2>0
      <3>4. wpc' \in [Workers -> WorkerPCs] /\ wtoken' \in [Workers -> Nat]
        BY <3>2, <3>3 DEF IInv, TypeOK, WorkerPCs
      <3>5. \A u \in Workers \ {w} : wpc'[u] = wpc[u] /\ wtoken'[u] = wtoken[u]
        BY <3>2 DEF IInv, TypeOK
      <3>6. wpc'[w] = "work" /\ wtoken'[w] > 0
        BY <3>2, <3>3 DEF IInv, TypeOK
      <3> QED
        BY <3>1, <3>4, <3>5, <3>6
    <2>2. CASE ~Claimable(v)
      <3>1. ingest_status[v] # "absent"
        BY <1>j DEF IInv, EntryInv
      <3>2. v \notin archived => Settled(v)
        BY <2>2, <3>1 DEF Claimable, Settled, IInv, TypeOK, Statuses
      <3>3. v \notin archived => Settled(v)'
        BY <1>j, <2>2, <3>2 DEF Claim, Settled, rowVars
      <3> QED
        BY <1>j, <2>2, <3>3 DEF Claim, IInv, TypeOK, WorkerPCs
    <2> QED
      BY <2>1, <2>2
  <1>1. TypeOK'
    BY <1>0, <1>w, ArchivedKept DEF Claim, IInv, TypeOK, Messages, Statuses, Terminal,
       WorkerPCs, SchedPCs
  <1>2. RowInv' /\ CommittedOnce' /\ RowsAdvance
    BY <1>0
  <1>3. \A x \in Messages : HasEntry(x)' <=> HasEntry(x)
    BY EntriesKept DEF Claim
  <1>4. WorkerInv'
    <2> SUFFICES ASSUME NEW u \in Workers
                 PROVE  WorkerInv!(u)'
      BY DEF WorkerInv
    <2>1. /\ wjob' = wjob /\ archived' = archived
          /\ \A x \in Versions : Settled(x) => Settled(x)'
      BY <1>2 DEF Claim, RowsAdvance
    <2>2. CASE u # w
      BY <1>w, <2>1, <2>2 DEF IInv, WorkerInv
    <2>3. CASE u = w
      BY <1>j, <1>w, <2>1, <2>3 DEF Messages
    <2> QED
      BY <2>2, <2>3
  <1>5. SchedulerInv'
    BY <1>2, SchedulersKept DEF Claim
  <1>6. EntryInv'
    BY <1>2, <1>3, EntryFrame DEF Claim, Messages, IInv, TypeOK
  <1>7. UnclaimedJobKept'
    BY <1>2, <1>3, UnclaimedFrame DEF Claim, Messages
  <1> QED
    BY <1>1, <1>2, <1>4, <1>5, <1>6, <1>7 DEF IInv

\* A claim with an unknown outcome leaves a token nobody holds.
LEMMA InvClaimFails ==
    ASSUME IInv, NEW w \in Workers, ClaimFails(w)
    PROVE  IInv'
  <1>j. PICK v \in Versions : v = wjob[w]
    BY DEF ClaimFails, IInv, WorkerInv
  <1>0. /\ ingest_status' \in [Versions -> Statuses]
        /\ ingest_job_payload' \in [Versions -> BOOLEAN]
        /\ ingest_claim_token' \in [Versions -> Nat]
        /\ ingest_retry_count' \in [Versions -> Nat]
        /\ stuck' \in [Versions -> BOOLEAN]
        /\ claims' \in [Versions -> Nat]
        /\ RowInv' /\ CommittedOnce' /\ RowsAdvance
    <2>1. CASE Claimable(v) /\ ClaimRow(v)
      BY <1>j, <2>1, ClaimRowFacts DEF ClaimFails
    <2>2. CASE UNCHANGED <<rowVars, claims>>
      BY <1>j, <2>2, RowsKept DEF ClaimFails, IInv, TypeOK, rowVars, ghostVars
    <2> QED
      BY <1>j, <2>1, <2>2 DEF ClaimFails
  <1>1. TypeOK'
    BY <1>0, FaultFacts, ArchivedKept DEF ClaimFails, Goto, IInv, TypeOK, Messages,
       Statuses, Terminal, WorkerPCs, SchedPCs
  <1>2. RowInv' /\ CommittedOnce' /\ RowsAdvance
    BY <1>0
  <1>3. \A x \in Messages : HasEntry(x)' <=> HasEntry(x)
    BY EntriesKept DEF ClaimFails
  <1>4. WorkerInv'
    BY <1>j, <1>2 DEF ClaimFails, Goto, IInv, WorkerInv, RowsAdvance, TypeOK
  <1>5. SchedulerInv'
    BY <1>2, SchedulersKept DEF ClaimFails
  <1>6. EntryInv'
    BY <1>2, <1>3, EntryFrame DEF ClaimFails, Goto, Messages, IInv, TypeOK
  <1>7. UnclaimedJobKept'
    BY <1>2, <1>3, UnclaimedFrame DEF ClaimFails, Messages
  <1> QED
    BY <1>1, <1>2, <1>4, <1>5, <1>6, <1>7 DEF IInv

\* Only the owner of a processing row commits, once.
LEMMA InvFinishWork ==
    ASSUME IInv, NEW w \in Workers, FinishWork(w)
    PROVE  IInv'
  <1>0. /\ ingest_status' \in [Versions -> Statuses]
        /\ ingest_job_payload' \in [Versions -> BOOLEAN]
        /\ ingest_claim_token' \in [Versions -> Nat]
        /\ ingest_retry_count' \in [Versions -> Nat]
        /\ stuck' \in [Versions -> BOOLEAN]
        /\ commits' \in [Versions -> Nat]
        /\ RowInv' /\ CommittedOnce' /\ RowsAdvance
    <2>1. CASE CommitDone(w)
      <3>1. PICK v \in Versions : /\ v = wjob[w]
                                  /\ ingest_status[v] = "processing"
        BY <2>1, OwnerFacts DEF FinishWork, Goto, CommitDone
      <3>2. PICK st \in Terminal : st = "done"
        BY DEF Terminal
      <3> QED
        BY <2>1, <3>1, <3>2, EndRowFacts DEF FinishWork, Goto, CommitDone,
           ghostVars
    <2>2. CASE UNCHANGED <<rowVars, commits>>
      BY <2>2, RowsKept DEF FinishWork, Goto, IInv, TypeOK, rowVars, ghostVars
    <2> QED
      BY <2>1, <2>2 DEF FinishWork, Goto
  <1>1. TypeOK'
    BY <1>0, ArchivedKept DEF FinishWork, Goto, IInv, TypeOK, Messages, Statuses, Terminal,
       WorkerPCs, SchedPCs
  <1>2. RowInv' /\ CommittedOnce' /\ RowsAdvance
    BY <1>0
  <1>3. \A x \in Messages : HasEntry(x)' <=> HasEntry(x)
    BY EntriesKept DEF FinishWork, Goto
  <1>4. WorkerInv'
    BY <1>2 DEF FinishWork, Goto, IInv, WorkerInv, RowsAdvance, TypeOK,
       Messages
  <1>5. SchedulerInv'
    BY <1>2, SchedulersKept DEF FinishWork, Goto
  <1>6. EntryInv'
    BY <1>2, <1>3, EntryFrame DEF FinishWork, Goto, Messages, IInv, TypeOK
  <1>7. UnclaimedJobKept'
    BY <1>2, <1>3, UnclaimedFrame DEF FinishWork, Goto, Messages
  <1> QED
    BY <1>1, <1>2, <1>4, <1>5, <1>6, <1>7 DEF IInv

\* The same when COMMIT took effect but was reported as failed.
LEMMA InvCommitFails ==
    ASSUME IInv, NEW w \in Workers, CommitFails(w)
    PROVE  IInv'
  <1>0. /\ ingest_status' \in [Versions -> Statuses]
        /\ ingest_job_payload' \in [Versions -> BOOLEAN]
        /\ ingest_claim_token' \in [Versions -> Nat]
        /\ ingest_retry_count' \in [Versions -> Nat]
        /\ stuck' \in [Versions -> BOOLEAN]
        /\ commits' \in [Versions -> Nat]
        /\ RowInv' /\ CommittedOnce' /\ RowsAdvance
    <2>1. CASE CommitDone(w)
      <3>1. PICK v \in Versions : /\ v = wjob[w]
                                  /\ ingest_status[v] = "processing"
        BY <2>1, OwnerFacts DEF CommitFails, Goto, CommitDone
      <3>2. PICK st \in Terminal : st = "done"
        BY DEF Terminal
      <3> QED
        BY <2>1, <3>1, <3>2, EndRowFacts DEF CommitFails, Goto, CommitDone,
           ghostVars
    <2>2. CASE UNCHANGED <<rowVars, commits>>
      BY <2>2, RowsKept DEF CommitFails, Goto, IInv, TypeOK, rowVars, ghostVars
    <2> QED
      BY <2>1, <2>2 DEF CommitFails, Goto
  <1>1. TypeOK'
    BY <1>0, FaultFacts, ArchivedKept DEF CommitFails, Goto, IInv, TypeOK, Messages,
       Statuses, Terminal, WorkerPCs, SchedPCs
  <1>2. RowInv' /\ CommittedOnce' /\ RowsAdvance
    BY <1>0
  <1>3. \A x \in Messages : HasEntry(x)' <=> HasEntry(x)
    BY EntriesKept DEF CommitFails, Goto
  <1>4. WorkerInv'
    BY <1>2 DEF CommitFails, Goto, IInv, WorkerInv, RowsAdvance, TypeOK,
       Messages
  <1>5. SchedulerInv'
    BY <1>2, SchedulersKept DEF CommitFails, Goto
  <1>6. EntryInv'
    BY <1>2, <1>3, EntryFrame DEF CommitFails, Goto, Messages, IInv, TypeOK
  <1>7. UnclaimedJobKept'
    BY <1>2, <1>3, UnclaimedFrame DEF CommitFails, Goto, Messages
  <1> QED
    BY <1>1, <1>2, <1>4, <1>5, <1>6, <1>7 DEF IInv

\* Only the owner of a processing row reports it failed.
LEMMA InvFail ==
    ASSUME IInv, NEW w \in Workers, Fail(w)
    PROVE  IInv'
  <1>0. /\ ingest_status' \in [Versions -> Statuses]
        /\ ingest_job_payload' \in [Versions -> BOOLEAN]
        /\ ingest_claim_token' \in [Versions -> Nat]
        /\ ingest_retry_count' \in [Versions -> Nat]
        /\ stuck' \in [Versions -> BOOLEAN]
        /\ commits' \in [Versions -> Nat]
        /\ RowInv' /\ CommittedOnce' /\ RowsAdvance
    <2>1. CASE SetIngestError(w)
      <3>1. PICK v \in Versions : /\ v = wjob[w]
                                  /\ ingest_status[v] = "processing"
        BY <2>1, OwnerFacts DEF Fail, Goto, SetIngestError
      <3>2. PICK st \in Terminal : st = "error"
        BY DEF Terminal
      <3> QED
        BY <2>1, <3>1, <3>2, EndRowFacts DEF Fail, Goto, SetIngestError,
           ghostVars
    <2>2. CASE UNCHANGED rowVars
      BY <2>2, RowsKept DEF Fail, Goto, IInv, TypeOK, rowVars, ghostVars
    <2> QED
      BY <2>1, <2>2 DEF Fail, Goto
  <1>1. TypeOK'
    BY <1>0, ArchivedKept DEF Fail, Goto, IInv, TypeOK, Messages, Statuses, Terminal,
       WorkerPCs, SchedPCs
  <1>2. RowInv' /\ CommittedOnce' /\ RowsAdvance
    BY <1>0
  <1>3. \A x \in Messages : HasEntry(x)' <=> HasEntry(x)
    BY EntriesKept DEF Fail, Goto
  <1>4. WorkerInv'
    BY <1>2 DEF Fail, Goto, IInv, WorkerInv, RowsAdvance, TypeOK, Messages
  <1>5. SchedulerInv'
    BY <1>2, SchedulersKept DEF Fail, Goto
  <1>6. EntryInv'
    BY <1>2, <1>3, EntryFrame DEF Fail, Goto, Messages, IInv, TypeOK
  <1>7. UnclaimedJobKept'
    BY <1>2, <1>3, UnclaimedFrame DEF Fail, Goto, Messages
  <1> QED
    BY <1>1, <1>2, <1>4, <1>5, <1>6, <1>7 DEF IInv

\* The same when the write took effect but was reported as failed.
LEMMA InvFailFails ==
    ASSUME IInv, NEW w \in Workers, FailFails(w)
    PROVE  IInv'
  <1>0. /\ ingest_status' \in [Versions -> Statuses]
        /\ ingest_job_payload' \in [Versions -> BOOLEAN]
        /\ ingest_claim_token' \in [Versions -> Nat]
        /\ ingest_retry_count' \in [Versions -> Nat]
        /\ stuck' \in [Versions -> BOOLEAN]
        /\ commits' \in [Versions -> Nat]
        /\ RowInv' /\ CommittedOnce' /\ RowsAdvance
    <2>1. CASE SetIngestError(w)
      <3>1. PICK v \in Versions : /\ v = wjob[w]
                                  /\ ingest_status[v] = "processing"
        BY <2>1, OwnerFacts DEF FailFails, Goto, SetIngestError
      <3>2. PICK st \in Terminal : st = "error"
        BY DEF Terminal
      <3> QED
        BY <2>1, <3>1, <3>2, EndRowFacts DEF FailFails, Goto, SetIngestError,
           ghostVars
    <2>2. CASE UNCHANGED rowVars
      BY <2>2, RowsKept DEF FailFails, Goto, IInv, TypeOK, rowVars, ghostVars
    <2> QED
      BY <2>1, <2>2 DEF FailFails, Goto
  <1>1. TypeOK'
    BY <1>0, FaultFacts, ArchivedKept DEF FailFails, Goto, IInv, TypeOK, Messages, Statuses,
       Terminal, WorkerPCs, SchedPCs
  <1>2. RowInv' /\ CommittedOnce' /\ RowsAdvance
    BY <1>0
  <1>3. \A x \in Messages : HasEntry(x)' <=> HasEntry(x)
    BY EntriesKept DEF FailFails, Goto
  <1>4. WorkerInv'
    BY <1>2 DEF FailFails, Goto, IInv, WorkerInv, RowsAdvance, TypeOK, Messages
  <1>5. SchedulerInv'
    BY <1>2, SchedulersKept DEF FailFails, Goto
  <1>6. EntryInv'
    BY <1>2, <1>3, EntryFrame DEF FailFails, Goto, Messages, IInv, TypeOK
  <1>7. UnclaimedJobKept'
    BY <1>2, <1>3, UnclaimedFrame DEF FailFails, Goto, Messages
  <1> QED
    BY <1>1, <1>2, <1>4, <1>5, <1>6, <1>7 DEF IInv

\* The sweeps reset or end rows and clear their tokens.
LEMMA InvSweep ==
    ASSUME IInv, NEW s \in Schedulers, Sweep(s)
    PROVE  IInv'
  <1>0. /\ ingest_status' \in [Versions -> Statuses]
        /\ ingest_job_payload' \in [Versions -> BOOLEAN]
        /\ ingest_claim_token' \in [Versions -> Nat]
        /\ ingest_retry_count' \in [Versions -> Nat]
        /\ stuck' \in [Versions -> BOOLEAN]
        /\ RowInv' /\ CommittedOnce' /\ RowsAdvance
    BY SweepRowsFacts DEF Sweep, ghostVars
  <1>q. PICK R \in SUBSET Versions :
           /\ to_requeue' = [to_requeue EXCEPT ![s] = R]
           /\ \A v \in R : ingest_status[v] # "absent"
    <2> DEFINE Q == {v \in StuckPending(s) \cup StuckProcessing :
                       CanRequeue(v)}
    <2>1. Q \in SUBSET Versions /\ \A v \in Q : ingest_status[v] # "absent"
      BY DEF StuckPending, StuckProcessing
    <2>2. to_requeue' = [to_requeue EXCEPT ![s] = Q]
      BY DEF Sweep
    <2> QED
      BY <2>1, <2>2
  <1>1. TypeOK'
    BY <1>0, <1>q, ArchivedKept DEF Sweep, IInv, TypeOK, Messages, Statuses, Terminal,
       WorkerPCs, SchedPCs
  <1>2. RowInv' /\ CommittedOnce' /\ RowsAdvance
    BY <1>0
  <1>3. \A x \in Messages : HasEntry(x)' <=> HasEntry(x)
    BY EntriesKept DEF Sweep
  <1>4. WorkerInv'
    BY <1>2, WorkersKept DEF Sweep
  <1>5. SchedulerInv'
    BY <1>2 DEF Sweep, IInv, SchedulerInv, RowsAdvance, Settled, TypeOK,
       Messages
  <1>6. EntryInv'
    BY <1>q, <1>2, <1>3 DEF Sweep, IInv, EntryInv, RowsAdvance, Messages,
       TypeOK
  <1>7. UnclaimedJobKept'
    BY <1>2, <1>3, UnclaimedFrame DEF Sweep, Messages
  <1> QED
    BY <1>1, <1>2, <1>4, <1>5, <1>6, <1>7 DEF IInv

\* The same when the commit was reported as failed.
LEMMA InvSweepReplyLost ==
    ASSUME IInv, NEW s \in Schedulers, SweepReplyLost(s)
    PROVE  IInv'
  <1>0. /\ ingest_status' \in [Versions -> Statuses]
        /\ ingest_job_payload' \in [Versions -> BOOLEAN]
        /\ ingest_claim_token' \in [Versions -> Nat]
        /\ ingest_retry_count' \in [Versions -> Nat]
        /\ stuck' \in [Versions -> BOOLEAN]
        /\ RowInv' /\ CommittedOnce' /\ RowsAdvance
    BY SweepRowsFacts DEF SweepReplyLost, EndSweep, ghostVars
  <1>1. TypeOK'
    BY <1>0, FaultFacts, ArchivedKept DEF SweepReplyLost, EndSweep, IInv, TypeOK, Messages,
       Statuses, Terminal, WorkerPCs, SchedPCs
  <1>2. RowInv' /\ CommittedOnce' /\ RowsAdvance
    BY <1>0
  <1>3. \A x \in Messages : HasEntry(x)' <=> HasEntry(x)
    BY EntriesKept DEF SweepReplyLost, EndSweep
  <1>4. WorkerInv'
    BY <1>2, WorkersKept DEF SweepReplyLost, EndSweep
  <1>5. SchedulerInv'
    BY <1>2 DEF SweepReplyLost, EndSweep, IInv, SchedulerInv, RowsAdvance,
       Settled, TypeOK, Messages
  <1>6. EntryInv'
    BY <1>2, <1>3 DEF SweepReplyLost, EndSweep, IInv, EntryInv, RowsAdvance,
       Messages, TypeOK
  <1>7. UnclaimedJobKept'
    BY <1>2, <1>3, UnclaimedFrame DEF SweepReplyLost, EndSweep, Messages
  <1> QED
    BY <1>1, <1>2, <1>4, <1>5, <1>6, <1>7 DEF IInv

\* A new row has no copy, no claim and no payload.
LEMMA InvInsertVersion ==
    ASSUME IInv, NEW v \in Versions, InsertVersion(v)
    PROVE  IInv'
  <1>1. TypeOK'
    BY DEF InsertVersion, IInv, TypeOK, Statuses
  <1>2. /\ ingest_status[v] = "absent" /\ ingest_status'[v] = "pending"
        /\ \A x \in Versions : x # v => ingest_status'[x] = ingest_status[x]
    BY DEF InsertVersion, IInv, TypeOK
  <1>3. \A x \in Messages : HasEntry(x)' <=> HasEntry(x)
    BY EntriesKept DEF InsertVersion
  <1>4. ~ingest_job_payload[v] /\ ~uploaded[v] /\ ~Settled(v)
    BY <1>2 DEF IInv, RowInv, Settled, Terminal
  <1>5. \A x \in Versions : Settled(x) => Settled(x)'
    BY <1>2, <1>4 DEF InsertVersion, Settled
  <1>6. RowInv'
    BY <1>2 DEF InsertVersion, IInv, RowInv, TypeOK
  <1>7. CommittedOnce'
    BY <1>2 DEF InsertVersion, IInv, CommittedOnce
  <1>8. WorkerInv'
    BY <1>5 DEF InsertVersion, IInv, WorkerInv
  <1>9. SchedulerInv'
    BY <1>5 DEF InsertVersion, IInv, SchedulerInv, TypeOK
  <1>10. EntryInv'
    BY <1>2, <1>3 DEF InsertVersion, IInv, EntryInv, Messages, TypeOK
  <1>11. UnclaimedJobKept'
    BY <1>2, <1>3, <1>4 DEF InsertVersion, IInv, UnclaimedJobKept, Messages
  <1> QED
    BY <1>1, <1>6, <1>7, <1>8, <1>9, <1>10, <1>11 DEF IInv

\* A row a reaper has seen does not fall behind in its cycle.
LEMMA InvBecomeStuck ==
    ASSUME IInv, NEW v \in Versions, BecomeStuck(v)
    PROVE  IInv'
  <1>1. TypeOK'
    BY DEF BecomeStuck, IInv, TypeOK
  <1>2. \A x \in Versions : x # v => stuck'[x] = stuck[x]
    BY DEF BecomeStuck, IInv, TypeOK
  <1>3. \A x \in Versions : Settled(x)' <=> Settled(x)
    BY DEF BecomeStuck, Settled
  <1>4. \A x \in Messages : HasEntry(x)' <=> HasEntry(x)
    BY EntriesKept DEF BecomeStuck
  <1>5. RowInv' /\ CommittedOnce'
    BY DEF BecomeStuck, IInv, RowInv, CommittedOnce
  <1>6. WorkerInv'
    BY <1>3 DEF BecomeStuck, IInv, WorkerInv
  <1>7. SchedulerInv'
    BY <1>2, <1>3 DEF BecomeStuck, IInv, SchedulerInv, TypeOK
  <1>8. EntryInv'
    BY <1>4 DEF BecomeStuck, IInv, EntryInv, Messages
  <1>9. UnclaimedJobKept'
    BY <1>4 DEF BecomeStuck, IInv, UnclaimedJobKept, Messages
  <1> QED
    BY <1>1, <1>5, <1>6, <1>7, <1>8, <1>9 DEF IInv

-----------------------------------------------------------------------------
(* The invariant holds of every behaviour.                                 *)

\* Every step, and every stuttering step, keeps the invariant.
LEMMA NextIInv ==
    ASSUME IInv, [Next]_vars
    PROVE  IInv'
  <1>1. CASE UNCHANGED vars
    <2>1. RowInv' /\ CommittedOnce' /\ RowsAdvance
      BY <1>1, RowsKept DEF vars
    <2>2. \A x \in Messages : HasEntry(x)' <=> HasEntry(x)
      BY <1>1, EntriesKept DEF vars, redisVars
    <2>3. TypeOK'
      BY <1>1 DEF IInv, TypeOK, vars, rowVars, redisVars, workerVars,
         schedVars, ghostVars
    <2>4. WorkerInv' /\ SchedulerInv'
      BY <1>1, <2>1, WorkersKept, SchedulersKept DEF vars
    <2>5. EntryInv' /\ UnclaimedJobKept'
      BY <1>1, <2>1, <2>2, EntryFrame, UnclaimedFrame
         DEF vars, workerVars, schedVars, Messages
    <2> QED
      BY <2>1, <2>3, <2>4, <2>5 DEF IInv
  <1>2. CASE Uploader
    BY <1>2, InvPushMalformed, InvInsertVersion, InvPushJob DEF Uploader
  <1>3. CASE \E v \in Versions : BecomeStuck(v)
    BY <1>3, InvBecomeStuck
  <1>4. ASSUME NEW w \in Workers,
               Start(w) \/ RefreshHeartbeat(w) \/ HeartbeatExpires(w)
        PROVE  IInv'
    BY <1>4, InvStart, InvRefreshHeartbeat, InvHeartbeatExpires
  <1>5. ASSUME NEW w \in Workers, WorkerStep(w)
        PROVE  IInv'
    BY <1>5, InvTakeJob, InvClaim, InvWorkFails, InvFinishWork, InvFail,
       InvAcknowledge, InvTransferBack DEF WorkerStep
  <1>6. ASSUME NEW w \in Workers, WorkerFault(w)
        PROVE  IInv'
    BY <1>6, InvTakeJobReplyLost, InvClaimFails, InvCommitFails, InvFailFails,
       InvTransferBackFatal, InvShutdown, InvCrash DEF WorkerFault
  <1>7. ASSUME NEW s \in Schedulers, SchedulerStep(s)
        PROVE  IInv'
    BY <1>7, InvStartSweep, InvReapList, InvReapMalformed, InvReapTouch,
       InvReapTransfer, InvReapDone, InvSweep, InvRequeue, InvRequeueDone
       DEF SchedulerStep
  <1>8. ASSUME NEW s \in Schedulers, SchedulerFault(s)
        PROVE  IInv'
    BY <1>8, InvSweepSkipped, InvSweepReplyLost, InvSchedulerCrash,
       InvRequeueFails DEF SchedulerFault
  <1> QED
    BY <1>1, <1>2, <1>3, <1>4, <1>5, <1>6, <1>7, <1>8 DEF Next

\* The inductive invariant holds in every reachable state.
THEOREM Invariance == Spec => []IInv
  <1>1. Init => IInv
    BY InitIInv
  <1>2. IInv /\ [Next]_vars => IInv'
    BY NextIInv
  <1> QED
    BY <1>1, <1>2, PTL DEF Spec

\* The database rows, the Redis lists and what workers and schedulers hold
\* keep their types, the queue entries included.
THEOREM TypeCorrect == Spec => []TypeOK
  <1>1. IInv => TypeOK
    BY DEF IInv
  <1> QED
    BY <1>1, Invariance, PTL

\* claim_for_processing's compare-and-set and mark_ingest_done's token test
\* together commit a version's chunks exactly when its row is 'done', and
\* never twice.
THEOREM CommitsExactlyOnce == Spec => []CommittedOnce
  <1>1. IInv => CommittedOnce
    BY DEF IInv
  <1> QED
    BY <1>1, Invariance, PTL

\* LMOVE, transfer_proc_to_source and the acknowledging LREM never drop the
\* only copy of a pushed job that nobody has claimed.
THEOREM NoJobLost == Spec => []UnclaimedJobKept
  <1>1. IInv => UnclaimedJobKept
    BY DEF IInv
  <1> QED
    BY <1>1, Invariance, PTL

\* max_resume_attempts bounds the attempts at a job, up to the resumes a
\* failed requeue gives back.
THEOREM PoisonJobStops == Spec => []AttemptsBounded
  <1>1. IInv => AttemptsBounded
    <2> SUFFICES ASSUME IInv, NEW v \in Versions
                 PROVE  AttemptsBounded!(v)
      BY DEF AttemptsBounded
    <2>1. /\ claims[v] \in Nat /\ rollbacks[v] \in Nat
          /\ ingest_retry_count[v] \in Nat
      BY DEF IInv, TypeOK
    <2> QED
      BY <2>1 DEF IInv, RowInv
  <1> QED
    BY <1>1, Invariance, PTL

-----------------------------------------------------------------------------
(* The action properties.                                                  *)

\* The only steps that write the status or the commit count of a row.
LEMMA StatusStep ==
    ASSUME IInv, [Next]_vars
    PROVE  \/ UNCHANGED <<ingest_status, commits>>
           \/ /\ UNCHANGED commits
              /\ \/ \E v \in Versions : InsertVersion(v)
                 \/ \E v \in Versions : Claimable(v) /\ ClaimRow(v)
                 \/ \E w \in Workers : wpc[w] = "fail" /\ SetIngestError(w)
                 \/ \E s \in Schedulers : SweepRows(s)
           \/ \E w \in Workers : wpc[w] = "work" /\ CommitDone(w)
  <1> USE DEF rowVars, ghostVars
  <1>1. CASE UNCHANGED vars
    BY <1>1 DEF vars
  <1>2. CASE Uploader
    BY <1>2 DEF Uploader, PushMalformed, InsertVersion, PushJob
  <1>3. CASE \E v \in Versions : BecomeStuck(v)
    BY <1>3 DEF BecomeStuck
  <1>4. ASSUME NEW w \in Workers,
               Start(w) \/ RefreshHeartbeat(w) \/ HeartbeatExpires(w)
        PROVE  UNCHANGED <<ingest_status, commits>>
    BY <1>4 DEF Start, RefreshHeartbeat, HeartbeatExpires
  <1>5. ASSUME NEW w \in Workers, WorkerStep(w) \/ WorkerFault(w)
        PROVE  \/ UNCHANGED <<ingest_status, commits>>
               \/ /\ UNCHANGED commits
                  /\ \/ \E v \in Versions : Claimable(v) /\ ClaimRow(v)
                     \/ wpc[w] = "fail" /\ SetIngestError(w)
               \/ wpc[w] = "work" /\ CommitDone(w)
    <2>1. CASE TakeJob(w) \/ WorkFails(w) \/ Acknowledge(w) \/ TransferBack(w)
      BY <2>1 DEF TakeJob, WorkFails, Acknowledge, TransferBack
    <2>2. CASE TakeJobReplyLost(w) \/ TransferBackFatal(w) \/ Shutdown(w)
                 \/ Crash(w)
      BY <2>2 DEF TakeJobReplyLost, TransferBackFatal, Shutdown, Crash
    <2>3. CASE Claim(w) \/ ClaimFails(w)
      <3>1. PICK v \in Versions : v = wjob[w]
        BY <2>3 DEF Claim, ClaimFails, IInv, WorkerInv
      <3> QED
        BY <2>3, <3>1 DEF Claim, ClaimFails
    <2>4. CASE FinishWork(w) \/ CommitFails(w)
      BY <2>4 DEF FinishWork, CommitFails
    <2>5. CASE Fail(w) \/ FailFails(w)
      BY <2>5 DEF Fail, FailFails
    <2> QED
      BY <1>5, <2>1, <2>2, <2>3, <2>4, <2>5 DEF WorkerStep, WorkerFault
  <1>6. ASSUME NEW s \in Schedulers, SchedulerStep(s) \/ SchedulerFault(s)
        PROVE  /\ UNCHANGED commits
               /\ UNCHANGED ingest_status \/ SweepRows(s)
    <2>1. CASE SchedulerStep(s)
      BY <2>1 DEF SchedulerStep, StartSweep, ReapList, ReapMalformed,
         ReapTouch, ReapTransfer, ReapDone, Sweep, Requeue, RequeueDone
    <2>2. CASE SchedulerFault(s)
      BY <2>2 DEF SchedulerFault, SweepSkipped, SweepReplyLost,
         SchedulerCrash, RequeueFails
    <2> QED
      BY <1>6, <2>1, <2>2
  <1> QED
    BY <1>1, <1>2, <1>3, <1>4, <1>5, <1>6 DEF Next

\* No step moves a row that is 'done' or 'error': the claim needs 'pending',
\* the terminal writes need the token of a row that is 'processing', and the
\* sweeps select neither status.
THEOREM TerminalRowsStay == Spec => TerminalIsFinal
  <1>1. ASSUME IInv, [Next]_vars, NEW v \in Versions,
               ingest_status[v] \in Terminal
        PROVE  ingest_status'[v] = ingest_status[v]
    <2>0. ingest_status \in [Versions -> Statuses]
      BY <1>1 DEF IInv, TypeOK
    <2>1. CASE UNCHANGED <<ingest_status, commits>>
      BY <2>1
    <2>2. CASE \E x \in Versions : InsertVersion(x)
      BY <1>1, <2>0, <2>2 DEF InsertVersion, Terminal
    <2>3. CASE \E x \in Versions : Claimable(x) /\ ClaimRow(x)
      BY <1>1, <2>0, <2>3 DEF Claimable, ClaimRow, Terminal
    <2>4. CASE \E w \in Workers : wpc[w] = "fail" /\ SetIngestError(w)
      <3>1. PICK w \in Workers : wpc[w] = "fail" /\ SetIngestError(w)
        BY <2>4
      <3>2. wjob[w] \in Versions /\ ingest_status[wjob[w]] = "processing"
        BY <1>1, <3>1, OwnerFacts DEF SetIngestError
      <3> QED
        BY <1>1, <2>0, <3>1, <3>2 DEF SetIngestError, EndRow, Terminal
    <2>5. CASE \E w \in Workers : wpc[w] = "work" /\ CommitDone(w)
      <3>1. PICK w \in Workers : wpc[w] = "work" /\ CommitDone(w)
        BY <2>5
      <3>2. wjob[w] \in Versions /\ ingest_status[wjob[w]] = "processing"
        BY <1>1, <3>1, OwnerFacts DEF CommitDone
      <3> QED
        BY <1>1, <2>0, <3>1, <3>2 DEF CommitDone, EndRow, Terminal
    <2>6. CASE \E s \in Schedulers : SweepRows(s)
      BY <1>1, <2>6 DEF SweepRows, StuckPending, StuckProcessing, Terminal
    <2> QED
      BY <1>1, <2>1, <2>2, <2>3, <2>4, <2>5, <2>6, StatusStep
  <1>2. IInv /\ [Next]_vars =>
           [\A v \in Versions : ingest_status[v] \in Terminal
                                 => ingest_status'[v] = ingest_status[v]]_vars
    BY <1>1
  <1> QED
    BY <1>2, Invariance, PTL DEF Spec, TerminalIsFinal

\* Whoever commits holds the token of the latest claim of a row that is still
\* 'processing': a worker the fallback has reset commits nothing.
THEOREM OnlyLatestClaimCommits == Spec => LatestClaimCommits
  <1>1. ASSUME IInv, [Next]_vars, NEW v \in Versions, commits'[v] # commits[v]
        PROVE  /\ ingest_status[v] = "processing"
               /\ \E w \in Workers : /\ wpc[w] = "work"
                                     /\ wjob[w] = v
                                     /\ wtoken[w] = claims[v]
    <2>1. PICK w \in Workers : wpc[w] = "work" /\ CommitDone(w)
      BY <1>1, StatusStep
    <2>2. /\ wjob[w] \in Versions
          /\ ingest_status[wjob[w]] = "processing"
          /\ wtoken[w] = claims[wjob[w]]
      BY <1>1, <2>1, OwnerFacts DEF CommitDone
    <2>3. wjob[w] = v
      BY <1>1, <2>1, <2>2 DEF CommitDone, IInv, TypeOK
    <2> QED
      BY <2>1, <2>2, <2>3
  <1>2. IInv /\ [Next]_vars =>
           [\A v \in Versions :
               commits'[v] # commits[v] =>
                  /\ ingest_status[v] = "processing"
                  /\ \E w \in Workers : /\ wpc[w] = "work"
                                        /\ wjob[w] = v
                                        /\ wtoken[w] = claims[v]]_vars
    BY <1>1
  <1> QED
    BY <1>2, Invariance, PTL DEF Spec, LatestClaimCommits

\* The sweeps of a cycle never give up an unclaimed version whose entry the
\* reaper of that cycle read: it was touched, so it is not stuck, or deferred.
THEOREM ReapedJobsSpared == Spec => ReapedJobSpared
  <1>1. ASSUME IInv, [Next]_vars, NEW s \in Schedulers,
               spc[s] = "sweep", spc'[s] # "sweep", NEW v \in seen[s],
               ingest_status[v] = "pending", ~ingest_job_payload[v]
        PROVE  ingest_status'[v] # "error"
    <2>1. v \in Versions
      BY <1>1 DEF IInv, TypeOK
    <2>2. ~Settled(v)
      BY <1>1 DEF Settled, Terminal
    <2>3. stuck[v] => v \in deferred[s]
      <3>1. entries[s][v] = 0
        BY <1>1, <2>1 DEF IInv, SchedulerInv, Messages
      <3> QED
        BY <1>1, <2>2, <3>1 DEF IInv, SchedulerInv
    <2>4. CASE SweepRows(s)
      <3>1. v \notin StuckPending(s) \cup StuckProcessing
        BY <1>1, <2>3 DEF StuckPending, StuckProcessing
      <3>2. ingest_status'[v] = ingest_status[v]
        BY <2>1, <2>4, <3>1 DEF SweepRows
      <3> QED
        BY <1>1, <3>2
    <2>5. UNCHANGED ingest_status \/ SweepRows(s)
      <3>1. SchedulerStep(s) \/ SchedulerFault(s)
        <4>1. spc \in [Schedulers -> SchedPCs]
          BY <1>1 DEF IInv, TypeOK
        <4>2. CASE UNCHANGED spc
          BY <1>1, <4>2
        <4>3. ASSUME NEW t \in Schedulers,
                     SchedulerStep(t) \/ SchedulerFault(t), t # s
              PROVE  spc'[s] = spc[s]
          <5>1. CASE SchedulerStep(t)
            BY <4>1, <4>3, <5>1 DEF SchedulerStep, StartSweep, ReapList,
               ReapMalformed, ReapTouch, ReapTransfer, ReapDone, Sweep,
               Requeue, RequeueDone, EndSweep
          <5>2. CASE SchedulerFault(t)
            BY <4>1, <4>3, <5>2 DEF SchedulerFault, SweepSkipped,
               SweepReplyLost, SchedulerCrash, RequeueFails, EndSweep
          <5> QED
            BY <4>3, <5>1, <5>2
        <4>4. CASE UNCHANGED vars
          BY <4>2, <4>4 DEF vars, schedVars
        <4>5. CASE Uploader \/ \E x \in Versions : BecomeStuck(x)
          BY <4>2, <4>5 DEF Uploader, PushMalformed, InsertVersion, PushJob,
             BecomeStuck, schedVars
        <4>6. ASSUME NEW w \in Workers,
                     \/ Start(w) \/ RefreshHeartbeat(w) \/ HeartbeatExpires(w)
                     \/ WorkerStep(w) \/ WorkerFault(w)
              PROVE  UNCHANGED spc
          <5>1. CASE Start(w) \/ RefreshHeartbeat(w) \/ HeartbeatExpires(w)
            BY <5>1 DEF Start, RefreshHeartbeat, HeartbeatExpires, schedVars
          <5>2. CASE WorkerStep(w)
            BY <5>2 DEF WorkerStep, TakeJob, Claim, WorkFails, FinishWork,
               Fail, Acknowledge, TransferBack, schedVars
          <5>3. CASE WorkerFault(w)
            BY <5>3 DEF WorkerFault, TakeJobReplyLost, ClaimFails,
               CommitFails, FailFails, TransferBackFatal, Shutdown, Crash,
               schedVars
          <5> QED
            BY <4>6, <5>1, <5>2, <5>3
        <4> QED
          BY <1>1, <4>2, <4>3, <4>4, <4>5, <4>6 DEF Next
      <3>2. CASE SchedulerStep(s)
        BY <3>2 DEF SchedulerStep, StartSweep, ReapList, ReapMalformed,
           ReapTouch, ReapTransfer, ReapDone, Sweep, Requeue, RequeueDone,
           rowVars
      <3>3. CASE SchedulerFault(s)
        BY <3>3 DEF SchedulerFault, SweepSkipped, SweepReplyLost,
           SchedulerCrash, RequeueFails, rowVars
      <3> QED
        BY <3>1, <3>2, <3>3
    <2> QED
      BY <1>1, <2>4, <2>5
  <1>2. IInv /\ [Next]_vars =>
           [\A s \in Schedulers :
               (spc[s] = "sweep" /\ spc'[s] # "sweep") =>
                  \A v \in seen[s] :
                     (ingest_status[v] = "pending" /\ ~ingest_job_payload[v])
                        => ingest_status'[v] # "error"]_vars
    BY <1>1
  <1> QED
    BY <1>2, Invariance, PTL DEF Spec, ReapedJobSpared

=============================================================================
