-------------------------- MODULE VectorSyncProofs --------------------------
(***************************************************************************)
(* Proofs about VectorSync: that the index is never silently stale, that   *)
(* a resync stays owed until it is done and that payloads do not go back,  *)
(* for every number of versions, workers, changes and failures.            *)
(***************************************************************************)
EXTENDS VectorSync, FiniteSetTheorems, TLAPS

-----------------------------------------------------------------------------
\* The actions of one worker on an event, one by one.
LEMMA WorkerCases ==
    ASSUME NEW w \in Workers, ProcessStep(w) \/ LockStep(w)
    PROVE  \/ \E v \in upserts : UpsertStart(w, v)
           \/ \E n \in PendingResyncs : ResyncStart(w, n)
           \/ ResyncScope(w) \/ ResyncPoints(w) \/ Write(w)
           \/ UpsertCommit(w) \/ ResyncCommit(w) \/ Complete(w)
           \/ UpsertLock(w) \/ ResyncLock(w) \/ ResyncSuperseded(w)
  BY DEF ProcessStep, LockStep

\* What the current row of a version says is a payload.
LEMMA ChunkPayloadType ==
    ASSUME TypeOK, NEW v \in Versions
    PROVE  ChunkPayload(v) \in Payloads
  BY ConstantsAssumption DEF TypeOK, ChunkPayload, Payloads

\* Types are preserved by every step.
LEMMA TypeStep ==
    ASSUME TypeOK, JobOK, [Next]_vars
    PROVE  TypeOK'
<1> USE ConstantsAssumption
<1>1. CASE Bump
  <2>1. acl_version' \in 1..MaxAcl /\ synced_version' \in 0..acl_version'
    BY <1>1 DEF TypeOK, Bump
  <2>2. /\ scope' \in acl_version'..(acl_version' + MaxExpiries)
        /\ bumped_scope' \in acl_version'..scope'
    BY <1>1 DEF TypeOK, Bump
  <2>3. resyncs' \in SUBSET (1..acl_version') /\ resynced' \in SUBSET resyncs'
    BY <1>1 DEF TypeOK, Bump
  <2>4. /\ prefilter' \in [Versions -> 0..scope']
        /\ ingest_scope' \in [Versions -> 0..scope']
    <3>1. scope' = scope + 1 /\ scope \in Nat
      BY <1>1 DEF TypeOK, Bump
    <3> QED BY <1>1, <3>1 DEF TypeOK, Bump, versionVars
  <2>5. event' \in [Workers -> 0..acl_version']
    <3>1. acl_version' = acl_version + 1 /\ acl_version \in Nat
      BY <1>1 DEF TypeOK, Bump
    <3> QED BY <1>1, <3>1 DEF TypeOK, Bump, workerVars
  <2> QED
    BY <1>1, <2>1, <2>2, <2>3, <2>4, <2>5
       DEF TypeOK, Bump, versionVars, indexVars, workerVars, countVars
<1>2. CASE ScopeDrifts
  <2>1. /\ scope' \in acl_version..(acl_version + MaxExpiries)
        /\ bumped_scope' \in acl_version..scope'
    BY <1>2 DEF TypeOK, ScopeDrifts
  <2>2. /\ prefilter' \in [Versions -> 0..scope']
        /\ ingest_scope' \in [Versions -> 0..scope']
    <3>1. scope' = scope + 1 /\ scope \in Nat
      BY <1>2 DEF TypeOK, ScopeDrifts
    <3> QED BY <1>2, <3>1 DEF TypeOK, ScopeDrifts, versionVars
  <2> QED
    BY <1>2, <2>1, <2>2 DEF TypeOK, ScopeDrifts, eventVars, versionVars,
                            indexVars, workerVars, countVars
<1>3. CASE Backfill
  BY <1>3 DEF TypeOK, Backfill, docVars, versionVars, indexVars, workerVars,
              countVars
<1>4. ASSUME NEW v \in Versions, IngestReadScopes(v) PROVE TypeOK'
  BY <1>4 DEF TypeOK, IngestReadScopes, docVars, eventVars, indexVars,
              workerVars, countVars
<1>5. ASSUME NEW v \in Versions, IngestCommit(v) PROVE TypeOK'
  BY <1>5 DEF TypeOK, IngestCommit, WriteChunks, docVars, indexVars, workerVars, countVars
<1>6. ASSUME NEW v \in Versions, Promote(v) PROVE TypeOK'
  <2>1. lifecycle' \in [Versions -> Statuses]
    BY <1>6 DEF TypeOK, Promote, Statuses
  <2>2. promotions' \in 0..MaxPromotions
    BY <1>6 DEF TypeOK, Promote
  <2> QED
    BY <1>6, <2>1, <2>2 DEF TypeOK, Promote, docVars, eventVars, indexVars,
                            workerVars
<1>7. ASSUME NEW ts \in SUBSET Versions, NEW p \in Payloads, Apply(ts, p)
      PROVE  points' \in [Versions -> Payloads]
  BY <1>7 DEF TypeOK, Apply
<1>8. NoPoint \in Payloads
  BY DEF NoPoint, Payloads, Statuses
<1>9. ASSUME NEW w \in Workers, Idle(w)
      PROVE  /\ pc' \in [Workers -> PCs]
             /\ kind' \in [Workers -> {"none", "resync", "upsert"}]
             /\ event' \in [Workers -> 0..acl_version]
             /\ targets' \in [Workers -> SUBSET Versions]
             /\ payload' \in [Workers -> Payloads]
  BY <1>8, <1>9 DEF TypeOK, Idle, PCs
<1>10. ASSUME NEW w \in Workers, Unlock(w)
       PROVE  lock' \in Workers \cup {NoWorker}
  BY <1>10 DEF TypeOK, Unlock
<1>11. ASSUME NEW w \in Workers, Write(w) PROVE TypeOK'
  <2>1. points' \in [Versions -> Payloads]
    BY <1>7, <1>11 DEF TypeOK, Write
  <2>2. pc' \in [Workers -> PCs]
    BY <1>11 DEF TypeOK, Write, PCs
  <2> QED
    BY <1>11, <2>1, <2>2 DEF TypeOK, Write, docVars, eventVars, versionVars,
                             countVars
<1>12. ASSUME NEW w \in Workers, Fail(w) PROVE TypeOK'
  BY <1>9, <1>10, <1>12 DEF TypeOK, Fail, Fault, docVars, eventVars,
                            versionVars, indexVars
<1>13. ASSUME NEW w \in Workers, WriteOrphaned(w) PROVE TypeOK'
  <2>1. in_flight' \in SUBSET Requests
    BY <1>13 DEF TypeOK, WriteOrphaned, Requests
  <2> QED
    BY <1>9, <1>10, <1>13, <2>1 DEF TypeOK, WriteOrphaned, Fault, docVars,
                                    eventVars, versionVars
<1>14. ASSUME NEW r \in in_flight, LateWrite(r) PROVE TypeOK'
  <2>1. r.targets \in SUBSET Versions /\ r.payload \in Payloads
    BY DEF TypeOK, Requests
  <2>2. points' \in [Versions -> Payloads]
    BY <1>7, <1>14, <2>1 DEF LateWrite
  <2> QED
    BY <1>14, <2>1, <2>2 DEF TypeOK, LateWrite, docVars, eventVars,
                             versionVars, workerVars, countVars
<1>15. ASSUME NEW w \in Workers, Complete(w) PROVE TypeOK'
  BY <1>9, <1>15 DEF TypeOK, JobOK, Complete, docVars, versionVars, indexVars,
                     countVars
<1>16. ASSUME NEW w \in Workers, NEW v \in upserts, UpsertStart(w, v)
       PROVE  TypeOK'
  <2>1. v \in Versions /\ ChunkPayload(v) \in Payloads
    BY ChunkPayloadType DEF TypeOK
  <2> QED
    BY <1>16, <2>1 DEF TypeOK, UpsertStart, PCs, docVars, eventVars,
                       versionVars, indexVars, countVars
<1>17. ASSUME NEW w \in Workers, UpsertLock(w) PROVE TypeOK'
  <2>1. payload' \in [Workers -> Payloads]
    BY <1>17, ChunkPayloadType DEF TypeOK, UpsertLock
  <2> QED
    BY <1>17, <2>1 DEF TypeOK, UpsertLock, PCs, docVars, eventVars,
                       versionVars, indexVars, countVars
<1>18. ASSUME NEW w \in Workers, UpsertCommit(w) PROVE TypeOK'
  BY <1>10, <1>18 DEF TypeOK, UpsertCommit, PCs, docVars, eventVars,
                      versionVars, countVars
<1>19. ASSUME NEW w \in Workers, NEW n \in PendingResyncs, ResyncStart(w, n)
       PROVE  TypeOK'
  BY <1>19 DEF TypeOK, ResyncStart, PendingResyncs, PCs, docVars, eventVars,
               versionVars, indexVars, countVars
<1>20. ASSUME NEW w \in Workers, ResyncLock(w) PROVE TypeOK'
  <2>1. payload' \in [Workers -> Payloads]
    BY <1>20 DEF TypeOK, ResyncLock, Payloads
  <2> QED
    BY <1>20, <2>1 DEF TypeOK, ResyncLock, PCs, docVars, eventVars,
                       versionVars, indexVars, countVars
<1>21. ASSUME NEW w \in Workers, ResyncSuperseded(w) PROVE TypeOK'
  BY <1>21 DEF TypeOK, ResyncSuperseded, PCs, docVars, eventVars,
               versionVars, indexVars, countVars
<1>22. ASSUME NEW w \in Workers, ResyncScope(w) PROVE TypeOK'
  <2>1. payload' \in [Workers -> Payloads]
    BY <1>22 DEF TypeOK, ResyncScope, Payloads
  <2> QED
    BY <1>22, <2>1 DEF TypeOK, ResyncScope, PCs, docVars, eventVars,
                       versionVars, indexVars, countVars
<1>23. ASSUME NEW w \in Workers, ResyncPoints(w) PROVE TypeOK'
  <2>1. payload' \in [Workers -> Payloads]
    BY <1>23 DEF TypeOK, ResyncPoints, Payloads, Statuses
  <2> QED
    BY <1>23, <2>1 DEF TypeOK, ResyncPoints, PCs, docVars, eventVars,
                       versionVars, indexVars, countVars
<1>24. ASSUME NEW w \in Workers, ResyncCommit(w) PROVE TypeOK'
  <2>1. payload[w].scope \in 1..scope
    BY <1>24 DEF JobOK, ResyncCommit
  <2>2. prefilter' \in [Versions -> 0..scope]
    BY <1>24, <2>1 DEF TypeOK, ResyncCommit
  <2>3. synced_version' \in 0..acl_version
    BY <1>24 DEF TypeOK, ResyncCommit, Cas
  <2> QED
    BY <1>10, <1>24, <2>2, <2>3 DEF TypeOK, ResyncCommit, PCs, eventVars,
                                    indexVars, countVars
<1>25. CASE UNCHANGED vars
  BY <1>25 DEF TypeOK, vars, docVars, eventVars, versionVars, indexVars,
               workerVars, countVars
<1> QED
  BY <1>1, <1>2, <1>3, <1>4, <1>5, <1>6, <1>11, <1>12, <1>13, <1>14, <1>15,
     <1>16, <1>17, <1>18, <1>19, <1>20, <1>21, <1>22, <1>23, <1>24, <1>25,
     WorkerCases DEF Next

-----------------------------------------------------------------------------
\* The steps of ingest, promotion, triggers and late requests do not touch the
\* workers.
LEMMA QuietWorkers ==
    ASSUME \/ Bump \/ ScopeDrifts \/ Backfill \/ UNCHANGED vars
           \/ \E v \in Versions :
                 IngestReadScopes(v) \/ IngestCommit(v) \/ Promote(v)
           \/ \E r \in in_flight : LateWrite(r)
    PROVE  UNCHANGED workerVars
  BY DEF Bump, ScopeDrifts, Backfill, vars, IngestReadScopes, IngestCommit,
         Promote, LateWrite

\* The lock is held exactly while a transaction is open.
LEMMA LockStepHolds ==
    ASSUME TypeOK, LockHeld, [Next]_vars
    PROVE  LockHeld'
<1> USE ConstantsAssumption
<1>1. CASE UNCHANGED workerVars
  BY <1>1 DEF LockHeld, workerVars
<1>2. ASSUME NEW w \in Workers,
             \/ \E v \in upserts : UpsertStart(w, v)
             \/ \E n \in PendingResyncs : ResyncStart(w, n)
             \/ Complete(w) \/ ResyncSuperseded(w)
      PROVE  LockHeld'
  <2>1. PICK p \in {"idle", "lock", "finish"} :
           /\ pc' = [pc EXCEPT ![w] = p]
           /\ pc[w] \notin InTransaction
           /\ lock' = lock
    BY <1>2 DEF UpsertStart, ResyncStart, Complete, Idle, ResyncSuperseded,
                InTransaction
  <2> QED BY <2>1 DEF TypeOK, LockHeld, InTransaction
<1>3. ASSUME NEW w \in Workers, ResyncScope(w) \/ ResyncPoints(w) \/ Write(w)
      PROVE  LockHeld'
  <2>1. PICK p \in InTransaction :
           /\ pc' = [pc EXCEPT ![w] = p]
           /\ pc[w] \in InTransaction
           /\ lock' = lock
    BY <1>3 DEF ResyncScope, ResyncPoints, Write, InTransaction
  <2> QED BY <2>1 DEF TypeOK, LockHeld
<1>4. ASSUME NEW w \in Workers,
             UpsertCommit(w) \/ ResyncCommit(w) \/ Fail(w) \/ WriteOrphaned(w)
      PROVE  LockHeld'
  <2>1. PICK p \in {"idle", "finish"} :
           /\ pc' = [pc EXCEPT ![w] = p]
           /\ lock' = IF lock = w THEN NoWorker ELSE lock
    BY <1>4 DEF UpsertCommit, ResyncCommit, Fail, WriteOrphaned, Idle, Unlock
  <2> QED BY <2>1 DEF TypeOK, LockHeld, InTransaction
<1>5. ASSUME NEW w \in Workers, UpsertLock(w) \/ ResyncLock(w)
      PROVE  LockHeld'
  <2>1. PICK p \in InTransaction :
           /\ pc' = [pc EXCEPT ![w] = p]
           /\ lock = NoWorker /\ lock' = w
    BY <1>5 DEF UpsertLock, ResyncLock, InTransaction
  <2> QED BY <2>1 DEF TypeOK, LockHeld
<1> QED
  BY <1>1, <1>2, <1>3, <1>4, <1>5, WorkerCases, QuietWorkers DEF Next

\* A version is ingested once.
LEMMA IngestStep ==
    ASSUME TypeOK, JobOK, IngestedOnce, [Next]_vars
    PROVE  IngestedOnce'
<1>1. ASSUME NEW v \in Versions, IngestReadScopes(v) PROVE IngestedOnce'
  BY <1>1 DEF TypeOK, IngestedOnce, IngestReadScopes, eventVars
<1>2. ASSUME NEW v \in Versions, IngestCommit(v) PROVE IngestedOnce'
  BY <1>2 DEF TypeOK, IngestedOnce, IngestCommit
<1>3. CASE UNCHANGED <<upserts, ingested, ingest_scope>>
  BY <1>3 DEF IngestedOnce
<1>4. ASSUME NEW w \in Workers, Complete(w) PROVE IngestedOnce'
  BY <1>4 DEF IngestedOnce, Complete, versionVars
<1>5. ASSUME \/ Bump \/ ScopeDrifts \/ Backfill \/ UNCHANGED vars
             \/ \E v \in Versions : Promote(v)
             \/ \E r \in in_flight : LateWrite(r)
      PROVE  UNCHANGED <<upserts, ingested, ingest_scope>>
  BY <1>5 DEF Bump, ScopeDrifts, Backfill, vars, Promote, LateWrite,
              eventVars, versionVars
<1>6. ASSUME NEW w \in Workers,
             \/ \E v \in upserts : UpsertStart(w, v)
             \/ \E n \in PendingResyncs : ResyncStart(w, n)
             \/ ResyncScope(w) \/ ResyncPoints(w) \/ Write(w)
             \/ UpsertCommit(w) \/ ResyncCommit(w)
             \/ UpsertLock(w) \/ ResyncLock(w) \/ ResyncSuperseded(w)
             \/ Fail(w) \/ WriteOrphaned(w)
      PROVE  UNCHANGED <<upserts, ingested, ingest_scope>>
  BY <1>6 DEF UpsertStart, ResyncStart, ResyncScope, ResyncPoints, Write,
              UpsertCommit, ResyncCommit, UpsertLock, ResyncLock,
              ResyncSuperseded, Fail, WriteOrphaned, eventVars, versionVars
<1> QED
  BY <1>1, <1>2, <1>3, <1>4, <1>5, <1>6, WorkerCases DEF Next

-----------------------------------------------------------------------------
\* What one worker has in hand.
Job(w) ==
    /\ pc[w] = "idle" <=> kind[w] = "none"
    /\ pc[w] \in {"scope", "points"} => kind[w] = "resync"
    /\ pc[w] \in InTransaction => payload[w].acl \in 1..acl_version
    /\ pc[w] \in {"points", "write", "commit"} => payload[w].scope \in 1..scope
    /\ kind[w] = "resync" => event[w] \in resyncs
    /\ kind[w] = "resync" /\ pc[w] \in InTransaction =>
          payload[w].acl = event[w]
    /\ kind[w] = "upsert" =>
          \E v \in ingested : /\ targets[w] = {v}
                              /\ pc[w] # "finish" => prefilter[v] # 0

\* JobOK speaks of every worker's job.
LEMMA JobDef == JobOK <=> \A w \in Workers : Job(w)
  BY DEF JobOK, Job

\* The job of a worker outlives the steps of everybody else: versions only
\* grow, chunks stay chunks.
LEMMA JobOfOthers ==
    ASSUME TypeOK, NEW w \in Workers, Job(w),
           pc'[w] = pc[w], kind'[w] = kind[w], event'[w] = event[w],
           targets'[w] = targets[w], payload'[w] = payload[w],
           acl_version' \in Nat, acl_version' >= acl_version,
           scope' \in Nat, scope' >= scope,
           resyncs \subseteq resyncs', ingested \subseteq ingested',
           \A v \in ingested : prefilter[v] # 0 => prefilter'[v] # 0
    PROVE  Job(w)'
<1>1. acl_version \in Nat /\ scope \in Nat
  BY ConstantsAssumption DEF TypeOK
<1>2. pc[w] \in InTransaction => payload[w].acl \in 1..acl_version'
  BY <1>1 DEF Job
<1>3. pc[w] \in {"points", "write", "commit"} => payload[w].scope \in 1..scope'
  BY <1>1 DEF Job
<1> QED BY <1>2, <1>3 DEF Job

\* Rows are only added and versions only grow.
Grows ==
    /\ acl_version' \in Nat /\ acl_version' >= acl_version
    /\ scope' \in Nat /\ scope' >= scope
    /\ resyncs \subseteq resyncs'
    /\ ingested \subseteq ingested'
    /\ \A v \in ingested : prefilter[v] # 0 => prefilter'[v] # 0

\* ... in every step.
LEMMA StepGrows ==
    ASSUME TypeOK, JobOK, IngestedOnce, [Next]_vars
    PROVE  Grows
<1>1. acl_version \in Nat /\ scope \in Nat
  BY ConstantsAssumption DEF TypeOK
<1>2. CASE UNCHANGED <<acl_version, scope, resyncs, ingested, prefilter>>
  BY <1>1, <1>2 DEF Grows
<1>3. CASE Bump \/ ScopeDrifts \/ Backfill
  BY <1>1, <1>3 DEF Grows, Bump, ScopeDrifts, Backfill, docVars, eventVars,
                    versionVars
<1>4. ASSUME NEW v \in Versions, IngestCommit(v) PROVE Grows
  <2>1. v \notin ingested
    BY <1>4 DEF IngestedOnce, IngestCommit
  <2> QED BY <1>1, <1>4, <2>1 DEF TypeOK, Grows, IngestCommit, WriteChunks, docVars
<1>5. ASSUME NEW w \in Workers, ResyncCommit(w) PROVE Grows
  <2>1. payload[w].scope # 0
    BY <1>1, <1>5 DEF JobOK, ResyncCommit
  <2> QED
    BY <1>1, <1>5, <2>1 DEF TypeOK, Grows, ResyncCommit, eventVars
<1>6. ASSUME \/ UNCHANGED vars
             \/ \E v \in Versions : IngestReadScopes(v) \/ Promote(v)
             \/ \E r \in in_flight : LateWrite(r)
      PROVE  UNCHANGED <<acl_version, scope, resyncs, ingested, prefilter>>
  BY <1>6 DEF vars, IngestReadScopes, Promote, LateWrite, docVars, eventVars,
              versionVars
<1>7. ASSUME NEW w \in Workers,
             \/ \E v \in upserts : UpsertStart(w, v)
             \/ \E n \in PendingResyncs : ResyncStart(w, n)
             \/ ResyncScope(w) \/ ResyncPoints(w) \/ Write(w)
             \/ UpsertCommit(w) \/ Complete(w)
             \/ UpsertLock(w) \/ ResyncLock(w) \/ ResyncSuperseded(w)
             \/ Fail(w) \/ WriteOrphaned(w)
      PROVE  UNCHANGED <<acl_version, scope, resyncs, ingested, prefilter>>
  BY <1>7 DEF UpsertStart, ResyncStart, ResyncScope, ResyncPoints, Write,
              UpsertCommit, Complete, UpsertLock, ResyncLock,
              ResyncSuperseded, Fail, WriteOrphaned, docVars, eventVars,
              versionVars
<1> QED
  BY <1>2, <1>3, <1>4, <1>5, <1>6, <1>7, WorkerCases DEF Next

\* A step of one worker leaves what the others have in hand alone.
Alone(w) ==
    \A u \in Workers \ {w} :
        /\ pc'[u] = pc[u] /\ kind'[u] = kind[u] /\ event'[u] = event[u]
        /\ targets'[u] = targets[u] /\ payload'[u] = payload[u]

\* A step of a worker is its own.
LEMMA WorkersAlone ==
    ASSUME TypeOK, NEW w \in Workers,
           ProcessStep(w) \/ LockStep(w) \/ Fail(w) \/ WriteOrphaned(w)
    PROVE  Alone(w)
<1>1. ASSUME Idle(w) PROVE Alone(w)
  BY <1>1 DEF TypeOK, Idle, Alone
<1>2. CASE Fail(w) \/ WriteOrphaned(w) \/ Complete(w)
  BY <1>1, <1>2 DEF Fail, WriteOrphaned, Complete
<1>3. CASE \/ \E v \in upserts : UpsertStart(w, v)
           \/ UpsertLock(w) \/ UpsertCommit(w) \/ Write(w)
  BY <1>3 DEF TypeOK, UpsertStart, UpsertLock, UpsertCommit, Write, Alone
<1>4. CASE \/ \E n \in PendingResyncs : ResyncStart(w, n)
           \/ ResyncLock(w) \/ ResyncSuperseded(w) \/ ResyncScope(w)
           \/ ResyncPoints(w) \/ ResyncCommit(w)
  BY <1>4 DEF TypeOK, ResyncStart, ResyncLock, ResyncSuperseded, ResyncScope,
              ResyncPoints, ResyncCommit, Alone
<1> QED BY <1>2, <1>3, <1>4, WorkerCases

\* The job of the worker that takes the step.
LEMMA JobOfActor ==
    ASSUME TypeOK, TypeOK', JobOK, IngestedOnce, NEW w \in Workers,
           ProcessStep(w) \/ LockStep(w) \/ Fail(w) \/ WriteOrphaned(w)
    PROVE  Job(w)'
<1> USE ConstantsAssumption
<1>0. Job(w) /\ acl_version \in Nat \ {0} /\ scope \in Nat \ {0}
  BY JobDef DEF TypeOK
<1>1. ASSUME Idle(w) PROVE Job(w)'
  BY <1>1 DEF TypeOK, Idle, Job, InTransaction
<1>2. CASE Fail(w) \/ WriteOrphaned(w) \/ Complete(w)
  BY <1>1, <1>2 DEF Fail, WriteOrphaned, Complete
<1>3. ASSUME NEW v \in upserts, UpsertStart(w, v) PROVE Job(w)'
  <2>1. v \in ingested
    BY DEF IngestedOnce
  <2>2. /\ kind'[w] = "upsert" /\ targets'[w] = {v}
        /\ pc'[w] = IF prefilter[v] = 0 THEN "finish" ELSE "lock"
        /\ ingested' = ingested /\ prefilter' = prefilter
    BY <1>3 DEF TypeOK, UpsertStart, versionVars
  <2> QED BY <2>1, <2>2 DEF Job, InTransaction
<1>4. CASE UpsertLock(w)
  <2>1. PICK v \in targets[w] : payload' = [payload EXCEPT ![w] = ChunkPayload(v)]
    BY <1>4 DEF UpsertLock
  <2>2. /\ pc[w] = "lock" /\ kind[w] = "upsert"
        /\ pc'[w] = "write" /\ kind' = kind /\ targets' = targets
        /\ ingested' = ingested /\ prefilter' = prefilter
        /\ acl_version' = acl_version /\ scope' = scope
    BY <1>4 DEF TypeOK, UpsertLock, versionVars, docVars
  <2>3. targets[w] = {v} /\ v \in ingested /\ prefilter[v] # 0
    BY <1>0, <2>1, <2>2 DEF Job
  <2>4. payload'[w].acl = acl_version /\ payload'[w].scope = prefilter[v]
    BY <2>1 DEF TypeOK, ChunkPayload
  <2>5. prefilter[v] \in 1..scope
    BY <1>0, <2>3 DEF TypeOK
  <2> QED BY <1>0, <2>2, <2>3, <2>4, <2>5 DEF Job, InTransaction
<1>5. CASE Write(w)
  <2>1. /\ pc[w] = "write" /\ pc'[w] = "commit"
        /\ UNCHANGED <<kind, event, targets, payload, ingested, prefilter,
                       acl_version, scope, resyncs>>
    BY <1>5 DEF TypeOK, Write, versionVars, docVars, eventVars
  <2> QED BY <1>0, <2>1 DEF Job, InTransaction
<1>6. CASE UpsertCommit(w) \/ ResyncCommit(w)
  <2>1. /\ pc[w] = "commit" /\ pc'[w] = "finish"
        /\ UNCHANGED <<kind, event, targets, payload, ingested, resyncs>>
    BY <1>6 DEF TypeOK, UpsertCommit, ResyncCommit, versionVars, docVars,
                eventVars
  <2> QED BY <1>0, <2>1 DEF Job, InTransaction
<1>7. ASSUME NEW n \in PendingResyncs, ResyncStart(w, n) PROVE Job(w)'
  <2>1. /\ pc'[w] = "lock" /\ kind'[w] = "resync" /\ event'[w] = n
        /\ resyncs' = resyncs
    BY <1>7 DEF TypeOK, ResyncStart, eventVars
  <2> QED BY <2>1 DEF Job, PendingResyncs, InTransaction
<1>8. CASE ResyncLock(w)
  <2>1. /\ pc[w] = "lock" /\ kind[w] = "resync" /\ event[w] >= acl_version
        /\ pc'[w] = "scope" /\ payload'[w].acl = acl_version
        /\ UNCHANGED <<kind, event, targets, acl_version, resyncs>>
    BY <1>8 DEF TypeOK, ResyncLock, Payloads, docVars, eventVars
  <2>2. event[w] = acl_version
    BY <1>0, <2>1 DEF TypeOK
  <2> QED BY <1>0, <2>1, <2>2 DEF Job, InTransaction
<1>9. CASE ResyncSuperseded(w)
  <2>1. /\ pc[w] = "lock" /\ kind[w] = "resync" /\ pc'[w] = "finish"
        /\ UNCHANGED <<kind, event, targets, payload, resyncs>>
    BY <1>9 DEF TypeOK, ResyncSuperseded, eventVars
  <2> QED BY <1>0, <2>1 DEF Job, InTransaction
<1>10. CASE ResyncScope(w)
  <2>1. /\ pc[w] = "scope" /\ pc'[w] = "points"
        /\ payload'[w].acl = payload[w].acl /\ payload'[w].scope = scope
        /\ UNCHANGED <<kind, event, targets, acl_version, scope, resyncs>>
    BY <1>10 DEF TypeOK, ResyncScope, Payloads, docVars, eventVars
  <2> QED BY <1>0, <2>1 DEF Job, InTransaction
<1>11. CASE ResyncPoints(w)
  <2>1. /\ pc[w] = "points" /\ pc'[w] = "write"
        /\ payload'[w].acl = payload[w].acl
        /\ payload'[w].scope = payload[w].scope
        /\ UNCHANGED <<kind, event, acl_version, scope, resyncs>>
    BY <1>11 DEF TypeOK, ResyncPoints, Payloads, docVars, eventVars
  <2> QED BY <1>0, <2>1 DEF Job, InTransaction
<1> QED
  BY <1>2, <1>3, <1>4, <1>5, <1>6, <1>7, <1>8, <1>9, <1>10, <1>11, WorkerCases

\* Jobs, step by step.
LEMMA JobStep ==
    ASSUME TypeOK, TypeOK', JobOK, IngestedOnce, [Next]_vars
    PROVE  JobOK'
<1>1. Grows
  BY StepGrows
<1>2. ASSUME UNCHANGED workerVars PROVE JobOK'
  <2> SUFFICES ASSUME NEW u \in Workers PROVE Job(u)'
    BY DEF JobOK, Job
  <2>1. Job(u)
    BY JobDef
  <2> QED BY <1>1, <1>2, <2>1, JobOfOthers DEF Grows, workerVars
<1>3. ASSUME NEW w \in Workers,
             ProcessStep(w) \/ LockStep(w) \/ Fail(w) \/ WriteOrphaned(w)
      PROVE  JobOK'
  <2> SUFFICES ASSUME NEW u \in Workers PROVE Job(u)'
    BY DEF JobOK, Job
  <2>1. CASE u = w
    BY <1>3, <2>1, JobOfActor
  <2>2. CASE u # w
    <3>1. Job(u)
      BY JobDef
    <3>2. Alone(w)
      BY <1>3, WorkersAlone
    <3> QED BY <1>1, <2>2, <3>1, <3>2, JobOfOthers DEF Grows, Alone
  <2> QED BY <2>1, <2>2
<1> QED BY <1>2, <1>3, QuietWorkers DEF Next

-----------------------------------------------------------------------------
\* Steps that leave acl_version, synced_version, the resync events and the
\* resync jobs at their end alone.
LEMMA SyncUntouched ==
    ASSUME TypeOK, SyncIsOwed, SyncDone,
           UNCHANGED <<acl_version, synced_version, resyncs, resynced>>,
           \A w \in Workers :
              pc'[w] = "finish" /\ kind'[w] = "resync" =>
                 \/ /\ pc[w] = "finish" /\ kind[w] = "resync"
                    /\ event'[w] = event[w]
                 \/ event'[w] # acl_version
    PROVE  SyncIsOwed' /\ SyncDone'
  BY DEF SyncIsOwed, SyncDone, PendingResyncs

\* A resync stays owed until it is done.
LEMMA SyncStep ==
    ASSUME TypeOK, JobOK, SyncIsOwed, SyncDone, [Next]_vars
    PROVE  SyncIsOwed' /\ SyncDone'
<1> USE ConstantsAssumption
<1>0. acl_version \in Nat /\ synced_version \in Nat
  BY DEF TypeOK
<1>1. CASE Bump
  <2>1. /\ acl_version' = acl_version + 1
        /\ acl_version' \in PendingResyncs'
    BY <1>0, <1>1 DEF TypeOK, Bump, PendingResyncs
  <2>2. \A w \in Workers : event'[w] # acl_version'
    BY <1>0, <1>1, <2>1 DEF TypeOK, Bump, workerVars
  <2> QED BY <2>1, <2>2 DEF SyncIsOwed, SyncDone
<1>2. CASE Backfill
  BY <1>2 DEF TypeOK, Backfill, SyncIsOwed, SyncDone, PendingResyncs, docVars,
              workerVars
<1>3. ASSUME UNCHANGED workerVars,
             UNCHANGED <<acl_version, synced_version, resyncs, resynced>>
      PROVE  SyncIsOwed' /\ SyncDone'
  BY <1>3, SyncUntouched DEF workerVars
<1>4. ASSUME \/ ScopeDrifts \/ UNCHANGED vars
             \/ \E v \in Versions :
                   IngestReadScopes(v) \/ IngestCommit(v) \/ Promote(v)
             \/ \E r \in in_flight : LateWrite(r)
      PROVE  UNCHANGED <<acl_version, synced_version, resyncs, resynced>>
  BY <1>4 DEF ScopeDrifts, vars, IngestReadScopes, IngestCommit, Promote,
              LateWrite, docVars, eventVars
<1>5. ASSUME NEW w \in Workers, Complete(w) PROVE SyncIsOwed' /\ SyncDone'
  <2>1. SyncDone'
    BY <1>5 DEF TypeOK, Complete, Idle, SyncDone, docVars
  <2>2. SyncIsOwed'
    BY <1>0, <1>5 DEF TypeOK, Complete, SyncDone, SyncIsOwed, PendingResyncs,
                      docVars
  <2> QED BY <2>1, <2>2
<1>6. ASSUME NEW w \in Workers, ResyncCommit(w)
      PROVE  SyncIsOwed' /\ SyncDone'
  <2>1. payload[w].acl = event[w]
    BY <1>6 DEF JobOK, ResyncCommit, InTransaction
  <2>2. /\ synced_version' = IF acl_version = event[w] THEN acl_version
                             ELSE synced_version
        /\ pc' = [pc EXCEPT ![w] = "finish"]
        /\ UNCHANGED <<acl_version, resyncs, resynced, kind, event>>
    BY <1>6, <2>1 DEF ResyncCommit, Cas, eventVars
  <2>3. CASE acl_version = event[w]
    BY <1>0, <2>2, <2>3 DEF SyncIsOwed, SyncDone
  <2>4. CASE acl_version # event[w]
    BY <2>2, <2>4 DEF TypeOK, SyncIsOwed, SyncDone, PendingResyncs
  <2> QED BY <2>3, <2>4
<1>7. ASSUME NEW w \in Workers, ResyncSuperseded(w)
      PROVE  SyncIsOwed' /\ SyncDone'
  <2>1. /\ event[w] # acl_version
        /\ pc' = [pc EXCEPT ![w] = "finish"]
        /\ UNCHANGED <<acl_version, synced_version, resyncs, resynced, kind,
                       event>>
    BY <1>0, <1>7 DEF TypeOK, ResyncSuperseded, docVars, eventVars
  <2> QED BY <2>1, SyncUntouched DEF TypeOK
<1>8. ASSUME NEW w \in Workers, NEW v \in upserts, UpsertStart(w, v)
      PROVE  SyncIsOwed' /\ SyncDone'
  <2>1. /\ \E p \in PCs : pc' = [pc EXCEPT ![w] = p]
        /\ kind' = [kind EXCEPT ![w] = "upsert"]
        /\ UNCHANGED <<acl_version, synced_version, resyncs, resynced, event>>
    BY <1>8 DEF UpsertStart, docVars, eventVars, PCs
  <2> QED BY <2>1, SyncUntouched DEF TypeOK
<1>9. ASSUME NEW w \in Workers, UpsertCommit(w)
      PROVE  SyncIsOwed' /\ SyncDone'
  <2>1. /\ pc' = [pc EXCEPT ![w] = "finish"]
        /\ kind[w] = "upsert"
        /\ UNCHANGED <<acl_version, synced_version, resyncs, resynced, kind,
                       event>>
    BY <1>9 DEF UpsertCommit, docVars, eventVars
  <2> QED BY <2>1, SyncUntouched DEF TypeOK
<1>10. ASSUME NEW w \in Workers,
              \/ \E n \in PendingResyncs : ResyncStart(w, n)
              \/ ResyncScope(w) \/ ResyncPoints(w) \/ Write(w)
              \/ UpsertLock(w) \/ ResyncLock(w) \/ Fail(w) \/ WriteOrphaned(w)
       PROVE  SyncIsOwed' /\ SyncDone'
  <2>1. /\ \E p \in PCs \ {"finish"} : pc' = [pc EXCEPT ![w] = p]
        /\ UNCHANGED <<acl_version, synced_version, resyncs, resynced>>
    BY <1>10 DEF ResyncStart, ResyncScope, ResyncPoints, Write, UpsertLock,
                 ResyncLock, Fail, WriteOrphaned, Idle, docVars, eventVars, PCs
  <2>2. Alone(w)
    BY <1>10, WorkersAlone DEF ProcessStep, LockStep
  <2> QED BY <2>1, <2>2, SyncUntouched DEF TypeOK, Alone
<1> QED
  BY <1>1, <1>2, <1>3, <1>4, <1>5, <1>6, <1>7, <1>8, <1>9, <1>10, WorkerCases,
     QuietWorkers DEF Next

-----------------------------------------------------------------------------
\* The bookkeeping never runs ahead of the index.
LEMMA BookkeepingStep ==
    ASSUME TypeOK, JobOK, BookkeepingHasPoints, WritesLeavePoints, [Next]_vars
    PROVE  BookkeepingHasPoints' /\ WritesLeavePoints'
<1> USE ConstantsAssumption
<1>1. ASSUME UNCHANGED <<vectors, points, in_flight>>,
             \A w \in Workers : pc'[w] = "commit" =>
                pc[w] = "commit" /\ targets'[w] = targets[w]
      PROVE  BookkeepingHasPoints' /\ WritesLeavePoints'
  BY <1>1 DEF BookkeepingHasPoints, WritesLeavePoints
<1>2. ASSUME \/ Bump \/ ScopeDrifts \/ Backfill \/ UNCHANGED vars
             \/ \E v \in Versions :
                   IngestReadScopes(v) \/ IngestCommit(v) \/ Promote(v)
      PROVE  UNCHANGED <<vectors, points, in_flight>>
  BY <1>2 DEF Bump, ScopeDrifts, Backfill, vars, IngestReadScopes,
              IngestCommit, Promote, indexVars
<1>3. ASSUME UNCHANGED <<vectors, points, in_flight>>, UNCHANGED workerVars
      PROVE  BookkeepingHasPoints' /\ WritesLeavePoints'
  BY <1>1, <1>3 DEF workerVars
<1>4. ASSUME NEW r \in in_flight, LateWrite(r)
      PROVE  BookkeepingHasPoints' /\ WritesLeavePoints'
  <2>1. r.payload.acl > 0
    BY DEF WritesLeavePoints
  <2>2. \A v \in Versions : points[v].acl > 0 => points'[v].acl > 0
    BY <1>4, <2>1 DEF LateWrite, Apply
  <2> QED
    BY <1>4, <2>2 DEF TypeOK, LateWrite, BookkeepingHasPoints,
                      WritesLeavePoints, workerVars
<1>5. ASSUME NEW w \in Workers, Write(w)
      PROVE  BookkeepingHasPoints' /\ WritesLeavePoints'
  <2>1. payload[w].acl > 0
    BY <1>5 DEF TypeOK, JobOK, Write, InTransaction
  <2>2. \A v \in Versions : points[v].acl > 0 => points'[v].acl > 0
    BY <1>5, <2>1 DEF Write, Apply
  <2>3. \A v \in targets[w] : points'[v].acl > 0
    BY <1>5, <2>1 DEF TypeOK, Write, Apply
  <2> QED
    BY <1>5, <2>2, <2>3 DEF TypeOK, Write, BookkeepingHasPoints,
                            WritesLeavePoints
<1>6. ASSUME NEW w \in Workers, WriteOrphaned(w)
      PROVE  BookkeepingHasPoints' /\ WritesLeavePoints'
  <2>1. payload[w].acl > 0
    BY <1>6 DEF TypeOK, JobOK, WriteOrphaned, InTransaction
  <2>2. \A r \in in_flight' : r.payload.acl > 0
    BY <1>6, <2>1 DEF WriteOrphaned, WritesLeavePoints
  <2>3. \A u \in Workers : pc'[u] = "commit" =>
           pc[u] = "commit" /\ targets'[u] = targets[u]
    BY <1>6 DEF TypeOK, WriteOrphaned, Idle
  <2> QED
    BY <1>6, <2>2, <2>3 DEF WriteOrphaned, BookkeepingHasPoints,
                            WritesLeavePoints
<1>7. ASSUME NEW w \in Workers, UpsertCommit(w)
      PROVE  BookkeepingHasPoints' /\ WritesLeavePoints'
  BY <1>7 DEF TypeOK, UpsertCommit, BookkeepingHasPoints, WritesLeavePoints
<1>8. ASSUME NEW w \in Workers,
             \/ \E v \in upserts : UpsertStart(w, v)
             \/ \E n \in PendingResyncs : ResyncStart(w, n)
             \/ ResyncScope(w) \/ ResyncPoints(w) \/ ResyncCommit(w)
             \/ UpsertLock(w) \/ ResyncLock(w) \/ ResyncSuperseded(w)
             \/ Complete(w) \/ Fail(w)
      PROVE  BookkeepingHasPoints' /\ WritesLeavePoints'
  <2>1. /\ \E p \in PCs \ {"commit"} : pc' = [pc EXCEPT ![w] = p]
        /\ UNCHANGED <<vectors, points, in_flight>>
    BY <1>8 DEF UpsertStart, ResyncStart, ResyncScope, ResyncPoints,
                ResyncCommit, UpsertLock, ResyncLock, ResyncSuperseded,
                Complete, Fail, Idle, indexVars, PCs
  <2>2. Alone(w)
    BY <1>8, WorkersAlone DEF ProcessStep, LockStep
  <2>3. \A u \in Workers : pc'[u] = "commit" =>
           pc[u] = "commit" /\ targets'[u] = targets[u]
    BY <2>1, <2>2 DEF TypeOK, Alone
  <2> QED BY <1>1, <2>1, <2>3
<1> QED
  BY <1>2, <1>3, <1>4, <1>5, <1>6, <1>7, <1>8, WorkerCases, QuietWorkers
     DEF Next

-----------------------------------------------------------------------------
\* The current version is settled by the commit of its resync and by nothing
\* else; a bump unsettles it.
LEMMA SettledStep ==
    ASSUME TypeOK, JobOK, [Next]_vars, Settled'
    PROVE  \/ Settled /\ ~Bump /\ acl_version' = acl_version
           \/ \E w \in Workers : ResyncCommit(w) /\ event[w] = acl_version
<1> USE ConstantsAssumption
<1>0. acl_version \in Nat
  BY DEF TypeOK
<1>1. CASE Bump
  <2>1. /\ acl_version' = acl_version + 1
        /\ acl_version' \in PendingResyncs'
    BY <1>0, <1>1 DEF TypeOK, Bump, PendingResyncs
  <2>2. \A w \in Workers : event'[w] # acl_version'
    BY <1>0, <1>1, <2>1 DEF TypeOK, Bump, workerVars
  <2> QED BY <2>1, <2>2 DEF Settled
<1>2. CASE Backfill
  <2>1. acl_version' = acl_version /\ acl_version \notin resyncs
    BY <1>2 DEF Backfill, docVars
  <2>2. Settled /\ ~Bump
    BY <1>0, <2>1 DEF Settled, PendingResyncs, Bump
  <2> QED BY <2>1, <2>2
<1>3. ASSUME UNCHANGED <<acl_version, resyncs, resynced>>,
             \A w \in Workers :
                pc'[w] = "finish" /\ kind'[w] = "resync"
                /\ event'[w] = acl_version =>
                   pc[w] = "finish" /\ kind[w] = "resync" /\ event[w] = acl_version
      PROVE  Settled /\ ~Bump /\ acl_version' = acl_version
  BY <1>0, <1>3 DEF Settled, PendingResyncs, Bump
<1>4. ASSUME \/ ScopeDrifts \/ UNCHANGED vars
             \/ \E v \in Versions :
                   IngestReadScopes(v) \/ IngestCommit(v) \/ Promote(v)
             \/ \E r \in in_flight : LateWrite(r)
      PROVE  UNCHANGED <<acl_version, resyncs, resynced>>
  BY <1>4 DEF ScopeDrifts, vars, IngestReadScopes, IngestCommit, Promote,
              LateWrite, docVars, eventVars
<1>5. ASSUME UNCHANGED workerVars, UNCHANGED <<acl_version, resyncs, resynced>>
      PROVE  Settled /\ ~Bump /\ acl_version' = acl_version
  BY <1>3, <1>5 DEF workerVars
<1>6. ASSUME NEW w \in Workers, Complete(w)
      PROVE  Settled /\ ~Bump /\ acl_version' = acl_version
  <2>1. UNCHANGED <<acl_version, resyncs>>
    BY <1>6 DEF Complete, docVars
  <2>2. \A u \in Workers : pc'[u] = "finish" =>
           pc[u] = "finish" /\ kind'[u] = kind[u] /\ event'[u] = event[u]
    BY <1>6 DEF TypeOK, Complete, Idle
  <2>3. \/ resynced' = resynced
        \/ /\ kind[w] = "resync"
           /\ resynced' = resynced \cup {event[w]}
    BY <1>6, Zenon DEF Complete
  <2>4. Settled
    BY <1>6, <2>1, <2>2, <2>3 DEF Settled, PendingResyncs, Complete
  <2> QED BY <1>0, <2>1, <2>4 DEF Bump
<1>7. ASSUME NEW w \in Workers, ResyncCommit(w), event[w] # acl_version
      PROVE  Settled /\ ~Bump /\ acl_version' = acl_version
  <2>1. /\ pc' = [pc EXCEPT ![w] = "finish"]
        /\ UNCHANGED <<acl_version, resyncs, resynced, kind, event>>
    BY <1>7 DEF ResyncCommit, eventVars
  <2> QED BY <1>3, <1>7, <2>1 DEF TypeOK
<1>8. ASSUME NEW w \in Workers, ResyncSuperseded(w)
      PROVE  Settled /\ ~Bump /\ acl_version' = acl_version
  <2>1. /\ event[w] # acl_version
        /\ pc' = [pc EXCEPT ![w] = "finish"]
        /\ UNCHANGED <<acl_version, resyncs, resynced, kind, event>>
    BY <1>0, <1>8 DEF TypeOK, ResyncSuperseded, docVars, eventVars
  <2> QED BY <1>3, <2>1 DEF TypeOK
<1>9. ASSUME NEW w \in Workers, NEW v \in upserts, UpsertStart(w, v)
      PROVE  Settled /\ ~Bump /\ acl_version' = acl_version
  <2>1. /\ \E p \in PCs : pc' = [pc EXCEPT ![w] = p]
        /\ kind' = [kind EXCEPT ![w] = "upsert"]
        /\ UNCHANGED <<acl_version, resyncs, resynced, event>>
    BY <1>9 DEF UpsertStart, docVars, eventVars, PCs
  <2> QED BY <1>3, <2>1 DEF TypeOK
<1>10. ASSUME NEW w \in Workers, UpsertCommit(w)
       PROVE  Settled /\ ~Bump /\ acl_version' = acl_version
  <2>1. /\ pc' = [pc EXCEPT ![w] = "finish"]
        /\ kind[w] = "upsert"
        /\ UNCHANGED <<acl_version, resyncs, resynced, kind, event>>
    BY <1>10 DEF UpsertCommit, docVars, eventVars
  <2> QED BY <1>3, <2>1 DEF TypeOK
<1>11. ASSUME NEW w \in Workers,
              \/ \E n \in PendingResyncs : ResyncStart(w, n)
              \/ ResyncScope(w) \/ ResyncPoints(w) \/ Write(w)
              \/ UpsertLock(w) \/ ResyncLock(w) \/ Fail(w) \/ WriteOrphaned(w)
       PROVE  Settled /\ ~Bump /\ acl_version' = acl_version
  <2>1. /\ \E p \in PCs \ {"finish"} : pc' = [pc EXCEPT ![w] = p]
        /\ UNCHANGED <<acl_version, resyncs, resynced>>
    BY <1>11 DEF ResyncStart, ResyncScope, ResyncPoints, Write, UpsertLock,
                 ResyncLock, Fail, WriteOrphaned, Idle, docVars, eventVars, PCs
  <2>2. Alone(w)
    BY <1>11, WorkersAlone DEF ProcessStep, LockStep
  <2>3. \A u \in Workers : pc'[u] = "finish" =>
           pc[u] = "finish" /\ kind'[u] = kind[u] /\ event'[u] = event[u]
    BY <2>1, <2>2 DEF TypeOK, Alone
  <2> QED BY <1>3, <2>1, <2>3
<1> QED
  BY <1>1, <1>2, <1>4, <1>5, <1>6, <1>7, <1>8, <1>9, <1>10, <1>11,
     WorkerCases, QuietWorkers DEF Next

-----------------------------------------------------------------------------
\* Clean, per version and per worker.
CleanVersion(v) ==
    v \notin unnoticed =>
        /\ prefilter[v] = 0 \/ prefilter[v] >= bumped_scope
        /\ Served(v) => points[v].scope >= bumped_scope

CleanJob(w) ==
    kind[w] = "upsert" =>
        \A v \in targets[w] \ unnoticed :
            /\ pc[w] = "write" => payload[w].scope >= bumped_scope
            /\ pc[w] = "commit" => points[v].scope >= bumped_scope

\* Clean, by version and by worker.
LEMMA CleanDef ==
    Clean <=> /\ \A v \in Versions : CleanVersion(v)
              /\ \A w \in Workers : CleanJob(w)
  BY DEF Clean, CleanVersion, CleanJob

\* The resync of the current version leaves everything clean.
LEMMA CleanEstablished ==
    ASSUME TypeOK, LockHeld, JobOK, ResyncIsFresh,
           NEW w \in Workers, ResyncCommit(w), event[w] = acl_version
    PROVE  Clean'
<1> USE ConstantsAssumption
<1>1. /\ pc[w] = "commit" /\ kind[w] = "resync"
      /\ payload[w].acl = acl_version
      /\ payload[w].scope >= bumped_scope
      /\ payload[w].scope \in Nat /\ bumped_scope \in Nat /\ scope \in Nat
  BY DEF TypeOK, JobOK, ResyncCommit, ResyncIsFresh, InTransaction, Payloads
<1>2. ASSUME NEW v \in Versions PROVE CleanVersion(v)'
  <2>1. prefilter'[v] = 0 \/ prefilter'[v] = payload[w].scope
    BY DEF ResyncCommit
  <2>2. v \notin unnoticed /\ Served(v) => points[v].scope >= bumped_scope
    <3>1. points[v].scope \in Nat
      BY DEF TypeOK, Payloads
    <3>2. v \notin unnoticed /\ Served(v) => ~Outdated(points[v])
      BY <1>1 DEF ResyncIsFresh, InTransaction
    <3> QED BY <1>1, <3>1, <3>2 DEF Outdated
  <2>3. UNCHANGED <<unnoticed, lifecycle, vectors, points, bumped_scope>>
    BY DEF ResyncCommit, indexVars
  <2> QED BY <1>1, <2>1, <2>2, <2>3 DEF CleanVersion, Served
<1>3. ASSUME NEW u \in Workers PROVE CleanJob(u)'
  <2>1. pc'[u] \notin {"write", "commit"}
    BY <1>1 DEF TypeOK, LockHeld, ResyncCommit, InTransaction
  <2> QED BY <2>1 DEF CleanJob
<1> QED BY <1>2, <1>3 DEF Clean, CleanVersion, CleanJob

\* Scopes are numbers.
LEMMA Numbers ==
    ASSUME TypeOK
    PROVE  /\ acl_version \in Nat /\ scope \in Nat /\ bumped_scope \in Nat
           /\ \A v \in Versions :
                 /\ prefilter[v] \in Nat /\ ingest_scope[v] \in Nat
                 /\ points[v].acl \in Nat /\ points[v].scope \in Nat
           /\ \A w \in Workers :
                 payload[w].acl \in Nat /\ payload[w].scope \in Nat
           /\ \A r \in in_flight :
                 /\ r.payload.acl \in Nat /\ r.payload.scope \in Nat
                 /\ r.targets \subseteq Versions
  BY ConstantsAssumption DEF TypeOK, Payloads, Requests

\* A version stays clean if its column, its points and its being served do,
\* and it does not drop out of the unnoticed ones.
LEMMA CleanVersionKept ==
    ASSUME NEW v \in Versions, CleanVersion(v),
           unnoticed \subseteq unnoticed', bumped_scope' = bumped_scope,
           prefilter'[v] = prefilter[v], points'[v] = points[v],
           Served(v)' => Served(v)
    PROVE  CleanVersion(v)'
  BY DEF CleanVersion

\* So does a job that is not moved on.
LEMMA CleanJobKept ==
    ASSUME NEW w \in Workers, CleanJob(w),
           unnoticed \subseteq unnoticed', bumped_scope' = bumped_scope,
           kind'[w] = kind[w], targets'[w] = targets[w], pc'[w] = pc[w],
           payload'[w] = payload[w],
           \A v \in targets[w] : points'[v] = points[v]
    PROVE  CleanJob(w)'
  BY DEF CleanJob

\* While the current version is settled, nothing gets stale unnoticed.
LEMMA CleanKept ==
    ASSUME TypeOK, LockHeld, JobOK, IngestedOnce, ResyncIsFresh, Settled,
           Clean, [Next]_vars, ~Bump,
           \A w \in Workers : ~ResyncCommit(w)
    PROVE  Clean'
<1> USE ConstantsAssumption
<1>0. /\ \A v \in Versions : CleanVersion(v)
      /\ \A w \in Workers : CleanJob(w)
  BY CleanDef
<1>a. ASSUME \A v \in Versions : CleanVersion(v)',
             \A w \in Workers : CleanJob(w)'
      PROVE  Clean'
  BY <1>a DEF Clean, CleanVersion, CleanJob
<1>1. ASSUME UNCHANGED workerVars,
             UNCHANGED <<unnoticed, bumped_scope, prefilter, points, lifecycle,
                         vectors>>
      PROVE  Clean'
  <2>1. \A v \in Versions : CleanVersion(v)'
    BY <1>0, <1>1, CleanVersionKept DEF Served
  <2>2. \A w \in Workers : CleanJob(w)'
    BY <1>0, <1>1, CleanJobKept DEF workerVars
  <2> QED BY <1>a, <2>1, <2>2
<1>2. CASE \/ ScopeDrifts \/ Backfill \/ UNCHANGED vars
           \/ \E v \in Versions : IngestReadScopes(v)
  <2>1. UNCHANGED <<unnoticed, bumped_scope, prefilter, points, lifecycle,
                    vectors>>
    BY <1>2 DEF ScopeDrifts, Backfill, vars, IngestReadScopes, docVars,
                versionVars, indexVars
  <2> QED BY <1>1, <1>2, <2>1, QuietWorkers
<1>3. ASSUME NEW v \in Versions, IngestCommit(v) PROVE Clean'
  <2>1. /\ UNCHANGED <<workerVars, bumped_scope, points, lifecycle, vectors>>
        /\ unnoticed \subseteq unnoticed'
    BY <1>3 DEF IngestCommit, WriteChunks, docVars, indexVars
  <2>2. ASSUME NEW u \in Versions PROVE CleanVersion(u)'
    <3>1. CASE u # v
      <4>1. prefilter'[u] = prefilter[u]
        BY <1>3, <3>1 DEF TypeOK, IngestCommit, WriteChunks
      <4> QED BY <1>0, <2>1, <4>1, CleanVersionKept DEF Served
    <3>2. CASE u = v
      <4>1. prefilter'[v] = prefilter[v] \/ prefilter'[v] = ingest_scope[v]
        BY <1>3 DEF TypeOK, IngestCommit, WriteChunks
      <4>2. v \notin unnoticed' => ingest_scope[v] >= bumped_scope
        BY <1>3, Numbers DEF IngestCommit, WriteChunks
      <4> QED
        BY <1>0, <2>1, <3>2, <4>1, <4>2 DEF CleanVersion, Served
    <3> QED BY <3>1, <3>2
  <2>3. \A w \in Workers : CleanJob(w)'
    BY <1>0, <2>1, CleanJobKept DEF workerVars
  <2> QED BY <1>a, <2>2, <2>3
<1>4. ASSUME NEW v \in Versions, Promote(v) PROVE Clean'
  <2>1. /\ UNCHANGED <<workerVars, bumped_scope, points, prefilter, vectors>>
        /\ unnoticed \subseteq unnoticed'
    BY <1>4 DEF Promote, docVars, indexVars
  <2>2. ASSUME NEW u \in Versions PROVE CleanVersion(u)'
    <3>1. CASE u # v
      <4>1. Served(u)' => Served(u)
        BY <1>4, <2>1, <3>1 DEF Promote, Served
      <4> QED BY <1>0, <2>1, <4>1, CleanVersionKept
    <3>2. CASE u = v
      <4>1. v \in vectors /\ v \notin unnoticed' => ~Outdated(points[v])
        BY <1>4 DEF Promote
      <4>2. v \in vectors /\ v \notin unnoticed' =>
               points[v].scope >= bumped_scope
        BY <4>1, Numbers DEF Outdated
      <4> QED BY <1>0, <2>1, <3>2, <4>2 DEF CleanVersion, Served
    <3> QED BY <3>1, <3>2
  <2>3. \A w \in Workers : CleanJob(w)'
    BY <1>0, <2>1, CleanJobKept DEF workerVars
  <2> QED BY <1>a, <2>2, <2>3
<1>5. ASSUME NEW r \in in_flight, LateWrite(r) PROVE Clean'
  <2>1. /\ UNCHANGED <<workerVars, bumped_scope, prefilter, lifecycle, vectors>>
        /\ unnoticed \subseteq unnoticed'
    BY <1>5 DEF LateWrite, docVars, versionVars
  <2>2. ASSUME NEW u \in Versions, u \notin unnoticed'
        PROVE  points'[u] = points[u] \/ points'[u].scope >= bumped_scope
    <3>1. u \notin r.targets => points'[u] = points[u]
      BY <1>5 DEF LateWrite, Apply
    <3>2. u \in r.targets =>
             points'[u] = r.payload /\ ~Outdated(r.payload)
      BY <1>5, <2>2 DEF LateWrite, Apply
    <3> QED BY <3>1, <3>2, Numbers DEF Outdated
  <2>3. \A u \in Versions : CleanVersion(u)'
    BY <1>0, <2>1, <2>2 DEF CleanVersion, Served
  <2>4. ASSUME NEW w \in Workers PROVE CleanJob(w)'
    <3>1. targets[w] \subseteq Versions
      BY DEF TypeOK
    <3> QED BY <1>0, <2>1, <2>2, <3>1 DEF CleanJob, workerVars
  <2> QED BY <1>a, <2>3, <2>4
<1>6. ASSUME NEW w \in Workers,
             \/ \E v \in upserts : UpsertStart(w, v)
             \/ \E n \in PendingResyncs : ResyncStart(w, n)
             \/ ResyncScope(w) \/ ResyncPoints(w)
             \/ ResyncLock(w) \/ ResyncSuperseded(w)
             \/ Complete(w) \/ Fail(w) \/ WriteOrphaned(w)
      PROVE  Clean'
  <2>1. /\ UNCHANGED <<unnoticed, bumped_scope, prefilter, points, lifecycle,
                       vectors>>
        /\ \/ \E p \in PCs \ {"write", "commit"} : pc' = [pc EXCEPT ![w] = p]
           \/ kind' = kind /\ pc[w] = "points"
    BY <1>6 DEF UpsertStart, ResyncStart, ResyncScope, ResyncPoints,
                ResyncLock, ResyncSuperseded, Complete, Fail, WriteOrphaned,
                Idle, PCs, docVars, versionVars, indexVars
  <2>2. Alone(w)
    BY <1>6, WorkersAlone DEF ProcessStep, LockStep
  <2>3. \A v \in Versions : CleanVersion(v)'
    BY <1>0, <2>1, CleanVersionKept DEF Served
  <2>4. CleanJob(w)'
    <3>1. CASE \E p \in PCs \ {"write", "commit"} : pc' = [pc EXCEPT ![w] = p]
      BY <3>1 DEF TypeOK, CleanJob
    <3>2. CASE kind' = kind /\ pc[w] = "points"
      BY <3>2 DEF JobOK, CleanJob
    <3> QED BY <2>1, <3>1, <3>2
  <2>5. \A u \in Workers \ {w} : CleanJob(u)'
    BY <1>0, <2>1, <2>2, CleanJobKept DEF Alone
  <2> QED BY <1>a, <2>3, <2>4, <2>5
<1>7. ASSUME NEW w \in Workers, UpsertLock(w) PROVE Clean'
  <2>1. /\ UNCHANGED <<unnoticed, bumped_scope, prefilter, points, lifecycle,
                       vectors>>
        /\ pc[w] = "lock" /\ kind[w] = "upsert" /\ pc'[w] = "write"
        /\ targets' = targets
    BY <1>7 DEF TypeOK, UpsertLock, docVars, versionVars, indexVars
  <2>2. Alone(w)
    BY <1>7, WorkersAlone DEF LockStep
  <2>3. PICK v \in targets[w] :
           payload' = [payload EXCEPT ![w] = ChunkPayload(v)]
    BY <1>7 DEF UpsertLock
  <2>4. targets[w] = {v} /\ v \in Versions /\ prefilter[v] # 0
    BY <2>1, <2>3 DEF TypeOK, JobOK
  <2>5. payload'[w].scope = prefilter[v]
    BY <2>3 DEF TypeOK, ChunkPayload
  <2>6. v \notin unnoticed => prefilter[v] >= bumped_scope
    BY <1>0, <2>4 DEF CleanVersion
  <2>7. CleanJob(w)'
    BY <2>1, <2>4, <2>5, <2>6 DEF CleanJob
  <2>8. \A u \in Workers \ {w} : CleanJob(u)'
    BY <1>0, <2>1, <2>2, CleanJobKept DEF Alone
  <2>9. \A u \in Versions : CleanVersion(u)'
    BY <1>0, <2>1, CleanVersionKept DEF Served
  <2> QED BY <1>a, <2>7, <2>8, <2>9
<1>8. ASSUME NEW w \in Workers, UpsertCommit(w) PROVE Clean'
  <2>1. /\ UNCHANGED <<unnoticed, bumped_scope, prefilter, points, lifecycle>>
        /\ vectors' = vectors \cup targets[w]
        /\ pc[w] = "commit" /\ kind[w] = "upsert" /\ pc'[w] = "finish"
    BY <1>8 DEF TypeOK, UpsertCommit, docVars, versionVars
  <2>2. Alone(w)
    BY <1>8, WorkersAlone DEF ProcessStep
  <2>3. ASSUME NEW u \in Versions PROVE CleanVersion(u)'
    <3>1. CASE u \in targets[w]
      <4>1. u \notin unnoticed => points[u].scope >= bumped_scope
        BY <1>0, <2>1, <3>1 DEF CleanJob
      <4> QED BY <1>0, <2>1, <4>1 DEF CleanVersion
    <3>2. CASE u \notin targets[w]
      BY <1>0, <2>1, <3>2, CleanVersionKept DEF Served
    <3> QED BY <3>1, <3>2
  <2>4. CleanJob(w)'
    BY <2>1 DEF CleanJob
  <2>5. \A u \in Workers \ {w} : CleanJob(u)'
    BY <1>0, <2>1, <2>2, CleanJobKept DEF Alone
  <2> QED BY <1>a, <2>3, <2>4, <2>5
<1>9. ASSUME NEW w \in Workers, Write(w) PROVE Clean'
  <2>1. /\ UNCHANGED <<unnoticed, bumped_scope, prefilter, lifecycle, vectors,
                       kind, targets, payload>>
        /\ pc[w] = "write" /\ pc' = [pc EXCEPT ![w] = "commit"]
        /\ \A v \in Versions :
              points'[v] = IF v \in targets[w] THEN payload[w] ELSE points[v]
        /\ targets[w] \subseteq Versions
    BY <1>9 DEF TypeOK, Write, Apply, docVars, versionVars
  <2>2. ASSUME NEW v \in targets[w], v \notin unnoticed
        PROVE  payload[w].scope >= bumped_scope
    <3>1. CASE kind[w] = "upsert"
      BY <1>0, <2>1, <2>2, <3>1 DEF CleanJob
    <3>2. CASE kind[w] = "resync"
      <4>1. pc[w] \in InTransaction /\ pc[w] # "scope"
        BY <2>1 DEF InTransaction
      <4>2. payload[w].acl \in 1..acl_version
        BY <4>1 DEF JobOK
      <4>3. ~(payload[w].acl < acl_version)
        BY <3>2, <4>1 DEF ResyncIsFresh
      <4>4. payload[w].acl = acl_version
        BY <4>2, <4>3, Numbers
      <4> QED BY <3>2, <4>1, <4>4 DEF ResyncIsFresh
    <3>3. kind[w] # "none" /\ kind[w] \in {"none", "resync", "upsert"}
      BY <2>1 DEF TypeOK, JobOK
    <3> QED BY <3>1, <3>2, <3>3
  <2>3. ASSUME NEW u \in Versions PROVE CleanVersion(u)'
    BY <1>0, <2>1, <2>2 DEF CleanVersion, Served
  <2>4. ASSUME NEW u \in Workers PROVE CleanJob(u)'
    <3>1. CASE u = w
      BY <2>1, <2>2, <3>1 DEF TypeOK, CleanJob
    <3>2. CASE u # w
      <4>1. pc[u] # "commit" /\ pc'[u] = pc[u]
        BY <2>1, <3>2 DEF LockHeld, InTransaction, TypeOK
      <4> QED BY <1>0, <2>1, <4>1 DEF CleanJob
    <3> QED BY <3>1, <3>2
  <2> QED BY <1>a, <2>3, <2>4
<1> QED
  BY <1>2, <1>3, <1>4, <1>5, <1>6, <1>7, <1>8, <1>9, WorkerCases DEF Next

\* Settled versions stay clean.
LEMMA CleanStep ==
    ASSUME TypeOK, LockHeld, JobOK, IngestedOnce, SettledIsClean,
           ResyncIsFresh, [Next]_vars
    PROVE  SettledIsClean'
<1> SUFFICES ASSUME Settled' PROVE Clean'
  BY DEF SettledIsClean
<1>1. ASSUME NEW w \in Workers, ResyncCommit(w) PROVE Clean'
  <2>1. CASE event[w] = acl_version
    BY <1>1, <2>1, CleanEstablished
  <2>2. CASE event[w] # acl_version
    <3>1. /\ kind[w] = "resync" /\ pc[w] \in InTransaction
          /\ payload[w].acl = event[w] /\ payload[w].acl \in 1..acl_version
      BY <1>1 DEF JobOK, ResyncCommit, InTransaction
    <3>2. ~Settled
      BY <2>2, <3>1, Numbers DEF ResyncIsFresh
    <3>3. PICK u \in Workers : ResyncCommit(u) /\ event[u] = acl_version
      BY <3>2, SettledStep
    <3> QED BY <3>3, CleanEstablished
  <2> QED BY <2>1, <2>2
<1>2. CASE \A w \in Workers : ~ResyncCommit(w)
  <2>1. Settled /\ ~Bump
    BY <1>2, SettledStep
  <2> QED BY <1>2, <2>1, CleanKept DEF SettledIsClean
<1> QED BY <1>1, <1>2

-----------------------------------------------------------------------------
\* ResyncIsFresh, per worker.
Fresh(w) ==
    kind[w] = "resync" /\ pc[w] \in InTransaction =>
        /\ payload[w].acl < acl_version => ~Settled
        /\ payload[w].acl = acl_version /\ pc[w] # "scope" =>
              payload[w].scope >= bumped_scope
        /\ payload[w].acl = acl_version /\ pc[w] \in {"write", "commit"} =>
              \A v \in Versions \ unnoticed :
                  Served(v) /\ Outdated(points[v]) =>
                      pc[w] = "write" /\ v \in targets[w]

\* ResyncIsFresh speaks of every worker.
LEMMA FreshDef == ResyncIsFresh <=> \A w \in Workers : Fresh(w)
  BY DEF ResyncIsFresh, Fresh

\* A resync under way is not disturbed by a step that keeps acl_version, does
\* not settle it, and puts nothing outdated into service unnoticed.
LEMMA FreshKept ==
    ASSUME NEW w \in Workers, Fresh(w),
           pc'[w] = pc[w], kind'[w] = kind[w], targets'[w] = targets[w],
           payload'[w] = payload[w],
           acl_version' = acl_version, bumped_scope' = bumped_scope,
           Settled' => Settled,
           \A v \in Versions \ unnoticed' :
              Served(v)' /\ Outdated(points[v])' =>
                 v \notin unnoticed /\ Served(v) /\ Outdated(points[v])
    PROVE  Fresh(w)'
  BY DEF Fresh

\* A resync under way knows of every outdated point.
LEMMA FreshStep ==
    ASSUME TypeOK, TypeOK', LockHeld, JobOK, JobOK', ResyncIsFresh, [Next]_vars
    PROVE  ResyncIsFresh'
<1> USE ConstantsAssumption
<1>0. \A w \in Workers : Fresh(w)
  BY FreshDef
<1>a. ASSUME \A w \in Workers : Fresh(w)' PROVE ResyncIsFresh'
  BY <1>a DEF ResyncIsFresh, Fresh
<1>1. CASE Bump
  <2>1. acl_version' = acl_version + 1
    BY <1>1 DEF Bump
  <2>2. ~Settled'
    <3>1. acl_version' # acl_version
      BY <2>1, Numbers
    <3>2. UNCHANGED event
      BY <1>1 DEF Bump, workerVars
    <3>3. acl_version' \in PendingResyncs'
      BY <1>1, Numbers DEF TypeOK, Bump, PendingResyncs
    <3>4. \A w \in Workers : event'[w] # acl_version'
      BY <2>1, <3>2, Numbers DEF TypeOK
    <3> QED BY <3>3, <3>4 DEF Settled
  <2>3. \A w \in Workers : pc'[w] \in InTransaction =>
           payload'[w].acl # acl_version'
    BY <1>1, <2>1, Numbers DEF JobOK, Bump, workerVars
  <2> QED BY <1>a, <2>2, <2>3 DEF Fresh
<1>2. ASSUME UNCHANGED workerVars, ~Bump,
             UNCHANGED <<acl_version, bumped_scope>>,
             \A v \in Versions \ unnoticed' :
                Served(v)' /\ Outdated(points[v])' =>
                   v \notin unnoticed /\ Served(v) /\ Outdated(points[v])
      PROVE  ResyncIsFresh'
  <2>1. \A w \in Workers : ~ResyncCommit(w)
    BY <1>2 DEF TypeOK, ResyncCommit, workerVars
  <2>2. Settled' => Settled
    BY <2>1, SettledStep
  <2>3. \A w \in Workers : Fresh(w)'
    BY <1>0, <1>2, <2>2, FreshKept DEF workerVars
  <2> QED BY <1>a, <2>3
<1>3. CASE \/ ScopeDrifts \/ Backfill \/ UNCHANGED vars
           \/ \E v \in Versions : IngestReadScopes(v)
  <2>1. UNCHANGED <<unnoticed, acl_version, bumped_scope, points, lifecycle,
                    vectors>>
    BY <1>3 DEF ScopeDrifts, Backfill, vars, IngestReadScopes, docVars,
                versionVars, indexVars
  <2>2. ~Bump
    BY <2>1, Numbers DEF Bump
  <2> QED BY <1>2, <1>3, <2>1, <2>2, QuietWorkers DEF Served, Outdated
<1>4. ASSUME NEW v \in Versions, IngestCommit(v) PROVE ResyncIsFresh'
  <2>1. /\ UNCHANGED <<workerVars, acl_version, bumped_scope, points,
                       lifecycle, vectors>>
        /\ unnoticed \subseteq unnoticed'
    BY <1>4 DEF IngestCommit, docVars, indexVars
  <2>2. ~Bump
    BY <2>1, Numbers DEF Bump
  <2> QED BY <1>2, <2>1, <2>2 DEF Served, Outdated
<1>5. ASSUME NEW v \in Versions, Promote(v) PROVE ResyncIsFresh'
  <2>1. /\ UNCHANGED <<workerVars, acl_version, bumped_scope, points, vectors>>
        /\ unnoticed \subseteq unnoticed'
    BY <1>5 DEF Promote, docVars, indexVars
  <2>2. ~Bump
    BY <2>1, Numbers DEF Bump
  <2>3. ASSUME NEW u \in Versions \ unnoticed', Served(u)', Outdated(points[u])'
        PROVE  u \notin unnoticed /\ Served(u) /\ Outdated(points[u])
    <3>1. Outdated(points[u])
      BY <2>1, <2>3 DEF Outdated
    <3>2. u # v
      BY <1>5, <2>1, <2>3, <3>1 DEF Promote, Served
    <3> QED BY <1>5, <2>1, <2>3, <3>1, <3>2 DEF Promote, Served
  <2> QED BY <1>2, <2>1, <2>2, <2>3
<1>6. ASSUME NEW r \in in_flight, LateWrite(r) PROVE ResyncIsFresh'
  <2>1. /\ UNCHANGED <<workerVars, acl_version, bumped_scope, lifecycle,
                       vectors>>
        /\ unnoticed \subseteq unnoticed'
    BY <1>6 DEF LateWrite, docVars, versionVars
  <2>2. ~Bump
    BY <2>1, Numbers DEF Bump
  <2>3. ASSUME NEW u \in Versions \ unnoticed', Served(u)', Outdated(points[u])'
        PROVE  u \notin unnoticed /\ Served(u) /\ Outdated(points[u])
    <3>1. u \in r.targets => points'[u] = r.payload /\ ~Outdated(r.payload)
      BY <1>6, <2>3 DEF LateWrite, Apply
    <3>2. u \notin r.targets => points'[u] = points[u]
      BY <1>6 DEF LateWrite, Apply
    <3> QED BY <2>1, <2>3, <3>1, <3>2 DEF Served, Outdated
  <2> QED BY <1>2, <2>1, <2>2, <2>3
<1>7. ASSUME NEW w \in Workers,
             ProcessStep(w) \/ LockStep(w) \/ Fail(w) \/ WriteOrphaned(w)
      PROVE  ResyncIsFresh'
  <2>1. UNCHANGED <<acl_version, bumped_scope, unnoticed, lifecycle>> /\ ~Bump
    <3>1. UNCHANGED <<acl_version, bumped_scope, unnoticed, lifecycle>>
      BY <1>7, WorkerCases
         DEF UpsertStart, ResyncStart, ResyncScope, ResyncPoints, Write,
             UpsertCommit, ResyncCommit, Complete, UpsertLock, ResyncLock,
             ResyncSuperseded, Fail, WriteOrphaned, docVars, versionVars
    <3> QED BY <3>1, Numbers DEF Bump
  <2>2. Alone(w)
    BY <1>7, WorkersAlone
  <2>3. ASSUME NEW u \in Workers, u # w PROVE Fresh(u)'
    <3> SUFFICES ASSUME pc[u] \in InTransaction PROVE Fresh(u)'
      BY <2>2, <2>3 DEF Alone, Fresh
    <3>1. lock = u /\ pc[w] \notin InTransaction /\ lock # NoWorker
      BY <2>3 DEF LockHeld
    <3>2. ~Write(w) /\ ~UpsertCommit(w) /\ ~ResyncCommit(w)
      BY <3>1 DEF Write, UpsertCommit, ResyncCommit, InTransaction
    <3>3. UNCHANGED <<points, vectors>>
      BY <1>7, <3>2, WorkerCases
         DEF UpsertStart, ResyncStart, ResyncScope, ResyncPoints, Complete,
             UpsertLock, ResyncLock, ResyncSuperseded, Fail, WriteOrphaned,
             indexVars
    <3>4. \A x \in Workers : ~(ResyncCommit(x) /\ pc'[x] # pc[x])
      BY <2>2, <3>1, <3>2, <2>3
         DEF LockHeld, Alone, ResyncCommit, InTransaction
    <3>5. \A x \in Workers : ~ResyncCommit(x)
      BY <3>4 DEF TypeOK, ResyncCommit
    <3>6. Settled' => Settled
      BY <3>5, SettledStep
    <3> QED
      BY <1>0, <2>1, <2>2, <2>3, <3>3, <3>6, FreshKept
         DEF Alone, Served, Outdated
  <2>4. Fresh(w)'
    <3>1. CASE pc'[w] \notin InTransaction \/ kind'[w] # "resync"
      BY <3>1 DEF Fresh
    <3>2. CASE ResyncLock(w)
      <4>1. pc'[w] = "scope" /\ payload'[w].acl = acl_version
        BY <3>2 DEF TypeOK, ResyncLock, Payloads
      <4> QED BY <2>1, <4>1, Numbers DEF Fresh
    <3>3. CASE ResyncScope(w) \/ ResyncPoints(w) \/ Write(w)
      <4>1. /\ UNCHANGED <<vectors, kind>>
            /\ payload'[w].acl = payload[w].acl
            /\ pc[w] \in {"scope", "points", "write"}
            /\ \A x \in Workers : ~ResyncCommit(x)
        <5>1. \A x \in Workers : ~(ResyncCommit(x) /\ pc[x] = pc'[x])
          BY DEF TypeOK, ResyncCommit
        <5>2. /\ UNCHANGED <<vectors, kind>>
              /\ payload'[w].acl = payload[w].acl
              /\ pc[w] \in {"scope", "points", "write"}
          BY <3>3 DEF TypeOK, ResyncScope, ResyncPoints, Write, indexVars,
                      Payloads
        <5>3. ~ResyncCommit(w)
          BY <5>2 DEF ResyncCommit
        <5> QED BY <2>2, <5>1, <5>2, <5>3 DEF Alone
      <4>2. Settled' => Settled
        BY <4>1, SettledStep
      <4>3. CASE kind[w] = "resync" /\ payload[w].acl < acl_version
        BY <1>0, <2>1, <4>1, <4>2, <4>3, Numbers DEF Fresh, InTransaction
      <4>4. CASE kind[w] = "resync" /\ payload[w].acl = acl_version
        <5>1. CASE ResyncScope(w)
          <6>1. pc'[w] = "points" /\ payload'[w].scope = scope
            BY <5>1 DEF TypeOK, ResyncScope, Payloads
          <6>2. scope >= bumped_scope
            BY Numbers DEF TypeOK
          <6> QED BY <2>1, <4>1, <4>4, <6>1, <6>2, Numbers DEF Fresh
        <5>2. CASE ResyncPoints(w)
          <6>1. /\ pc'[w] = "write" /\ pc[w] = "points"
                /\ payload'[w].scope = payload[w].scope
                /\ targets'[w] = {v \in vectors : lifecycle[v] = "active"}
            BY <5>2 DEF TypeOK, ResyncPoints, Payloads
          <6>2. payload[w].scope >= bumped_scope
            BY <1>0, <4>4, <6>1 DEF Fresh, InTransaction
          <6>3. \A v \in Versions : Served(v)' => v \in targets'[w]
            BY <2>1, <4>1, <6>1 DEF Served
          <6> QED
            BY <2>1, <4>1, <4>4, <6>1, <6>2, <6>3, Numbers DEF Fresh
        <5>3. CASE Write(w)
          <6>1. /\ pc'[w] = "commit" /\ pc[w] = "write"
                /\ UNCHANGED <<payload, targets>>
                /\ \A v \in Versions : points'[v] =
                      IF v \in targets[w] THEN payload[w] ELSE points[v]
            BY <5>3 DEF TypeOK, Write, Apply
          <6>2. payload[w].scope >= bumped_scope
            BY <1>0, <4>4, <6>1 DEF Fresh, InTransaction
          <6>3. ~Outdated(payload[w])
            BY <4>4, <6>2, Numbers DEF Outdated
          <6>4. ASSUME NEW v \in Versions \ unnoticed, Served(v)
                PROVE  ~Outdated(points[v])'
            <7>1. v \in targets[w] => ~Outdated(points[v])'
              BY <2>1, <6>1, <6>3 DEF Outdated
            <7>2. v \notin targets[w] => ~Outdated(points[v])
              BY <1>0, <4>4, <6>1, <6>4 DEF Fresh, InTransaction
            <7> QED BY <2>1, <6>1, <7>1, <7>2 DEF Outdated
          <6>5. \A v \in Versions : Served(v)' <=> Served(v)
            BY <2>1, <4>1 DEF Served
          <6> QED
            BY <2>1, <4>1, <4>4, <6>1, <6>2, <6>4, <6>5, Numbers DEF Fresh
        <5> QED BY <3>3, <5>1, <5>2, <5>3
      <4>5. CASE kind[w] # "resync"
        BY <4>1, <4>5 DEF Fresh
      <4>6. payload[w].acl \in 1..acl_version
        BY <4>1 DEF JobOK, InTransaction
      <4> QED BY <4>3, <4>4, <4>5, <4>6, Numbers
    <3>4. ASSUME \/ \E v \in upserts : UpsertStart(w, v)
                 \/ \E n \in PendingResyncs : ResyncStart(w, n)
                 \/ UpsertCommit(w) \/ ResyncCommit(w) \/ Complete(w)
                 \/ ResyncSuperseded(w) \/ Fail(w) \/ WriteOrphaned(w)
          PROVE  pc'[w] \notin InTransaction
      BY <3>4 DEF TypeOK, UpsertStart, ResyncStart, UpsertCommit, ResyncCommit,
                  Complete, ResyncSuperseded, Fail, WriteOrphaned, Idle,
                  InTransaction
    <3>5. UpsertLock(w) => kind'[w] # "resync"
      BY DEF UpsertLock
    <3> QED BY <1>7, <3>1, <3>2, <3>3, <3>4, <3>5, WorkerCases
  <2> QED BY <1>a, <2>3, <2>4
<1> QED
  BY <1>1, <1>3, <1>4, <1>5, <1>6, <1>7 DEF Next

-----------------------------------------------------------------------------
\* The invariant holds before anything has happened.
LEMMA InitHolds ==
    ASSUME Init
    PROVE  IInv
<1> USE ConstantsAssumption
<1>1. NoPoint \in Payloads
  BY DEF NoPoint, Payloads, Statuses
<1>2. TypeOK
  BY <1>1 DEF Init, TypeOK, PCs, Statuses
<1>3. LockHeld /\ JobOK /\ IngestedOnce /\ SyncIsOwed /\ SyncDone
  BY DEF Init, LockHeld, JobOK, IngestedOnce, SyncIsOwed, SyncDone,
         InTransaction
<1>4. BookkeepingHasPoints /\ WritesLeavePoints /\ ResyncIsFresh
  BY DEF Init, BookkeepingHasPoints, WritesLeavePoints, ResyncIsFresh
<1>5. SettledIsClean
  BY DEF Init, SettledIsClean, Clean, Served
<1> QED BY <1>2, <1>3, <1>4, <1>5 DEF IInv

\* Every step keeps it.
LEMMA StepHolds ==
    ASSUME IInv, [Next]_vars
    PROVE  IInv'
<1>1. /\ TypeOK /\ LockHeld /\ JobOK /\ IngestedOnce
      /\ SyncIsOwed /\ SyncDone
      /\ BookkeepingHasPoints /\ WritesLeavePoints
      /\ SettledIsClean /\ ResyncIsFresh
  BY DEF IInv
<1>2. TypeOK'
  BY <1>1, TypeStep
<1>3. LockHeld'
  BY <1>1, LockStepHolds
<1>4. IngestedOnce' /\ JobOK'
  BY <1>1, <1>2, IngestStep, JobStep
<1>5. SyncIsOwed' /\ SyncDone'
  BY <1>1, SyncStep
<1>6. BookkeepingHasPoints' /\ WritesLeavePoints'
  BY <1>1, BookkeepingStep
<1>7. SettledIsClean'
  BY <1>1, CleanStep
<1>8. ResyncIsFresh'
  BY <1>1, <1>2, <1>4, FreshStep
<1> QED BY <1>2, <1>3, <1>4, <1>5, <1>6, <1>7, <1>8 DEF IInv

\* The inductive invariant.
THEOREM Invariance == Spec => []IInv
<1>1. IInv /\ [Next]_vars => IInv'
  BY StepHolds
<1> QED BY <1>1, InitHolds, PTL DEF Spec

\* Rows, events, workers and requests keep their types.
THEOREM TypeCorrect == Spec => []TypeOK
<1>1. IInv => TypeOK
  BY DEF IInv
<1> QED BY <1>1, Invariance, PTL

\* Points of the active version that are older than the last change of scope
\* a trigger noticed have a resync event open, or are stale by one of the
\* three races the property names.
THEOREM IndexNeverSilentlyStale == Spec => []NoSilentStaleness
<1>1. ASSUME IInv PROVE NoSilentStaleness
  <2> SUFFICES ASSUME NEW v \in Versions, Served(v),
                      points[v].scope < bumped_scope,
                      acl_version \notin PendingResyncs, v \notin unnoticed
               PROVE  FALSE
    BY DEF NoSilentStaleness
  <2>1. TypeOK /\ Clean
    BY <1>1 DEF IInv, SettledIsClean, Settled
  <2>2. points[v].scope >= bumped_scope
    BY <2>1 DEF Clean
  <2> QED BY <2>1, <2>2, Numbers
<1>2. IInv => NoSilentStaleness
  BY <1>1
<1> QED BY <1>2, Invariance, PTL

\* A document whose qdrant_synced_version is behind has the event of its
\* current acl_version open.
THEOREM SyncStaysOwed == Spec => []SyncIsOwed
<1>1. IInv => SyncIsOwed
  BY DEF IInv
<1> QED BY <1>1, Invariance, PTL

\* Rows of document_chunk_vectors are only committed for points that are in
\* the index.
THEOREM BookkeepingBacked == Spec => []BookkeepingHasPoints
<1>1. IInv => BookkeepingHasPoints
  BY DEF IInv
<1> QED BY <1>1, Invariance, PTL

-----------------------------------------------------------------------------
\* Only the commit of a resync moves synced_version.
LEMMA SyncedByResync ==
    ASSUME [Next]_vars, synced_version' # synced_version
    PROVE  \E w \in Workers : ResyncCommit(w)
  BY WorkerCases
     DEF Next, Bump, ScopeDrifts, Backfill, vars, IngestReadScopes,
         IngestCommit, Promote, LateWrite, UpsertStart, ResyncStart,
         ResyncScope, ResyncPoints, Write, UpsertCommit, Complete, UpsertLock,
         ResyncLock, ResyncSuperseded, Fail, WriteOrphaned, docVars

\* qdrant_synced_version is never advanced past what the points of the active
\* version carry.
THEOREM SyncedBehindIndex == Spec => SyncedNotAhead
<1>1. ASSUME IInv, [Next]_vars, synced_version' # synced_version
      PROVE  \A v \in Versions :
                Served(v) => points[v].acl >= synced_version' \/ v \in unnoticed
  <2>1. PICK w \in Workers : ResyncCommit(w)
    BY <1>1, SyncedByResync
  <2>2. TypeOK /\ ResyncIsFresh
    BY <1>1 DEF IInv
  <2>3. /\ kind[w] = "resync" /\ pc[w] = "commit"
        /\ payload[w].acl = acl_version /\ synced_version' = acl_version
    BY <1>1, <2>1 DEF ResyncCommit, Cas
  <2> SUFFICES ASSUME NEW v \in Versions, Served(v), v \notin unnoticed
               PROVE  points[v].acl >= synced_version'
    OBVIOUS
  <2>4. ~Outdated(points[v])
    BY <2>2, <2>3 DEF ResyncIsFresh, InTransaction
  <2> QED BY <2>2, <2>3, <2>4, Numbers DEF Outdated
<1>2. IInv /\ [Next]_vars =>
         [synced_version' # synced_version =>
            \A v \in Versions :
               Served(v) => points[v].acl >= synced_version' \/ v \in unnoticed
         ]_vars
  BY <1>1
<1> QED BY <1>2, Invariance, PTL DEF Spec, SyncedNotAhead

-----------------------------------------------------------------------------
\* Requests outlive their callers only if MaxLate lets them.
LEMMA NoneLate ==
    ASSUME MaxLate = 0, in_flight = {}, [Next]_vars
    PROVE  /\ in_flight' = {}
           /\ \A w \in Workers : ~WriteOrphaned(w)
<1>1. \A w \in Workers : ~WriteOrphaned(w)
  BY FS_EmptySet DEF WriteOrphaned
<1> QED
  BY <1>1, WorkerCases
     DEF Next, Bump, ScopeDrifts, Backfill, vars, IngestReadScopes,
         IngestCommit, Promote, UpsertStart, ResyncStart, ResyncScope,
         ResyncPoints, Write, UpsertCommit, ResyncCommit, Complete, UpsertLock,
         ResyncLock, ResyncSuperseded, Fail, indexVars

\* The points stay behind the transaction under way.
LEMMA BehindStep ==
    ASSUME MaxLate = 0, TypeOK, TypeOK', LockHeld, LockHeld', JobOK,
           PointsBehind, [Next]_vars
    PROVE  PointsBehind'
<1> USE ConstantsAssumption
<1>0. in_flight' = {} /\ \A w \in Workers : ~WriteOrphaned(w)
  BY NoneLate DEF PointsBehind
<1>1. ASSUME UNCHANGED points, acl_version' >= acl_version,
             \A w \in Workers : pc'[w] \in InTransaction =>
                \/ pc[w] \in InTransaction /\ payload'[w].acl = payload[w].acl
                \/ payload'[w].acl = acl_version
      PROVE  PointsBehind'
  <2>1. /\ acl_version \in Nat /\ acl_version' \in Nat
        /\ \A v \in Versions : points[v].acl \in Nat
    BY Numbers DEF TypeOK
  <2>2. \A v \in Versions : points'[v].acl <= acl_version'
    BY <1>1, <2>1 DEF PointsBehind
  <2>3. \A w \in Workers : pc'[w] \in InTransaction =>
           \A v \in Versions : points'[v].acl <= payload'[w].acl
    BY <1>1, <2>1 DEF PointsBehind
  <2> QED BY <1>0, <2>2, <2>3 DEF PointsBehind
<1>2. CASE \/ Bump \/ ScopeDrifts \/ Backfill \/ UNCHANGED vars
           \/ \E v \in Versions :
                 IngestReadScopes(v) \/ IngestCommit(v) \/ Promote(v)
  <2>1. UNCHANGED points /\ acl_version' >= acl_version
    BY <1>2, Numbers
       DEF Bump, ScopeDrifts, Backfill, vars, IngestReadScopes, IngestCommit,
           Promote, docVars, indexVars
  <2> QED BY <1>1, <1>2, <2>1, QuietWorkers DEF workerVars
<1>3. ASSUME NEW w \in Workers, Write(w) PROVE PointsBehind'
  <2>1. /\ UNCHANGED <<acl_version, payload>>
        /\ pc[w] = "write" /\ pc'[w] = "commit"
        /\ \A v \in Versions :
              points'[v] = IF v \in targets[w] THEN payload[w] ELSE points[v]
    BY <1>3 DEF TypeOK, Write, Apply, docVars
  <2>2. payload[w].acl \in 1..acl_version
    BY <2>1 DEF JobOK, InTransaction
  <2>3. \A v \in Versions : points'[v].acl <= payload[w].acl
    BY <2>1, <2>2, Numbers DEF PointsBehind, InTransaction
  <2>4. \A u \in Workers : pc'[u] \in InTransaction => u = w
    BY <2>1 DEF LockHeld, InTransaction
  <2>5. \A v \in Versions : points'[v].acl <= acl_version
    BY <2>1, <2>2, <2>3, Numbers DEF PointsBehind
  <2> QED BY <1>0, <2>1, <2>3, <2>4, <2>5 DEF PointsBehind
<1>4. ASSUME NEW w \in Workers, ProcessStep(w) \/ LockStep(w) \/ Fail(w),
             ~Write(w)
      PROVE  PointsBehind'
  <2>1. Alone(w)
    BY <1>4, WorkersAlone
  <2>2. UNCHANGED <<points, acl_version>>
    BY <1>4, WorkerCases
       DEF UpsertStart, ResyncStart, ResyncScope, ResyncPoints, UpsertCommit,
           ResyncCommit, Complete, UpsertLock, ResyncLock, ResyncSuperseded,
           Fail, indexVars, docVars
  <2>3. CASE UpsertLock(w) \/ ResyncLock(w)
    <3>1. payload'[w].acl = acl_version
      BY <2>3 DEF TypeOK, UpsertLock, ResyncLock, ChunkPayload, Payloads
    <3> QED BY <1>1, <2>1, <2>2, <3>1, Numbers DEF Alone
  <2>4. CASE ResyncScope(w) \/ ResyncPoints(w)
    <3>1. payload'[w].acl = payload[w].acl /\ pc[w] \in InTransaction
      BY <2>4 DEF TypeOK, ResyncScope, ResyncPoints, Payloads, InTransaction
    <3> QED BY <1>1, <2>1, <2>2, <3>1, Numbers DEF Alone
  <2>5. ASSUME \/ \E v \in upserts : UpsertStart(w, v)
               \/ \E n \in PendingResyncs : ResyncStart(w, n)
               \/ UpsertCommit(w) \/ ResyncCommit(w) \/ Complete(w)
               \/ ResyncSuperseded(w) \/ Fail(w)
        PROVE  pc'[w] \notin InTransaction
    BY <2>5 DEF TypeOK, UpsertStart, ResyncStart, UpsertCommit, ResyncCommit,
                Complete, ResyncSuperseded, Fail, Idle, InTransaction
  <2>6. CASE pc'[w] \notin InTransaction
    BY <1>1, <2>1, <2>2, <2>6, Numbers DEF Alone
  <2> QED BY <1>4, <2>3, <2>4, <2>5, <2>6, WorkerCases
<1> QED
  BY <1>0, <1>2, <1>3, <1>4 DEF Next, PointsBehind

\* As long as no Qdrant request outlives the transaction that sent it, the
\* payload of a point never returns to an older acl_version: the document's
\* advisory lock does what it is for.
THEOREM LockKeepsPayloadsMonotonic ==
    MaxLate = 0 => (Spec => PayloadNeverGoesBack)
<1>1. Init => PointsBehind
  BY ConstantsAssumption DEF Init, PointsBehind, NoPoint, InTransaction
<1>2. ASSUME MaxLate = 0, TypeOK, PointsBehind, [Next]_vars
      PROVE  \A v \in Versions : points'[v].acl >= points[v].acl
  <2>1. ASSUME NEW w \in Workers, Write(w)
        PROVE  \A v \in Versions : points'[v].acl >= points[v].acl
    <3>1. \A v \in Versions :
             points'[v] = IF v \in targets[w] THEN payload[w] ELSE points[v]
      BY <2>1 DEF Write, Apply
    <3>2. \A v \in Versions : points[v].acl <= payload[w].acl
      BY <1>2, <2>1 DEF Write, PointsBehind, InTransaction
    <3> QED BY <1>2, <3>1, <3>2, Numbers
  <2>2. CASE UNCHANGED points
    BY <1>2, <2>2, Numbers
  <2>3. CASE \A w \in Workers : ~Write(w)
    <3>1. UNCHANGED points
      BY <1>2, <2>3, WorkerCases
         DEF Next, Bump, ScopeDrifts, Backfill, vars, IngestReadScopes,
             IngestCommit, Promote, UpsertStart, ResyncStart, ResyncScope,
             ResyncPoints, UpsertCommit, ResyncCommit, Complete, UpsertLock,
             ResyncLock, ResyncSuperseded, Fail, WriteOrphaned, indexVars,
             PointsBehind
    <3> QED BY <2>2, <3>1
  <2> QED BY <2>1, <2>3
<1>3. ASSUME MaxLate = 0 PROVE Spec => PayloadNeverGoesBack
  <2>1. IInv /\ IInv' /\ PointsBehind /\ [Next]_vars => PointsBehind'
    BY <1>3, BehindStep DEF IInv
  <2>2. IInv /\ PointsBehind /\ [Next]_vars =>
           [\A v \in Versions : points'[v].acl >= points[v].acl]_vars
    BY <1>2, <1>3 DEF IInv
  <2> QED
    BY <1>1, <2>1, <2>2, Invariance, PTL DEF Spec, PayloadNeverGoesBack
<1> QED BY <1>3
=============================================================================
