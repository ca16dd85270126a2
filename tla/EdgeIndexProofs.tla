-------------------------- MODULE EdgeIndexProofs ---------------------------
(***************************************************************************)
(* Proofs about EdgeIndex: every invariant its run checks, and that the    *)
(* bookkeeping implements VersionedIndex, for every set of edges, models,  *)
(* workers and cleaners and every bound.                                   *)
(***************************************************************************)
EXTENDS EdgeIndex, TLAPS

-----------------------------------------------------------------------------
(* The inductive invariant                                                 *)

\* An edge without a row has version 0 and no bookkeeping; the bookkeeping is
\* never ahead of the edge; points are named for deletion, and the delete
\* event is there, only when the edge is gone.
EdgeOK(e) ==
    /\ edge[e] = "none" <=> ver[e] = 0
    /\ edge[e] # "live" => \A m \in Models : indexed[<<e, m>>] = 0
    /\ \A m \in Models : indexed[<<e, m>>] <= ver[e]
    /\ edge[e] # "gone" => doomed[e] = {} /\ row[DeleteOf(e)].st = "none"

EdgesOK == \A e \in Edges : EdgeOK(e)

\* An upsert event is for a version its edge has had.
UpsertsOK ==
    \A ev \in Upserts :
        row[ev].st # "none" => edge[ev.edge] # "none" /\ ev.ver <= ver[ev.edge]

\* A row that is not there is nobody's.
AbsentOK == \A ev \in Events : row[ev].st = "none" => row[ev].by = Nobody

Between   == {"idle", "drain"}
Snapshot  == {"gate", "model", "prepare", "upsert", "book"}
Embedding == Snapshot \cup {"probe"}
Settled   == {"completed", "failed"}

\* What a process holds: events of its own kind that were enqueued, and one
\* in hand while it handles it.
Holds(p) ==
    /\ batch[p] \subseteq Jobs(p)
    /\ \A ev \in batch[p] : row[ev].st # "none"
    /\ pc[p] \notin Between => event[p] \in Jobs(p) /\ row[event[p]].st # "none"
    /\ p \in Workers => pc[p] \in Between \cup Embedding \cup Settled
    /\ p \in Cleaners => pc[p] \in Between \cup {"delete"} \cup Settled

\* The snapshot of the edge is at least the version of the event, and no
\* version the edge has not reached.
Snapshots(p) ==
    pc[p] \in Snapshot => /\ event[p].ver <= live[p]
                          /\ live[p] <= ver[event[p].edge]

\* The point is there when its writer comes to the bookkeeping.
Written(p) ==
    pc[p] = "book" /\ edge[event[p].edge] = "live" =>
        \/ point[KeyOf(event[p])] >= live[p]
        \/ KeyOf(event[p]) \in overtaken

\* An upsert event about to be completed is indexed, or need not be.
Embedded(p) ==
    p \in Workers /\ pc[p] = "completed" /\ edge[event[p].edge] = "live" =>
        \/ indexed[KeyOf(event[p])] >= event[p].ver
        \/ event[p] \in dropped

\* The points a delete event names are deleted when it is about to be
\* completed, or were written again since.
Cleaned(p) ==
    p \in Cleaners /\ pc[p] = "completed" =>
        \A m \in doomed[event[p].edge] :
            \/ point[<<event[p].edge, m>>] = 0
            \/ <<event[p].edge, m>> \in unbooked

Hand(p) == Holds(p) /\ Snapshots(p) /\ Written(p) /\ Embedded(p) /\ Cleaned(p)

HandsOK == \A p \in Procs : Hand(p)

\* A point is in the bookkeeping, or named by a delete event, or was written
\* without a bookkeeping row.
Found(k) == \/ indexed[k] # 0
            \/ k[2] \in doomed[k[1]] /\ row[DeleteOf(k[1])].st # "done"
            \/ k \in unbooked

PointsFound == \A k \in Keys : point[k] # 0 => Found(k)

\* An upsert was enqueued for the key.
Enqueued(k) == \E ev \in Upserts : KeyOf(ev) = k /\ row[ev].st # "none"

\* Points, and upserts on their way, come from events.
PointsEnqueued ==
    /\ \A k \in Keys : point[k] # 0 => Enqueued(k)
    /\ \A f \in in_flight : Enqueued(f[1])

IInv ==
    /\ TypeOK
    /\ EdgesOK
    /\ UpsertsOK
    /\ AbsentOK
    /\ HandsOK
    /\ CompletedIsIndexed
    /\ BehindOnlyWhenOvertaken
    /\ PointsFound
    /\ PointsEnqueued

-----------------------------------------------------------------------------
(* The steps, by who takes them                                            *)

AdminStep ==
    \/ \E e \in Edges : EdgesCreate(e) \/ EdgesUpdate(e) \/ EdgesDelete(e)
    \/ \E m \in Models : EmbedTypeVectors(m) \/ EmbedEndpoints(m) \/ DisableModel(m)

First(p) == IF p \in Workers THEN "probe" ELSE "delete"

QueueStep(p) ==
    \/ ClaimBatch(p) \/ NextEvent(p, First(p)) \/ MarkCompleted(p)
    \/ MarkFailed(p) \/ StepFails(p) \/ Crash(p) \/ ReleaseMyClaims(p)

WorkStep(w) ==
    \/ LoadLiveEdge(w) \/ LoadIndexedEdgeVersion(w) \/ LoadModelCollection(w)
    \/ PrepareEdgeVector(w) \/ ApplyEdgeVector(w) \/ UpsertBookkeeping(w)

\* Every step is one of the administration, of the queue protocol, of a
\* worker's or a cleaner's own work, or happens by itself.
LEMMA StepCases ==
    ASSUME [Next]_vars
    PROVE  \/ AdminStep
           \/ \E p \in Procs : QueueStep(p)
           \/ \E w \in Workers : WorkStep(w)
           \/ \E c \in Cleaners : CleanupProcess(c)
           \/ \E ev \in Events : LeaseExpires(ev)
           \/ \E f \in in_flight : LateUpsert(f)
           \/ UNCHANGED vars
<1>1. ASSUME NEW c \in Cleaners PROVE c \in Procs /\ First(c) = "delete"
  BY ConstantsAssumption DEF Procs, First
<1>2. ASSUME NEW w \in Workers PROVE w \in Procs /\ First(w) = "probe"
  BY DEF Procs, First
<1>3. ASSUME NEW w \in Workers, EmbedStep(w) \/ ReleaseMyClaims(w)
      PROVE  QueueStep(w) \/ WorkStep(w)
  BY <1>2, <1>3, Zenon DEF EmbedStep, QueueStep, WorkStep
<1>4. ASSUME NEW c \in Cleaners, CleanupStep(c) \/ CleanupRelease(c)
      PROVE  QueueStep(c) \/ CleanupProcess(c)
  BY <1>1, <1>4, Zenon DEF CleanupStep, CleanupRelease, QueueStep, CleanupClaim,
     CleanupDrain, CleanupCompleted, CleanupFailed
<1>5. ASSUME NEW p \in Procs, StepFails(p) \/ Crash(p) PROVE QueueStep(p)
  BY <1>5, Zenon DEF QueueStep
<1> QED BY <1>1, <1>2, <1>3, <1>4, <1>5, Zenon DEF Next, AdminStep

-----------------------------------------------------------------------------
(* Type correctness                                                        *)

Rows == [st: {"none", "due", "claimed", "stale", "done"},
         by: Procs \cup {Nobody}, tries: 0..MaxAttempts]

\* The rows that the statements of the queue write are rows of the table.
LEMMA RowTypes ==
    /\ [st |-> "due", by |-> Nobody, tries |-> 0] \in Rows
    /\ \A r \in Rows : Released(r) \in Rows
    /\ \A r \in Rows : [r EXCEPT !.st = "stale"] \in Rows
    /\ \A r \in Rows : [r EXCEPT !.st = "done", !.by = Nobody] \in Rows
    /\ \A r \in Rows : [r EXCEPT !.st = "due", !.by = Nobody] \in Rows
    /\ \A r \in Rows, p \in Procs : r.tries < MaxAttempts =>
          [st |-> "claimed", by |-> p, tries |-> r.tries + 1] \in Rows
<1>1. [st |-> "due", by |-> Nobody, tries |-> 0] \in Rows
  BY ConstantsAssumption DEF Rows
<1>2. ASSUME NEW r \in Rows
      PROVE  /\ Released(r) \in Rows
             /\ [r EXCEPT !.st = "stale"] \in Rows
             /\ [r EXCEPT !.st = "done", !.by = Nobody] \in Rows
             /\ [r EXCEPT !.st = "due", !.by = Nobody] \in Rows
  <2>1. /\ r = [st |-> r.st, by |-> r.by, tries |-> r.tries]
        /\ r.by \in Procs \cup {Nobody} /\ r.tries \in 0..MaxAttempts
    BY DEF Rows
  <2>2. GiveBack(r.tries) \in 0..MaxAttempts
    BY <2>1, ConstantsAssumption DEF GiveBack
  <2>3. Released(r) \in Rows
    BY <2>2 DEF Rows, Released
  <2>4. [r EXCEPT !.st = "stale"] = [st |-> "stale", by |-> r.by, tries |-> r.tries]
    BY <2>1
  <2>5. [r EXCEPT !.st = "done", !.by = Nobody] \in Rows
    BY DEF Rows
  <2>6. [r EXCEPT !.st = "due", !.by = Nobody] \in Rows
    BY DEF Rows
  <2> QED BY <2>1, <2>3, <2>4, <2>5, <2>6 DEF Rows
<1>3. ASSUME NEW r \in Rows, NEW p \in Procs, r.tries < MaxAttempts
      PROVE  [st |-> "claimed", by |-> p, tries |-> r.tries + 1] \in Rows
  BY <1>3, ConstantsAssumption DEF Rows
<1> QED BY <1>1, <1>2, <1>3

\* The events are those of the two kinds of worker, with the fields the
\* steps read.
LEMMA EventTypes ==
    /\ \A e \in Edges : DeleteOf(e) \in Deletes
    /\ \A p \in Procs : Jobs(p) \subseteq Events
    /\ Upserts \subseteq Events /\ Deletes \subseteq Events
    /\ \A ev \in Upserts : /\ ev.edge \in Edges /\ ev.model \in Models
                           /\ ev.ver \in Versions /\ KeyOf(ev) \in Keys
    /\ \A ev \in Deletes : ev.edge \in Edges /\ ev = DeleteOf(ev.edge)
    /\ \A ev \in Events : ev.edge \in Edges
    /\ \A ev \in Upserts : ev \notin Deletes
BY ConstantsAssumption
   DEF DeleteOf, Deletes, Upserts, Events, Jobs, KeyOf, Keys, Versions

\* Only the rows of the outbox change: they stay rows of the table.
LEMMA RowStep ==
    ASSUME TypeOK, HandsOK, NEW p \in Procs, QueueStep(p)
    PROVE  row' \in [Events -> Rows]
<1> USE RowTypes, EventTypes
<1>0. row \in [Events -> Rows]
  BY DEF TypeOK, Rows
<1>1. CASE ClaimBatch(p)
  <2> DEFINE rows == Reaped(p)
  <2>1. rows \in [Events -> Rows]
    BY <1>0 DEF Reaped
  <2>2. PICK S \in SUBSET Claimable(p, rows) :
           row' = [ev \in Events |->
                IF ev \in S
                THEN [st |-> "claimed", by |-> p, tries |-> rows[ev].tries + 1]
                ELSE rows[ev]]
    BY <1>1, Zenon DEF ClaimBatch
  <2> HIDE DEF rows
  <2>3. \A ev \in S : ev \in Events /\ rows[ev].tries < MaxAttempts
    BY DEF Claimable
  <2>4. \A ev \in S : [st |-> "claimed", by |-> p, tries |-> rows[ev].tries + 1] \in Rows
    BY <2>1, <2>3
  <2> QED BY <2>1, <2>2, <2>4
<1>2. CASE MarkCompleted(p) \/ MarkFailed(p)
  <2> DEFINE r == row[event[p]]
  <2>1. event[p] \in Events
    BY <1>2 DEF MarkCompleted, MarkFailed, HandsOK, Hand, Holds, Between
  <2>2. \/ row' = row
        \/ row' = [row EXCEPT ![event[p]] = [r EXCEPT !.st = "done", !.by = Nobody]]
        \/ row' = [row EXCEPT ![event[p]] = IF r.st = "done" THEN r
                      ELSE [r EXCEPT !.st = "due", !.by = Nobody]]
    BY <1>2, Zenon DEF MarkCompleted, MarkFailed
  <2>3. r \in Rows
    BY <1>0, <2>1
  <2> HIDE DEF r
  <2>4. \/ row' = row
        \/ \E q \in Rows : row' = [row EXCEPT ![event[p]] = q]
    BY <2>2, <2>3
  <2> QED BY <1>0, <2>1, <2>4
<1>3. CASE ReleaseMyClaims(p)
  BY <1>0, <1>3 DEF ReleaseMyClaims
<1>4. CASE NextEvent(p, First(p)) \/ StepFails(p) \/ Crash(p)
  BY <1>0, <1>4 DEF NextEvent, StepFails, Crash
<1> QED BY <1>1, <1>2, <1>3, <1>4 DEF QueueStep

\* The state of the processes keeps its type.
LEMMA ProcTypes ==
    ASSUME TypeOK, HandsOK, NEW p \in Procs, QueueStep(p)
    PROVE  /\ pc' \in [Procs -> PCs]
           /\ batch' \in [Procs -> SUBSET Events]
           /\ event' \in [Procs -> Events \cup {NoEvent}]
           /\ live' \in [Procs -> 0..MaxVersion]
<1> USE EventTypes, ConstantsAssumption DEF TypeOK
<1>1. CASE ClaimBatch(p)
  <2>1. PICK S \in SUBSET Claimable(p, Reaped(p)) :
           /\ batch' = [batch EXCEPT ![p] = S]
           /\ pc' = [pc EXCEPT ![p] = IF S = {} THEN "idle" ELSE "drain"]
    BY <1>1, Zenon DEF ClaimBatch
  <2>2. S \subseteq Events
    BY DEF Claimable
  <2> QED BY <1>1, <2>1, <2>2 DEF ClaimBatch, PCs
<1>2. CASE NextEvent(p, First(p))
  BY <1>2 DEF NextEvent, First, PCs
<1>3. CASE MarkCompleted(p) \/ MarkFailed(p)
  BY <1>3 DEF MarkCompleted, MarkFailed, Put, PCs
<1>4. CASE StepFails(p)
  BY <1>4 DEF StepFails, Goto, PCs
<1>5. CASE Crash(p)
  BY <1>5 DEF Crash, PCs
<1>6. CASE ReleaseMyClaims(p)
  BY <1>6 DEF ReleaseMyClaims, PCs
<1> QED BY <1>1, <1>2, <1>3, <1>4, <1>5, <1>6 DEF QueueStep

\* Control moves within the labels.
LEMMA GotoTypes ==
    ASSUME TypeOK, NEW p \in Procs, NEW label \in PCs, Goto(p, label)
    PROVE  pc' \in [Procs -> PCs] /\ live' \in [Procs -> 0..MaxVersion]
<1>1. pc \in [Procs -> PCs] /\ live \in [Procs -> 0..MaxVersion]
  BY DEF TypeOK
<1>2. live' = [live EXCEPT ![p] = 0] \/ live' = live
  BY <1>1 DEF Goto
<1>3. 0 \in 0..MaxVersion
  BY ConstantsAssumption
<1> QED BY <1>1, <1>2, <1>3 DEF Goto

\* Every step keeps the types.
LEMMA TypeStep ==
    ASSUME TypeOK, EdgesOK, HandsOK, [Next]_vars
    PROVE  TypeOK'
<1> USE ConstantsAssumption, EventTypes
<1>0. row \in [Events -> Rows]
  BY DEF TypeOK, Rows
<1>1. ASSUME AdminStep PROVE TypeOK'
  <2>1. ASSUME NEW e \in Edges, EdgesCreate(e) PROVE TypeOK'
    <3>1. row' \in [Events -> Rows]
      BY <1>0, <2>1, RowTypes DEF EdgesCreate, Create, EnqueueUpserts
    <3>2. /\ edge' \in [Edges -> {"none", "live", "gone"}]
          /\ ver' \in [Edges -> 0..MaxVersion]
      BY <2>1 DEF EdgesCreate, Create, TypeOK
    <3> QED BY <2>1, <3>1, <3>2 DEF EdgesCreate, TypeOK, Rows, procVars, ghosts
  <2>2. ASSUME NEW e \in Edges, EdgesUpdate(e) PROVE TypeOK'
    <3>1. row' \in [Events -> Rows]
      BY <1>0, <2>2, RowTypes DEF EdgesUpdate, Update, EnqueueUpserts
    <3>2. ver' \in [Edges -> 0..MaxVersion]
      BY <2>2 DEF EdgesUpdate, Update, TypeOK
    <3> QED BY <2>2, <3>1, <3>2 DEF EdgesUpdate, TypeOK, Rows, procVars, ghosts
  <2>3. ASSUME NEW e \in Edges, EdgesDelete(e) PROVE TypeOK'
    <3>0. \/ UNCHANGED <<row, doomed>>
          \/ /\ row' = [row EXCEPT ![DeleteOf(e)] =
                           [st |-> "due", by |-> Nobody, tries |-> 0]]
             /\ \E known \in SUBSET Models : doomed' = [doomed EXCEPT ![e] = known]
      BY <2>3 DEF EdgesDelete, Remove, EnqueueDelete
    <3>1. row' \in [Events -> Rows] /\ doomed' \in [Edges -> SUBSET Models]
      <4>1. doomed \in [Edges -> SUBSET Models]
        BY DEF TypeOK
      <4>2. DeleteOf(e) \in Events
        OBVIOUS
      <4> HIDE EventTypes
      <4> QED BY <1>0, <3>0, <4>1, <4>2, RowTypes
    <3>2. /\ edge' \in [Edges -> {"none", "live", "gone"}]
          /\ indexed' \in [Keys -> 0..MaxVersion]
      BY <2>3 DEF EdgesDelete, Remove, TypeOK
    <3> QED BY <2>3, <3>1, <3>2 DEF EdgesDelete, TypeOK, Rows, procVars, ghosts
  <2>4. ASSUME NEW m \in Models,
               EmbedTypeVectors(m) \/ EmbedEndpoints(m) \/ DisableModel(m)
        PROVE  TypeOK'
    <3>1. /\ inputs' \in [Models -> SUBSET {"endpoints", "type"}]
          /\ enabled' \in SUBSET Models
      BY <2>4 DEF EmbedTypeVectors, EmbedEndpoints, DisableModel, TypeOK
    <3>2. UNCHANGED <<edge, ver, indexed, row, doomed, point, in_flight,
                      procVars, ghosts, faults>>
      BY <2>4, Zenon DEF EmbedTypeVectors, EmbedEndpoints, DisableModel
    <3> QED BY <3>1, <3>2 DEF TypeOK, procVars, ghosts
  <2> QED BY <1>1, <2>1, <2>2, <2>3, <2>4 DEF AdminStep
<1>2. ASSUME NEW p \in Procs, QueueStep(p) PROVE TypeOK'
  <2>1. UNCHANGED <<edgeVars, indexed, doomed, point, in_flight, ghosts>>
    BY <1>2, Zenon DEF QueueStep, ClaimBatch, NextEvent, MarkCompleted, MarkFailed,
       StepFails, Crash, ReleaseMyClaims
  <2>2. faults' = faults \/ Fault
    BY <1>2, Zenon DEF QueueStep, ClaimBatch, NextEvent, MarkCompleted, MarkFailed,
       StepFails, Crash, ReleaseMyClaims
  <2>3. faults' \in 0..MaxFaults
    BY <2>2 DEF Fault, TypeOK
  <2> QED BY <1>2, <2>1, <2>3, RowStep, ProcTypes
          DEF TypeOK, edgeVars, ghosts, Rows
<1>3. ASSUME NEW w \in Workers, WorkStep(w) PROVE TypeOK'
  <2>1. w \in Procs
    BY DEF Procs
  <2>2. event[w] \in Upserts /\ KeyOf(event[w]) \in Keys
    BY <1>3, <2>1 DEF WorkStep, LoadLiveEdge, LoadIndexedEdgeVersion,
       LoadModelCollection, PrepareEdgeVector, ApplyEdgeVector, UpsertBookkeeping,
       HandsOK, Hand, Holds, Between, Jobs
  <2>3. CASE LoadLiveEdge(w)
    <3>1. pc' \in [Procs -> PCs] /\ live' \in [Procs -> 0..MaxVersion]
      <4>1. CASE edge[event[w].edge] = "live"
        <5>1. ver[event[w].edge] \in 0..MaxVersion
          BY <2>2 DEF TypeOK
        <5>2. /\ pc' = [pc EXCEPT ![w] = "gate"]
              /\ live' = [live EXCEPT ![w] = ver[event[w].edge]]
          BY <2>3, <4>1 DEF LoadLiveEdge
        <5> HIDE EventTypes
        <5> QED BY <2>1, <5>1, <5>2 DEF TypeOK, PCs
      <4>2. CASE edge[event[w].edge] # "live"
        BY <2>1, <2>3, <4>2, GotoTypes DEF LoadLiveEdge, PCs
      <4> QED BY <4>1, <4>2
    <3> QED BY <2>3, <3>1 DEF LoadLiveEdge, TypeOK, edgeVars, ghosts
  <2>4. CASE LoadIndexedEdgeVersion(w) \/ PrepareEdgeVector(w)
    <3>1. pc' \in [Procs -> PCs] /\ live' \in [Procs -> 0..MaxVersion]
      <4>1. \E label \in PCs : Goto(w, label)
        BY <2>4 DEF LoadIndexedEdgeVersion, PrepareEdgeVector, PCs
      <4> QED BY <2>1, <4>1, GotoTypes
    <3> QED BY <2>4, <3>1 DEF LoadIndexedEdgeVersion, PrepareEdgeVector, TypeOK,
            edgeVars, ghosts
  <2>5. CASE LoadModelCollection(w)
    <3>1. pc' \in [Procs -> PCs] /\ live' \in [Procs -> 0..MaxVersion]
      <4>1. \E label \in PCs : Goto(w, label)
        BY <2>5 DEF LoadModelCollection, PCs
      <4> QED BY <2>1, <4>1, GotoTypes
    <3>2. dropped' \in SUBSET Upserts
      BY <2>2, <2>5 DEF LoadModelCollection, TypeOK
    <3> QED BY <2>5, <3>1, <3>2 DEF LoadModelCollection, TypeOK, edgeVars
  <2>6. CASE ApplyEdgeVector(w)
    <3>1. live[w] \in Versions
      BY <2>1, <2>2, <2>6 DEF ApplyEdgeVector, HandsOK, Hand, Snapshots, Snapshot,
         TypeOK, Versions
    <3>2. pc' \in [Procs -> PCs] /\ live' \in [Procs -> 0..MaxVersion]
      <4>1. \E label \in PCs : Goto(w, label)
        BY <2>6 DEF ApplyEdgeVector, UpsertRaw, PCs
      <4> QED BY <2>1, <4>1, GotoTypes
    <3>3. point' \in [Keys -> 0..MaxVersion] /\ overtaken' \in SUBSET Keys
          /\ unbooked' \in SUBSET Keys /\ in_flight' \in SUBSET (Keys \X Versions)
          /\ faults' \in 0..MaxFaults
      <4> DEFINE k == KeyOf(event[w])
      <4>1. k \in Keys
        BY <2>2
      <4>2. \/ /\ Lands(k, live[w])
               /\ UNCHANGED <<in_flight, faults>>
            \/ /\ Fault
               /\ in_flight' = in_flight \cup {<<k, live[w]>>}
               /\ UNCHANGED <<point, overtaken, unbooked>>
        BY <2>6, Zenon DEF ApplyEdgeVector, UpsertRaw
      <4> HIDE DEF k
      <4> QED BY <3>1, <4>1, <4>2 DEF Lands, Fault, TypeOK, Versions
    <3> QED BY <2>6, <3>2, <3>3 DEF ApplyEdgeVector, TypeOK, edgeVars
  <2>7. CASE UpsertBookkeeping(w)
    <3>1. pc' \in [Procs -> PCs] /\ live' \in [Procs -> 0..MaxVersion]
      <4>1. \E label \in PCs : Goto(w, label)
        BY <2>7 DEF UpsertBookkeeping, PCs
      <4> QED BY <2>1, <4>1, GotoTypes
    <3>2. indexed' \in [Keys -> 0..MaxVersion] /\ unbooked' \in SUBSET Keys
      <4> DEFINE k == KeyOf(event[w])
      <4>1. k \in Keys /\ live[w] \in 0..MaxVersion
        BY <2>1, <2>2 DEF TypeOK
      <4>2. \/ UNCHANGED <<indexed, unbooked>>
            \/ RecordVersion(k, live[w]) /\ unbooked' = unbooked \ {k}
        BY <2>7, Zenon DEF UpsertBookkeeping
      <4> HIDE DEF k
      <4> QED BY <4>1, <4>2 DEF RecordVersion, TypeOK
    <3> QED BY <2>7, <3>1, <3>2 DEF UpsertBookkeeping, TypeOK, edgeVars
  <2> QED BY <1>3, <2>3, <2>4, <2>5, <2>6, <2>7 DEF WorkStep
<1>4. ASSUME NEW c \in Cleaners, CleanupProcess(c) PROVE TypeOK'
  <2> DEFINE named == {<<event[c].edge, m>> : m \in doomed[event[c].edge]}
  <2>1. DeletePointsById(named, c)
    BY <1>4, Zenon DEF CleanupProcess
  <2> HIDE DEF named
  <2>2. pc' \in [Procs -> PCs] /\ live' \in [Procs -> 0..MaxVersion]
    BY <2>1 DEF DeletePointsById, Goto, TypeOK, PCs, Procs
  <2>3. /\ point' \in [Keys -> 0..MaxVersion]
        /\ overtaken' \in SUBSET Keys /\ unbooked' \in SUBSET Keys
        /\ faults' \in 0..MaxFaults
    BY <2>1 DEF DeletePointsById, Fault, TypeOK
  <2> QED BY <1>4, <2>2, <2>3 DEF CleanupProcess, TypeOK, edgeVars
<1>5. ASSUME NEW ev \in Events, LeaseExpires(ev) PROVE TypeOK'
  <2>1. row' \in [Events -> Rows]
    BY <1>0, <1>5, RowTypes DEF LeaseExpires
  <2>2. faults' \in 0..MaxFaults
    BY <1>5 DEF LeaseExpires, Fault, TypeOK
  <2> QED BY <1>5, <2>1, <2>2 DEF LeaseExpires, TypeOK, Rows, edgeVars, procVars,
          ghosts
<1>6. ASSUME NEW f \in in_flight, LateUpsert(f) PROVE TypeOK'
  BY <1>6 DEF LateUpsert, Lands, TypeOK, Versions, edgeVars, procVars
<1>7. CASE UNCHANGED vars
  BY <1>7 DEF vars, TypeOK, edgeVars, procVars, ghosts
<1> QED BY <1>1, <1>2, <1>3, <1>4, <1>5, <1>6, <1>7, StepCases

-----------------------------------------------------------------------------
(* What no step takes back: the facts about a process hold on as long as   *)
(* the others take the steps                                               *)

\* Edges come, get newer and go, once.
EdgesForward ==
    \A e \in Edges : /\ edge[e] # "none" => edge'[e] # "none"
                     /\ edge[e] = "gone" => edge'[e] = "gone" /\ doomed'[e] = doomed[e]
                     /\ ver'[e] >= ver[e]

\* An event that was enqueued stays in the table.
RowsForward ==
    /\ \A ev \in Events : row[ev].st # "none" => row'[ev].st # "none"
    /\ dropped \subseteq dropped'

\* The bookkeeping of an edge that stays does not go back.
IndexForward ==
    \A k \in Keys : edge'[k[1]] = "live" => indexed'[k] >= indexed[k]

\* A point of an edge that stays goes back only by being overtaken; one of an
\* edge that is gone comes back only without a bookkeeping row.
PointsForward ==
    \A k \in Keys :
        /\ edge'[k[1]] = "live" =>
              /\ k \in overtaken => k \in overtaken'
              /\ point'[k] >= point[k] \/ k \in overtaken'
        /\ edge[k[1]] = "gone" =>
              (point[k] = 0 \/ k \in unbooked => point'[k] = 0 \/ k \in unbooked')

\* The key of an edge and a model.
LEMMA KeyParts ==
    /\ \A k \in Keys : k[1] \in Edges /\ k[2] \in Models /\ k = <<k[1], k[2]>>
    /\ \A e \in Edges, m \in Models :
          <<e, m>> \in Keys /\ <<e, m>>[1] = e /\ <<e, m>>[2] = m
    /\ \A ev \in Upserts : KeyOf(ev)[1] = ev.edge /\ KeyOf(ev)[2] = ev.model
BY DEF Keys, KeyOf, Upserts

\* No step takes an edge back.
LEMMA EdgesForwardStep ==
    ASSUME TypeOK, EdgesOK, [Next]_vars
    PROVE  EdgesForward
<1> USE ConstantsAssumption DEF TypeOK, EdgesForward
<1>1. ASSUME NEW e \in Edges, EdgesCreate(e) PROVE EdgesForward
  BY <1>1 DEF EdgesCreate, Create, EdgesOK, EdgeOK
<1>2. ASSUME NEW e \in Edges, EdgesUpdate(e) PROVE EdgesForward
  BY <1>2 DEF EdgesUpdate, Update
<1>3. ASSUME NEW e \in Edges, EdgesDelete(e) PROVE EdgesForward
  <2>1. \A d \in Edges : d # e => doomed'[d] = doomed[d]
    BY <1>3 DEF EdgesDelete, Remove, EnqueueDelete
  <2> QED BY <1>3, <2>1 DEF EdgesDelete, Remove
<1>4. CASE UNCHANGED <<edge, ver, doomed>>
  BY <1>4
<1>5. ASSUME NEW m \in Models,
             EmbedTypeVectors(m) \/ EmbedEndpoints(m) \/ DisableModel(m)
      PROVE  UNCHANGED <<edge, ver, doomed>>
  BY <1>5 DEF EmbedTypeVectors, EmbedEndpoints, DisableModel
<1>6. ASSUME NEW p \in Procs, QueueStep(p) PROVE UNCHANGED <<edge, ver, doomed>>
  BY <1>6 DEF QueueStep, ClaimBatch, NextEvent, MarkCompleted, MarkFailed,
     StepFails, Crash, ReleaseMyClaims, edgeVars
<1>7. ASSUME NEW w \in Workers, WorkStep(w) PROVE UNCHANGED <<edge, ver, doomed>>
  BY <1>7 DEF WorkStep, LoadLiveEdge, LoadIndexedEdgeVersion, LoadModelCollection,
     PrepareEdgeVector, ApplyEdgeVector, UpsertBookkeeping, edgeVars
<1>8. ASSUME NEW c \in Cleaners, CleanupProcess(c) PROVE UNCHANGED <<edge, ver, doomed>>
  BY <1>8 DEF CleanupProcess, edgeVars
<1>9. ASSUME \/ \E ev \in Events : LeaseExpires(ev)
             \/ \E f \in in_flight : LateUpsert(f)
             \/ UNCHANGED vars
      PROVE  UNCHANGED <<edge, ver, doomed>>
  BY <1>9 DEF LeaseExpires, LateUpsert, vars, edgeVars
<1> HIDE DEF TypeOK, EdgesForward
<1> QED
  BY <1>1, <1>2, <1>3, <1>4, <1>5, <1>6, <1>7, <1>8, <1>9, StepCases DEF AdminStep

\* No statement takes an event out of the table.
LEMMA RowsForwardStep ==
    ASSUME TypeOK, [Next]_vars
    PROVE  RowsForward
<1> USE DEF RowsForward
<1>0. row \in [Events -> Rows] /\ dropped \in SUBSET Upserts
  BY DEF TypeOK, Rows
<1>1. ASSUME NEW e \in Edges, EdgesCreate(e) \/ EdgesUpdate(e) PROVE RowsForward
  BY <1>0, <1>1 DEF EdgesCreate, Create, EdgesUpdate, Update, EnqueueUpserts, ghosts
<1>2. ASSUME NEW e \in Edges, EdgesDelete(e) PROVE RowsForward
  <2>1. \/ UNCHANGED row
        \/ row' = [row EXCEPT ![DeleteOf(e)] =
                      [st |-> "due", by |-> Nobody, tries |-> 0]]
    BY <1>2 DEF EdgesDelete, Remove, EnqueueDelete
  <2> QED BY <1>0, <1>2, <2>1 DEF EdgesDelete, ghosts
<1>3. CASE UNCHANGED <<row, dropped>>
  BY <1>3
<1>4. ASSUME NEW m \in Models,
             EmbedTypeVectors(m) \/ EmbedEndpoints(m) \/ DisableModel(m)
      PROVE  RowsForward
  BY <1>4 DEF EmbedTypeVectors, EmbedEndpoints, DisableModel, ghosts
<1>5. ASSUME NEW p \in Procs, QueueStep(p) PROVE RowsForward
  <2>1. UNCHANGED dropped
    BY <1>5 DEF QueueStep, ClaimBatch, NextEvent, MarkCompleted, MarkFailed,
       StepFails, Crash, ReleaseMyClaims, ghosts
  <2>2. CASE ClaimBatch(p)
    <3>1. \A ev \in Events : row[ev].st # "none" => Reaped(p)[ev].st # "none"
      BY <1>0 DEF Reaped, Released
    <3>2. PICK S : row' = [ev \in Events |->
                IF ev \in S
                THEN [st |-> "claimed", by |-> p, tries |-> Reaped(p)[ev].tries + 1]
                ELSE Reaped(p)[ev]]
      BY <2>2, Zenon DEF ClaimBatch
    <3> QED BY <2>1, <3>1, <3>2
  <2>3. CASE MarkCompleted(p)
    BY <1>0, <2>1, <2>3 DEF MarkCompleted, Rows
  <2>4. CASE MarkFailed(p)
    BY <1>0, <2>1, <2>4, ZenonT(60) DEF MarkFailed, Rows
  <2>5. CASE ReleaseMyClaims(p)
    BY <1>0, <2>1, <2>5 DEF ReleaseMyClaims, Released
  <2>6. CASE NextEvent(p, First(p)) \/ StepFails(p) \/ Crash(p)
    BY <2>1, <2>6 DEF NextEvent, StepFails, Crash
  <2> QED BY <1>5, <2>2, <2>3, <2>4, <2>5, <2>6 DEF QueueStep
<1>6. ASSUME NEW w \in Workers, WorkStep(w) PROVE RowsForward
  BY <1>6 DEF WorkStep, LoadLiveEdge, LoadIndexedEdgeVersion, LoadModelCollection,
     PrepareEdgeVector, ApplyEdgeVector, UpsertBookkeeping, ghosts
<1>7. ASSUME NEW c \in Cleaners, CleanupProcess(c) PROVE RowsForward
  BY <1>7 DEF CleanupProcess
<1>8. ASSUME NEW ev \in Events, LeaseExpires(ev) PROVE RowsForward
  BY <1>0, <1>8 DEF LeaseExpires, Rows, ghosts
<1>9. ASSUME NEW f \in in_flight, LateUpsert(f) PROVE RowsForward
  BY <1>9 DEF LateUpsert
<1>10. CASE UNCHANGED vars
  BY <1>10 DEF vars, ghosts
<1> QED
  BY <1>1, <1>2, <1>4, <1>5, <1>6, <1>7, <1>8, <1>9, <1>10, StepCases DEF AdminStep

\* Steps that write neither the bookkeeping nor the points.
LEMMA IndexUntouched ==
    ASSUME [Next]_vars
    PROVE  \/ UNCHANGED <<indexed, point, overtaken, unbooked>>
           \/ \E e \in Edges : EdgesDelete(e)
           \/ \E w \in Workers : ApplyEdgeVector(w) \/ UpsertBookkeeping(w)
           \/ \E c \in Cleaners : CleanupProcess(c)
           \/ \E f \in in_flight : LateUpsert(f)
<1> DEFINE Same == UNCHANGED <<indexed, point, overtaken, unbooked>>
<1>1. ASSUME NEW e \in Edges, EdgesCreate(e) \/ EdgesUpdate(e) PROVE Same
  BY <1>1 DEF EdgesCreate, EdgesUpdate, ghosts
<1>2. ASSUME NEW m \in Models,
             EmbedTypeVectors(m) \/ EmbedEndpoints(m) \/ DisableModel(m)
      PROVE  Same
  BY <1>2 DEF EmbedTypeVectors, EmbedEndpoints, DisableModel, ghosts
<1>3. ASSUME NEW p \in Procs, QueueStep(p) PROVE Same
  BY <1>3 DEF QueueStep, ClaimBatch, NextEvent, MarkCompleted, MarkFailed,
     StepFails, Crash, ReleaseMyClaims, ghosts
<1>4. ASSUME NEW w \in Workers, WorkStep(w)
      PROVE  Same \/ ApplyEdgeVector(w) \/ UpsertBookkeeping(w)
  BY <1>4 DEF WorkStep, LoadLiveEdge, LoadIndexedEdgeVersion, LoadModelCollection,
     PrepareEdgeVector, ghosts
<1>5. ASSUME NEW ev \in Events, LeaseExpires(ev) PROVE Same
  BY <1>5 DEF LeaseExpires, ghosts
<1>6. CASE UNCHANGED vars
  BY <1>6 DEF vars, ghosts
<1> HIDE DEF Same
<1> QED
  <2>1. \/ Same
        \/ \E e \in Edges : EdgesDelete(e)
        \/ \E w \in Workers : ApplyEdgeVector(w) \/ UpsertBookkeeping(w)
        \/ \E c \in Cleaners : CleanupProcess(c)
        \/ \E f \in in_flight : LateUpsert(f)
    BY <1>1, <1>2, <1>3, <1>4, <1>5, <1>6, StepCases, Zenon DEF AdminStep, Same
  <2> QED BY <2>1 DEF Same

\* Steps that leave the points and the requests under way alone.
LEMMA InFlightUntouched ==
    ASSUME [Next]_vars
    PROVE  \/ UNCHANGED point /\ UNCHANGED in_flight
           \/ \E w \in Workers : ApplyEdgeVector(w)
           \/ \E c \in Cleaners : CleanupProcess(c)
           \/ \E f \in in_flight : LateUpsert(f)
<1> DEFINE Same == UNCHANGED point /\ UNCHANGED in_flight
<1>1. ASSUME AdminStep PROVE Same
  BY <1>1 DEF AdminStep, EdgesCreate, EdgesUpdate, EdgesDelete,
     EmbedTypeVectors, EmbedEndpoints, DisableModel
<1>2. ASSUME NEW p \in Procs, QueueStep(p) PROVE Same
  BY <1>2 DEF QueueStep, ClaimBatch, NextEvent, MarkCompleted, MarkFailed,
     StepFails, Crash, ReleaseMyClaims
<1>3. ASSUME NEW w \in Workers, WorkStep(w)
      PROVE  Same \/ ApplyEdgeVector(w)
  BY <1>3 DEF WorkStep, LoadLiveEdge, LoadIndexedEdgeVersion,
     LoadModelCollection, PrepareEdgeVector, UpsertBookkeeping
<1>4. ASSUME NEW ev \in Events, LeaseExpires(ev) PROVE Same
  BY <1>4 DEF LeaseExpires
<1>5. CASE UNCHANGED vars
  BY <1>5 DEF vars
<1> HIDE DEF Same
<1> QED
  <2>1. \/ Same
        \/ \E w \in Workers : ApplyEdgeVector(w)
        \/ \E c \in Cleaners : CleanupProcess(c)
        \/ \E f \in in_flight : LateUpsert(f)
    BY <1>1, <1>2, <1>3, <1>4, <1>5, StepCases, Zenon DEF Same
  <2> QED BY <2>1 DEF Same

\* What a worker has in hand while it embeds: an upsert of its kind, and a
\* snapshot of the edge.
LEMMA InHand ==
    ASSUME TypeOK, HandsOK, NEW w \in Workers, pc[w] \in Embedding
    PROVE  /\ w \in Procs /\ event[w] \in Upserts /\ KeyOf(event[w]) \in Keys
           /\ event[w].edge \in Edges /\ KeyOf(event[w])[1] = event[w].edge
           /\ event[w].model \in Models /\ event[w].ver \in Versions
           /\ row[event[w]].st # "none"
           /\ pc[w] \in Snapshot => /\ live[w] \in Versions
                                    /\ event[w].ver <= live[w]
                                    /\ live[w] <= ver[event[w].edge]
<1>1. w \in Procs /\ Hand(w) /\ live[w] \in 0..MaxVersion
  BY DEF Procs, HandsOK, TypeOK
<1>2. event[w] \in Upserts /\ row[event[w]].st # "none"
  BY <1>1 DEF Hand, Holds, Between, Embedding, Snapshot, Jobs
<1>3. event[w].ver \in Versions
  BY <1>2, EventTypes
<1>4. pc[w] \in Snapshot => /\ live[w] \in Versions
                            /\ event[w].ver <= live[w]
                            /\ live[w] <= ver[event[w].edge]
  BY <1>1, <1>3, ConstantsAssumption DEF Hand, Snapshots, Versions
<1> QED BY <1>1, <1>2, <1>4, EventTypes, KeyParts

\* An upsert that is applied, at once or late.
LEMMA LandsForward ==
    ASSUME TypeOK, EdgesOK, NEW k \in Keys, NEW v \in Versions, Lands(k, v),
           UNCHANGED <<edge, indexed>>
    PROVE  PointsForward
<1>1. /\ \A j \in Keys : point[j] \in Nat
      /\ v \in Nat
  BY ConstantsAssumption DEF TypeOK, Versions
<1>2. /\ \A j \in Keys : point'[j] = IF j = k THEN v ELSE point[j]
      /\ overtaken' = IF v < point[k] THEN overtaken \cup {k} ELSE overtaken
      /\ unbooked' = IF indexed[k] = 0 THEN unbooked \cup {k} ELSE unbooked
  BY DEF Lands, TypeOK
<1>3. edge[k[1]] # "live" => indexed[k] = 0
  BY KeyParts DEF EdgesOK, EdgeOK
<1> QED BY <1>1, <1>2, <1>3 DEF PointsForward

\* The bookkeeping of an edge that stays does not go back.
LEMMA IndexForwardStep ==
    ASSUME TypeOK, EdgesOK, HandsOK, [Next]_vars
    PROVE  IndexForward
<1>0. \A k \in Keys : indexed[k] \in Nat
  BY ConstantsAssumption DEF TypeOK
<1>1. CASE UNCHANGED indexed
  BY <1>0, <1>1 DEF IndexForward
<1>2. ASSUME NEW e \in Edges, EdgesDelete(e) PROVE IndexForward
  BY <1>0, <1>2 DEF EdgesDelete, Remove, IndexForward, TypeOK
<1>3. ASSUME NEW w \in Workers, UpsertBookkeeping(w) PROVE IndexForward
  <2>1. KeyOf(event[w]) \in Keys /\ live[w] \in Versions
    BY <1>3, InHand DEF UpsertBookkeeping, Embedding, Snapshot
  <2>2. UNCHANGED indexed \/ RecordVersion(KeyOf(event[w]), live[w])
    BY <1>3, Zenon DEF UpsertBookkeeping
  <2> QED BY <1>0, <1>1, <2>1, <2>2 DEF RecordVersion, IndexForward, TypeOK, Versions
<1>4. ASSUME \/ \E w \in Workers : ApplyEdgeVector(w)
             \/ \E c \in Cleaners : CleanupProcess(c)
             \/ \E f \in in_flight : LateUpsert(f)
      PROVE  UNCHANGED indexed
  BY <1>4 DEF ApplyEdgeVector, CleanupProcess, LateUpsert
<1> QED BY <1>1, <1>2, <1>3, <1>4, IndexUntouched

\* A delete event is completed by points of an edge that is gone.
LEMMA CleanupGone ==
    ASSUME TypeOK, EdgesOK, HandsOK, NEW c \in Cleaners, pc[c] = "delete"
    PROVE  /\ c \in Procs /\ event[c].edge \in Edges /\ event[c] = DeleteOf(event[c].edge)
           /\ edge[event[c].edge] = "gone"
<1>1. c \in Procs /\ c \notin Workers /\ Hand(c)
  BY ConstantsAssumption DEF Procs, HandsOK
<1>2. event[c] \in Deletes /\ row[event[c]].st # "none"
  BY <1>1 DEF Hand, Holds, Between, Jobs
<1> QED BY <1>1, <1>2, EventTypes DEF EdgesOK, EdgeOK, TypeOK

\* The points go back only by being overtaken.
LEMMA PointsForwardStep ==
    ASSUME TypeOK, EdgesOK, HandsOK, [Next]_vars
    PROVE  PointsForward
<1>0. \A k \in Keys : point[k] \in Nat
  BY ConstantsAssumption DEF TypeOK
<1>1. CASE UNCHANGED <<point, overtaken, unbooked>>
  BY <1>0, <1>1 DEF PointsForward
<1>2. ASSUME NEW e \in Edges, EdgesDelete(e) PROVE UNCHANGED <<point, overtaken, unbooked>>
  BY <1>2 DEF EdgesDelete, ghosts
<1>3. ASSUME NEW w \in Workers, ApplyEdgeVector(w) PROVE PointsForward
  <2>1. KeyOf(event[w]) \in Keys /\ live[w] \in Versions
    BY <1>3, InHand DEF ApplyEdgeVector, Embedding, Snapshot
  <2>2. UNCHANGED <<edge, indexed>>
    BY <1>3 DEF ApplyEdgeVector, edgeVars
  <2>3. UNCHANGED <<point, overtaken, unbooked>> \/ Lands(KeyOf(event[w]), live[w])
    BY <1>3, Zenon DEF ApplyEdgeVector, UpsertRaw
  <2> QED BY <1>1, <2>1, <2>2, <2>3, LandsForward
<1>4. ASSUME NEW w \in Workers, UpsertBookkeeping(w) PROVE PointsForward
  <2>1. KeyOf(event[w])[1] = event[w].edge
    BY <1>4, InHand DEF UpsertBookkeeping, Embedding, Snapshot
  <2>2. /\ UNCHANGED <<point, overtaken>>
        /\ \/ UNCHANGED unbooked
           \/ edge[event[w].edge] = "live" /\ unbooked' = unbooked \ {KeyOf(event[w])}
    BY <1>4 DEF UpsertBookkeeping
  <2> QED BY <1>0, <2>1, <2>2 DEF PointsForward
<1>5. ASSUME NEW c \in Cleaners, CleanupProcess(c) PROVE PointsForward
  <2> DEFINE named == {<<event[c].edge, m>> : m \in doomed[event[c].edge]}
  <2>1. /\ point' = [k \in Keys |-> IF k \in named THEN 0 ELSE point[k]]
        /\ overtaken' = overtaken \ named
        /\ unbooked' = unbooked \ named
        /\ UNCHANGED edge
    BY <1>5, Zenon DEF CleanupProcess, DeletePointsById, edgeVars
  <2>2. \A k \in Keys : k \in named => edge[k[1]] = "gone"
    BY <1>5, CleanupGone DEF CleanupProcess
  <2> HIDE DEF named
  <2> QED BY <1>0, <2>1, <2>2 DEF PointsForward
<1>6. ASSUME NEW f \in in_flight, LateUpsert(f) PROVE PointsForward
  BY <1>6, LandsForward DEF LateUpsert, TypeOK, edgeVars
<1> QED BY <1>1, <1>2, <1>3, <1>4, <1>5, <1>6, IndexUntouched

-----------------------------------------------------------------------------
(* What the processes have in hand                                         *)

\* The step leaves the state of process p alone.
Idles(p) == /\ pc'[p] = pc[p] /\ batch'[p] = batch[p]
            /\ event'[p] = event[p] /\ live'[p] = live[p]

Forward == EdgesForward /\ RowsForward /\ IndexForward /\ PointsForward

\* No step takes anything back.
LEMMA ForwardStep ==
    ASSUME TypeOK, EdgesOK, HandsOK, [Next]_vars
    PROVE  Forward
BY EdgesForwardStep, RowsForwardStep, IndexForwardStep, PointsForwardStep DEF Forward

\* The numbers that are compared.
LEMMA Numbers ==
    ASSUME TypeOK
    PROVE  /\ \A e \in Edges : ver[e] \in Nat
           /\ \A k \in Keys : indexed[k] \in Nat /\ point[k] \in Nat
           /\ \A p \in Procs : live[p] \in Nat
           /\ \A ev \in Upserts : ev.ver \in Nat /\ ev.ver >= 1
BY ConstantsAssumption DEF TypeOK, Upserts, Versions

\* The same after the step.
LEMMA NextNumbers ==
    ASSUME TypeOK'
    PROVE  /\ \A e \in Edges : ver'[e] \in Nat
           /\ \A k \in Keys : indexed'[k] \in Nat /\ point'[k] \in Nat
           /\ \A p \in Procs : live'[p] \in Nat
BY ConstantsAssumption DEF TypeOK

\* What process p has in hand stays good while the others take steps.
LEMMA HandKept ==
    ASSUME TypeOK, TypeOK', EdgesOK, UpsertsOK, Forward, NEW p \in Procs, Hand(p),
           Idles(p)
    PROVE  Hand(p)'
<1> USE DEF Forward, Idles
<1>1. Holds(p)'
  <2>1. batch[p] \subseteq Events
    BY DEF TypeOK
  <2>2. pc[p] \notin Between => event[p] \in Events
    BY EventTypes DEF Hand, Holds
  <2> QED BY <2>1, <2>2 DEF Hand, Holds, RowsForward
<1>2. ASSUME pc[p] \in Embedding \cup {"completed"}, p \in Workers
      PROVE  event[p] \in Upserts /\ event[p].edge \in Edges
             /\ KeyOf(event[p]) \in Keys /\ KeyOf(event[p])[1] = event[p].edge
  BY <1>2, EventTypes, KeyParts
     DEF Hand, Holds, Embedding, Snapshot, Between, Jobs
<1>3. ASSUME pc[p] \in Snapshot PROVE p \in Workers
  BY <1>3 DEF Hand, Holds, Between, Snapshot, Settled, Procs
<1>4. Snapshots(p)'
  BY <1>2, <1>3, Numbers, NextNumbers DEF Hand, Snapshots, EdgesForward, Embedding
<1>5. Written(p)'
  <2> SUFFICES ASSUME pc[p] = "book", edge'[event[p].edge] = "live"
               PROVE  \/ point'[KeyOf(event[p])] >= live[p]
                      \/ KeyOf(event[p]) \in overtaken'
    BY DEF Written, KeyOf
  <2>1. /\ event[p] \in Upserts /\ event[p].edge \in Edges
        /\ KeyOf(event[p]) \in Keys /\ KeyOf(event[p])[1] = event[p].edge
        /\ event[p] \in Jobs(p) /\ row[event[p]].st # "none"
    BY <1>2, <1>3 DEF Embedding, Snapshot, Hand, Holds, Between
  <2>2. edge[event[p].edge] # "gone"
    BY <2>1 DEF EdgesForward
  <2>3. edge[event[p].edge] # "none"
    BY <2>1 DEF UpsertsOK
  <2>4. edge[event[p].edge] = "live"
    BY <2>1, <2>2, <2>3 DEF TypeOK
  <2>5. point[KeyOf(event[p])] >= live[p] \/ KeyOf(event[p]) \in overtaken
    BY <2>4 DEF Hand, Written
  <2> QED BY <2>1, <2>5, Numbers, NextNumbers DEF PointsForward
<1>6. Embedded(p)'
  <2> SUFFICES ASSUME p \in Workers, pc[p] = "completed",
                      edge'[event[p].edge] = "live"
               PROVE  \/ indexed'[KeyOf(event[p])] >= event[p].ver
                      \/ event[p] \in dropped'
    BY DEF Embedded, KeyOf
  <2>1. /\ event[p] \in Upserts /\ event[p].edge \in Edges
        /\ KeyOf(event[p]) \in Keys /\ KeyOf(event[p])[1] = event[p].edge
        /\ row[event[p]].st # "none"
    BY <1>2 DEF Hand, Holds, Between
  <2>2. edge[event[p].edge] = "live"
    BY <2>1 DEF EdgesForward, TypeOK, UpsertsOK
  <2>3. indexed[KeyOf(event[p])] >= event[p].ver \/ event[p] \in dropped
    BY <2>2 DEF Hand, Embedded
  <2> QED BY <2>1, <2>3, Numbers, NextNumbers DEF IndexForward, RowsForward
<1>7. Cleaned(p)'
  <2> SUFFICES ASSUME p \in Cleaners, pc[p] = "completed",
                      NEW m \in doomed'[event[p].edge]
               PROVE  \/ point'[<<event[p].edge, m>>] = 0
                      \/ <<event[p].edge, m>> \in unbooked'
    BY DEF Cleaned
  <2>1. /\ event[p].edge \in Edges /\ edge[event[p].edge] = "gone"
    <3>1. event[p] \in Deletes /\ row[event[p]].st # "none"
      BY ConstantsAssumption DEF Hand, Holds, Between, Jobs
    <3> QED BY <3>1, EventTypes DEF EdgesOK, EdgeOK
  <2>2. m \in doomed[event[p].edge] /\ m \in Models
    BY <2>1 DEF EdgesForward, TypeOK
  <2> QED BY <2>1, <2>2, KeyParts DEF Hand, Cleaned, PointsForward
<1> QED BY <1>1, <1>4, <1>5, <1>6, <1>7 DEF Hand

\* The steps of one process leave the others alone.
LEMMA OthersIdle ==
    ASSUME TypeOK, NEW p \in Procs,
           QueueStep(p) \/ WorkStep(p) \/ CleanupProcess(p)
    PROVE  \A q \in Procs : q # p => Idles(q)
<1> USE DEF TypeOK, Idles
<1>1. CASE ClaimBatch(p)
  <2>1. PICK S, l : batch' = [batch EXCEPT ![p] = S] /\ pc' = [pc EXCEPT ![p] = l]
    BY <1>1, Zenon DEF ClaimBatch
  <2>2. UNCHANGED <<event, live>>
    BY <1>1 DEF ClaimBatch
  <2> QED BY <2>1, <2>2
<1>2. CASE NextEvent(p, First(p))
  BY <1>2 DEF NextEvent
<1>3. CASE MarkCompleted(p) \/ MarkFailed(p)
  BY <1>3 DEF MarkCompleted, MarkFailed, Put
<1>4. CASE StepFails(p) \/ Crash(p) \/ ReleaseMyClaims(p)
  BY <1>4 DEF StepFails, Goto, Crash, ReleaseMyClaims
<1>5. CASE LoadLiveEdge(p) \/ LoadIndexedEdgeVersion(p) \/ LoadModelCollection(p)
           \/ PrepareEdgeVector(p)
  BY <1>5 DEF LoadLiveEdge, LoadIndexedEdgeVersion, LoadModelCollection,
     PrepareEdgeVector, Goto
<1>6. CASE ApplyEdgeVector(p) \/ UpsertBookkeeping(p)
  BY <1>6 DEF ApplyEdgeVector, UpsertRaw, UpsertBookkeeping, Goto
<1>7. CASE CleanupProcess(p)
  BY <1>7 DEF CleanupProcess, DeletePointsById, Goto
<1> QED BY <1>1, <1>2, <1>3, <1>4, <1>5, <1>6, <1>7 DEF QueueStep, WorkStep

\* Moving on: the program counter and the snapshot afterwards.
LEMMA GotoDef ==
    ASSUME TypeOK, NEW p \in Procs, NEW label, Goto(p, label)
    PROVE  /\ pc'[p] = label
           /\ label \notin Settled => live'[p] = live[p]
BY DEF TypeOK, Goto, Settled

\* A process that took events, put one down, crashed or gave all back holds
\* only what was enqueued for it.
LEMMA HandOfQueue ==
    ASSUME TypeOK, TypeOK', UpsertsOK, Forward, NEW p \in Procs, Hand(p), QueueStep(p)
    PROVE  Hand(p)'
<1>0. /\ batch[p] \subseteq Jobs(p) /\ Jobs(p) \subseteq Events
      /\ \A ev \in Events : row[ev].st # "none" => row'[ev].st # "none"
      /\ \A ev \in batch[p] : row'[ev].st # "none"
  BY EventTypes DEF Hand, Holds, Forward, RowsForward
<1>1. ASSUME pc'[p] \in Between, batch'[p] \subseteq Jobs(p),
             \A ev \in batch'[p] : row'[ev].st # "none"
      PROVE  Hand(p)'
  BY <1>1 DEF Hand, Holds, Snapshots, Written, Embedded, Cleaned, Between, Snapshot,
     Settled
<1>2. CASE ClaimBatch(p)
  <2>1. PICK S \in SUBSET Claimable(p, Reaped(p)) :
           /\ batch' = [batch EXCEPT ![p] = S]
           /\ row' = [ev \in Events |->
                IF ev \in S
                THEN [st |-> "claimed", by |-> p, tries |-> Reaped(p)[ev].tries + 1]
                ELSE Reaped(p)[ev]]
           /\ pc' = [pc EXCEPT ![p] = IF S = {} THEN "idle" ELSE "drain"]
    BY <1>2, Zenon DEF ClaimBatch
  <2>2. S \subseteq Jobs(p)
    BY DEF Claimable
  <2>3. batch'[p] = S /\ pc'[p] \in Between
    BY <2>1 DEF TypeOK, Between
  <2>4. \A ev \in S : row'[ev].st # "none"
    BY <1>0, <2>1, <2>2
  <2> QED BY <1>1, <2>2, <2>3, <2>4
<1>3. CASE NextEvent(p, First(p))
  <2>1. PICK ev \in batch[p] :
           /\ batch' = [batch EXCEPT ![p] = @ \ {ev}]
           /\ event' = [event EXCEPT ![p] = ev]
           /\ pc' = [pc EXCEPT ![p] = First(p)]
    BY <1>3, Zenon DEF NextEvent
  <2>2. /\ batch'[p] = batch[p] \ {ev} /\ event'[p] = ev /\ pc'[p] = First(p)
    BY <2>1 DEF TypeOK
  <2>3. Holds(p)'
    BY <1>0, <2>2, ConstantsAssumption
       DEF Holds, First, Between, Embedding, Settled, Procs
  <2> QED BY <2>2, <2>3 DEF Hand, Snapshots, Written, Embedded, Cleaned, First, Snapshot
<1>4. CASE MarkCompleted(p) \/ MarkFailed(p)
  <2>1. pc'[p] \in Between /\ batch'[p] = batch[p]
    BY <1>4 DEF MarkCompleted, MarkFailed, Put, Between, TypeOK
  <2> QED BY <1>0, <1>1, <2>1
<1>5. CASE StepFails(p)
  <2>1. /\ pc'[p] = "failed" /\ UNCHANGED <<event, batch>>
        /\ pc[p] \notin Between
    BY <1>5, GotoDef DEF StepFails, Between
  <2>2. event[p] \in Jobs(p) /\ row'[event[p]].st # "none"
    BY <1>0, <2>1 DEF Hand, Holds
  <2>3. Holds(p)'
    BY <1>0, <2>1, <2>2 DEF Holds, Settled
  <2> QED BY <2>1, <2>3 DEF Hand, Snapshots, Written, Embedded, Cleaned, Snapshot
<1>6. CASE Crash(p) \/ ReleaseMyClaims(p)
  <2>1. pc'[p] \in Between /\ batch'[p] = {}
    BY <1>6 DEF Crash, ReleaseMyClaims, Between, TypeOK
  <2> QED BY <1>1, <2>1
<1> QED BY <1>2, <1>3, <1>4, <1>5, <1>6 DEF QueueStep

\* What a worker knows after each step of process().
LEMMA HandOfWork ==
    ASSUME TypeOK, TypeOK', EdgesOK, UpsertsOK, HandsOK, Forward,
           NEW w \in Workers, WorkStep(w)
    PROVE  Hand(w)'
<1>0. /\ pc[w] \in Embedding /\ UNCHANGED <<event, batch, edge, ver>>
  BY DEF WorkStep, LoadLiveEdge, LoadIndexedEdgeVersion, LoadModelCollection,
     PrepareEdgeVector, ApplyEdgeVector, UpsertBookkeeping, edgeVars, Embedding,
     Snapshot
<1>1. /\ w \in Procs /\ event[w] \in Upserts /\ KeyOf(event[w]) \in Keys
      /\ event[w].edge \in Edges /\ KeyOf(event[w])[1] = event[w].edge
      /\ event[w].ver \in Nat /\ row[event[w]].st # "none"
      /\ w \notin Cleaners
  BY <1>0, InHand, Numbers, ConstantsAssumption
<1>2. pc[w] \in Snapshot => /\ live[w] \in Versions /\ event[w].ver <= live[w]
                            /\ live[w] <= ver[event[w].edge]
  BY <1>0, InHand
<1>3. ASSUME pc'[w] \in Embedding \cup Settled PROVE Holds(w)' /\ Cleaned(w)'
  <2>1. /\ batch[w] \subseteq Jobs(w)
        /\ \A ev \in batch[w] : row'[ev].st # "none"
        /\ row'[event[w]].st # "none"
    BY <1>1, EventTypes DEF HandsOK, Hand, Holds, Forward, RowsForward
  <2>2. event[w] \in Jobs(w)
    BY <1>1 DEF Jobs
  <2> QED BY <1>0, <1>1, <1>3, <2>1, <2>2 DEF Holds, Cleaned
<1>4. ASSUME pc'[w] \in Snapshot \ {"book"}, event[w].ver <= live'[w],
             live'[w] <= ver[event[w].edge]
      PROVE  Hand(w)'
  BY <1>0, <1>3, <1>4
     DEF Hand, Snapshots, Written, Embedded, Snapshot, Embedding
<1>5. ASSUME pc'[w] = "failed" PROVE Hand(w)'
  BY <1>3, <1>5 DEF Hand, Snapshots, Written, Embedded, Snapshot, Settled
<1>6. ASSUME pc'[w] = "completed",
             edge[event[w].edge] = "live" =>
                indexed'[KeyOf(event[w])] >= event[w].ver \/ event[w] \in dropped'
      PROVE  Hand(w)'
  BY <1>0, <1>3, <1>6 DEF Hand, Snapshots, Written, Embedded, Snapshot, Settled, KeyOf
<1>7. CASE LoadLiveEdge(w)
  <2>1. CASE edge[event[w].edge] = "live"
    <3>1. pc'[w] = "gate" /\ live'[w] = ver[event[w].edge]
      BY <1>1, <1>7, <2>1 DEF LoadLiveEdge, TypeOK
    <3> QED BY <1>1, <1>4, <3>1, Numbers DEF UpsertsOK, Snapshot
  <2>2. CASE edge[event[w].edge] # "live"
    BY <1>1, <1>6, <1>7, <2>2, GotoDef DEF LoadLiveEdge
  <2> QED BY <2>1, <2>2
<1>8. CASE LoadIndexedEdgeVersion(w)
  <2>1. /\ pc[w] = "gate" /\ UNCHANGED indexed
        /\ Goto(w, IF indexed[KeyOf(event[w])] >= live[w] THEN "completed" ELSE "model")
    BY <1>8 DEF LoadIndexedEdgeVersion
  <2>2. CASE indexed[KeyOf(event[w])] >= live[w]
    BY <1>1, <1>2, <1>6, <2>1, <2>2, GotoDef, Numbers DEF Snapshot, Versions
  <2>3. CASE ~(indexed[KeyOf(event[w])] >= live[w])
    BY <1>1, <1>2, <1>4, <2>1, <2>3, GotoDef DEF Snapshot, Settled
  <2> QED BY <2>2, <2>3
<1>9. CASE LoadModelCollection(w)
  <2>1. CASE event[w].model \in enabled
    BY <1>1, <1>2, <1>4, <1>9, <2>1, GotoDef DEF LoadModelCollection, Snapshot, Settled
  <2>2. CASE event[w].model \notin enabled
    BY <1>1, <1>6, <1>9, <2>2, GotoDef DEF LoadModelCollection
  <2> QED BY <2>1, <2>2
<1>10. CASE PrepareEdgeVector(w)
  BY <1>1, <1>2, <1>4, <1>5, <1>10, GotoDef DEF PrepareEdgeVector, Snapshot, Settled
<1>11. CASE ApplyEdgeVector(w)
  <2>1. CASE Goto(w, "failed")
    BY <1>1, <1>5, <2>1, GotoDef
  <2>2. CASE Lands(KeyOf(event[w]), live[w]) /\ Goto(w, "book")
    <3>1. point'[KeyOf(event[w])] = live[w]
      BY <1>1, <2>2 DEF Lands, TypeOK
    <3>2. pc'[w] = "book" /\ live'[w] = live[w] /\ pc[w] \in Snapshot
      BY <1>1, <1>11, <2>2, GotoDef DEF ApplyEdgeVector, Snapshot, Settled
    <3>3. Written(w)'
      BY <1>0, <1>2, <3>1, <3>2 DEF Written, KeyOf, Versions
    <3>4. Snapshots(w)'
      BY <1>0, <1>2, <3>2 DEF Snapshots
    <3> QED BY <1>3, <3>2, <3>3, <3>4 DEF Hand, Embedded, Embedding, Snapshot
  <2> QED BY <1>11, <2>1, <2>2, Zenon DEF ApplyEdgeVector, UpsertRaw
<1>12. CASE UpsertBookkeeping(w)
  <2>1. CASE edge[event[w].edge] = "live"
    <3>1. /\ pc[w] = "book" /\ RecordVersion(KeyOf(event[w]), live[w])
          /\ Goto(w, "completed")
      BY <1>12, <2>1, Zenon DEF UpsertBookkeeping
    <3>2. live[w] \in Nat /\ event[w].ver <= live[w]
      BY <1>2, <3>1 DEF Snapshot, Versions
    <3>3. indexed'[KeyOf(event[w])] >= live[w]
      BY <1>1, <3>1, <3>2, Numbers DEF RecordVersion, TypeOK
    <3>4. indexed'[KeyOf(event[w])] \in Nat
      BY <1>1, NextNumbers
    <3> QED BY <1>1, <1>6, <3>1, <3>2, <3>3, <3>4, GotoDef
  <2>2. CASE edge[event[w].edge] # "live"
    BY <1>1, <1>5, <1>12, <2>2, GotoDef DEF UpsertBookkeeping
  <2> QED BY <2>1, <2>2
<1> QED BY <1>7, <1>8, <1>9, <1>10, <1>11, <1>12 DEF WorkStep

\* What a cleaner knows once the points are deleted.
LEMMA HandOfCleanup ==
    ASSUME TypeOK, TypeOK', EdgesOK, HandsOK, Forward,
           NEW c \in Cleaners, CleanupProcess(c)
    PROVE  Hand(c)'
<1>1. /\ pc[c] = "delete" /\ UNCHANGED <<event, batch, doomed, row>>
  BY DEF CleanupProcess
<1>2. c \in Procs /\ c \notin Workers /\ event[c].edge \in Edges
  BY <1>1, CleanupGone, ConstantsAssumption
<1>3. pc'[c] \in Settled
  BY <1>2, GotoDef DEF CleanupProcess, DeletePointsById, Settled
<1>4. Holds(c)'
  BY <1>1, <1>2, <1>3 DEF HandsOK, Hand, Holds, Between, Settled, Jobs
<1>5. Cleaned(c)'
  <2> DEFINE named == {<<event[c].edge, m>> : m \in doomed[event[c].edge]}
  <2>1. point' = [k \in Keys |-> IF k \in named THEN 0 ELSE point[k]]
    BY Zenon DEF CleanupProcess, DeletePointsById
  <2>2. \A m \in doomed[event[c].edge] : <<event[c].edge, m>> \in Keys
    BY <1>2, KeyParts DEF TypeOK
  <2> QED BY <1>1, <2>1, <2>2 DEF Cleaned
<1> QED
  BY <1>2, <1>3, <1>4, <1>5 DEF Hand, Snapshots, Written, Embedded, Snapshot, Settled

\* Whatever step is taken, every process has good things in hand.
LEMMA HandsStep ==
    ASSUME TypeOK, TypeOK', EdgesOK, UpsertsOK, HandsOK, [Next]_vars
    PROVE  HandsOK'
<1>1. Forward
  BY ForwardStep
<1>2. ASSUME NEW p \in Procs, Idles(p) PROVE Hand(p)'
  BY <1>1, <1>2, HandKept DEF HandsOK
<1>3. ASSUME NEW p \in Procs, QueueStep(p) PROVE HandsOK'
  <2>1. Hand(p)'
    BY <1>1, <1>3, HandOfQueue DEF HandsOK
  <2> QED BY <1>2, <1>3, <2>1, OthersIdle DEF HandsOK
<1>4. ASSUME NEW w \in Workers, WorkStep(w) PROVE HandsOK'
  <2>1. Hand(w)' /\ w \in Procs
    BY <1>1, <1>4, HandOfWork DEF Procs
  <2> QED BY <1>2, <1>4, <2>1, OthersIdle DEF HandsOK
<1>5. ASSUME NEW c \in Cleaners, CleanupProcess(c) PROVE HandsOK'
  <2>1. Hand(c)' /\ c \in Procs
    BY <1>1, <1>5, HandOfCleanup DEF Procs
  <2> QED BY <1>2, <1>5, <2>1, OthersIdle DEF HandsOK
<1>6. ASSUME UNCHANGED procVars PROVE HandsOK'
  BY <1>2, <1>6 DEF HandsOK, Idles, procVars
<1>7. ASSUME AdminStep PROVE UNCHANGED procVars
  BY <1>7 DEF AdminStep, EdgesCreate, EdgesUpdate, EdgesDelete, EmbedTypeVectors,
     EmbedEndpoints, DisableModel, procVars
<1>8. ASSUME \/ \E ev \in Events : LeaseExpires(ev)
             \/ \E f \in in_flight : LateUpsert(f)
             \/ UNCHANGED vars
      PROVE  UNCHANGED procVars
  BY <1>8 DEF LeaseExpires, LateUpsert, vars, procVars
<1> QED BY <1>3, <1>4, <1>5, <1>6, <1>7, <1>8, StepCases

-----------------------------------------------------------------------------
(* The edges, and the events about them                                    *)

\* Outside the administration a row that is not there stays away.
LEMMA AbsentRows ==
    ASSUME TypeOK, AbsentOK, HandsOK, [Next]_vars, ~AdminStep
    PROVE  \A ev \in Events : row[ev].st = "none" => row'[ev] = row[ev]
<1> DEFINE Same == \A ev \in Events : row[ev].st = "none" => row'[ev] = row[ev]
<1>0. row \in [Events -> Rows]
  BY DEF TypeOK, Rows
<1>1. CASE UNCHANGED row
  BY <1>1
<1>2. ASSUME NEW p \in Procs, QueueStep(p) PROVE Same
  <2>1. CASE ClaimBatch(p)
    <3>1. \A ev \in Events : row[ev].st = "none" => Reaped(p)[ev] = row[ev]
      BY <1>0 DEF Reaped
    <3>2. PICK S \in SUBSET Claimable(p, Reaped(p)) : row' = [ev \in Events |->
                IF ev \in S
                THEN [st |-> "claimed", by |-> p, tries |-> Reaped(p)[ev].tries + 1]
                ELSE Reaped(p)[ev]]
      BY <2>1, Zenon DEF ClaimBatch
    <3>3. \A ev \in S : Reaped(p)[ev].st = "due"
      BY DEF Claimable
    <3> QED BY <3>1, <3>2, <3>3
  <2>2. CASE MarkCompleted(p) \/ MarkFailed(p)
    <3>1. event[p] \in Events /\ row[event[p]].st # "none"
      BY <2>2, EventTypes DEF MarkCompleted, MarkFailed, HandsOK, Hand, Holds, Between
    <3>2. row' = row \/ \E r : row' = [row EXCEPT ![event[p]] = r]
      BY <2>2, Zenon DEF MarkCompleted, MarkFailed
    <3> QED BY <1>0, <3>1, <3>2
  <2>3. CASE ReleaseMyClaims(p)
    BY <1>0, <2>3, ConstantsAssumption DEF ReleaseMyClaims, AbsentOK
  <2>4. CASE NextEvent(p, First(p)) \/ StepFails(p) \/ Crash(p)
    BY <1>1, <2>4 DEF NextEvent, StepFails, Crash
  <2> QED BY <1>2, <2>1, <2>2, <2>3, <2>4 DEF QueueStep
<1>3. ASSUME NEW ev \in Events, LeaseExpires(ev) PROVE Same
  BY <1>0, <1>3 DEF LeaseExpires
<1>4. ASSUME \/ \E w \in Workers : WorkStep(w)
             \/ \E c \in Cleaners : CleanupProcess(c)
             \/ \E f \in in_flight : LateUpsert(f)
             \/ UNCHANGED vars
      PROVE  UNCHANGED row
  BY <1>4 DEF WorkStep, LoadLiveEdge, LoadIndexedEdgeVersion, LoadModelCollection,
     PrepareEdgeVector, ApplyEdgeVector, UpsertBookkeeping, CleanupProcess,
     LateUpsert, vars
<1> QED BY <1>1, <1>2, <1>3, <1>4, StepCases

\* What the administration enqueues: the upserts of the version an edge has
\* just got, and the delete of an edge that has just gone.
LEMMA AdminRows ==
    ASSUME TypeOK, AbsentOK, AdminStep
    PROVE  /\ AbsentOK'
           /\ \A ev \in Upserts : row[ev].st = "none" /\ row'[ev].st # "none" =>
                 edge'[ev.edge] = "live" /\ ev.ver = ver'[ev.edge]
           /\ \A e \in Edges : row'[DeleteOf(e)] # row[DeleteOf(e)] => edge'[e] = "gone"
           /\ \A e \in Edges : doomed'[e] # doomed[e] => edge'[e] = "gone"
<1>0. row \in [Events -> Rows]
  BY DEF TypeOK, Rows
<1>1. ASSUME NEW e \in Edges, NEW v \in Versions, EnqueueUpserts(e, v),
             edge'[e] = "live", ver'[e] = v, UNCHANGED doomed
      PROVE  /\ AbsentOK'
             /\ \A ev \in Upserts : row[ev].st = "none" /\ row'[ev].st # "none" =>
                   edge'[ev.edge] = "live" /\ ev.ver = ver'[ev.edge]
             /\ \A d \in Edges : row'[DeleteOf(d)] = row[DeleteOf(d)]
  <2>1. \A ev \in Events : row'[ev] =
           IF ev.edge = e /\ ev.model \in enabled /\ ev.ver = v
           THEN [st |-> "due", by |-> Nobody, tries |-> 0] ELSE row[ev]
    BY <1>1 DEF EnqueueUpserts
  <2>2. \A d \in Edges : DeleteOf(d) \in Events /\ DeleteOf(d).model \notin enabled
    BY EventTypes, ConstantsAssumption DEF DeleteOf, TypeOK
  <2>3. AbsentOK'
    BY <2>1 DEF AbsentOK
  <2> QED BY <1>1, <2>1, <2>2, <2>3, EventTypes
<1>2. ASSUME NEW e \in Edges, EdgesCreate(e)
      PROVE  EnqueueUpserts(e, 1) /\ edge'[e] = "live" /\ ver'[e] = 1
             /\ 1 \in Versions /\ UNCHANGED doomed
  BY <1>2, ConstantsAssumption DEF EdgesCreate, Create, TypeOK, Versions
<1>3. ASSUME NEW e \in Edges, EdgesUpdate(e)
      PROVE  /\ EnqueueUpserts(e, ver[e] + 1) /\ edge'[e] = "live"
             /\ ver'[e] = ver[e] + 1 /\ ver[e] + 1 \in Versions /\ UNCHANGED doomed
  BY <1>3, ConstantsAssumption DEF EdgesUpdate, Update, TypeOK, Versions
<1>4. ASSUME NEW e \in Edges, EdgesDelete(e)
      PROVE  /\ AbsentOK'
             /\ \A ev \in Upserts : row'[ev] = row[ev]
             /\ \A d \in Edges : row'[DeleteOf(d)] # row[DeleteOf(d)] => edge'[d] = "gone"
             /\ \A d \in Edges : doomed'[d] # doomed[d] => edge'[d] = "gone"
  <2>1. edge' = [edge EXCEPT ![e] = "gone"] /\ edge'[e] = "gone"
    BY <1>4 DEF EdgesDelete, Remove, TypeOK
  <2>2. \/ UNCHANGED <<row, doomed>>
        \/ /\ row' = [row EXCEPT ![DeleteOf(e)] =
                         [st |-> "due", by |-> Nobody, tries |-> 0]]
           /\ \E known : doomed' = [doomed EXCEPT ![e] = known]
    BY <1>4, Zenon DEF EdgesDelete, Remove, EnqueueDelete
  <2>3. \A d \in Edges : DeleteOf(d) \in Events /\ (DeleteOf(d) = DeleteOf(e) => d = e)
    BY EventTypes DEF DeleteOf
  <2>4. \A ev \in Upserts : ev # DeleteOf(e) /\ ev \in Events
    BY EventTypes
  <2>5. AbsentOK'
    BY <1>0, <2>2, <2>3 DEF AbsentOK
  <2>6. doomed \in [Edges -> SUBSET Models]
    BY DEF TypeOK
  <2> QED BY <1>0, <2>1, <2>2, <2>3, <2>4, <2>5, <2>6
<1>5. ASSUME NEW m \in Models,
             EmbedTypeVectors(m) \/ EmbedEndpoints(m) \/ DisableModel(m)
      PROVE  UNCHANGED <<row, doomed>>
  BY <1>5 DEF EmbedTypeVectors, EmbedEndpoints, DisableModel
<1>6. ASSUME UNCHANGED row PROVE AbsentOK'
  BY <1>6 DEF AbsentOK
<1>7. CASE \E e \in Edges : EdgesCreate(e)
  BY <1>1, <1>2, <1>7
<1>8. CASE \E e \in Edges : EdgesUpdate(e)
  BY <1>1, <1>3, <1>8
<1>9. CASE \E e \in Edges : EdgesDelete(e)
  BY <1>4, <1>9
<1> QED BY <1>5, <1>6, <1>7, <1>8, <1>9 DEF AdminStep

\* A row that is not there stays nobody's.
LEMMA AbsentStep ==
    ASSUME TypeOK, AbsentOK, HandsOK, [Next]_vars
    PROVE  AbsentOK'
<1>1. CASE AdminStep
  BY <1>1, AdminRows
<1>2. CASE ~AdminStep
  BY <1>2, AbsentRows, RowsForwardStep DEF AbsentOK, RowsForward
<1> QED BY <1>1, <1>2

\* Upsert events stay behind their edges.
LEMMA UpsertsStep ==
    ASSUME TypeOK, TypeOK', EdgesOK, UpsertsOK, AbsentOK, HandsOK, [Next]_vars
    PROVE  UpsertsOK'
<1> SUFFICES ASSUME NEW ev \in Upserts, row'[ev].st # "none"
             PROVE  edge'[ev.edge] # "none" /\ ev.ver <= ver'[ev.edge]
  BY DEF UpsertsOK
<1>0. /\ ev \in Events /\ ev.edge \in Edges /\ ev.ver \in Nat
      /\ ver[ev.edge] \in Nat /\ ver'[ev.edge] \in Nat
  BY EventTypes, Numbers, NextNumbers
<1>1. CASE row[ev].st # "none"
  BY <1>0, <1>1, EdgesForwardStep DEF UpsertsOK, EdgesForward
<1>2. CASE row[ev].st = "none" /\ AdminStep
  BY <1>0, <1>2, AdminRows
<1>3. CASE row[ev].st = "none" /\ ~AdminStep
  BY <1>0, <1>3, AbsentRows
<1> QED BY <1>1, <1>2, <1>3

\* The table of edges changes in the administration only.
LEMMA TablesStep ==
    ASSUME [Next]_vars, ~AdminStep
    PROVE  UNCHANGED <<edge, ver, enabled, inputs, doomed>>
<1>1. ASSUME NEW p \in Procs, QueueStep(p) PROVE UNCHANGED <<edgeVars, doomed>>
  BY <1>1, Zenon DEF QueueStep, ClaimBatch, NextEvent, MarkCompleted, MarkFailed,
     StepFails, Crash, ReleaseMyClaims
<1>2. ASSUME NEW w \in Workers, WorkStep(w) PROVE UNCHANGED <<edgeVars, doomed>>
  BY <1>2, Zenon DEF WorkStep, LoadLiveEdge, LoadIndexedEdgeVersion,
     LoadModelCollection, PrepareEdgeVector, ApplyEdgeVector, UpsertBookkeeping
<1>3. ASSUME \/ \E c \in Cleaners : CleanupProcess(c)
             \/ \E ev \in Events : LeaseExpires(ev)
             \/ \E f \in in_flight : LateUpsert(f)
             \/ UNCHANGED vars
      PROVE  UNCHANGED <<edgeVars, doomed>>
  BY <1>3, Zenon DEF CleanupProcess, LeaseExpires, LateUpsert, vars
<1> QED BY <1>1, <1>2, <1>3, StepCases DEF edgeVars

\* The bookkeeping stays behind the edges, and names points for deletion only
\* when an edge goes.
LEMMA EdgesStep ==
    ASSUME TypeOK, TypeOK', EdgesOK, AbsentOK, HandsOK, [Next]_vars
    PROVE  EdgesOK'
<1> SUFFICES ASSUME NEW e \in Edges PROVE EdgeOK(e)'
  BY DEF EdgesOK
<1>0. /\ EdgeOK(e) /\ ver[e] \in Nat /\ ver'[e] \in Nat /\ ver'[e] >= ver[e]
      /\ edge[e] \in {"none", "live", "gone"} /\ edge'[e] \in {"none", "live", "gone"}
      /\ DeleteOf(e) \in Events
      /\ \A m \in Models : /\ <<e, m>> \in Keys /\ indexed[<<e, m>>] \in Nat
                           /\ indexed'[<<e, m>>] \in Nat
      /\ edge[e] # "none" => edge'[e] # "none"
      /\ edge[e] = "gone" => edge'[e] = "gone"
  BY EventTypes, Numbers, NextNumbers, KeyParts, EdgesForwardStep
     DEF EdgesOK, EdgesForward, TypeOK
<1>1. edge'[e] = "none" <=> ver'[e] = 0
  <2>1. CASE AdminStep
    <3>1. ASSUME NEW d \in Edges, EdgesCreate(d) \/ EdgesUpdate(d) \/ EdgesDelete(d)
          PROVE  edge'[e] = "none" <=> ver'[e] = 0
      BY <1>0, <3>1 DEF EdgeOK, EdgesCreate, Create, EdgesUpdate, Update,
         EdgesDelete, Remove, TypeOK
    <3>2. ASSUME NEW m \in Models,
                 EmbedTypeVectors(m) \/ EmbedEndpoints(m) \/ DisableModel(m)
          PROVE  UNCHANGED <<edge, ver>>
      BY <3>2 DEF EmbedTypeVectors, EmbedEndpoints, DisableModel
    <3> QED BY <1>0, <2>1, <3>1, <3>2 DEF AdminStep, EdgeOK
  <2>2. CASE ~AdminStep
    BY <1>0, <2>2, TablesStep DEF EdgeOK
  <2> QED BY <2>1, <2>2
<1>2. ASSUME NEW m \in Models
      PROVE  /\ edge'[e] # "live" => indexed'[<<e, m>>] = 0
             /\ indexed'[<<e, m>>] <= ver'[e]
  <2>1. ASSUME NEW d \in Edges, EdgesDelete(d)
        PROVE  /\ edge'[e] # "live" => indexed'[<<e, m>>] = 0
               /\ indexed'[<<e, m>>] <= ver'[e]
    <3>1. /\ edge' = [edge EXCEPT ![d] = "gone"] /\ UNCHANGED ver
          /\ indexed' = [k \in Keys |-> IF k[1] = d THEN 0 ELSE indexed[k]]
      BY <2>1, Zenon DEF EdgesDelete, Remove
    <3>2. indexed'[<<e, m>>] = IF e = d THEN 0 ELSE indexed[<<e, m>>]
      BY <1>0, <3>1
    <3> QED BY <1>0, <3>1, <3>2 DEF EdgeOK, TypeOK
  <2>2. ASSUME NEW w \in Workers, UpsertBookkeeping(w)
        PROVE  /\ edge'[e] # "live" => indexed'[<<e, m>>] = 0
               /\ indexed'[<<e, m>>] <= ver'[e]
    <3>1. /\ KeyOf(event[w]) \in Keys /\ KeyOf(event[w])[1] = event[w].edge
          /\ live[w] \in Nat /\ live[w] <= ver[event[w].edge]
      BY <2>2, InHand DEF UpsertBookkeeping, Embedding, Snapshot, Versions
    <3>2. CASE edge[event[w].edge] = "live"
      <4>1. /\ RecordVersion(KeyOf(event[w]), live[w])
            /\ UNCHANGED <<edge, ver>>
        BY <2>2, <3>2 DEF UpsertBookkeeping, edgeVars
      <4>2. indexed'[<<e, m>>] = IF KeyOf(event[w]) = <<e, m>> /\ indexed[<<e, m>>] < live[w]
                                 THEN live[w] ELSE indexed[<<e, m>>]
        BY <1>0, <4>1 DEF RecordVersion, TypeOK
      <4>3. KeyOf(event[w]) = <<e, m>> => event[w].edge = e
        BY <3>1
      <4> QED BY <1>0, <3>1, <3>2, <4>1, <4>2, <4>3 DEF EdgeOK
    <3>3. CASE edge[event[w].edge] # "live"
      BY <1>0, <2>2, <3>3 DEF UpsertBookkeeping, edgeVars, EdgeOK
    <3> QED BY <3>2, <3>3
  <2>3. CASE UNCHANGED indexed /\ ~\E d \in Edges : EdgesDelete(d)
    <3>1. edge'[e] # "live" => edge[e] # "live"
      <4>1. CASE AdminStep
        <5>1. ASSUME NEW d \in Edges, EdgesCreate(d) \/ EdgesUpdate(d)
              PROVE  edge'[e] # "live" => edge[e] # "live"
          BY <5>1 DEF EdgesCreate, Create, EdgesUpdate, TypeOK
        <5>2. ASSUME NEW n \in Models,
                     EmbedTypeVectors(n) \/ EmbedEndpoints(n) \/ DisableModel(n)
              PROVE  UNCHANGED edge
          BY <5>2 DEF EmbedTypeVectors, EmbedEndpoints, DisableModel
        <5> QED BY <2>3, <4>1, <5>1, <5>2 DEF AdminStep
      <4>2. CASE ~AdminStep
        BY <4>2, TablesStep
      <4> QED BY <4>1, <4>2
    <3> QED BY <1>0, <2>3, <3>1 DEF EdgeOK
  <2>4. ASSUME \/ \E w \in Workers : ApplyEdgeVector(w)
               \/ \E c \in Cleaners : CleanupProcess(c)
               \/ \E f \in in_flight : LateUpsert(f)
        PROVE  UNCHANGED indexed
    BY <2>4 DEF ApplyEdgeVector, CleanupProcess, LateUpsert
  <2> QED BY <2>1, <2>2, <2>3, <2>4, IndexUntouched
<1>3. ASSUME edge'[e] # "gone" PROVE doomed'[e] = {} /\ row'[DeleteOf(e)].st = "none"
  <2>1. edge[e] # "gone" /\ doomed[e] = {} /\ row[DeleteOf(e)].st = "none"
    BY <1>0, <1>3 DEF EdgeOK
  <2>2. CASE AdminStep
    BY <1>3, <2>1, <2>2, AdminRows
  <2>3. CASE ~AdminStep
    BY <1>0, <2>1, <2>3, AbsentRows, TablesStep
  <2> QED BY <2>2, <2>3
<1> QED BY <1>1, <1>2, <1>3 DEF EdgeOK, DeleteOf

-----------------------------------------------------------------------------
(* The invariants of the index                                             *)

\* An event is completed by the process that has it in hand, and nothing else
\* changes with it.
LEMMA DoneBy ==
    ASSUME TypeOK, HandsOK, [Next]_vars, NEW ev \in Events,
           row[ev].st # "done", row'[ev].st = "done"
    PROVE  \E p \in Procs : /\ pc[p] = "completed" /\ event[p] = ev /\ Hand(p)
                            /\ UNCHANGED <<edge, indexed, doomed, point, ghosts>>
<1>0. row \in [Events -> Rows]
  BY DEF TypeOK, Rows
<1>1. ASSUME NEW p \in Procs, MarkCompleted(p)
      PROVE  /\ pc[p] = "completed" /\ event[p] = ev /\ Hand(p)
             /\ UNCHANGED <<edge, indexed, doomed, point, ghosts>>
  <2>1. row' = row \/ \E r : row' = [row EXCEPT ![event[p]] = r]
    BY <1>1, Zenon DEF MarkCompleted
  <2>2. event[p] = ev
    BY <1>0, <2>1
  <2> QED BY <1>1, <2>2 DEF MarkCompleted, HandsOK, edgeVars
<1>2. ASSUME NEW p \in Procs, QueueStep(p), ~MarkCompleted(p) PROVE FALSE
  <2>1. CASE ClaimBatch(p)
    <3>1. Reaped(p)[ev].st # "done"
      BY <1>0 DEF Reaped, Released
    <3>2. PICK S : row' = [x \in Events |->
                IF x \in S
                THEN [st |-> "claimed", by |-> p, tries |-> Reaped(p)[x].tries + 1]
                ELSE Reaped(p)[x]]
      BY <2>1, Zenon DEF ClaimBatch
    <3> QED BY <3>1, <3>2
  <2>2. CASE MarkFailed(p)
    <3>1. \/ row' = row
          \/ row' = [row EXCEPT ![event[p]] = IF row[event[p]].st = "done"
                        THEN row[event[p]]
                        ELSE [row[event[p]] EXCEPT !.st = "due", !.by = Nobody]]
      BY <2>2, Zenon DEF MarkFailed
    <3> DEFINE r == row[event[p]]
    <3>2. CASE event[p] # ev \/ row' = row
      BY <1>0, <3>1, <3>2
    <3>3. CASE event[p] = ev /\ row' # row
      <4>1. row' = [row EXCEPT ![ev] = [r EXCEPT !.st = "due", !.by = Nobody]]
        BY <1>0, <3>1, <3>3
      <4>2. row'[ev] = [r EXCEPT !.st = "due", !.by = Nobody]
        BY <1>0, <4>1
      <4>3. r \in Rows
        BY <1>0, <3>3
      <4>4. row'[ev].st = "due"
        BY <4>2, <4>3 DEF Rows
      <4> QED BY <1>0, <4>4
    <3> QED BY <3>2, <3>3
  <2>3. CASE ReleaseMyClaims(p)
    BY <1>0, <2>3 DEF ReleaseMyClaims, Released
  <2>4. CASE NextEvent(p, First(p)) \/ StepFails(p) \/ Crash(p)
    BY <2>4 DEF NextEvent, StepFails, Crash
  <2> QED BY <1>2, <2>1, <2>2, <2>3, <2>4 DEF QueueStep
<1>3. ASSUME AdminStep PROVE FALSE
  <2>1. ASSUME NEW e \in Edges, EdgesCreate(e) \/ EdgesUpdate(e) PROVE FALSE
    BY <1>0, <2>1 DEF EdgesCreate, Create, EdgesUpdate, Update, EnqueueUpserts
  <2>2. ASSUME NEW e \in Edges, EdgesDelete(e) PROVE FALSE
    <3>1. \/ UNCHANGED row
          \/ row' = [row EXCEPT ![DeleteOf(e)] =
                        [st |-> "due", by |-> Nobody, tries |-> 0]]
      BY <2>2, Zenon DEF EdgesDelete, Remove, EnqueueDelete
    <3> QED BY <1>0, <3>1
  <2>3. ASSUME NEW m \in Models,
               EmbedTypeVectors(m) \/ EmbedEndpoints(m) \/ DisableModel(m)
        PROVE  FALSE
    BY <2>3 DEF EmbedTypeVectors, EmbedEndpoints, DisableModel
  <2> QED BY <1>3, <2>1, <2>2, <2>3 DEF AdminStep
<1>4. ASSUME NEW x \in Events, LeaseExpires(x) PROVE FALSE
  BY <1>0, <1>4 DEF LeaseExpires, Rows
<1>5. ASSUME \/ \E w \in Workers : WorkStep(w)
             \/ \E c \in Cleaners : CleanupProcess(c)
             \/ \E f \in in_flight : LateUpsert(f)
             \/ UNCHANGED vars
      PROVE  UNCHANGED row
  BY <1>5 DEF WorkStep, LoadLiveEdge, LoadIndexedEdgeVersion, LoadModelCollection,
     PrepareEdgeVector, ApplyEdgeVector, UpsertBookkeeping, CleanupProcess,
     LateUpsert, vars
<1> QED BY <1>1, <1>2, <1>3, <1>4, <1>5, StepCases

\* A completed event is indexed.
LEMMA CompletedStep ==
    ASSUME TypeOK, TypeOK', EdgesOK, UpsertsOK, HandsOK, CompletedIsIndexed,
           [Next]_vars
    PROVE  CompletedIsIndexed'
<1> SUFFICES ASSUME NEW ev \in Upserts, ev \notin dropped', row'[ev].st = "done",
                    edge'[ev.edge] = "live"
             PROVE  indexed'[KeyOf(ev)] >= ev.ver
  BY DEF CompletedIsIndexed
<1>0. /\ ev \in Events /\ ev.edge \in Edges /\ ev.ver \in Nat
      /\ KeyOf(ev) \in Keys /\ KeyOf(ev)[1] = ev.edge
      /\ indexed[KeyOf(ev)] \in Nat /\ indexed'[KeyOf(ev)] \in Nat
  BY EventTypes, KeyParts, Numbers, NextNumbers
<1>1. Forward
  BY ForwardStep
<1>2. CASE row[ev].st = "done"
  <2>1. edge[ev.edge] = "live"
    BY <1>0, <1>1, <1>2 DEF Forward, EdgesForward, UpsertsOK, TypeOK
  <2>2. indexed[KeyOf(ev)] >= ev.ver
    BY <1>1, <1>2, <2>1 DEF CompletedIsIndexed, Forward, RowsForward
  <2> QED BY <1>0, <1>1, <2>2 DEF Forward, IndexForward
<1>3. CASE row[ev].st # "done"
  <2>1. PICK p \in Procs : /\ pc[p] = "completed" /\ event[p] = ev /\ Hand(p)
                           /\ UNCHANGED <<edge, indexed, doomed, point, ghosts>>
    BY <1>0, <1>3, DoneBy
  <2>2. p \in Workers
    BY <2>1, EventTypes DEF Hand, Holds, Between, Jobs
  <2> QED BY <2>1, <2>2 DEF Hand, Embedded, ghosts
<1> QED BY <1>2, <1>3

\* A point is behind its bookkeeping only when it was overtaken.
LEMMA BehindStep ==
    ASSUME TypeOK, TypeOK', EdgesOK, EdgesOK', HandsOK, BehindOnlyWhenOvertaken,
           [Next]_vars
    PROVE  BehindOnlyWhenOvertaken'
<1> SUFFICES ASSUME NEW k \in Keys, point'[k] < indexed'[k] PROVE k \in overtaken'
  BY DEF BehindOnlyWhenOvertaken
<1>0. /\ k[1] \in Edges /\ k[2] \in Models /\ k = <<k[1], k[2]>>
      /\ point[k] \in Nat /\ indexed[k] \in Nat
      /\ point'[k] \in Nat /\ indexed'[k] \in Nat
  BY KeyParts, Numbers, NextNumbers
<1>1. edge'[k[1]] = "live"
  BY <1>0 DEF EdgesOK, EdgeOK
<1>2. /\ k \in overtaken => k \in overtaken'
      /\ point'[k] >= point[k] \/ k \in overtaken'
  BY <1>1, PointsForwardStep DEF PointsForward
<1>3. CASE indexed'[k] <= indexed[k]
  BY <1>0, <1>2, <1>3 DEF BehindOnlyWhenOvertaken
<1>4. CASE indexed'[k] > indexed[k]
  <2>1. PICK w \in Workers : UpsertBookkeeping(w)
    <3>1. ASSUME NEW e \in Edges, EdgesDelete(e) PROVE indexed'[k] <= indexed[k]
      BY <1>0, <3>1 DEF EdgesDelete, Remove
    <3>2. ASSUME \/ \E w \in Workers : ApplyEdgeVector(w)
                 \/ \E c \in Cleaners : CleanupProcess(c)
                 \/ \E f \in in_flight : LateUpsert(f)
          PROVE  indexed'[k] = indexed[k]
      BY <3>2 DEF ApplyEdgeVector, CleanupProcess, LateUpsert
    <3> QED BY <1>0, <1>4, <3>1, <3>2, IndexUntouched
  <2>2. /\ w \in Procs /\ KeyOf(event[w]) \in Keys /\ live[w] \in Nat
        /\ pc[w] = "book"
    BY <2>1, InHand DEF UpsertBookkeeping, Embedding, Snapshot, Versions
  <2>3. /\ edge[event[w].edge] = "live" /\ RecordVersion(KeyOf(event[w]), live[w])
        /\ UNCHANGED <<point, overtaken>>
    BY <1>0, <1>4, <2>1 DEF UpsertBookkeeping
  <2>4. k = KeyOf(event[w]) /\ indexed'[k] = live[w]
    BY <1>0, <1>4, <2>2, <2>3 DEF RecordVersion, TypeOK
  <2>5. point[k] >= live[w] \/ k \in overtaken
    BY <2>2, <2>3, <2>4 DEF HandsOK, Hand, Written
  <2> QED BY <1>0, <2>2, <2>3, <2>4, <2>5
<1> QED BY <1>0, <1>3, <1>4

\* A point that was booked stays named by somebody.
LEMMA PointsStep ==
    ASSUME TypeOK, TypeOK', EdgesOK, HandsOK, PointsFound, [Next]_vars
    PROVE  PointsFound'
<1> SUFFICES ASSUME NEW k \in Keys, point'[k] # 0 PROVE Found(k)'
  BY DEF PointsFound
<1>0. /\ k[1] \in Edges /\ k[2] \in Models /\ k = <<k[1], k[2]>>
      /\ DeleteOf(k[1]) \in Events /\ DeleteOf(k[1]) \in Deletes
      /\ DeleteOf(k[1]).edge = k[1]
  BY KeyParts, EventTypes DEF DeleteOf
<1>1. point[k] # 0 => Found(k)
  BY DEF PointsFound
<1>2. ASSUME point[k] # 0, indexed[k] # 0 => indexed'[k] # 0,
             k \in unbooked => k \in unbooked' \/ indexed'[k] # 0,
             UNCHANGED <<doomed, row>>
      PROVE  Found(k)'
  BY <1>1, <1>2 DEF Found, DeleteOf
<1>3. CASE UNCHANGED <<indexed, point, overtaken, unbooked>>
  <2>1. CASE indexed[k] # 0 \/ k \in unbooked
    BY <1>3, <2>1 DEF Found
  <2>2. CASE k[2] \in doomed[k[1]] /\ row[DeleteOf(k[1])].st # "done"
    <3>1. edge[k[1]] = "gone" /\ doomed'[k[1]] = doomed[k[1]]
      BY <1>0, <2>2, EdgesForwardStep DEF EdgesForward, EdgesOK, EdgeOK
    <3>2. CASE row'[DeleteOf(k[1])].st # "done"
      BY <2>2, <3>1, <3>2 DEF Found, DeleteOf
    <3>3. CASE row'[DeleteOf(k[1])].st = "done"
      <4>1. PICK p \in Procs : /\ pc[p] = "completed" /\ event[p] = DeleteOf(k[1])
                               /\ Hand(p)
        BY <1>0, <2>2, <3>3, DoneBy
      <4>2. p \in Cleaners
        BY <1>0, <4>1, EventTypes DEF Hand, Holds, Between, Jobs, Procs
      <4>3. k \in unbooked
        BY <1>0, <1>3, <2>2, <4>1, <4>2 DEF Hand, Cleaned
      <4> QED BY <1>3, <4>3 DEF Found
    <3> QED BY <3>2, <3>3
  <2> QED BY <1>1, <1>3, <2>1, <2>2 DEF Found
<1>4. ASSUME NEW e \in Edges, EdgesDelete(e) PROVE Found(k)'
  <2> DEFINE known == {m \in Models : indexed[<<e, m>>] # 0}
  <2>1. /\ edge[e] = "live" /\ UNCHANGED <<point, unbooked>>
        /\ indexed' = [j \in Keys |-> IF j[1] = e THEN 0 ELSE indexed[j]]
        /\ IF known = {} THEN UNCHANGED <<row, doomed>>
           ELSE /\ row' = [row EXCEPT ![DeleteOf(e)] =
                             [st |-> "due", by |-> Nobody, tries |-> 0]]
                /\ doomed' = [doomed EXCEPT ![e] = known]
    BY <1>4, Zenon DEF EdgesDelete, Remove, EnqueueDelete, ghosts
  <2>2. CASE k \in unbooked
    BY <2>1, <2>2 DEF Found
  <2>3. CASE k[1] = e /\ indexed[k] # 0
    <3>1. k[2] \in known
      BY <1>0, <2>3
    <3> HIDE DEF known
    <3>2. doomed'[k[1]] = known /\ row'[DeleteOf(k[1])].st = "due"
      BY <1>0, <2>1, <2>3, <3>1 DEF TypeOK
    <3> QED BY <3>1, <3>2 DEF Found, DeleteOf
  <2>4. CASE k[1] # e
    <3>1. indexed'[k] = indexed[k]
      BY <2>1, <2>4
    <3>2. DeleteOf(k[1]) # DeleteOf(e)
      BY <2>4 DEF DeleteOf
    <3> HIDE DEF known
    <3>3. doomed'[k[1]] = doomed[k[1]] /\ row'[DeleteOf(k[1])] = row[DeleteOf(k[1])]
      BY <1>0, <2>1, <2>4, <3>2 DEF TypeOK
    <3> QED BY <1>1, <2>1, <3>1, <3>3 DEF Found, DeleteOf
  <2>5. CASE k[1] = e /\ indexed[k] = 0 /\ k \notin unbooked
    BY <1>0, <1>1, <2>1, <2>5 DEF Found, EdgesOK, EdgeOK
  <2> QED BY <2>2, <2>3, <2>4, <2>5
<1>5. ASSUME NEW j \in Keys, NEW v, Lands(j, v), UNCHANGED <<indexed, doomed, row>>
      PROVE  Found(k)'
  <2>1. CASE k = j
    BY <1>5, <2>1 DEF Lands, Found
  <2>2. CASE k # j
    BY <1>2, <1>5, <2>2 DEF Lands, TypeOK
  <2> QED BY <2>1, <2>2
<1>6. ASSUME NEW w \in Workers, ApplyEdgeVector(w) PROVE Found(k)'
  <2>1. KeyOf(event[w]) \in Keys
    BY <1>6, InHand DEF ApplyEdgeVector, Embedding, Snapshot
  <2>2. UNCHANGED <<indexed, doomed, row>>
    BY <1>6 DEF ApplyEdgeVector
  <2>3. CASE Lands(KeyOf(event[w]), live[w])
    BY <1>5, <2>1, <2>2, <2>3
  <2>4. CASE UNCHANGED <<point, overtaken, unbooked>>
    BY <1>3, <2>2, <2>4
  <2> QED BY <1>6, <2>3, <2>4, Zenon DEF ApplyEdgeVector, UpsertRaw
<1>7. ASSUME NEW w \in Workers, UpsertBookkeeping(w) PROVE Found(k)'
  <2>1. KeyOf(event[w]) \in Keys /\ live[w] \in Nat /\ live[w] >= 1
    BY <1>7, InHand DEF UpsertBookkeeping, Embedding, Snapshot, Versions
  <2>2. UNCHANGED <<doomed, row, point>>
    BY <1>7 DEF UpsertBookkeeping
  <2>3. CASE edge[event[w].edge] = "live"
    <3>1. RecordVersion(KeyOf(event[w]), live[w]) /\ unbooked' = unbooked \ {KeyOf(event[w])}
      BY <1>7, <2>3, Zenon DEF UpsertBookkeeping
    <3>2. /\ indexed[k] # 0 => indexed'[k] # 0
          /\ k = KeyOf(event[w]) => indexed'[k] # 0
      BY <2>1, <3>1, Numbers DEF RecordVersion, TypeOK
    <3> QED BY <1>2, <2>2, <3>1, <3>2
  <2>4. CASE edge[event[w].edge] # "live"
    BY <1>2, <1>7, <2>2, <2>4 DEF UpsertBookkeeping
  <2> QED BY <2>3, <2>4
<1>8. ASSUME NEW c \in Cleaners, CleanupProcess(c) PROVE Found(k)'
  <2> DEFINE named == {<<event[c].edge, m>> : m \in doomed[event[c].edge]}
  <2>1. /\ point' = [j \in Keys |-> IF j \in named THEN 0 ELSE point[j]]
        /\ unbooked' = unbooked \ named
        /\ UNCHANGED <<indexed, doomed, row>>
    BY <1>8, Zenon DEF CleanupProcess, DeletePointsById
  <2> HIDE DEF named
  <2>2. k \notin named /\ point[k] # 0
    BY <2>1
  <2> QED BY <1>2, <2>1, <2>2
<1>9. ASSUME NEW f \in in_flight, LateUpsert(f) PROVE Found(k)'
  <2>1. f[1] \in Keys
    BY DEF TypeOK
  <2> QED BY <1>5, <1>9, <2>1 DEF LateUpsert
<1> QED BY <1>3, <1>4, <1>6, <1>7, <1>8, <1>9, IndexUntouched

\* No step makes an upsert without an event.
LEMMA EnqueuedStep ==
    ASSUME TypeOK, EdgesOK, HandsOK, PointsEnqueued, [Next]_vars
    PROVE  PointsEnqueued'
<1>1. ASSUME NEW k, Enqueued(k) PROVE Enqueued(k)'
  <2>1. PICK ev \in Upserts : KeyOf(ev) = k /\ row[ev].st # "none"
    BY <1>1 DEF Enqueued
  <2>2. row'[ev].st # "none"
    BY <2>1, RowsForwardStep DEF RowsForward, Events
  <2> QED BY <2>1, <2>2 DEF Enqueued, KeyOf
<1>2. ASSUME \A k \in Keys : point'[k] # 0 => point[k] # 0 \/ Enqueued(k),
             \A f \in in_flight' : f \in in_flight \/ Enqueued(f[1])
      PROVE  PointsEnqueued'
  BY <1>1, <1>2 DEF PointsEnqueued
<1>3. ASSUME NEW w \in Workers, ApplyEdgeVector(w) PROVE PointsEnqueued'
  <2>1. KeyOf(event[w]) \in Keys /\ Enqueued(KeyOf(event[w]))
    BY <1>3, InHand DEF ApplyEdgeVector, Embedding, Snapshot, Enqueued
  <2>2. CASE Lands(KeyOf(event[w]), live[w]) /\ in_flight' = in_flight
    BY <1>2, <2>1, <2>2 DEF Lands, TypeOK
  <2>3. CASE /\ in_flight' = in_flight \cup {<<KeyOf(event[w]), live[w]>>}
             /\ point' = point
    BY <1>2, <2>1, <2>3
  <2> QED BY <1>3, <2>2, <2>3 DEF ApplyEdgeVector, UpsertRaw
<1>4. ASSUME NEW f \in in_flight, LateUpsert(f) PROVE PointsEnqueued'
  <2>1. f[1] \in Keys /\ Enqueued(f[1])
    BY DEF TypeOK, PointsEnqueued
  <2> QED BY <1>2, <1>4, <2>1 DEF LateUpsert, Lands, TypeOK
<1>5. ASSUME NEW c \in Cleaners, CleanupProcess(c) PROVE PointsEnqueued'
  BY <1>2, <1>5 DEF CleanupProcess, DeletePointsById
<1>6. CASE UNCHANGED point /\ UNCHANGED in_flight
  BY <1>2, <1>6
<1> QED BY <1>3, <1>4, <1>5, <1>6, InFlightUntouched

-----------------------------------------------------------------------------
(* The theorems                                                            *)

\* The invariant holds initially.
LEMMA InitHolds == Init => IInv
<1> SUFFICES ASSUME Init PROVE IInv
  OBVIOUS
<1> USE ConstantsAssumption
<1>1. Absent \in Rows
  BY DEF Absent, Rows
<1>2. TypeOK
  <2>1. row \in [Events -> Rows]
    BY <1>1 DEF Init
  <2>2. pc \in [Procs -> PCs]
    BY DEF Init, PCs
  <2> QED BY <2>1, <2>2 DEF Init, TypeOK, Rows
<1>3. \A ev \in Events : row[ev].st = "none" /\ row[ev].by = Nobody
  BY DEF Init, Absent
<1>4. EdgesOK
  BY <1>3, EventTypes, KeyParts DEF Init, EdgesOK, EdgeOK
<1>5. UpsertsOK /\ AbsentOK /\ CompletedIsIndexed
  BY <1>3, EventTypes DEF UpsertsOK, AbsentOK, CompletedIsIndexed
<1>6. HandsOK
  BY DEF Init, HandsOK, Hand, Holds, Snapshots, Written, Embedded, Cleaned, Between,
     Snapshot, Settled
<1>7. BehindOnlyWhenOvertaken /\ PointsFound /\ PointsEnqueued
  BY DEF Init, BehindOnlyWhenOvertaken, PointsFound, PointsEnqueued
<1> QED BY <1>2, <1>4, <1>5, <1>6, <1>7 DEF IInv

\* Every step preserves the invariant.
LEMMA StepHolds == IInv /\ [Next]_vars => IInv'
<1> SUFFICES ASSUME IInv, [Next]_vars PROVE IInv'
  OBVIOUS
<1> USE DEF IInv
<1>1. TypeOK'
  BY TypeStep
<1>2. EdgesOK'
  BY <1>1, EdgesStep
<1> QED
  BY <1>1, <1>2, UpsertsStep, AbsentStep, HandsStep, CompletedStep, BehindStep,
     PointsStep, EnqueuedStep

\* The inductive invariant.
THEOREM Invariance == Spec => []IInv
BY InitHolds, StepHolds, PTL DEF Spec

\* The tables, the points and what the workers have in hand keep their types;
\* attempts stay within max_attempts.
THEOREM TypeCorrect == Spec => []TypeOK
<1>1. IInv => TypeOK
  BY DEF IInv
<1> QED BY <1>1, Invariance, PTL

\* EmbedEdgeWorker completes an upsert event of a live edge only when its
\* version or a later one is in knowledge_edge_embeddings, whatever the
\* interleaving of workers with old and new snapshots, crashes and edits.
THEOREM CompletedEventsIndexed == Spec => []CompletedIsIndexed
<1>1. IInv => CompletedIsIndexed
  BY DEF IInv
<1> QED BY <1>1, Invariance, PTL

\* Qdrant comes before the bookkeeping: a point older than its bookkeeping
\* row was overwritten by an older upsert, and nothing else explains it.
THEOREM PointsKeepUp == Spec => []BehindOnlyWhenOvertaken
<1>1. IInv => BehindOnlyWhenOvertaken
  BY DEF IInv
<1> QED BY <1>1, Invariance, PTL

\* A point of a live edge is in the bookkeeping or has an event behind it that
\* is not completed; one of a deleted edge is named by an open delete event or
\* was written, and not booked, without a bookkeeping row.
THEOREM PointsTraced == Spec => []PointsAccountedFor
<1>1. ASSUME IInv PROVE PointsAccountedFor
  <2> USE <1>1 DEF IInv
  <2> SUFFICES ASSUME NEW k \in Keys, point[k] # 0
               PROVE  IF edge[k[1]] = "live"
                      THEN indexed[k] # 0 \/ Pending(k)
                      ELSE \/ /\ k[2] \in doomed[k[1]]
                              /\ row[DeleteOf(k[1])].st # "done"
                           \/ k \in unbooked
    BY DEF PointsAccountedFor
  <2>1. k[1] \in Edges /\ k[2] \in Models /\ k = <<k[1], k[2]>>
    BY KeyParts
  <2>2. CASE edge[k[1]] = "live"
    <3>1. PICK ev \in Upserts : KeyOf(ev) = k /\ row[ev].st # "none"
      BY DEF PointsEnqueued, Enqueued
    <3>2. CASE row[ev].st # "done" \/ ev \in dropped
      BY <2>2, <3>1, <3>2 DEF Pending
    <3>3. CASE row[ev].st = "done" /\ ev \notin dropped
      <4>1. ev.edge = k[1] /\ ev.ver \in Versions
        BY <3>1, KeyParts, EventTypes
      <4>2. indexed[k] >= ev.ver
        BY <2>2, <3>1, <3>3, <4>1 DEF CompletedIsIndexed
      <4>3. ev.ver \in Nat /\ ev.ver >= 1
        BY <4>1 DEF Versions
      <4> QED BY <2>2, <4>2, <4>3
    <3> QED BY <3>2, <3>3
  <2>3. CASE edge[k[1]] # "live"
    <3>1. Found(k) /\ indexed[k] = 0
      BY <2>1, <2>3 DEF PointsFound, EdgesOK, EdgeOK
    <3> QED BY <2>3, <3>1 DEF Found
  <2> QED BY <2>2, <2>3
<1> QED BY <1>1, Invariance, PTL

Current == [k \in Keys |-> IF edge[k[1]] = "live" THEN ver[k[1]] ELSE 0]

\* A step of the edges or of the bookkeeping is one of the versioned index.
LEMMA IndexStep ==
    ASSUME IInv, [Next]_vars
    PROVE  Index!Next \/ UNCHANGED <<Current, indexed>>
<1> USE DEF Current, Index!Next, Index!Advance, Index!Record, Index!Forget
<1>0. TypeOK /\ EdgesOK /\ HandsOK
  BY DEF IInv
<1>1. ASSUME NEW e \in Edges, EdgesCreate(e) \/ EdgesUpdate(e) PROVE Index!Advance
  <2> DEFINE S == {k \in Keys : k[1] = e}
  <2>1. UNCHANGED indexed
    BY <1>1 DEF EdgesCreate, EdgesUpdate
  <2>2. \A k \in Keys : Current'[k] = IF k \in S THEN Current[k] + 1 ELSE Current[k]
    BY <1>0, <1>1, KeyParts DEF EdgesCreate, Create, EdgesUpdate, Update, TypeOK
  <2>3. Current' = [k \in Keys |-> IF k \in S THEN Current[k] + 1 ELSE Current[k]]
    BY <2>2
  <2>4. S \in SUBSET Keys
    OBVIOUS
  <2> HIDE DEF S
  <2> QED BY <2>1, <2>3, <2>4, Zenon
<1>2. ASSUME NEW e \in Edges, EdgesDelete(e) PROVE Index!Forget
  <2> DEFINE S == {k \in Keys : k[1] = e}
  <2>1. /\ edge' = [edge EXCEPT ![e] = "gone"] /\ UNCHANGED ver
        /\ indexed' = [k \in Keys |-> IF k[1] = e THEN 0 ELSE indexed[k]]
    BY <1>2, Zenon DEF EdgesDelete, Remove
  <2>2. \A k \in Keys : Current'[k] = IF k \in S THEN 0 ELSE Current[k]
    BY <1>0, <2>1, KeyParts DEF TypeOK
  <2>3. Current' = [k \in Keys |-> IF k \in S THEN 0 ELSE Current[k]]
    BY <2>2
  <2>4. indexed' = [k \in Keys |-> IF k \in S THEN 0 ELSE indexed[k]]
    BY <2>1
  <2>5. S \in SUBSET Keys
    OBVIOUS
  <2> HIDE DEF S
  <2> QED BY <2>3, <2>4, <2>5, Zenon
<1>3. ASSUME NEW w \in Workers, UpsertBookkeeping(w)
      PROVE  UNCHANGED <<Current, indexed>> \/ \E k \in Keys : Index!Record(k)
  <2> DEFINE k == KeyOf(event[w])
  <2>1. /\ k \in Keys /\ k[1] = event[w].edge
        /\ live[w] \in Nat /\ live[w] <= ver[event[w].edge]
        /\ ver[event[w].edge] \in Nat /\ indexed[k] \in Nat
    BY <1>0, <1>3, InHand, Numbers DEF UpsertBookkeeping, Embedding, Snapshot, Versions
  <2>2. UNCHANGED Current
    BY <1>3 DEF UpsertBookkeeping, edgeVars
  <2>3. \/ UNCHANGED indexed
        \/ edge[event[w].edge] = "live" /\ RecordVersion(k, live[w])
    BY <1>3, Zenon DEF UpsertBookkeeping
  <2> HIDE DEF k
  <2>4. CASE edge[event[w].edge] = "live" /\ RecordVersion(k, live[w])
              /\ indexed[k] < live[w]
    <3>1. indexed' = [indexed EXCEPT ![k] = live[w]]
      BY <2>4 DEF RecordVersion
    <3>2. Current[k] = ver[event[w].edge]
      BY <2>1, <2>4
    <3>3. live[w] \in (indexed[k] + 1)..Current[k]
      BY <2>1, <2>4, <3>2
    <3> HIDE DEF Current
    <3> QED BY <2>1, <2>2, <3>1, <3>3 DEF Current
  <2>5. CASE RecordVersion(k, live[w]) /\ ~(indexed[k] < live[w])
    BY <1>0, <2>2, <2>5 DEF RecordVersion, TypeOK
  <2> QED BY <2>2, <2>3, <2>4, <2>5
<1>4. ASSUME NEW m \in Models,
             EmbedTypeVectors(m) \/ EmbedEndpoints(m) \/ DisableModel(m)
      PROVE  UNCHANGED <<Current, indexed>>
  BY <1>4 DEF EmbedTypeVectors, EmbedEndpoints, DisableModel
<1>5. CASE ~AdminStep /\ ~\E w \in Workers : UpsertBookkeeping(w)
  <2>1. UNCHANGED <<edge, ver>>
    BY <1>5, TablesStep
  <2>2. ASSUME \/ \E w \in Workers : ApplyEdgeVector(w)
               \/ \E c \in Cleaners : CleanupProcess(c)
               \/ \E f \in in_flight : LateUpsert(f)
        PROVE  UNCHANGED indexed
    BY <2>2 DEF ApplyEdgeVector, CleanupProcess, LateUpsert
  <2>3. UNCHANGED indexed
    BY <1>5, <2>2, IndexUntouched, Zenon DEF AdminStep
  <2> QED BY <2>1, <2>3
<1> HIDE DEF Current, Index!Advance, Index!Record, Index!Forget
<1> QED BY <1>1, <1>2, <1>3, <1>4, <1>5 DEF AdminStep

\* knowledge_edge_embeddings is a versioned index of the edges: it records no
\* version an edge does not have, never goes back, and forgets an edge only
\* with the edge.
THEOREM BookkeepingIsVersionedIndex == Spec => IndexedForward
<1>1. Init => Index!Init
  BY KeyParts DEF Init, Index!Init
<1>2. IInv /\ [Next]_vars => [Index!Next]_<<Current, indexed>>
  BY IndexStep
<1> QED
  BY <1>1, <1>2, Invariance, PTL DEF Spec, IndexedForward, Index!Spec, Current
=============================================================================
