--------------------------- MODULE LlmGateProofs ----------------------------
(***************************************************************************)
(* Proofs about LlmGate: the cap on the running calls and the rate of the  *)
(* token bucket, for every number of calls, cap, set of timeouts, margin,  *)
(* rate and burst.                                                         *)
(***************************************************************************)
EXTENDS LlmGate, FoldFacts, FiniteSetTheorems, SequenceTheorems, TLAPS

-----------------------------------------------------------------------------
(* The inductive invariant of the limits                                   *)

\* The types of what the limits are made of.
LimitTypes ==
    /\ zset \in SUBSET Calls
    /\ left \in [Calls -> Nat] /\ keyttl \in Nat
    /\ bucket \in [on: BOOLEAN, t: 0..Full, age: 0..(BucketLife - 1)]
    /\ pc \in [Calls -> {"idle", "rated", "calling", "ending"}]
    /\ holds \in [Calls -> BOOLEAN]
    /\ hold \in [Calls -> Holds \cup {0}]
    /\ age \in [Calls -> Nat]
    /\ gone \in SUBSET Calls /\ dropped \in SUBSET Calls
    /\ ideal \in 0..Full
    /\ faults \in 0..MaxFaults

\* A call is never older than its timeout, its release never later than the
\* gap.
AgeOK(c) ==
    /\ pc[c] \in {"idle", "rated"} => age[c] = 0 /\ ~holds[c]
    /\ pc[c] = "calling" => hold[c] \in Holds /\ age[c] <= hold[c]
    /\ pc[c] = "ending" => age[c] <= Gap

\* How much longer than its gap the lease of a call must still last.
Needed(c) == IF pc[c] = "calling" THEN hold[c] - age[c] + Margin ELSE Margin - age[c]

\* The lease outlasts the call it covers.  The key was renewed last by the lease
\* of some hold k, for twice that lease, when this lease was at most new.
Covered(c) ==
    /\ c \in zset
    /\ left[c] >= Needed(c) /\ left[c] <= Lease(hold[c])
    /\ \E k \in Holds : keyttl + Lease(hold[c]) >= 2 * Lease(k) + left[c]

SlotOK(c) == holds[c] /\ c \notin gone \cup dropped => Covered(c)

\* A lease that went with the data is not written again; one went with the key
\* only where it was twice as long as another.
LostOK(c) ==
    /\ c \in gone => holds[c] /\ c \notin zset
    /\ c \in dropped => holds[c] /\ \E k \in Holds : 2 * Lease(k) <= hold[c] + Gap

SlotsOK ==
    /\ \A c \in Calls : AgeOK(c) /\ SlotOK(c) /\ LostOK(c)
    /\ IsFiniteSet(zset) /\ Cardinality(zset) <= Cap

LimitInv == LimitTypes /\ SlotsOK /\ BucketExact

-----------------------------------------------------------------------------
(* Numbers                                                                 *)

\* Division rounds down by less than the divisor.
LEMMA DivBound ==
    ASSUME NEW a \in Nat, NEW r \in Nat \ {0}
    PROVE  /\ a \div r \in Nat
           /\ (a \div r) * r > a - r
OBVIOUS

\* The bucket, and how long its key lives: long enough to be full again.
LEMMA BucketNumbers ==
    /\ Full \in Nat /\ Rate \in Nat /\ Scale \in Nat /\ BucketLife \in Nat
    /\ BucketLife >= 1 /\ Rate >= 1 /\ Scale >= 1
    /\ \A n \in Nat : n >= BucketLife - 1 => n * Rate >= Full
<1>1. /\ Burst \in Nat /\ Scale \in Nat /\ Rate \in Nat /\ Rate >= 1 /\ Scale >= 1
  BY GateAssumption
<1>2. Full \in Nat
  BY <1>1 DEF Full
<1> DEFINE d == (Full + Rate - 1) \div Rate
<1>3. d \in Nat /\ d * Rate > Full + Rate - 1 - Rate
  BY <1>1, <1>2, DivBound
<1>4. BucketLife = d + 1
  BY DEF BucketLife
<1> HIDE DEF d
<1>5. ASSUME NEW n \in Nat, n >= d PROVE n * Rate >= d * Rate
  BY <1>1, <1>3, <1>5
<1>6. d * Rate >= Full
  <2>1. d * Rate \in Int
    BY <1>1, <1>3
  <2> QED BY <1>1, <1>2, <1>3, <2>1
<1>7. ASSUME NEW n \in Nat, n >= d PROVE n * Rate >= Full
  <2>1. n * Rate \in Int /\ d * Rate \in Int
    BY <1>1, <1>3
  <2> QED BY <1>2, <1>5, <1>6, <1>7, <2>1
<1> QED BY <1>1, <1>2, <1>3, <1>4, <1>7

-----------------------------------------------------------------------------
(* The bucket                                                              *)

\* What a bucket holds is a number of units that fits it.
LEMMA RefillTypes ==
    ASSUME NEW b \in [on: BOOLEAN, t: 0..Full, age: 0..(BucketLife - 1)]
    PROVE  Refill(b) \in 0..Full
<1>1. b.t \in 0..Full /\ b.age \in Nat /\ b.age * Rate \in Nat
  BY BucketNumbers
<1> QED BY <1>1, BucketNumbers DEF Refill

\* A token is taken, or not, from the bucket and from its ideal alike.
LEMMA TakeStep ==
    ASSUME LimitTypes, BucketExact, TokenBucketTake
    PROVE  /\ bucket' \in [on: BOOLEAN, t: 0..Full, age: 0..(BucketLife - 1)]
           /\ ideal' \in 0..Full
           /\ BucketExact'
<1> DEFINE r == Refill(bucket)
<1>1. r \in 0..Full /\ r = ideal
  BY RefillTypes DEF LimitTypes, BucketExact
<1> DEFINE t == IF r >= Scale THEN r - Scale ELSE r
<1>2. bucket' = [on |-> TRUE, age |-> 0, t |-> t] /\ ideal' = t
  BY <1>1 DEF TokenBucketTake, Takes
<1>3. t \in 0..Full
  BY <1>1, BucketNumbers
<1> HIDE DEF t
<1>4. bucket' \in [on: BOOLEAN, t: 0..Full, age: 0..(BucketLife - 1)]
  BY <1>2, <1>3, BucketNumbers
<1>5. 0 * Rate = 0
  BY BucketNumbers
<1>6. Refill(bucket') = t
  BY <1>2, <1>3, <1>5, BucketNumbers DEF Refill
<1> QED BY <1>2, <1>3, <1>4, <1>6 DEF BucketExact

\* A second fills both; the key is gone only when both are full.
LEMMA TickFills ==
    ASSUME LimitTypes, BucketExact, Tick
    PROVE  /\ bucket' \in [on: BOOLEAN, t: 0..Full, age: 0..(BucketLife - 1)]
           /\ ideal' \in 0..Full
           /\ BucketExact'
<1>0. /\ bucket \in [on: BOOLEAN, t: 0..Full, age: 0..(BucketLife - 1)]
      /\ ideal \in 0..Full /\ Refill(bucket) = ideal
  BY DEF LimitTypes, BucketExact
<1>1. /\ bucket' = IF bucket.on /\ bucket.age + 1 < BucketLife
                   THEN [bucket EXCEPT !.age = @ + 1] ELSE NoBucket
      /\ ideal' = IF ideal + Rate < Full THEN ideal + Rate ELSE Full
  BY Zenon DEF Tick
<1>2. ideal' \in 0..Full
  BY <1>0, <1>1, BucketNumbers
<1> DEFINE a == bucket.age
           t == bucket.t
<1>3. /\ a \in Nat /\ a <= BucketLife - 1 /\ t \in 0..Full
      /\ bucket.on \in BOOLEAN
  BY <1>0, BucketNumbers
<1>4. a * Rate \in Nat /\ (a + 1) * Rate = a * Rate + Rate
  BY <1>3, BucketNumbers
<1>5. CASE bucket.on /\ a + 1 < BucketLife
  <2>1. bucket' = [on |-> TRUE, t |-> t, age |-> a + 1]
    BY <1>0, <1>1, <1>5
  <2>2. bucket' \in [on: BOOLEAN, t: 0..Full, age: 0..(BucketLife - 1)]
    BY <1>3, <1>5, <2>1, BucketNumbers
  <2>3. ideal = IF t + a * Rate < Full THEN t + a * Rate ELSE Full
    BY <1>0, <1>5 DEF Refill
  <2>4. Refill(bucket') = IF t + (a + 1) * Rate < Full THEN t + (a + 1) * Rate ELSE Full
    BY <2>1 DEF Refill
  <2> HIDE DEF a, t
  <2>5. Refill(bucket') = ideal'
    BY <1>1, <1>3, <1>4, <2>3, <2>4, BucketNumbers
  <2> QED BY <1>2, <2>2, <2>5 DEF BucketExact
<1>6. CASE ~(bucket.on /\ a + 1 < BucketLife)
  <2>1. bucket' = NoBucket
    BY <1>1, <1>6
  <2>2. NoBucket \in [on: BOOLEAN, t: 0..Full, age: 0..(BucketLife - 1)]
    BY BucketNumbers DEF NoBucket
  <2>3. Refill(bucket') = Full
    BY <2>1 DEF Refill, NoBucket
  <2>4. ideal = Full
    <3>1. CASE ~bucket.on
      BY <1>0, <3>1 DEF Refill
    <3>2. CASE bucket.on
      <4>1. a >= BucketLife - 1
        BY <1>3, <1>6, <3>2, BucketNumbers
      <4>2. a * Rate >= Full
        BY <1>3, <4>1, BucketNumbers
      <4>3. ideal = IF t + a * Rate < Full THEN t + a * Rate ELSE Full
        BY <1>0, <3>2 DEF Refill
      <4> HIDE DEF a, t
      <4> QED BY <1>3, <1>4, <4>2, <4>3, BucketNumbers
    <3> QED BY <3>1, <3>2
  <2>5. ideal' = Full
    BY <1>1, <2>4, BucketNumbers
  <2> QED BY <1>2, <2>1, <2>2, <2>3, <2>5 DEF BucketExact
<1> QED BY <1>5, <1>6

\* A bucket that is lost is full, and so is its ideal.
LEMMA FlushFills ==
    ASSUME bucket' = NoBucket, ideal' = Full
    PROVE  /\ bucket' \in [on: BOOLEAN, t: 0..Full, age: 0..(BucketLife - 1)]
           /\ ideal' \in 0..Full
           /\ BucketExact'
BY BucketNumbers DEF NoBucket, BucketExact, Refill

-----------------------------------------------------------------------------
(* The semaphore                                                           *)

\* Removing leases that ran out keeps the set small; a slot is added only
\* below the cap.
LEMMA ZsetBound ==
    ASSUME LimitTypes, SlotsOK, NEW c \in Calls, NEW h \in Holds
    PROVE  /\ IsFiniteSet(Pruned(zset)) /\ Cardinality(Pruned(zset)) <= Cap
           /\ \A z : z \subseteq zset => IsFiniteSet(z) /\ Cardinality(z) <= Cap
           /\ SemAcquire(c, h) => IsFiniteSet(zset') /\ Cardinality(zset') <= Cap
<1>0. /\ IsFiniteSet(zset) /\ Cardinality(zset) <= Cap /\ Cardinality(zset) \in Nat
      /\ Cap \in Nat
  BY GateAssumption, FS_CardinalityType DEF SlotsOK
<1>1. ASSUME NEW z, z \subseteq zset
      PROVE  IsFiniteSet(z) /\ Cardinality(z) <= Cap /\ Cardinality(z) \in Nat
  BY <1>0, <1>1, FS_Subset, FS_CardinalityType
<1>2. Pruned(zset) \subseteq zset
  BY DEF Pruned
<1>3. ASSUME SemAcquire(c, h) PROVE IsFiniteSet(zset') /\ Cardinality(zset') <= Cap
  <2>1. CASE Admits
    <3>1. zset' = Pruned(zset) \cup {c} /\ Cardinality(Pruned(zset)) < Cap
      BY <1>3, <2>1 DEF SemAcquire, Admits
    <3>2. /\ IsFiniteSet(Pruned(zset)) /\ Cardinality(Pruned(zset)) \in Nat
      BY <1>1, <1>2
    <3>3. /\ IsFiniteSet(zset')
          /\ \/ Cardinality(zset') = Cardinality(Pruned(zset))
             \/ Cardinality(zset') = Cardinality(Pruned(zset)) + 1
      BY <3>1, <3>2, FS_AddElement
    <3> HIDE DEF Pruned
    <3> QED BY <1>0, <3>1, <3>2, <3>3
  <2>2. CASE ~Admits
    BY <1>1, <1>2, <1>3, <2>2 DEF SemAcquire
  <2> QED BY <2>1, <2>2
<1> QED BY <1>1, <1>2, <1>3

\* The numbers a slot is made of.
LEMMA SlotNumbers ==
    ASSUME LimitTypes, SlotsOK, NEW c \in Calls
    PROVE  /\ left[c] \in Nat /\ keyttl \in Nat /\ age[c] \in Nat
           /\ hold[c] \in Nat /\ Gap \in Nat /\ Margin \in Nat /\ Gap < Margin
           /\ \A h \in Holds : h \in Nat /\ Lease(h) = h + Margin
           /\ Lease(hold[c]) = hold[c] + Margin
           /\ pc[c] = "calling" => hold[c] \in Holds /\ age[c] <= hold[c]
           /\ pc[c] = "ending" => age[c] <= Gap
           /\ holds[c] => pc[c] \in {"calling", "ending"}
           /\ holds[c] => Needed(c) \in Nat /\ Needed(c) > 0
<1>1. /\ left[c] \in Nat /\ keyttl \in Nat /\ age[c] \in Nat
      /\ pc[c] \in {"idle", "rated", "calling", "ending"}
      /\ hold[c] \in Holds \cup {0}
  BY DEF LimitTypes
<1>2. /\ Gap \in Nat /\ Margin \in Nat /\ Gap < Margin
      /\ \A h \in Holds : h \in Nat
  BY GateAssumption
<1>3. AgeOK(c)
  BY DEF SlotsOK
<1>4. hold[c] \in Nat
  BY <1>1, <1>2
<1>5. /\ pc[c] = "calling" => hold[c] \in Holds /\ age[c] <= hold[c]
      /\ pc[c] = "ending" => age[c] <= Gap
      /\ holds[c] => pc[c] \in {"calling", "ending"}
  BY <1>1, <1>3 DEF AgeOK
<1>6. holds[c] => Needed(c) \in Nat /\ Needed(c) > 0
  BY <1>1, <1>2, <1>4, <1>5 DEF Needed
<1> QED BY <1>1, <1>2, <1>4, <1>5, <1>6 DEF Lease

\* A slot stays covered by a script that acquires another: the lease is not
\* pruned, and the key is renewed for twice the new lease.
LEMMA AcquireCovers ==
    ASSUME LimitTypes, SlotsOK, NEW c \in Calls, NEW h \in Holds, SemAcquire(c, h),
           NEW d \in Calls, holds[d], Covered(d), d # c
    PROVE  /\ d \in zset' /\ left'[d] = left[d]
           /\ \E k \in Holds : keyttl' + Lease(hold[d]) >= 2 * Lease(k) + left[d]
<1>1. /\ left[d] \in Nat /\ Needed(d) \in Nat /\ Needed(d) > 0
      /\ hold[d] \in Nat /\ Margin \in Nat /\ Lease(hold[d]) = hold[d] + Margin
      /\ h \in Nat /\ Lease(h) = h + Margin
  BY SlotNumbers
<1>2. /\ d \in zset /\ left[d] >= Needed(d) /\ left[d] <= Lease(hold[d])
      /\ \E k \in Holds : keyttl + Lease(hold[d]) >= 2 * Lease(k) + left[d]
  BY DEF Covered
<1>3. d \in Pruned(zset)
  <2>1. left[d] > 0
    BY <1>1, <1>2
  <2> QED BY <1>2, <2>1 DEF Pruned
<1>4. CASE Admits
  <2>1. d \in zset' /\ left'[d] = left[d] /\ keyttl' = 2 * Lease(h)
    BY <1>3, <1>4 DEF SemAcquire, LimitTypes
  <2>2. keyttl' + Lease(hold[d]) >= 2 * Lease(h) + left[d]
    BY <1>1, <1>2, <2>1
  <2> QED BY <2>1, <2>2
<1>5. CASE ~Admits
  BY <1>2, <1>3, <1>5 DEF SemAcquire
<1> QED BY <1>4, <1>5

\* The call that is admitted has a new lease, and so has the key.
LEMMA AdmittedCovered ==
    ASSUME LimitTypes, NEW c \in Calls, NEW h \in Holds, SemAcquire(c, h), Admits
    PROVE  c \in zset' /\ left'[c] = Lease(h) /\ keyttl' = 2 * Lease(h)
BY DEF SemAcquire, LimitTypes

-----------------------------------------------------------------------------
(* The steps                                                               *)

Same(d) == /\ pc'[d] = pc[d] /\ holds'[d] = holds[d]
           /\ hold'[d] = hold[d] /\ age'[d] = age[d]

\* A call that does not move, while no lease or key is touched.
LEMMA CallKept ==
    ASSUME NEW d \in Calls, AgeOK(d), Same(d)
    PROVE  /\ AgeOK(d)' /\ Needed(d)' = Needed(d) /\ Lease(hold[d])' = Lease(hold[d])
           /\ LostOK(d) /\ (d \in zset' => d \in zset) /\ (d \in gone' <=> d \in gone)
              /\ (d \in dropped' <=> d \in dropped) => LostOK(d)'
           /\ SlotOK(d) /\ UNCHANGED semVars /\ (d \in gone => d \in gone')
              /\ (d \in dropped' <=> d \in dropped) => SlotOK(d)'
<1>1. AgeOK(d)' /\ Needed(d)' = Needed(d) /\ Lease(hold[d])' = Lease(hold[d])
  BY DEF AgeOK, Same, Needed, Lease
<1>2. LostOK(d) /\ (d \in zset' => d \in zset) /\ (d \in gone' <=> d \in gone)
        /\ (d \in dropped' <=> d \in dropped) => LostOK(d)'
  BY DEF LostOK, Same, Lease
<1>3. ASSUME UNCHANGED semVars PROVE Covered(d) => Covered(d)'
  BY <1>1, <1>3 DEF Covered, semVars, Lease
<1> QED BY <1>1, <1>2, <1>3 DEF SlotOK, Same

\* The rate is checked before a slot is asked for.
LEMMA AllowRateStep ==
    ASSUME LimitInv, NEW c \in Calls, AllowRate(c)
    PROVE  LimitInv'
<1>0. LimitTypes /\ SlotsOK /\ BucketExact
  BY DEF LimitInv
<1>1. /\ UNCHANGED <<semVars, holds, hold, age, gone, dropped>> /\ pc[c] = "idle"
      /\ \E l \in {"idle", "rated"} : pc' = [pc EXCEPT ![c] = l]
      /\ UNCHANGED faults \/ Fault
      /\ TokenBucketTake \/ UNCHANGED <<bucket, ideal>>
  BY DEF AllowRate, Goto, Unanswered
<1>2. /\ bucket' \in [on: BOOLEAN, t: 0..Full, age: 0..(BucketLife - 1)]
      /\ ideal' \in 0..Full
      /\ BucketExact'
  BY <1>0, <1>1, TakeStep DEF LimitTypes, BucketExact
<1>3. faults' \in 0..MaxFaults
  BY <1>0, <1>1, GateAssumption DEF Fault, LimitTypes
<1>4. LimitTypes'
  BY <1>0, <1>1, <1>2, <1>3 DEF LimitTypes, semVars
<1>5. ASSUME NEW d \in Calls PROVE AgeOK(d)' /\ SlotOK(d)' /\ LostOK(d)'
  <2>1. AgeOK(d) /\ SlotOK(d) /\ LostOK(d)
    BY <1>0 DEF SlotsOK
  <2>2. CASE d = c
    BY <1>0, <1>1, <2>1, <2>2 DEF AgeOK, SlotOK, LostOK, LimitTypes, semVars
  <2>3. CASE d # c
    <3>1. Same(d)
      BY <1>0, <1>1, <2>3 DEF Same, LimitTypes
    <3> QED BY <1>1, <2>1, <3>1, CallKept DEF semVars
  <2> QED BY <2>2, <2>3
<1>6. SlotsOK'
  BY <1>0, <1>1, <1>5 DEF SlotsOK, semVars
<1> QED BY <1>2, <1>4, <1>6 DEF LimitInv

\* A slot is asked for: granted, refused, or granted without the caller
\* knowing.
LEMMA AcquireStep ==
    ASSUME LimitInv, NEW c \in Calls, NEW h \in Holds, Acquire(c, h)
    PROVE  LimitInv'
<1>0. LimitTypes /\ SlotsOK /\ BucketExact
  BY DEF LimitInv
<1>1. /\ UNCHANGED <<bucket, age, gone, dropped, ideal>> /\ pc[c] = "rated"
      /\ UNCHANGED faults \/ Fault
      /\ SemAcquire(c, h) \/ UNCHANGED semVars
      /\ \/ /\ SemAcquire(c, h) /\ Admits
            /\ pc' = [pc EXCEPT ![c] = "calling"]
            /\ holds' = [holds EXCEPT ![c] = TRUE]
            /\ hold' = [hold EXCEPT ![c] = h]
         \/ /\ pc' = [pc EXCEPT ![c] = "idle"]
            /\ holds' = [holds EXCEPT ![c] = FALSE]
            /\ hold' = [hold EXCEPT ![c] = 0]
         \/ /\ pc' = [pc EXCEPT ![c] = "calling"]
            /\ UNCHANGED holds
            /\ hold' = [hold EXCEPT ![c] = h]
  BY DEF Acquire, Goto, Unanswered
<1>2. h \in Nat /\ Margin \in Nat /\ Lease(h) \in Nat /\ 2 * Lease(h) \in Nat
  BY GateAssumption DEF Lease
<1>3. zset' \in SUBSET Calls /\ left' \in [Calls -> Nat] /\ keyttl' \in Nat
  BY <1>0, <1>1, <1>2 DEF SemAcquire, Pruned, LimitTypes, semVars
<1>4. faults' \in 0..MaxFaults
  BY <1>0, <1>1, GateAssumption DEF Fault, LimitTypes
<1>5. /\ pc' \in [Calls -> {"idle", "rated", "calling", "ending"}]
      /\ holds' \in [Calls -> BOOLEAN]
      /\ hold' \in [Calls -> Holds \cup {0}]
  BY <1>0, <1>1, ZenonT(60) DEF LimitTypes
<1>6. LimitTypes' /\ BucketExact'
  BY <1>0, <1>1, <1>3, <1>4, <1>5 DEF LimitTypes, BucketExact
<1>7. IsFiniteSet(zset') /\ Cardinality(zset') <= Cap
  BY <1>0, <1>1, ZsetBound DEF SlotsOK, semVars
<1>8. ASSUME NEW d \in Calls, d # c PROVE AgeOK(d)' /\ SlotOK(d)' /\ LostOK(d)'
  <2>1. AgeOK(d) /\ SlotOK(d) /\ LostOK(d) /\ Same(d)
    BY <1>0, <1>1, <1>8 DEF SlotsOK, Same, LimitTypes
  <2>2. /\ AgeOK(d)' /\ Needed(d)' = Needed(d) /\ Lease(hold[d])' = Lease(hold[d])
        /\ LostOK(d)'
    <3>1. d \in zset' => d \in zset
      BY <1>1, <1>8 DEF SemAcquire, Pruned, semVars
    <3> QED BY <1>1, <2>1, <3>1, CallKept
  <2>3. CASE UNCHANGED semVars
    BY <1>1, <2>1, <2>2, <2>3, CallKept
  <2>4. CASE SemAcquire(c, h) /\ holds[d] /\ d \notin gone \cup dropped
    <3>1. Covered(d)
      BY <2>1, <2>4 DEF SlotOK
    <3>2. /\ d \in zset' /\ left'[d] = left[d]
          /\ \E k \in Holds : keyttl' + Lease(hold[d]) >= 2 * Lease(k) + left[d]
      BY <1>0, <1>8, <2>4, <3>1, AcquireCovers
    <3>3. Covered(d)'
      BY <2>1, <2>2, <3>1, <3>2 DEF Covered, Same, Lease
    <3> QED BY <2>2, <3>3 DEF SlotOK
  <2>5. CASE ~(holds[d] /\ d \notin gone \cup dropped)
    BY <1>1, <2>1, <2>2, <2>5 DEF SlotOK, Same
  <2> QED BY <1>1, <2>3, <2>4, <2>5
<1>9. AgeOK(c)' /\ SlotOK(c)' /\ LostOK(c)'
  <2>1. age[c] = 0 /\ ~holds[c] /\ age' = age /\ c \notin gone' \cup dropped'
    BY <1>0, <1>1 DEF SlotsOK, AgeOK, LostOK
  <2>2. LostOK(c)'
    BY <2>1 DEF LostOK
  <2>3. CASE pc'[c] = "idle" /\ holds'[c] = FALSE
    BY <2>1, <2>2, <2>3 DEF AgeOK, SlotOK
  <2>4. CASE pc'[c] = "calling" /\ holds'[c] = FALSE /\ hold'[c] = h
    <3>1. age'[c] = 0 /\ 0 <= h
      BY <1>2, <2>1
    <3>2. AgeOK(c)'
      BY <2>4, <3>1 DEF AgeOK
    <3> QED BY <2>2, <2>4, <3>2 DEF SlotOK
  <2>5. CASE SemAcquire(c, h) /\ Admits /\ pc'[c] = "calling" /\ hold'[c] = h
    <3>1. c \in zset' /\ left'[c] = Lease(h) /\ keyttl' = 2 * Lease(h)
      BY <1>0, <2>5, AdmittedCovered
    <3>2. Needed(c)' = Lease(h) /\ Lease(hold[c])' = Lease(h)
      BY <1>2, <2>1, <2>5 DEF Needed, Lease
    <3>3. left'[c] >= Lease(h) /\ left'[c] <= Lease(h)
      BY <1>2, <3>1
    <3>4. keyttl' + Lease(h) >= 2 * Lease(h) + left'[c]
      BY <1>2, <3>1
    <3>5. Covered(c)'
      BY <2>5, <3>1, <3>2, <3>3, <3>4 DEF Covered, Lease
    <3>6. AgeOK(c)'
      BY <1>2, <2>1, <2>5 DEF AgeOK
    <3> QED BY <2>2, <3>5, <3>6 DEF SlotOK
  <2> QED BY <1>0, <1>1, <2>1, <2>3, <2>4, <2>5 DEF LimitTypes
<1> QED BY <1>6, <1>7, <1>8, <1>9 DEF LimitInv, SlotsOK

\* The adapter returns within its timeout.
LEMMA ReturnsStep ==
    ASSUME LimitInv, NEW c \in Calls, NEW p, NEW n, NEW replies,
           Returns(c, p, n, replies)
    PROVE  LimitInv'
<1>0. LimitTypes /\ SlotsOK /\ BucketExact
  BY DEF LimitInv
<1>1. /\ UNCHANGED <<semVars, bucket, holds, hold, gone, dropped, ideal, faults>>
      /\ pc[c] = "calling"
      /\ age' = [age EXCEPT ![c] = 0]
      /\ pc' = [pc EXCEPT ![c] = "ending"]
  BY DEF Returns, Goto
<1>2. LimitTypes' /\ BucketExact'
  BY <1>0, <1>1 DEF LimitTypes, BucketExact, semVars
<1>3. ASSUME NEW d \in Calls PROVE AgeOK(d)' /\ SlotOK(d)' /\ LostOK(d)'
  <2>1. AgeOK(d) /\ SlotOK(d) /\ LostOK(d)
    BY <1>0 DEF SlotsOK
  <2>2. CASE d # c
    <3>1. Same(d)
      BY <1>0, <1>1, <2>2 DEF Same, LimitTypes
    <3> QED BY <1>1, <2>1, <3>1, CallKept DEF semVars
  <2>3. CASE d = c
    <3>1. /\ pc'[c] = "ending" /\ age'[c] = 0
      BY <1>0, <1>1 DEF LimitTypes
    <3>2. /\ left[c] \in Nat /\ Gap \in Nat /\ Margin \in Nat /\ hold[c] \in Nat
          /\ age[c] \in Nat /\ age[c] <= hold[c]
      BY <1>0, <1>1, SlotNumbers
    <3>3. Needed(c)' = Margin /\ Margin <= Needed(c) /\ Needed(c) \in Nat
      BY <1>1, <3>1, <3>2 DEF Needed
    <3>4. Covered(c) => Covered(c)'
      BY <1>1, <3>2, <3>3 DEF Covered, Lease, semVars
    <3>5. AgeOK(c)' /\ LostOK(c)'
      BY <1>1, <2>1, <2>3, <3>1, <3>2 DEF AgeOK, LostOK, Lease, semVars
    <3> QED BY <1>1, <2>1, <2>3, <3>4, <3>5 DEF SlotOK
  <2> QED BY <2>2, <2>3
<1> QED BY <1>0, <1>1, <1>2, <1>3 DEF LimitInv, SlotsOK, semVars

\* A call that is over, with its slot given back or forgotten.
LEMMA EndedStep ==
    ASSUME LimitInv, NEW c \in Calls, Ended(c, "idle"), UNCHANGED <<bucket, ideal>>,
           UNCHANGED semVars \/ SemRelease(c), UNCHANGED faults \/ Fault
    PROVE  LimitInv'
<1>0. LimitTypes /\ SlotsOK /\ BucketExact
  BY DEF LimitInv
<1>1. /\ pc' = [pc EXCEPT ![c] = "idle"]
      /\ holds' = [holds EXCEPT ![c] = FALSE]
      /\ hold' = [hold EXCEPT ![c] = 0]
      /\ age' = [age EXCEPT ![c] = 0]
      /\ gone' = gone \ {c} /\ dropped' = dropped \ {c}
  BY DEF Ended, Goto
<1>2. faults' \in 0..MaxFaults
  BY <1>0, GateAssumption DEF Fault, LimitTypes
<1>3. zset' \in SUBSET Calls /\ left' \in [Calls -> Nat] /\ keyttl' \in Nat
  BY <1>0 DEF SemRelease, LimitTypes, semVars
<1>4. LimitTypes' /\ BucketExact'
  BY <1>0, <1>1, <1>2, <1>3 DEF LimitTypes, BucketExact
<1>5. zset' \subseteq zset
  BY DEF SemRelease, semVars
<1>6. IsFiniteSet(zset') /\ Cardinality(zset') <= Cap
  <2>1. IsFiniteSet(zset) /\ Cardinality(zset) <= Cap
    BY <1>0 DEF SlotsOK
  <2>2. IsFiniteSet(zset') /\ Cardinality(zset') <= Cardinality(zset)
    BY <1>5, <2>1, FS_Subset
  <2> QED BY <2>1, <2>2, FS_CardinalityType, GateAssumption
<1>7. ASSUME NEW d \in Calls PROVE AgeOK(d)' /\ SlotOK(d)' /\ LostOK(d)'
  <2>1. AgeOK(d) /\ SlotOK(d) /\ LostOK(d)
    BY <1>0 DEF SlotsOK
  <2>2. CASE d = c
    BY <1>0, <1>1, <2>2 DEF LimitTypes, AgeOK, SlotOK, LostOK
  <2>3. CASE d # c
    <3>1. Same(d) /\ (d \in gone' <=> d \in gone)
          /\ (d \in dropped' <=> d \in dropped)
      BY <1>0, <1>1, <2>3 DEF Same, LimitTypes
    <3>2. /\ AgeOK(d)' /\ Needed(d)' = Needed(d) /\ Lease(hold[d])' = Lease(hold[d])
          /\ LostOK(d)'
      BY <1>5, <2>1, <3>1, CallKept
    <3>3. /\ d \in zset => d \in zset'
          /\ left'[d] = left[d] /\ keyttl' = keyttl
      BY <1>0, <2>3 DEF SemRelease, semVars, LimitTypes
    <3>4. Covered(d) => Covered(d)'
      BY <3>2, <3>3 DEF Covered, Lease
    <3> QED BY <2>1, <3>1, <3>2, <3>4 DEF SlotOK, Same
  <2> QED BY <2>2, <2>3
<1> QED BY <1>4, <1>6, <1>7 DEF LimitInv, SlotsOK

\* Redis loses its data: the slots are gone, and known to be.
LEMMA FlushStep ==
    ASSUME LimitInv, Flush
    PROVE  LimitInv'
<1>0. LimitTypes /\ SlotsOK
  BY DEF LimitInv
<1>1. /\ zset' = {} /\ left' = [c \in Calls |-> 0] /\ keyttl' = 0
      /\ gone' = gone \cup {c \in Calls : holds[c]}
      /\ bucket' = NoBucket /\ ideal' = Full
      /\ UNCHANGED <<pc, holds, hold, age, dropped>> /\ Fault
  BY DEF Flush, callVars
<1>2. faults' \in 0..MaxFaults
  BY <1>0, <1>1, GateAssumption DEF Fault, LimitTypes
<1>3. LimitTypes' /\ BucketExact'
  BY <1>0, <1>1, <1>2, FlushFills DEF LimitTypes
<1>4. IsFiniteSet(zset') /\ Cardinality(zset') <= Cap
  BY <1>1, FS_EmptySet, GateAssumption
<1>5. ASSUME NEW d \in Calls PROVE AgeOK(d)' /\ SlotOK(d)' /\ LostOK(d)'
  BY <1>0, <1>1 DEF SlotsOK, AgeOK, SlotOK, LostOK, Lease
<1> QED BY <1>3, <1>4, <1>5 DEF LimitInv, SlotsOK

\* A second passes, for the leases, the key and the calls alike.
LEMMA TickStep ==
    ASSUME LimitInv, Tick
    PROVE  LimitInv'
<1>0. LimitTypes /\ SlotsOK /\ BucketExact
  BY DEF LimitInv
<1>1. /\ \A c \in Calls : /\ pc[c] = "calling" => age[c] < hold[c]
                          /\ pc[c] = "ending"  => age[c] < Gap
      /\ age' = [c \in Calls |-> IF pc[c] \in {"calling", "ending"} THEN age[c] + 1 ELSE 0]
      /\ keyttl' = IF keyttl > 0 THEN keyttl - 1 ELSE 0
      /\ left' = [c \in Calls |-> IF keyttl' > 0 /\ left[c] > 0 THEN left[c] - 1 ELSE 0]
      /\ zset' = IF keyttl' = 0 THEN {} ELSE zset
      /\ dropped' = IF keyttl' = 0 THEN dropped \cup {c \in zset : holds[c] /\ left[c] > 1}
                    ELSE dropped
      /\ UNCHANGED <<pc, holds, hold, gone, faults>>
  BY Zenon DEF Tick
<1>2. /\ zset' \in SUBSET Calls /\ keyttl' \in Nat /\ dropped' \in SUBSET Calls
      /\ left' \in [Calls -> Nat] /\ age' \in [Calls -> Nat]
  BY <1>0, <1>1 DEF LimitTypes
<1>3. LimitTypes' /\ BucketExact'
  BY <1>0, <1>1, <1>2, TickFills DEF LimitTypes
<1>4. IsFiniteSet(zset') /\ Cardinality(zset') <= Cap
  BY <1>0, <1>1, FS_EmptySet, GateAssumption DEF SlotsOK
<1>5. ASSUME NEW d \in Calls PROVE AgeOK(d)' /\ SlotOK(d)' /\ LostOK(d)'
  <2>1. /\ left[d] \in Nat /\ keyttl \in Nat /\ age[d] \in Nat /\ keyttl' \in Nat
        /\ hold[d] \in Nat /\ Gap \in Nat /\ Margin \in Nat /\ Gap < Margin
        /\ Lease(hold[d]) = hold[d] + Margin
        /\ \A k \in Holds : k \in Nat /\ Lease(k) = k + Margin
        /\ pc[d] \in {"idle", "rated", "calling", "ending"}
    BY <1>0, <1>2, SlotNumbers DEF LimitTypes
  <2>2. AgeOK(d) /\ SlotOK(d) /\ LostOK(d)
    BY <1>0 DEF SlotsOK
  <2>3. AgeOK(d)'
    BY <1>1, <2>1, <2>2 DEF AgeOK
  <2>4. ASSUME Covered(d), holds[d]
        PROVE  /\ Needed(d) \in Nat /\ Needed(d) >= Margin - Gap + 1
               /\ Needed(d)' = Needed(d) - 1 /\ left[d] > 1
    <3>1. pc[d] \in {"calling", "ending"}
      BY <2>1, <2>2, <2>4 DEF AgeOK
    <3>2. /\ age'[d] = age[d] + 1 /\ pc'[d] = pc[d] /\ hold'[d] = hold[d]
      BY <1>1, <3>1
    <3>3. CASE pc[d] = "calling"
      <4>1. age[d] < hold[d]
        BY <1>1, <3>3
      <4>2. /\ Needed(d) = hold[d] - age[d] + Margin
            /\ Needed(d)' = hold[d] - (age[d] + 1) + Margin
        BY <3>2, <3>3 DEF Needed
      <4> QED BY <2>1, <2>4, <4>1, <4>2 DEF Covered
    <3>4. CASE pc[d] = "ending"
      <4>1. age[d] < Gap
        BY <1>1, <3>4
      <4>2. Needed(d) = Margin - age[d] /\ Needed(d)' = Margin - (age[d] + 1)
        BY <3>2, <3>4 DEF Needed
      <4> QED BY <2>1, <2>4, <4>1, <4>2 DEF Covered
    <3> QED BY <3>1, <3>3, <3>4
  <2>5. CASE keyttl' = 0
    <3>1. SlotOK(d)'
      <4>1. ASSUME holds[d], d \notin gone \cup dropped PROVE d \in dropped'
        <5>1. Covered(d)
          BY <2>2, <4>1 DEF SlotOK
        <5> QED BY <1>1, <2>4, <2>5, <4>1, <5>1 DEF Covered
      <4> QED BY <1>1, <2>5, <4>1 DEF SlotOK
    <3>2. ASSUME d \in dropped', d \notin dropped
          PROVE  holds[d] /\ \E k \in Holds : 2 * Lease(k) <= hold[d] + Gap
      <4>1. d \in zset /\ holds[d]
        BY <1>1, <2>5, <3>2
      <4>2. Covered(d)
        BY <2>2, <3>2, <4>1 DEF SlotOK, LostOK
      <4>3. PICK k \in Holds : keyttl + Lease(hold[d]) >= 2 * Lease(k) + left[d]
        BY <4>2 DEF Covered
      <4>4. left[d] >= Margin - Gap + 1
        BY <2>1, <2>4, <4>1, <4>2 DEF Covered
      <4>5. keyttl <= 1
        BY <1>1, <2>1, <2>5
      <4>6. 2 * Lease(k) <= hold[d] + Gap
        BY <2>1, <4>3, <4>4, <4>5
      <4> QED BY <4>1, <4>6
    <3>3. LostOK(d)'
      BY <1>1, <2>2, <3>2 DEF LostOK, Lease
    <3> QED BY <2>3, <3>1, <3>3
  <2>6. CASE keyttl' # 0
    <3>1. keyttl > 0 /\ keyttl' = keyttl - 1 /\ keyttl' > 0
      BY <1>1, <2>1, <2>6
    <3>2. zset' = zset /\ dropped' = dropped
      BY <1>1, <2>6
    <3>3. ASSUME Covered(d), holds[d] PROVE Covered(d)'
      <4>1. left'[d] = left[d] - 1
        BY <1>1, <2>1, <2>4, <3>1, <3>3
      <4>2. PICK k \in Holds : keyttl + Lease(hold[d]) >= 2 * Lease(k) + left[d]
        BY <3>3 DEF Covered
      <4>3. keyttl' + Lease(hold[d]) >= 2 * Lease(k) + left'[d]
        BY <2>1, <3>1, <4>1, <4>2
      <4>4. left'[d] >= Needed(d)' /\ left'[d] <= Lease(hold[d])
        BY <2>1, <2>4, <3>3, <4>1 DEF Covered
      <4>5. d \in zset' /\ Lease(hold'[d]) = Lease(hold[d])
        BY <1>1, <3>2, <3>3 DEF Covered
      <4> QED BY <4>3, <4>4, <4>5 DEF Covered, Lease
    <3> QED BY <1>1, <2>2, <2>3, <3>2, <3>3 DEF SlotOK, LostOK, Lease
  <2> QED BY <2>5, <2>6
<1> QED BY <1>3, <1>4, <1>5 DEF LimitInv, SlotsOK

-----------------------------------------------------------------------------
(* The limits                                                              *)

\* The limits hold initially.
LEMMA LimitInit == Init => LimitInv
<1> SUFFICES ASSUME Init PROVE LimitInv
  OBVIOUS
<1>1. BucketExact
  BY DEF Init, BucketExact, Refill, NoBucket
<1>2. NoBucket \in [on: BOOLEAN, t: 0..Full, age: 0..(BucketLife - 1)]
  BY BucketNumbers DEF NoBucket
<1>3. LimitTypes
  BY <1>2, BucketNumbers, GateAssumption DEF Init, LimitTypes
<1>4. SlotsOK
  BY FS_EmptySet, GateAssumption DEF Init, SlotsOK, AgeOK, SlotOK, LostOK
<1> QED BY <1>1, <1>3, <1>4 DEF LimitInv

\* Every step keeps them.
LEMMA LimitStep == LimitInv /\ [Next]_vars => LimitInv'
<1> SUFFICES ASSUME LimitInv, [Next]_vars PROVE LimitInv'
  OBVIOUS
<1>1. ASSUME NEW c \in Calls, CallStep(c) PROVE LimitInv'
  <2>1. CASE Release(c)
    BY <2>1, EndedStep DEF Release
  <2>2. ASSUME NEW p \in Providers, NEW n \in 0..MaxPieces,
               CallChat(c, p, n) \/ CallStream(c, p, n)
        PROVE  LimitInv'
    BY <2>2, ReturnsStep DEF CallChat, CallStream
  <2> QED BY <1>1, <2>1, <2>2 DEF CallStep
<1>2. ASSUME NEW c \in Calls, Crash(c) PROVE LimitInv'
  BY <1>2, EndedStep DEF Crash
<1>3. CASE UNCHANGED vars
  <2>1. UNCHANGED <<semVars, bucket, pc, holds, hold, age, gone, dropped, ideal, faults>>
    BY <1>3 DEF vars, callVars
  <2>2. LimitTypes' /\ BucketExact'
    BY <2>1 DEF LimitInv, LimitTypes, BucketExact, semVars
  <2>3. SlotsOK'
    <3>1. ASSUME NEW d \in Calls PROVE AgeOK(d)' /\ SlotOK(d)' /\ LostOK(d)'
      BY <2>1, CallKept DEF LimitInv, SlotsOK, Same, semVars
    <3> QED BY <2>1, <3>1 DEF LimitInv, SlotsOK, semVars
  <2> QED BY <2>2, <2>3 DEF LimitInv
<1> QED
  BY <1>1, <1>2, <1>3, AllowRateStep, AcquireStep, FlushStep, TickStep DEF Next

\* The inductive invariant of the limits.
THEOREM LimitInvariance == Spec => []LimitInv
BY LimitInit, LimitStep, PTL DEF Spec

\* Of the calls whose slot Redis has not forgotten LlmGate never runs more than
\* max_concurrency, and no lease runs out under a live call: with any number of
\* workers, any timeouts, crashes, lost answers and lost releases.  The key takes
\* a running lease with it only where some call may bring half of it or less.
THEOREM CapAlwaysHeld == Spec => []CapHeld
<1>1. LimitInv => CapHeld
  <2> SUFFICES ASSUME LimitInv PROVE CapHeld
    OBVIOUS
  <2> DEFINE running == {c \in Calls : holds[c] /\ c \notin gone \cup dropped}
  <2>0. LimitTypes /\ SlotsOK
    BY DEF LimitInv
  <2>1. ASSUME NEW c \in running PROVE c \in zset /\ left[c] > 0
    <3>1. Covered(c) /\ holds[c]
      BY <2>0 DEF SlotsOK, SlotOK
    <3>2. left[c] \in Nat /\ Needed(c) \in Nat /\ Needed(c) > 0
      BY <2>0, <3>1, SlotNumbers
    <3> QED BY <3>1, <3>2 DEF Covered
  <2>2. IsFiniteSet(zset) /\ Cardinality(zset) <= Cap /\ Cap \in Nat
    BY <2>0, GateAssumption DEF SlotsOK
  <2>3. IsFiniteSet(running) /\ Cardinality(running) <= Cardinality(zset)
    BY <2>1, <2>2, FS_Subset
  <2>4. Cardinality(running) <= Cap
    BY <2>2, <2>3, FS_CardinalityType
  <2>5. \A c \in Calls : holds[c] /\ c \notin gone \cup dropped => c \in Pruned(zset)
    BY <2>1 DEF Pruned
  <2>6. \A c \in dropped : \E k \in Holds : 2 * Lease(k) <= hold[c] + Gap
    BY <2>0 DEF LimitTypes, SlotsOK, LostOK
  <2> QED BY <2>4, <2>5, <2>6 DEF CapHeld
<1> QED BY <1>1, LimitInvariance, PTL

\* Timeouts of which none, with its gap, is as long as two leases of another.
SimilarHolds == \A h, k \in Holds : h + Gap < 2 * Lease(k)

\* With timeouts that are alike the cap is never exceeded and no slot goes before
\* its call, as llm_gate.hpp says of all timeouts: it is the length of the key's
\* life that fails the others.
THEOREM SimilarHoldsKeepCap == ASSUME SimilarHolds PROVE Spec => []CapNeverExceeded
<1>1. LimitInv => CapNeverExceeded
  <2> SUFFICES ASSUME LimitInv PROVE CapNeverExceeded
    OBVIOUS
  <2>0. LimitTypes /\ SlotsOK
    BY DEF LimitInv
  <2> DEFINE running == {c \in Calls : holds[c] /\ c \notin gone}
  <2>1. ASSUME NEW c \in running PROVE c \in zset
    <3>1. c \notin dropped
      <4> SUFFICES ASSUME c \in dropped PROVE FALSE
        OBVIOUS
      <4>1. PICK k \in Holds : 2 * Lease(k) <= hold[c] + Gap
        BY <2>0 DEF SlotsOK, LostOK
      <4>2. /\ hold[c] \in Nat /\ Gap \in Nat /\ Margin \in Nat /\ Gap < Margin
            /\ k \in Nat /\ Lease(k) = k + Margin
            /\ hold[c] \in Holds \cup {0}
        BY <2>0, SlotNumbers DEF LimitTypes
      <4>3. CASE hold[c] \in Holds
        <5>1. hold[c] + Gap < 2 * Lease(k)
          BY <4>3 DEF SimilarHolds
        <5> QED BY <4>1, <4>2, <5>1
      <4>4. CASE hold[c] = 0
        BY <4>1, <4>2, <4>4
      <4> QED BY <4>2, <4>3, <4>4
    <3> QED BY <2>0, <3>1 DEF SlotsOK, SlotOK, Covered
  <2>2. IsFiniteSet(zset) /\ Cardinality(zset) <= Cap /\ Cap \in Nat
    BY <2>0, GateAssumption DEF SlotsOK
  <2>3. IsFiniteSet(running) /\ Cardinality(running) <= Cardinality(zset)
    BY <2>1, <2>2, FS_Subset
  <2>4. Cardinality(running) <= Cap
    BY <2>2, <2>3, FS_CardinalityType
  <2> QED BY <2>4 DEF CapNeverExceeded
<1> QED BY <1>1, LimitInvariance, PTL

\* The lazy bucket of token_bucket_take, expiry of its key included, holds
\* exactly what a bucket filled every second would: the rate is never
\* exceeded and never cut, for every rate and burst.
THEOREM BucketAlwaysExact == Spec => []BucketExact
<1>1. LimitInv => BucketExact
  BY DEF LimitInv
<1> QED BY <1>1, LimitInvariance, PTL

-----------------------------------------------------------------------------
(* The bodies that arrive                                                  *)

Names  == {"message_start", "content_block_delta", "message_delta", "message_stop",
           "error", "cut", "none"}
Values == Names \cup {"json", "text", "[DONE]", "bad"}
Lines  == [field: {"event", "data", "none"}, value: Values]

\* Lines, and frames of them.
LEMMA LineTypes ==
    /\ Blank \in Lines
    /\ \A x \in Values : Event(x) \in Lines /\ Data(x) \in Lines
    /\ \A l \in Lines : Spoilt(l) \in Lines
<1>1. /\ Blank \in Lines
      /\ \A x \in Values : Event(x) \in Lines /\ Data(x) \in Lines
  BY DEF Lines, Values, Names, Blank, Event, Data
<1>2. "bad" \in Values /\ "cut" \in Values
  BY DEF Values, Names
<1> QED BY <1>1, <1>2 DEF Spoilt

\* Event, data and an empty line are three lines.
LEMMA FrameLines ==
    ASSUME NEW x \in Values, NEW y \in Values
    PROVE  /\ Frame(x, y) \in Seq(Lines) /\ Len(Frame(x, y)) = 3
           /\ Frame(x, y)[1] = Event(x) /\ Frame(x, y)[2] = Data(y)
           /\ Frame(x, y)[3] = Blank
<1>1. Event(x) \in Lines /\ Data(y) \in Lines /\ Blank \in Lines
  BY LineTypes
<1> QED BY <1>1 DEF Frame

\* A frame of two or three lines, n times.
LEMMA RepeatLines ==
    ASSUME NEW n \in Nat, NEW frame \in Seq(Lines), NEW w \in 2..3, Len(frame) = w
    PROVE  /\ Repeat(n, frame) \in Seq(Lines)
           /\ Len(Repeat(n, frame)) = n * w
           /\ \A i \in 1..(n * w) : Repeat(n, frame)[i] = frame[((i - 1) % w) + 1]
<1>1. n * w \in Nat
  OBVIOUS
<1>2. \A i \in 1..(n * w) : ((i - 1) % w) + 1 \in 1..w
  <2>1. CASE w = 2
    BY <2>1
  <2>2. CASE w = 3
    BY <2>2
  <2> QED BY <2>1, <2>2
<1>3. \A i \in 1..(n * w) : frame[((i - 1) % w) + 1] \in Lines
  BY <1>2
<1> QED BY <1>1, <1>3 DEF Repeat

\* Two bodies, one after the other.
LEMMA Joined ==
    ASSUME NEW s \in Seq(Lines), NEW t \in Seq(Lines), NEW z, z = s \o t
    PROVE  /\ z \in Seq(Lines) /\ Len(z) = Len(s) + Len(t)
           /\ \A i \in 1 .. Len(s) + Len(t) :
                 z[i] = IF i <= Len(s) THEN s[i] ELSE t[i - Len(s)]
  BY ConcatProperties, Zenon

\* The line at a place of what an OpenAI-compatible server sends.
OaiAt(n, i) ==
    IF i <= 2 * n THEN (IF i % 2 = 1 THEN Data("text") ELSE Blank)
    ELSE IF i = 2 * n + 1 THEN Data("json")
    ELSE IF i = 2 * n + 3 THEN Data("[DONE]")
    ELSE Blank

\* What an OpenAI-compatible server sends, line by line.
LEMMA OaiSent ==
    ASSUME NEW p, p # "anthropic", NEW n \in Nat
    PROVE  /\ Sent(p, n) \in Seq(Lines) /\ Len(Sent(p, n)) = 2 * n + 4
           /\ \A i \in 1..(2 * n + 4) : Sent(p, n)[i] = OaiAt(n, i)
<1> DEFINE frame == <<Data("text"), Blank>>
           a == Repeat(n, frame)
           b == <<Data("json"), Blank, Data("[DONE]"), Blank>>
           z == a \o b
<1>1. frame \in Seq(Lines) /\ Len(frame) = 2 /\ b \in Seq(Lines) /\ Len(b) = 4
  <2>1. Data("json") \in Lines /\ Blank \in Lines /\ Data("[DONE]") \in Lines
        /\ Data("text") \in Lines
    BY LineTypes DEF Values
  <2> QED BY <2>1
<1>2. /\ a \in Seq(Lines) /\ Len(a) = 2 * n
      /\ \A i \in 1..(2 * n) : a[i] = frame[((i - 1) % 2) + 1]
  <2>1. n * 2 = 2 * n
    OBVIOUS
  <2> HIDE DEF frame
  <2> QED BY <1>1, <2>1, RepeatLines
<1>3. ASSUME NEW i \in 1..(2 * n) PROVE a[i] = OaiAt(n, i)
  <2>1. CASE i % 2 = 1
    <3>1. (i - 1) % 2 = 0
      BY <2>1
    <3> QED BY <1>2, <2>1, <3>1 DEF OaiAt
  <2>2. CASE i % 2 # 1
    <3>1. (i - 1) % 2 = 1
      BY <2>2
    <3> QED BY <1>2, <2>2, <3>1 DEF OaiAt
  <2> QED BY <2>1, <2>2
<1>4. Sent(p, n) = z
  BY DEF Sent
<1>5. ASSUME NEW i \in 1..4 PROVE b[i] = OaiAt(n, 2 * n + i)
  <2>1. b[1] = Data("json") /\ b[2] = Blank /\ b[3] = Data("[DONE]") /\ b[4] = Blank
    OBVIOUS
  <2>2. i = 1 \/ i = 2 \/ i = 3 \/ i = 4
    OBVIOUS
  <2> HIDE DEF b
  <2> QED BY <2>1, <2>2 DEF OaiAt
<1> HIDE DEF a, b, frame
<1>6. /\ z \in Seq(Lines) /\ Len(z) = 2 * n + 4
      /\ \A i \in 1..(2 * n) : z[i] = a[i]
      /\ \A i \in (2 * n + 1)..(2 * n + 4) : z[i] = b[i - 2 * n]
  <2>1. z = a \o b
    OBVIOUS
  <2> HIDE DEF z
  <2>2. /\ z \in Seq(Lines) /\ Len(z) = Len(a) + Len(b)
        /\ \A i \in 1 .. Len(a) + Len(b) :
              z[i] = IF i <= Len(a) THEN a[i] ELSE b[i - Len(a)]
    BY <1>1, <1>2, <2>1, Joined, ZenonT(60)
  <2> QED BY <1>1, <1>2, <2>2
<1> HIDE DEF z
<1>7. ASSUME NEW i \in 1..(2 * n + 4) PROVE Sent(p, n)[i] = OaiAt(n, i)
  <2>1. CASE i <= 2 * n
    BY <1>3, <1>4, <1>6, <2>1
  <2>2. CASE i > 2 * n
    <3>1. i - 2 * n \in 1..4 /\ 2 * n + (i - 2 * n) = i
      BY <2>2
    <3>2. b[i - 2 * n] = OaiAt(n, i)
      BY <1>5, <3>1
    <3>3. z[i] = b[i - 2 * n]
      BY <1>6, <2>2
    <3> QED BY <1>4, <3>2, <3>3
  <2> QED BY <2>1, <2>2
<1> QED BY <1>4, <1>6, <1>7

\* The event whose frame has a line of what Anthropic sends, and the line.
EventAt(n, i) ==
    IF i <= 3 THEN "message_start"
    ELSE IF i <= 3 * n + 3 THEN "content_block_delta"
    ELSE IF i <= 3 * n + 6 THEN "message_delta"
    ELSE "message_stop"
AnthropicAt(n, i) ==
    IF i % 3 = 1 THEN Event(EventAt(n, i))
    ELSE IF i % 3 = 0 THEN Blank
    ELSE Data(IF EventAt(n, i) = "content_block_delta" THEN "text" ELSE "json")

\* What Anthropic sends, line by line.
LEMMA AnthropicSent ==
    ASSUME NEW n \in Nat
    PROVE  /\ Sent("anthropic", n) \in Seq(Lines) /\ Len(Sent("anthropic", n)) = 3 * n + 9
           /\ \A i \in 1..(3 * n + 9) : Sent("anthropic", n)[i] = AnthropicAt(n, i)
<1> DEFINE a == Frame("message_start", "json")
           f == Frame("content_block_delta", "text")
           b == Repeat(n, f)
           c == Frame("message_delta", "json")
           d == Frame("message_stop", "json")
           ab == a \o b
           abc == ab \o c
           abcd == abc \o d
<1>1. Sent("anthropic", n) = abcd
  BY DEF Sent
<1>2. /\ a \in Seq(Lines) /\ Len(a) = 3 /\ a[1] = Event("message_start")
      /\ a[2] = Data("json") /\ a[3] = Blank
  BY FrameLines DEF Values, Names
<1>3. /\ f \in Seq(Lines) /\ Len(f) = 3 /\ f[1] = Event("content_block_delta")
      /\ f[2] = Data("text") /\ f[3] = Blank
  BY FrameLines DEF Values, Names
<1>4. /\ c \in Seq(Lines) /\ Len(c) = 3 /\ c[1] = Event("message_delta")
      /\ c[2] = Data("json") /\ c[3] = Blank
  BY FrameLines DEF Values, Names
<1>5. /\ d \in Seq(Lines) /\ Len(d) = 3 /\ d[1] = Event("message_stop")
      /\ d[2] = Data("json") /\ d[3] = Blank
  BY FrameLines DEF Values, Names
<1> HIDE DEF f
<1>6. /\ b \in Seq(Lines) /\ Len(b) = 3 * n
      /\ \A i \in 1..(3 * n) : b[i] = f[((i - 1) % 3) + 1]
  <2>1. n * 3 = 3 * n
    OBVIOUS
  <2> QED BY <1>3, <2>1, RepeatLines
<1> HIDE DEF a, b, c, d
<1>7. /\ ab \in Seq(Lines) /\ Len(ab) = 3 * n + 3
      /\ \A i \in 1..3 : ab[i] = a[i]
      /\ \A i \in 4..(3 * n + 3) : ab[i] = b[i - 3]
  <2>1. ab = a \o b
    OBVIOUS
  <2> HIDE DEF ab
  <2>2. /\ ab \in Seq(Lines) /\ Len(ab) = Len(a) + Len(b)
        /\ \A i \in 1 .. Len(a) + Len(b) :
              ab[i] = IF i <= Len(a) THEN a[i] ELSE b[i - Len(a)]
    BY <1>2, <1>6, <2>1, Joined, Zenon
  <2> QED BY <1>2, <1>6, <2>2
<1> HIDE DEF ab
<1>8. /\ abc \in Seq(Lines) /\ Len(abc) = 3 * n + 6
      /\ \A i \in 1..(3 * n + 3) : abc[i] = ab[i]
      /\ \A i \in (3 * n + 4)..(3 * n + 6) : abc[i] = c[i - (3 * n + 3)]
  <2>1. abc = ab \o c
    OBVIOUS
  <2> HIDE DEF abc
  <2>2. /\ abc \in Seq(Lines) /\ Len(abc) = Len(ab) + Len(c)
        /\ \A i \in 1 .. Len(ab) + Len(c) :
              abc[i] = IF i <= Len(ab) THEN ab[i] ELSE c[i - Len(ab)]
    BY <1>4, <1>7, <2>1, Joined, Zenon
  <2> QED BY <1>4, <1>7, <2>2
<1> HIDE DEF abc
<1>9. /\ abcd \in Seq(Lines) /\ Len(abcd) = 3 * n + 9
      /\ \A i \in 1..(3 * n + 6) : abcd[i] = abc[i]
      /\ \A i \in (3 * n + 7)..(3 * n + 9) : abcd[i] = d[i - (3 * n + 6)]
  <2>1. abcd = abc \o d
    OBVIOUS
  <2> HIDE DEF abcd
  <2>2. /\ abcd \in Seq(Lines) /\ Len(abcd) = Len(abc) + Len(d)
        /\ \A i \in 1 .. Len(abc) + Len(d) :
              abcd[i] = IF i <= Len(abc) THEN abc[i] ELSE d[i - Len(abc)]
    BY <1>5, <1>8, <2>1, Joined, ZenonT(60)
  <2> QED BY <1>5, <1>8, <2>2
<1> HIDE DEF abcd
<1>10. ASSUME NEW i \in 1..(3 * n + 9) PROVE abcd[i] = AnthropicAt(n, i)
  <2>1. CASE i <= 3
    <3>1. abcd[i] = a[i]
      BY <1>7, <1>8, <1>9, <2>1
    <3>2. i = 1 \/ i = 2 \/ i = 3
      BY <2>1
    <3> QED BY <1>2, <3>1, <3>2 DEF AnthropicAt, EventAt
  <2>2. CASE i > 3 /\ i <= 3 * n + 3
    <3>1. i - 3 \in 1..(3 * n)
      BY <2>2
    <3>2. abcd[i] = f[((i - 3 - 1) % 3) + 1]
      BY <1>6, <1>7, <1>8, <1>9, <2>2, <3>1
    <3>3. EventAt(n, i) = "content_block_delta"
      BY <2>2 DEF EventAt
    <3>4. CASE i % 3 = 0
      <4>1. (i - 3 - 1) % 3 = 2
        BY <3>4
      <4> QED BY <1>3, <3>2, <3>4, <4>1 DEF AnthropicAt
    <3>5. CASE i % 3 = 1
      <4>1. (i - 3 - 1) % 3 = 0
        BY <3>5
      <4> QED BY <1>3, <3>2, <3>3, <3>5, <4>1 DEF AnthropicAt
    <3>6. CASE i % 3 = 2
      <4>1. (i - 3 - 1) % 3 = 1
        BY <3>6
      <4> QED BY <1>3, <3>2, <3>3, <3>6, <4>1 DEF AnthropicAt
    <3> QED BY <3>4, <3>5, <3>6
  <2>3. CASE i > 3 * n + 3 /\ i <= 3 * n + 6
    <3>1. abcd[i] = c[i - (3 * n + 3)]
      BY <1>8, <1>9, <2>3
    <3>2. EventAt(n, i) = "message_delta"
      BY <2>3 DEF EventAt
    <3>3. \/ i - (3 * n + 3) = 1 /\ i % 3 = 1
          \/ i - (3 * n + 3) = 2 /\ i % 3 = 2
          \/ i - (3 * n + 3) = 3 /\ i % 3 = 0
      BY <2>3
    <3> QED BY <1>4, <3>1, <3>2, <3>3 DEF AnthropicAt
  <2>4. CASE i > 3 * n + 6
    <3>1. abcd[i] = d[i - (3 * n + 6)]
      BY <1>9, <2>4
    <3>2. EventAt(n, i) = "message_stop"
      BY <2>4 DEF EventAt
    <3>3. \/ i - (3 * n + 6) = 1 /\ i % 3 = 1
          \/ i - (3 * n + 6) = 2 /\ i % 3 = 2
          \/ i - (3 * n + 6) = 3 /\ i % 3 = 0
      BY <2>4
    <3> QED BY <1>5, <3>1, <3>2, <3>3 DEF AnthropicAt
  <2> QED BY <2>1, <2>2, <2>3, <2>4
<1> QED BY <1>1, <1>9, <1>10

\* What follows the first k lines of a body.
Tails(p, s, k) ==
    IF k = Len(s) THEN {<<>>} ELSE {<<>>, <<Spoilt(s[k + 1])>>, ErrorFrame(p)}

\* A body: the first k lines of what was sent, and a tail.
Arrives(s, k, tail, body) ==
    /\ body \in Seq(Lines)
    /\ Len(body) = k + Len(tail)
    /\ \A i \in 1..k : body[i] = s[i]
    /\ \A i \in 1..Len(tail) : body[k + i] = tail[i]

\* The tails are sequences of lines.
LEMMA TailLines ==
    ASSUME NEW p, NEW s \in Seq(Lines), NEW k \in 0..Len(s), NEW tail \in Tails(p, s, k)
    PROVE  tail \in Seq(Lines) /\ Len(tail) \in Nat
<1>1. <<>> \in Seq(Lines)
  OBVIOUS
<1>2. k < Len(s) => <<Spoilt(s[k + 1])>> \in Seq(Lines)
  <2>1. k < Len(s) => s[k + 1] \in Lines
    OBVIOUS
  <2>2. k < Len(s) => Spoilt(s[k + 1]) \in Lines
    BY <2>1, LineTypes
  <2> QED BY <2>2
<1>3. ErrorFrame(p) \in Seq(Lines)
  <2>1. "error" \in Values /\ "json" \in Values
    BY DEF Values, Names
  <2>2. CASE p = "anthropic"
    BY <2>1, <2>2, FrameLines DEF ErrorFrame
  <2>3. CASE p # "anthropic"
    <3>1. Data("error") \in Lines /\ Blank \in Lines
      BY <2>1, LineTypes
    <3> QED BY <2>3, <3>1 DEF ErrorFrame
  <2> QED BY <2>2, <2>3
<1>4. k = Len(s) \/ k < Len(s)
  OBVIOUS
<1>5. tail \in Seq(Lines)
  BY <1>1, <1>2, <1>3, <1>4 DEF Tails
<1> QED BY <1>5

\* The first k lines and a tail, joined, arrive so.
LEMMA PrefixArrives ==
    ASSUME NEW p, NEW s \in Seq(Lines), NEW k \in 0..Len(s), NEW tail \in Tails(p, s, k),
           NEW body, body = SubSeq(s, 1, k) \o tail
    PROVE  Arrives(s, k, tail, body)
<1> DEFINE a == SubSeq(s, 1, k)
<1>1. a \in Seq(Lines) /\ Len(a) = k /\ \A i \in 1..k : a[i] = s[i]
  OBVIOUS
<1>2. tail \in Seq(Lines) /\ Len(tail) \in Nat
  BY TailLines
<1>3. body = a \o tail
  OBVIOUS
<1> HIDE DEF a
<1>4. /\ body \in Seq(Lines) /\ Len(body) = Len(a) + Len(tail)
      /\ \A i \in 1 .. Len(a) + Len(tail) :
            body[i] = IF i <= Len(a) THEN a[i] ELSE tail[i - Len(a)]
  BY <1>1, <1>2, <1>3, Joined, Zenon
<1>5. \A i \in 1..k : body[i] = s[i]
  BY <1>1, <1>2, <1>4
<1>6. ASSUME NEW i \in 1..Len(tail) PROVE body[k + i] = tail[i]
  <2>1. k + i \in 1..(k + Len(tail)) /\ ~(k + i <= k) /\ (k + i) - k = i
    BY <1>2
  <2>2. body[k + i] = tail[(k + i) - k]
    BY <1>1, <1>4, <2>1
  <2> QED BY <2>1, <2>2
<1> QED BY <1>1, <1>4, <1>5, <1>6 DEF Arrives

\* A body that is not all that was sent ends somewhere.
LEMMA CutSomewhere ==
    ASSUME NEW p, NEW n, NEW body \in Bodies(p, n), body # Sent(p, n)
    PROVE  \E k \in 0..(Len(Sent(p, n)) - 1) : body \in CutAt(p, Sent(p, n), k)
<1> DEFINE U == UNION {CutAt(p, Sent(p, n), k) : k \in 0..(Len(Sent(p, n)) - 1)}
<1>1. Bodies(p, n) = {Sent(p, n)} \cup U
  BY Zenon DEF Bodies
<1>2. body \in U
  <2> HIDE DEF U
  <2> QED BY <1>1
<1> QED BY <1>2, Zenon

\* Every body is a first part of what was sent with a tail.
LEMMA BodyForm ==
    ASSUME NEW p, NEW n, NEW s \in Seq(Lines), s = Sent(p, n), NEW body \in Bodies(p, n)
    PROVE  \E k \in 0..Len(s) : \E tail \in Tails(p, s, k) : Arrives(s, k, tail, body)
<1>1. CASE body = s
  <2>1. Len(s) \in 0..Len(s) /\ <<>> \in Tails(p, s, Len(s))
    BY DEF Tails
  <2>2. Arrives(s, Len(s), <<>>, s)
    BY DEF Arrives
  <2> QED BY <1>1, <2>1, <2>2
<1>2. CASE body # s
  <2>1. PICK k \in 0..(Len(s) - 1) : body \in CutAt(p, s, k)
    BY <1>2, CutSomewhere, Zenon
  <2> USE DEF CutAt
  <2>2. k \in 0..Len(s) /\ k # Len(s)
    OBVIOUS
  <2>3. <<>> \in Tails(p, s, k) /\ <<Spoilt(s[k + 1])>> \in Tails(p, s, k)
        /\ ErrorFrame(p) \in Tails(p, s, k)
    BY <2>2 DEF Tails
  <2>4. CASE body = SubSeq(s, 1, k)
    <3>1. SubSeq(s, 1, k) \in Seq(Lines)
      OBVIOUS
    <3>2. SubSeq(s, 1, k) \o <<>> = SubSeq(s, 1, k)
      BY <3>1, ConcatEmptySeq, Zenon
    <3>3. body = SubSeq(s, 1, k) \o <<>>
      BY <2>4, <3>2, Zenon
    <3>4. Arrives(s, k, <<>>, body)
      BY <2>2, <2>3, <3>3, PrefixArrives, Zenon
    <3> QED BY <2>2, <2>3, <3>4, Zenon
  <2>5. CASE body = SubSeq(s, 1, k) \o <<Spoilt(s[k + 1])>>
    <3>1. Arrives(s, k, <<Spoilt(s[k + 1])>>, body)
      BY <2>2, <2>3, <2>5, PrefixArrives, Zenon
    <3> QED BY <2>2, <2>3, <3>1, Zenon
  <2>6. CASE body = SubSeq(s, 1, k) \o ErrorFrame(p)
    <3>1. Arrives(s, k, ErrorFrame(p), body)
      BY <2>2, <2>3, <2>6, PrefixArrives, Zenon
    <3> QED BY <2>2, <2>3, <3>1, Zenon
  <2> QED BY <2>1, <2>4, <2>5, <2>6, Zenon
<1> QED BY <1>1, <1>2

-----------------------------------------------------------------------------
(* Reading an OpenAI-compatible stream                                     *)

OaiState == [end: {"open", "completed", "failed"}, text: Nat]

\* A line takes a state to a state.
LEMMA OaiLineTypes ==
    ASSUME NEW s \in OaiState, NEW l
    PROVE  OaiLine(s, l) \in OaiState
  BY DEF OaiState, OaiLine

\* The states of the loop, line by line.
LEMMA OaiStatesEq ==
    ASSUME NEW body \in Seq(Lines)
    PROVE  /\ OaiStates(body)[0] = OaiStart
           /\ \A i \in 1..Len(body) :
                 OaiStates(body)[i] = OaiLine(OaiStates(body)[i - 1], body[i])
           /\ \A i \in 0..Len(body) : OaiStates(body)[i] \in OaiState
<1> DEFINE N == Len(body)
           F == [i \in 1..N |-> [s \in OaiState |-> OaiLine(s, body[i])]]
           P(x) == x = [i \in 0..N |-> IF i = 0 THEN OaiStart ELSE OaiLine(x[i - 1], body[i])]
<1>1. N \in Nat /\ OaiStart \in OaiState
  BY DEF OaiStart, OaiState
<1>2. F \in [1..N -> [OaiState -> OaiState]]
  BY OaiLineTypes
<1>3. \A i \in 1..N, s \in OaiState : F[i][s] = OaiLine(s, body[i])
  OBVIOUS
<1> HIDE DEF F
<1>4. \E g : Runs(g, OaiState, N, OaiStart, F)
  <2>1. F \in Steps(N, OaiState)
    BY <1>2 DEF Steps
  <2> HIDE DEF N
  <2> QED BY <1>1, <2>1, RunExists
<1>5. PICK g \in [0..N -> OaiState] :
          g[0] = OaiStart /\ \A i \in 1..N : g[i] = F[i][g[i - 1]]
  BY <1>4 DEF Runs
<1>6. P(g)
  <2>1. ASSUME NEW i \in 0..N
        PROVE  g[i] = IF i = 0 THEN OaiStart ELSE OaiLine(g[i - 1], body[i])
    <3>1. CASE i = 0
      BY <1>5, <3>1
    <3>2. CASE i # 0
      <4>1. i \in 1..N /\ i - 1 \in 0..N
        BY <1>1, <3>2
      <4>2. g[i - 1] \in OaiState
        BY <4>1
      <4> QED BY <1>3, <1>5, <4>1, <4>2
    <3> QED BY <3>1, <3>2
  <2> QED BY <1>5, <2>1
<1>7. P(OaiStates(body))
  <2>1. OaiStates(body) = CHOOSE x : P(x)
    BY DEF OaiStates
  <2> HIDE DEF P
  <2> QED BY <1>6, <2>1, Zenon
<1> DEFINE at == OaiStates(body)
<1> HIDE DEF at
<1>8. at = [i \in 0..N |-> IF i = 0 THEN OaiStart ELSE OaiLine(at[i - 1], body[i])]
  BY <1>7 DEF at
<1> HIDE DEF N, P
<1>9. 0 \in 0..N /\ \A i \in 1..N : i \in 0..N /\ i # 0
  BY <1>1
<1>10. /\ at[0] = OaiStart
       /\ \A i \in 1..N : at[i] = OaiLine(at[i - 1], body[i])
  BY <1>8, <1>9
<1>11. 0..N \subseteq {i \in 0..N : at[i] \in OaiState}
  <2> DEFINE D == {i \in 0..N : at[i] \in OaiState}
  <2>1. 0 \in D
    BY <1>1, <1>9, <1>10
  <2>2. ASSUME NEW i \in 1..N, i - 1 \in D PROVE i \in D
    BY <1>9, <1>10, <2>2, OaiLineTypes
  <2> HIDE DEF D
  <2>3. 0..N \subseteq D
    BY <1>1, <2>1, <2>2, BoundedInduction
  <2> QED BY <2>3 DEF D
<1>12. \A i \in 0..N : at[i] \in OaiState
  BY <1>11
<1> QED BY <1>10, <1>12 DEF at, N

\* What is known after i lines of what was sent.
OaiAfter(n, i) ==
    [end  |-> IF i <= 2 * n + 2 THEN "open" ELSE "completed",
     text |-> IF i <= 2 * n THEN (i + 1) \div 2 ELSE n]

\* A line of what was sent.
LEMMA OaiStepSent ==
    ASSUME NEW n \in Nat, NEW i \in 1..(2 * n + 4)
    PROVE  OaiLine(OaiAfter(n, i - 1), OaiAt(n, i)) = OaiAfter(n, i)
<1> USE DEF OaiLine, OaiAfter, OaiAt, ParseSseLine, Data, Blank
<1>1. CASE i <= 2 * n /\ i % 2 = 1
  <2>1. (i + 1) \div 2 = ((i - 1) + 1) \div 2 + 1
    BY <1>1
  <2> QED BY <1>1, <2>1
<1>2. CASE i <= 2 * n /\ i % 2 # 1
  <2>1. (i + 1) \div 2 = ((i - 1) + 1) \div 2
    BY <1>2
  <2> QED BY <1>2, <2>1
<1>3. CASE i > 2 * n
  <2>1. i - 1 <= 2 * n => ((i - 1) + 1) \div 2 = n
    BY <1>3
  <2>2. CASE i = 2 * n + 1
    BY <2>1, <2>2
  <2>3. CASE i = 2 * n + 2
    BY <2>3
  <2>4. CASE i = 2 * n + 3
    BY <2>4
  <2>5. CASE i = 2 * n + 4
    BY <2>5
  <2> QED BY <1>3, <2>2, <2>3, <2>4, <2>5
<1> QED BY <1>1, <1>2, <1>3

\* A tail has no piece of text and no sentinel.
LEMMA OaiTailQuiet ==
    ASSUME NEW p, p # "anthropic", NEW s \in Seq(Lines), NEW k \in 0..Len(s),
           NEW tail \in Tails(p, s, k), NEW i \in 1..Len(tail), NEW st \in OaiState
    PROVE  /\ OaiLine(st, tail[i]).text = st.text
           /\ OaiLine(st, tail[i]).end = "completed" => st.end = "completed"
<1>1. tail[i] \in {Data("error"), Blank} \/ (k < Len(s) /\ tail[i] = Spoilt(s[k + 1]))
  BY DEF Tails, ErrorFrame
<1>2. CASE tail[i] \in {Data("error"), Blank}
  BY <1>2 DEF OaiLine, ParseSseLine, Data, Blank, OaiState
<1>3. CASE k < Len(s) /\ tail[i] = Spoilt(s[k + 1])
  <2>1. tail[i].field = "data" => tail[i].value = "bad"
    BY <1>3 DEF Spoilt, Data, Event
  <2> QED BY <2>1 DEF OaiLine, ParseSseLine, OaiState
<1> QED BY <1>1, <1>2, <1>3

\* A stream that is complete has all the text; none has more.
OaiWhole(n, st) == st.text \in 0..n /\ (st.end = "completed" => st.text = n)

\* Whatever part of the stream arrives, and whatever follows it.
LEMMA OaiStreamWhole ==
    ASSUME NEW p, p # "anthropic", NEW n \in Nat, NEW body \in Bodies(p, n)
    PROVE  /\ OaiStates(body)[Len(body)] \in OaiState
           /\ OaiWhole(n, OaiStates(body)[Len(body)])
<1> DEFINE s == Sent(p, n)
           at == OaiStates(body)
<1>1. /\ s \in Seq(Lines) /\ Len(s) = 2 * n + 4
      /\ \A i \in 1..(2 * n + 4) : s[i] = OaiAt(n, i)
  BY OaiSent
<1> HIDE DEF s
<1>2. PICK k \in 0..Len(s) : \E tail \in Tails(p, s, k) : Arrives(s, k, tail, body)
  BY <1>1, BodyForm, Zenon DEF s
<1>3. PICK tail \in Tails(p, s, k) : Arrives(s, k, tail, body)
  BY <1>2
<1>4. tail \in Seq(Lines) /\ Len(tail) \in Nat /\ k \in Nat /\ k <= 2 * n + 4
  BY <1>1, TailLines
<1>5. /\ body \in Seq(Lines) /\ Len(body) = k + Len(tail)
      /\ \A i \in 1..k : body[i] = s[i]
      /\ \A i \in 1..Len(tail) : body[k + i] = tail[i]
  BY <1>3 DEF Arrives
<1>6. /\ at[0] = OaiStart
      /\ \A i \in 1..(k + Len(tail)) : at[i] = OaiLine(at[i - 1], body[i])
      /\ \A i \in 0..(k + Len(tail)) : at[i] \in OaiState
  BY <1>5, OaiStatesEq
<1> HIDE DEF at
<1>7. 0..k \subseteq {i \in 0..k : at[i] = OaiAfter(n, i)}
  <2> DEFINE D == {i \in 0..k : at[i] = OaiAfter(n, i)}
  <2>1. 0 \in D
    <3>1. OaiAfter(n, 0) = OaiStart
      BY DEF OaiAfter, OaiStart
    <3> QED BY <1>6, <3>1
  <2>2. ASSUME NEW i \in 1..k, i - 1 \in D PROVE i \in D
    <3>1. at[i] = OaiLine(at[i - 1], body[i])
      BY <1>4, <1>6
    <3>2. body[i] = OaiAt(n, i)
      BY <1>1, <1>4, <1>5
    <3>3. OaiLine(OaiAfter(n, i - 1), OaiAt(n, i)) = OaiAfter(n, i)
      BY <1>4, OaiStepSent
    <3> QED BY <2>2, <3>1, <3>2, <3>3
  <2> HIDE DEF D
  <2>3. 0..k \subseteq D
    BY <1>4, <2>1, <2>2, BoundedInduction
  <2> QED BY <2>3 DEF D
<1>8. OaiWhole(n, at[k])
  <2>1. at[k] = OaiAfter(n, k)
    BY <1>4, <1>7
  <2> QED BY <1>4, <2>1 DEF OaiWhole, OaiAfter
<1>9. 0..Len(tail) \subseteq {i \in 0..Len(tail) : OaiWhole(n, at[k + i])}
  <2> DEFINE D == {i \in 0..Len(tail) : OaiWhole(n, at[k + i])}
  <2>1. 0 \in D
    BY <1>4, <1>8
  <2>2. ASSUME NEW i \in 1..Len(tail), i - 1 \in D PROVE i \in D
    <3>1. /\ k + i \in 1..(k + Len(tail)) /\ (k + i) - 1 = k + (i - 1)
          /\ k + (i - 1) \in 0..(k + Len(tail))
      BY <1>4
    <3>2. at[k + i] = OaiLine(at[k + (i - 1)], tail[i]) /\ at[k + (i - 1)] \in OaiState
      BY <1>5, <1>6, <3>1
    <3>3. /\ at[k + i].text = at[k + (i - 1)].text
          /\ at[k + i].end = "completed" => at[k + (i - 1)].end = "completed"
      BY <1>1, <3>2, OaiTailQuiet
    <3> QED BY <2>2, <3>3 DEF OaiWhole
  <2> HIDE DEF D
  <2>3. 0..Len(tail) \subseteq D
    BY <1>4, <2>1, <2>2, BoundedInduction
  <2> QED BY <2>3 DEF D
<1>10. OaiWhole(n, at[k + Len(tail)])
  <2>1. Len(tail) \in 0..Len(tail)
    BY <1>4
  <2> QED BY <1>9, <2>1
<1>11. at[k + Len(tail)] \in OaiState
  BY <1>4, <1>6
<1> QED BY <1>5, <1>10, <1>11 DEF at

-----------------------------------------------------------------------------
(* Reading an Anthropic stream                                             *)

AnthropicState ==
    [end: {"open", "sentinel", "failed"}, event: Values, text: Nat, stopped: BOOLEAN]

\* A line takes a state to a state.
LEMMA AnthropicLineTypes ==
    ASSUME NEW s \in AnthropicState, NEW l \in Lines
    PROVE  AnthropicLine(s, l) \in AnthropicState
<1>1. "none" \in Values /\ l.value \in Values
  BY DEF Values, Names, Lines
<1>2. \A v : AnthropicData(s, v) \in AnthropicState
  <2>1. /\ [s EXCEPT !.end = "sentinel"] \in AnthropicState
        /\ [s EXCEPT !.end = "failed"] \in AnthropicState
        /\ [s EXCEPT !.text = @ + 1] \in AnthropicState
    BY DEF AnthropicState
  <2>2. [s EXCEPT !.stopped = TRUE] \in AnthropicState
    BY Zenon DEF AnthropicState
  <2> QED BY <2>1, <2>2 DEF AnthropicData
<1>3. [s EXCEPT !.event = l.value] \in AnthropicState
      /\ [s EXCEPT !.event = "none"] \in AnthropicState
  BY <1>1 DEF AnthropicState
<1> QED BY <1>2, <1>3 DEF AnthropicLine

\* The states of the loop, line by line.
LEMMA AnthropicStatesEq ==
    ASSUME NEW body \in Seq(Lines)
    PROVE  /\ AnthropicStates(body)[0] = AnthropicStart
           /\ \A i \in 1..Len(body) :
                 AnthropicStates(body)[i] = AnthropicLine(AnthropicStates(body)[i - 1], body[i])
           /\ \A i \in 0..Len(body) : AnthropicStates(body)[i] \in AnthropicState
<1> DEFINE N == Len(body)
           F == [i \in 1..N |-> [s \in AnthropicState |-> AnthropicLine(s, body[i])]]
           P(x) == x = [i \in 0..N |-> IF i = 0 THEN AnthropicStart ELSE AnthropicLine(x[i - 1], body[i])]
<1>1. N \in Nat /\ AnthropicStart \in AnthropicState
  BY DEF AnthropicStart, AnthropicState, Values, Names
<1>2. F \in [1..N -> [AnthropicState -> AnthropicState]]
  <2>1. \A i \in 1..N : body[i] \in Lines
    OBVIOUS
  <2> QED BY <2>1, AnthropicLineTypes
<1>3. \A i \in 1..N, s \in AnthropicState : F[i][s] = AnthropicLine(s, body[i])
  OBVIOUS
<1> HIDE DEF F
<1>4. \E g : Runs(g, AnthropicState, N, AnthropicStart, F)
  <2>1. F \in Steps(N, AnthropicState)
    BY <1>2 DEF Steps
  <2> HIDE DEF N
  <2> QED BY <1>1, <2>1, RunExists
<1>5. PICK g \in [0..N -> AnthropicState] :
          g[0] = AnthropicStart /\ \A i \in 1..N : g[i] = F[i][g[i - 1]]
  BY <1>4 DEF Runs
<1>6. P(g)
  <2>1. ASSUME NEW i \in 0..N
        PROVE  g[i] = IF i = 0 THEN AnthropicStart ELSE AnthropicLine(g[i - 1], body[i])
    <3>1. CASE i = 0
      BY <1>5, <3>1
    <3>2. CASE i # 0
      <4>1. i \in 1..N /\ i - 1 \in 0..N
        BY <1>1, <3>2
      <4>2. g[i - 1] \in AnthropicState
        BY <4>1
      <4> QED BY <1>3, <1>5, <4>1, <4>2
    <3> QED BY <3>1, <3>2
  <2> QED BY <1>5, <2>1
<1>7. P(AnthropicStates(body))
  <2>1. AnthropicStates(body) = CHOOSE x : P(x)
    BY DEF AnthropicStates
  <2> HIDE DEF P
  <2> QED BY <1>6, <2>1, Zenon
<1> DEFINE at == AnthropicStates(body)
<1> HIDE DEF at
<1>8. at = [i \in 0..N |-> IF i = 0 THEN AnthropicStart ELSE AnthropicLine(at[i - 1], body[i])]
  BY <1>7 DEF at
<1>0. \A i \in 1..N : body[i] \in Lines
  OBVIOUS
<1> HIDE DEF N, P
<1>9. 0 \in 0..N /\ \A i \in 1..N : i \in 0..N /\ i # 0
  BY <1>1
<1>10. /\ at[0] = AnthropicStart
       /\ \A i \in 1..N : at[i] = AnthropicLine(at[i - 1], body[i])
  BY <1>8, <1>9
<1>11. 0..N \subseteq {i \in 0..N : at[i] \in AnthropicState}
  <2> DEFINE D == {i \in 0..N : at[i] \in AnthropicState}
  <2>1. 0 \in D
    BY <1>1, <1>9, <1>10
  <2>2. ASSUME NEW i \in 1..N, i - 1 \in D PROVE i \in D
    BY <1>0, <1>9, <1>10, <2>2, AnthropicLineTypes
  <2> HIDE DEF D
  <2>3. 0..N \subseteq D
    BY <1>1, <2>1, <2>2, BoundedInduction
  <2> QED BY <2>3 DEF D
<1>12. \A i \in 0..N : at[i] \in AnthropicState
  BY <1>11
<1> QED BY <1>10, <1>12 DEF at, N

\* What is known after i lines of what was sent.
AnthropicAfter(n, i) ==
    [end     |-> "open",
     event   |-> IF i % 3 = 0 THEN "none" ELSE EventAt(n, i),
     text    |-> IF i <= 3 THEN 0
                 ELSE IF i <= 3 * n + 3 THEN (i - 2) \div 3
                 ELSE n,
     stopped |-> IF i >= 3 * n + 8 THEN TRUE ELSE FALSE]

\* A line of what was sent.
LEMMA AnthropicStepSent ==
    ASSUME NEW n \in Nat, NEW i \in 1..(3 * n + 9)
    PROVE  AnthropicLine(AnthropicAfter(n, i - 1), AnthropicAt(n, i)) = AnthropicAfter(n, i)
<1> DEFINE a == AnthropicAfter(n, i - 1)
           b == AnthropicAfter(n, i)
<1>1. /\ a.end = "open" /\ b.end = "open"
      /\ a = [end |-> "open", event |-> a.event, text |-> a.text, stopped |-> a.stopped]
      /\ b = [end |-> "open", event |-> b.event, text |-> b.text, stopped |-> b.stopped]
  BY DEF AnthropicAfter
<1>2. CASE i % 3 = 1
  <2>1. AnthropicAt(n, i) = Event(EventAt(n, i))
    BY <1>2 DEF AnthropicAt
  <2>2. b.event = EventAt(n, i) /\ b.stopped = a.stopped
    BY <1>2 DEF AnthropicAfter
  <2>3. b.text = a.text
    BY <1>2 DEF AnthropicAfter
  <2>4. AnthropicLine(a, AnthropicAt(n, i)) = [a EXCEPT !.event = EventAt(n, i)]
    BY <1>1, <2>1 DEF AnthropicLine, Event
  <2> HIDE DEF a, b
  <2>5. AnthropicLine(a, AnthropicAt(n, i)) = b
    BY <1>1, <2>2, <2>3, <2>4
  <2> QED BY <2>5 DEF a, b
<1>3. CASE i % 3 = 0
  <2>1. AnthropicAt(n, i) = Blank
    BY <1>3 DEF AnthropicAt
  <2>2. b.event = "none" /\ b.stopped = a.stopped
    BY <1>3 DEF AnthropicAfter
  <2>3. b.text = a.text
    BY <1>3 DEF AnthropicAfter
  <2>4. AnthropicLine(a, AnthropicAt(n, i)) = [a EXCEPT !.event = "none"]
    BY <1>1, <2>1 DEF AnthropicLine, Blank
  <2> HIDE DEF a, b
  <2>5. AnthropicLine(a, AnthropicAt(n, i)) = b
    BY <1>1, <2>2, <2>3, <2>4
  <2> QED BY <2>5 DEF a, b
<1>4. CASE i % 3 = 2
  <2> DEFINE v == IF EventAt(n, i) = "content_block_delta" THEN "text" ELSE "json"
  <2>1. AnthropicAt(n, i) = Data(v)
    BY <1>4 DEF AnthropicAt
  <2>2. (i - 1) % 3 = 1 /\ EventAt(n, i - 1) = EventAt(n, i)
    BY <1>4 DEF EventAt
  <2>3. a.event = EventAt(n, i) /\ b.event = EventAt(n, i)
    BY <1>4, <2>2 DEF AnthropicAfter
  <2>4. v # "[DONE]" /\ v # "bad" /\ EventAt(n, i) # "error"
    BY DEF EventAt
  <2>5. AnthropicLine(a, AnthropicAt(n, i)) = AnthropicData(a, v)
    BY <1>1, <2>1 DEF AnthropicLine, Data
  <2>6. CASE EventAt(n, i) = "content_block_delta"
    <3>1. b.text = a.text + 1 /\ b.stopped = a.stopped
      BY <1>4, <2>6 DEF EventAt, AnthropicAfter
    <3>2. AnthropicData(a, v) = [a EXCEPT !.text = @ + 1]
      BY <2>3, <2>6 DEF AnthropicData
    <3> HIDE DEF a, b, v
    <3>3. AnthropicLine(a, AnthropicAt(n, i)) = b
      BY <1>1, <2>3, <2>5, <3>1, <3>2
    <3> QED BY <3>3 DEF a, b
  <2>7. CASE EventAt(n, i) = "message_stop"
    <3>1. b.text = a.text /\ b.stopped = TRUE
      BY <1>4, <2>7 DEF EventAt, AnthropicAfter
    <3>2. AnthropicData(a, v) = [a EXCEPT !.stopped = TRUE]
      BY <2>3, <2>7 DEF AnthropicData
    <3> HIDE DEF a, b, v
    <3>3. AnthropicLine(a, AnthropicAt(n, i)) = b
      BY <1>1, <2>3, <2>5, <3>1, <3>2
    <3> QED BY <3>3 DEF a, b
  <2>8. CASE EventAt(n, i) \in {"message_start", "message_delta"}
    <3>1. b.text = a.text /\ b.stopped = a.stopped
      BY <1>4, <2>8 DEF EventAt, AnthropicAfter
    <3>2. AnthropicData(a, v) = a
      BY <2>3, <2>4, <2>8 DEF AnthropicData
    <3> HIDE DEF a, b, v
    <3>3. AnthropicLine(a, AnthropicAt(n, i)) = b
      BY <1>1, <2>3, <2>5, <3>1, <3>2
    <3> QED BY <3>3 DEF a, b
  <2> QED BY <2>6, <2>7, <2>8 DEF EventAt
<1> QED BY <1>2, <1>3, <1>4

\* A message that has stopped has all the text; none has more.
AnthropicWhole(n, st) ==
    st.end # "sentinel" /\ st.text \in 0..n /\ (st.stopped => st.text = n)

\* An event or an empty line, or data that cannot be read, give nothing.
LEMMA AnthropicQuiet ==
    ASSUME NEW n \in Nat, NEW st \in AnthropicState, AnthropicWhole(n, st), NEW l \in Lines,
           l.field = "data" => l.value = "bad"
    PROVE  AnthropicWhole(n, AnthropicLine(st, l))
  BY DEF AnthropicWhole, AnthropicState, AnthropicLine, AnthropicData

\* The frame of an error ends the stream, whatever has been read.
LEMMA AnthropicError ==
    ASSUME NEW n \in Nat, NEW st \in AnthropicState, AnthropicWhole(n, st)
    PROVE  LET s1 == AnthropicLine(st, Event("error"))
               s2 == AnthropicLine(s1, Data("json"))
           IN  AnthropicWhole(n, AnthropicLine(s2, Blank))
<1>1. CASE st.end # "open"
  BY <1>1 DEF AnthropicLine
<1>2. CASE st.end = "open"
  <2> DEFINE s1 == [st EXCEPT !.event = "error"]
             s2 == [s1 EXCEPT !.end = "failed"]
  <2>1. AnthropicLine(st, Event("error")) = s1
    BY <1>2 DEF AnthropicLine, Event
  <2>2. AnthropicLine(s1, Data("json")) = s2
    BY <1>2 DEF AnthropicLine, AnthropicData, Data, AnthropicState
  <2>3. AnthropicLine(s2, Blank) = s2
    BY DEF AnthropicLine, AnthropicState
  <2>4. AnthropicWhole(n, s2)
    BY DEF AnthropicWhole, AnthropicState
  <2> QED BY <2>1, <2>2, <2>3, <2>4, Zenon
<1> QED BY <1>1, <1>2

\* Whatever part of the stream arrives, and whatever follows it.
LEMMA AnthropicStreamWhole ==
    ASSUME NEW n \in Nat, NEW body \in Bodies("anthropic", n)
    PROVE  /\ AnthropicStates(body)[Len(body)] \in AnthropicState
           /\ AnthropicWhole(n, AnthropicStates(body)[Len(body)])
<1> DEFINE p == "anthropic"
           s == Sent("anthropic", n)
           at == AnthropicStates(body)
<1>1. /\ s \in Seq(Lines) /\ Len(s) = 3 * n + 9
      /\ \A i \in 1..(3 * n + 9) : s[i] = AnthropicAt(n, i)
  BY AnthropicSent
<1> HIDE DEF s
<1>2. PICK k \in 0..Len(s) : \E tail \in Tails(p, s, k) : Arrives(s, k, tail, body)
  BY <1>1, BodyForm, Zenon DEF s
<1>3. PICK tail \in Tails(p, s, k) : Arrives(s, k, tail, body)
  BY <1>2
<1>4. tail \in Seq(Lines) /\ Len(tail) \in Nat /\ k \in Nat /\ k <= 3 * n + 9
  BY <1>1, TailLines
<1>5. /\ body \in Seq(Lines) /\ Len(body) = k + Len(tail)
      /\ \A i \in 1..k : body[i] = s[i]
      /\ \A i \in 1..Len(tail) : body[k + i] = tail[i]
  BY <1>3 DEF Arrives
<1>6. /\ at[0] = AnthropicStart
      /\ \A i \in 1..(k + Len(tail)) : at[i] = AnthropicLine(at[i - 1], body[i])
      /\ \A i \in 0..(k + Len(tail)) : at[i] \in AnthropicState
  BY <1>5, AnthropicStatesEq
<1> HIDE DEF at
<1>7. 0..k \subseteq {i \in 0..k : at[i] = AnthropicAfter(n, i)}
  <2> DEFINE D == {i \in 0..k : at[i] = AnthropicAfter(n, i)}
  <2>1. 0 \in D
    <3>1. AnthropicAfter(n, 0) = AnthropicStart
      <4>1. 0 % 3 = 0 /\ 0 <= 3 /\ ~(0 >= 3 * n + 8)
        OBVIOUS
      <4> QED BY <4>1, Zenon DEF AnthropicAfter, AnthropicStart
    <3> QED BY <1>6, <3>1
  <2>2. ASSUME NEW i \in 1..k, i - 1 \in D PROVE i \in D
    <3>1. at[i] = AnthropicLine(at[i - 1], body[i])
      BY <1>4, <1>6
    <3>2. body[i] = AnthropicAt(n, i)
      BY <1>1, <1>4, <1>5
    <3>3. AnthropicLine(AnthropicAfter(n, i - 1), AnthropicAt(n, i)) = AnthropicAfter(n, i)
      BY <1>4, AnthropicStepSent
    <3>4. at[i - 1] = AnthropicAfter(n, i - 1)
      BY <2>2
    <3>5. at[i] = AnthropicAfter(n, i)
      BY <3>1, <3>2, <3>3, <3>4, Zenon
    <3>6. i \in 0..k
      BY <1>4
    <3> QED BY <3>5, <3>6
  <2> HIDE DEF D
  <2>3. 0..k \subseteq D
    BY <1>4, <2>1, <2>2, BoundedInduction
  <2> QED BY <2>3 DEF D
<1>8. AnthropicWhole(n, at[k]) /\ at[k] \in AnthropicState
  <2>1. at[k] = AnthropicAfter(n, k)
    BY <1>4, <1>7
  <2>2. at[k] \in AnthropicState
    BY <1>4, <1>6
  <2>3. at[k].end # "sentinel" /\ at[k].text \in 0..n
    BY <1>4, <2>1 DEF AnthropicAfter
  <2>4. k < 3 * n + 8 => ~at[k].stopped
    BY <1>4, <2>1 DEF AnthropicAfter
  <2>5. k >= 3 * n + 8 => at[k].text = n
    BY <1>4, <2>1 DEF AnthropicAfter
  <2> QED BY <1>4, <2>2, <2>3, <2>4, <2>5 DEF AnthropicWhole
<1>9. at[k + Len(tail)] \in AnthropicState
  BY <1>4, <1>6
<1>10. AnthropicWhole(n, at[k + Len(tail)])
  <2>1. \/ tail = <<>>
        \/ k < Len(s) /\ tail = <<Spoilt(s[k + 1])>>
        \/ tail = <<Event("error"), Data("json"), Blank>>
    BY DEF Tails, ErrorFrame, Frame
  <2>2. CASE tail = <<>>
    BY <1>4, <1>8, <2>2
  <2>3. CASE k < Len(s) /\ tail = <<Spoilt(s[k + 1])>>
    <3>1. Len(tail) = 1 /\ tail[1] = Spoilt(s[k + 1]) /\ tail[1] \in Lines
      BY <1>4, <2>3
    <3>2. tail[1].field = "data" => tail[1].value = "bad"
      BY <3>1 DEF Spoilt, Data, Event
    <3>3. at[k + 1] = AnthropicLine(at[k], tail[1])
      <4>1. k + 1 \in 1..(k + Len(tail)) /\ (k + 1) - 1 = k
        BY <1>4, <3>1
      <4> QED BY <1>5, <1>6, <3>1, <4>1
    <3>4. AnthropicWhole(n, AnthropicLine(at[k], tail[1]))
      BY <1>8, <3>1, <3>2, AnthropicQuiet
    <3> QED BY <3>1, <3>3, <3>4
  <2>4. CASE tail = <<Event("error"), Data("json"), Blank>>
    <3>1. /\ Len(tail) = 3 /\ tail[1] = Event("error") /\ tail[2] = Data("json")
          /\ tail[3] = Blank
      BY <2>4
    <3>2. /\ k + 1 \in 1..(k + Len(tail)) /\ (k + 1) - 1 = k
          /\ k + 2 \in 1..(k + Len(tail)) /\ (k + 2) - 1 = k + 1
          /\ k + 3 \in 1..(k + Len(tail)) /\ (k + 3) - 1 = k + 2
      BY <1>4, <3>1
    <3>3. body[k + 1] = tail[1] /\ body[k + 2] = tail[2] /\ body[k + 3] = tail[3]
      BY <1>5, <3>1
    <3>4. /\ at[k + 1] = AnthropicLine(at[k], Event("error"))
          /\ at[k + 2] = AnthropicLine(at[k + 1], Data("json"))
          /\ at[k + 3] = AnthropicLine(at[k + 2], Blank)
      BY <1>6, <3>1, <3>2, <3>3
    <3>5. AnthropicWhole(n, at[k + 3])
      BY <1>8, <3>4, AnthropicError, Zenon
    <3> QED BY <3>1, <3>5
  <2> QED BY <2>1, <2>2, <2>3, <2>4
<1> QED BY <1>5, <1>9, <1>10 DEF at

-----------------------------------------------------------------------------
(* The replies                                                             *)

\* The reply of a call for which n pieces were generated.
WholeReply(n, a) ==
    /\ a \in Replies
    /\ a.done = 1 => a.kind = "ok" /\ a.text = n
    /\ a.text <= n

\* What chat_stream() makes of a body.
LEMMA ChatStreamWhole ==
    ASSUME NEW p \in Providers \ {"gemini"}, NEW n \in 0..MaxPieces, NEW body \in Bodies(p, n)
    PROVE  WholeReply(n, ChatStream(p, body))
<1>1. n \in Nat /\ MaxPieces \in Nat /\ n <= MaxPieces
      /\ p \in {"openai_compatible", "azure_openai", "anthropic"}
  BY StreamAssumption
<1>2. ASSUME NEW t \in 0..n PROVE WholeReply(n, Unavailable(t))
  BY <1>1 DEF WholeReply, Unavailable, Reply, Replies
<1>3. WholeReply(n, Reply("ok", n, 1))
  BY <1>1 DEF WholeReply, Reply, Replies
<1>4. CASE p # "anthropic"
  <2> DEFINE s == OaiStates(body)[Len(body)]
  <2>1. s \in OaiState /\ OaiWhole(n, s)
    BY <1>1, <1>4, OaiStreamWhole
  <2>2. ChatStream(p, body) = IF s.end # "completed" THEN Unavailable(s.text)
                              ELSE Reply("ok", s.text, 1)
    BY <1>1, <1>4 DEF ChatStream, OaiChatStream, AzureChatStream
  <2> HIDE DEF s
  <2> QED BY <1>2, <1>3, <2>1, <2>2 DEF OaiWhole
<1>5. CASE p = "anthropic"
  <2> DEFINE s == AnthropicStates(body)[Len(body)]
  <2>1. s \in AnthropicState /\ AnthropicWhole(n, s)
    BY <1>1, <1>5, AnthropicStreamWhole
  <2>2. ChatStream(p, body) = IF s.end = "failed" \/ ~s.stopped THEN Unavailable(s.text)
                              ELSE Reply("ok", s.text, 1)
    BY <1>5 DEF ChatStream, AnthropicChatStream
  <2> HIDE DEF s
  <2> QED BY <1>2, <1>3, <2>1, <2>2 DEF AnthropicWhole
<1> QED BY <1>4, <1>5

\* What chat() makes of one.
LEMMA ChatWhole ==
    ASSUME NEW p \in Providers \ {"gemini"}, NEW n \in 0..MaxPieces, NEW body
    PROVE  WholeReply(n, Chat(p, body, n))
<1>1. n \in Nat /\ MaxPieces \in Nat /\ n <= MaxPieces
      /\ p \in {"openai_compatible", "azure_openai", "anthropic"}
  BY StreamAssumption
<1>2. Chat(p, body, n) \in {Unavailable(0), Reply("ok", n, 0), Reply("ok", 0, 0)}
  BY <1>1 DEF Chat, OaiChat, AzureChat, AnthropicChat
<1> QED BY <1>1, <1>2 DEF WholeReply, Unavailable, Reply, Replies

\* The replies a call may get.
LEMMA RepliesWhole ==
    ASSUME NEW p \in Providers, NEW n \in 0..MaxPieces,
           NEW a \in ChatReplies[p][n] \cup StreamReplies[p][n]
    PROVE  WholeReply(n, a)
<1>1. n \in Nat /\ MaxPieces \in Nat /\ n <= MaxPieces
  BY StreamAssumption
<1>2. WholeReply(n, Unavailable(0)) /\ WholeReply(n, InvalidInput)
  BY <1>1 DEF WholeReply, Unavailable, InvalidInput, Reply, Replies
<1>3. ASSUME NEW made, a \in Made(p, made), p # "gemini" => \A x \in made : WholeReply(n, x)
      PROVE  WholeReply(n, a)
  BY <1>2, <1>3 DEF Made
<1>4. CASE a \in ChatReplies[p][n]
  <2> DEFINE made == {Chat(p, b, n) : b \in {"bad", "empty", "json", "other"}}
  <2>1. a \in Made(p, made)
    BY <1>4 DEF ChatReplies
  <2>2. p # "gemini" => \A x \in made : WholeReply(n, x)
    BY ChatWhole
  <2> HIDE DEF made
  <2> QED BY <1>3, <2>1, <2>2
<1>5. CASE a \in StreamReplies[p][n]
  <2> DEFINE made == {ChatStream(p, b) : b \in Bodies(p, n)}
  <2>1. a \in Made(p, made)
    BY <1>5 DEF StreamReplies
  <2>2. p # "gemini" => \A x \in made : WholeReply(n, x)
    BY ChatStreamWhole
  <2> HIDE DEF made
  <2> QED BY <1>3, <2>1, <2>2
<1> QED BY <1>4, <1>5

\* The replies of the calls.
ReplyInv ==
    /\ reply \in [Calls -> Replies]
    /\ pieces \in [Calls -> 0..MaxPieces]
    /\ \A c \in Calls : WholeReply(pieces[c], reply[c])

\* A call that has not been answered.
LEMMA NoReplyWhole == NoReply \in Replies /\ 0 \in 0..MaxPieces /\ WholeReply(0, NoReply)
  BY StreamAssumption DEF WholeReply, NoReply, Reply, Replies

\* One reply is replaced.
LEMMA ReplyReplaced ==
    ASSUME ReplyInv, NEW c \in Calls, NEW n \in 0..MaxPieces, NEW a, WholeReply(n, a),
           reply' = [reply EXCEPT ![c] = a], pieces' = [pieces EXCEPT ![c] = n]
    PROVE  ReplyInv'
<1>1. a \in Replies
  BY DEF WholeReply
<1>2. reply' \in [Calls -> Replies] /\ pieces' \in [Calls -> 0..MaxPieces]
  BY <1>1 DEF ReplyInv
<1>3. ASSUME NEW d \in Calls PROVE WholeReply(pieces'[d], reply'[d])
  BY DEF ReplyInv
<1> QED BY <1>2, <1>3 DEF ReplyInv

\* The replies are whole at the start and after every step.
LEMMA ReplyInvariance == Spec => []ReplyInv
<1>1. Init => ReplyInv
  BY NoReplyWhole DEF Init, ReplyInv
<1>2. ReplyInv /\ [Next]_vars => ReplyInv'
  <2> SUFFICES ASSUME ReplyInv, [Next]_vars PROVE ReplyInv'
    OBVIOUS
  <2>1. ASSUME UNCHANGED <<reply, pieces>> PROVE ReplyInv'
    BY <2>1 DEF ReplyInv
  <2>2. ASSUME NEW c \in Calls, Ended(c, "idle") PROVE ReplyInv'
    BY <2>2, NoReplyWhole, ReplyReplaced DEF Ended
  <2>3. ASSUME NEW c \in Calls, NEW p \in Providers, NEW n \in 0..MaxPieces,
               CallChat(c, p, n) \/ CallStream(c, p, n)
        PROVE  ReplyInv'
    <3>1. \E a \in ChatReplies[p][n] \cup StreamReplies[p][n] :
             reply' = [reply EXCEPT ![c] = a] /\ pieces' = [pieces EXCEPT ![c] = n]
      BY <2>3, Zenon DEF CallChat, CallStream, Returns
    <3> QED BY <3>1, RepliesWhole, ReplyReplaced
  <2>4. ASSUME NEW c \in Calls, CallStep(c) PROVE ReplyInv'
    BY <2>2, <2>3, <2>4 DEF CallStep, Release
  <2>5. ASSUME NEW c \in Calls, AllowRate(c) \/ Crash(c) PROVE ReplyInv'
    BY <2>1, <2>2, <2>5 DEF AllowRate, Crash
  <2>6. ASSUME NEW c \in Calls, NEW h \in Holds, Acquire(c, h) PROVE ReplyInv'
    BY <2>1, <2>6 DEF Acquire
  <2>7. CASE Flush \/ Tick \/ UNCHANGED vars
    BY <2>1, <2>7 DEF Flush, Tick, vars, callVars
  <2> QED BY <2>4, <2>5, <2>6, <2>7 DEF Next
<1> QED BY <1>1, <1>2, PTL DEF Spec

\* chat_stream() of every adapter reports success, with its one final chunk,
\* only when all the text has been given to on_chunk: for any number of
\* pieces, wherever the body is cut and whatever error follows.
THEOREM StreamsAlwaysWhole == Spec => []StreamWhole
<1>1. ReplyInv => StreamWhole
  BY DEF ReplyInv, StreamWhole, WholeReply
<1> QED BY <1>1, ReplyInvariance, PTL

\* The type invariant of the gate and of the calls.
THEOREM GateTypeCorrect == Spec => []TypeOK
<1>1. LimitInv /\ ReplyInv => TypeOK
  BY DEF LimitInv, LimitTypes, ReplyInv, TypeOK
<1> QED BY <1>1, LimitInvariance, ReplyInvariance, PTL
=============================================================================
