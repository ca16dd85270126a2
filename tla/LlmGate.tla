------------------------------ MODULE LlmGate -------------------------------
(***************************************************************************)
(* The limits on a tenant's LLM calls: the token bucket and the semaphore  *)
(* that LlmGate (src/src/rag/llm_gate.cpp) keeps in Redis, around calls of *)
(* the adapters of LlmStream.                                              *)
(*                                                                         *)
(* A script runs in Redis in one step, on the clock of Redis.  The client  *)
(* may not reach Redis, or miss the answer of a script that has run; it    *)
(* goes on without the limit then.  Times are kept relative to now: what is*)
(* left of a lease, what is left of a key, the age of a call.              *)
(***************************************************************************)
EXTENDS LlmStream

CONSTANTS
    Calls,          \* calls of the tenant's workers; each stands for its token
    Cap,            \* LlmLimits::max_concurrency
    Holds,          \* max_hold of the calls: their timeout
    Margin,         \* kLeaseMargin
    Gap,            \* longest time from the end of a call to its release
    Scale,          \* a token, in the units in which the bucket is counted
    Rate,           \* LlmLimits::rate_per_sec, units a tick
    Burst,          \* LlmLimits::burst, tokens
    MaxFaults       \* bound: failures of Redis and of workers in a behaviour

\* The margin is there for the gap; acquire() takes any hold.
ASSUME GateAssumption ==
    /\ Cap \in Nat \ {0}
    /\ Holds \subseteq Nat \ {0}
    /\ Margin \in Nat /\ Gap \in Nat /\ Gap < Margin
    /\ Scale \in Nat \ {0} /\ Rate \in Nat \ {0} /\ Burst \in Nat \ {0}
    /\ MaxFaults \in Nat

VARIABLES
    \* lr:llm:sem: the tokens, what is left of their leases and of the key
    zset, left, keyttl,
    \* lr:llm:rate: whether it exists, tokens, time since they were counted
    bucket,
    \* a call: where it stands, whether its lease holds a slot, its max_hold,
    \* its age, its reply
    pc, holds, hold, age, reply,
    \* what the properties need: slots that went with the data of Redis, and
    \* those that went with the key while their leases ran; the pieces
    \* generated; a bucket that is filled at every tick; bounds
    gone, dropped, pieces, ideal, faults

semVars  == <<zset, left, keyttl>>
callVars == <<pc, holds, hold, age, reply, pieces>>
vars == <<semVars, bucket, callVars, gone, dropped, ideal, faults>>

Full     == Burst * Scale
NoBucket == [on |-> FALSE, t |-> 0, age |-> 0]

\* Mutant: the bucket lives as long as it takes to earn one token.
BucketLifeShort == Scale \div Rate

\* PEXPIRE of the bucket: ceil(burst / rate) and a second.
BucketLife == (Full + Rate - 1) \div Rate + 1

Fault == faults < MaxFaults /\ faults' = faults + 1
Goto(c, l) == pc' = [pc EXCEPT ![c] = l]

-----------------------------------------------------------------------------
(* Scripts in Redis                                                        *)

\* Mutant: the tokens are not limited by the burst.
RefillUnbounded(b) == IF b.on THEN b.t + b.age * Rate ELSE Full

\* Tokens at this moment: those counted last, and what has come in since.
Refill(b) ==
    IF ~b.on THEN Full
    ELSE IF b.t + b.age * Rate < Full THEN b.t + b.age * Rate ELSE Full

Takes == Refill(bucket) >= Scale

\* The bucket after token_bucket_take.  Rate and tokens are whole units here: the
\* six decimals of std::to_string are taken to hold the rate.
TokenBucketTake ==
    /\ bucket' = [on |-> TRUE, age |-> 0,
                  t |-> IF Takes THEN Refill(bucket) - Scale ELSE Refill(bucket)]
    /\ ideal' = IF Takes THEN ideal - Scale ELSE ideal

\* ZREMRANGEBYSCORE -inf now
Pruned(z) == {c \in z : left[c] > 0}

\* Mutant: the lease ends with the call.
LeaseNoMargin(h) == h

\* max_hold + kLeaseMargin
Lease(h) == h + Margin

Admits == Cardinality(Pruned(zset)) < Cap

\* Mutant: the slots are counted, and the key is renewed, before the leases
\* that ran out are removed.
SemAcquirePruneLast(c, h) ==
    /\ keyttl' = 2 * Lease(h)
    /\ IF Cardinality(zset) < Cap
       THEN zset' = Pruned(zset) \cup {c} /\ left' = [left EXCEPT ![c] = Lease(h)]
       ELSE UNCHANGED <<zset, left>>

\* The semaphore after sem_acquire: the lease of this call decides the life of
\* the key.
SemAcquire(c, h) ==
    IF Admits
    THEN /\ zset' = Pruned(zset) \cup {c}
         /\ left' = [left EXCEPT ![c] = Lease(h)]
         /\ keyttl' = 2 * Lease(h)
    ELSE zset' = Pruned(zset) /\ UNCHANGED <<left, keyttl>>

\* ZREM
SemRelease(c) ==
    /\ zset' = zset \ {c}
    /\ left' = [left EXCEPT ![c] = 0]
    /\ UNCHANGED keyttl

-----------------------------------------------------------------------------
(* A call                                                                  *)

\* slot_exec(): no answer, the connection is dropped; the script may have run.
Unanswered(script, data) == (script \/ UNCHANGED data) /\ Fault

\* LlmGate::allow_rate with a new token; -1 counts as allowed.
AllowRate(c) ==
    /\ pc[c] = "idle" /\ c \notin zset
    /\ \/ TokenBucketTake /\ Goto(c, IF Takes THEN "rated" ELSE "idle") /\ UNCHANGED faults
       \/ Unanswered(TokenBucketTake, <<bucket, ideal>>) /\ Goto(c, "rated")
    /\ UNCHANGED <<semVars, holds, hold, age, reply, pieces, gone, dropped>>

\* LlmGate::acquire: a slot, none free, or a lease without a slot.
Acquire(c, h) ==
    /\ pc[c] = "rated"
    /\ \/ /\ SemAcquire(c, h)
          /\ Goto(c, IF Admits THEN "calling" ELSE "idle")
          /\ holds' = [holds EXCEPT ![c] = Admits]
          /\ hold' = [hold EXCEPT ![c] = IF Admits THEN h ELSE 0]
          /\ UNCHANGED faults
       \/ /\ Unanswered(SemAcquire(c, h), semVars)
          /\ Goto(c, "calling")
          /\ hold' = [hold EXCEPT ![c] = h]
          /\ UNCHANGED holds
    /\ UNCHANGED <<bucket, age, reply, pieces, gone, dropped, ideal>>

\* The adapter returns, at the latest with its timeout.
Returns(c, p, n, replies) ==
    /\ pc[c] = "calling"
    /\ \E a \in replies : reply' = [reply EXCEPT ![c] = a]
    /\ pieces' = [pieces EXCEPT ![c] = n]
    /\ age' = [age EXCEPT ![c] = 0]
    /\ Goto(c, "ending")
    /\ UNCHANGED <<semVars, bucket, holds, hold, gone, dropped, ideal, faults>>

CallChat(c, p, n) == Returns(c, p, n, ChatReplies[p][n])
CallStream(c, p, n) == Returns(c, p, n, StreamReplies[p][n])

Ended(c, l) ==
    /\ Goto(c, l)
    /\ holds' = [holds EXCEPT ![c] = FALSE]
    /\ hold' = [hold EXCEPT ![c] = 0]
    /\ age' = [age EXCEPT ![c] = 0]
    /\ reply' = [reply EXCEPT ![c] = NoReply]
    /\ pieces' = [pieces EXCEPT ![c] = 0]
    /\ gone' = gone \ {c}
    /\ dropped' = dropped \ {c}

\* ~LlmLease: a lease with a slot gives it back; nobody hears of a failure.
Release(c) ==
    /\ pc[c] = "ending"
    /\ \/ /\ IF holds[c] THEN SemRelease(c) ELSE UNCHANGED semVars
          /\ UNCHANGED faults
       \/ holds[c] /\ Fault /\ UNCHANGED semVars
    /\ Ended(c, "idle")
    /\ UNCHANGED <<bucket, ideal>>

-----------------------------------------------------------------------------
(* Time and failures                                                       *)

\* The worker's process dies; another takes its place, with new tokens.
Crash(c) ==
    /\ pc[c] # "idle"
    /\ Fault
    /\ Ended(c, "idle")
    /\ UNCHANGED <<semVars, bucket, ideal>>

\* Redis loses its data.
Flush ==
    /\ zset # {} \/ bucket.on
    /\ Fault
    /\ zset' = {} /\ left' = [c \in Calls |-> 0] /\ keyttl' = 0
    /\ gone' = gone \cup {c \in Calls : holds[c]}
    /\ bucket' = NoBucket
    /\ ideal' = Full
    /\ UNCHANGED <<callVars, dropped>>

\* A second.  Calls time out and leases are released in time.  With the key goes
\* every lease in it.
Tick ==
    /\ \A c \in Calls : /\ pc[c] = "calling" => age[c] < hold[c]
                        /\ pc[c] = "ending"  => age[c] < Gap
    /\ age' = [c \in Calls |-> IF pc[c] \in {"calling", "ending"} THEN age[c] + 1 ELSE 0]
    /\ keyttl' = IF keyttl > 0 THEN keyttl - 1 ELSE 0
    /\ left' = [c \in Calls |-> IF keyttl' > 0 /\ left[c] > 0 THEN left[c] - 1 ELSE 0]
    /\ zset' = IF keyttl' = 0 THEN {} ELSE zset
    /\ dropped' = IF keyttl' = 0 THEN dropped \cup {c \in zset : holds[c] /\ left[c] > 1}
                  ELSE dropped
    /\ bucket' = IF bucket.on /\ bucket.age + 1 < BucketLife
                 THEN [bucket EXCEPT !.age = @ + 1] ELSE NoBucket
    /\ ideal' = IF ideal + Rate < Full THEN ideal + Rate ELSE Full
    /\ UNCHANGED <<pc, holds, hold, reply, pieces, gone, faults>>

CallStep(c) ==
    \/ \E p \in Providers, n \in 0..MaxPieces : CallChat(c, p, n) \/ CallStream(c, p, n)
    \/ Release(c)

Next ==
    \/ \E c \in Calls : AllowRate(c) \/ CallStep(c) \/ Crash(c)
    \/ \E c \in Calls, h \in Holds : Acquire(c, h)
    \/ Flush
    \/ Tick

Init ==
    /\ zset = {} /\ left = [c \in Calls |-> 0] /\ keyttl = 0
    /\ bucket = NoBucket
    /\ pc = [c \in Calls |-> "idle"]
    /\ holds = [c \in Calls |-> FALSE]
    /\ hold = [c \in Calls |-> 0]
    /\ age = [c \in Calls |-> 0]
    /\ reply = [c \in Calls |-> NoReply]
    /\ gone = {} /\ dropped = {}
    /\ pieces = [c \in Calls |-> 0]
    /\ ideal = Full
    /\ faults = 0

\* A call ends (its timer fires), a lease is destroyed, time goes on.
Fairness ==
    /\ \A c \in Calls : WF_vars(CallStep(c))
    /\ WF_vars(Tick)

Spec == Init /\ [][Next]_vars /\ Fairness

TypeOK ==
    /\ zset \in SUBSET Calls
    /\ left \in [Calls -> Nat] /\ keyttl \in Nat
    /\ bucket \in [on: BOOLEAN, t: 0..Full, age: 0..(BucketLife - 1)]
    /\ pc \in [Calls -> {"idle", "rated", "calling", "ending"}]
    /\ holds \in [Calls -> BOOLEAN]
    /\ hold \in [Calls -> Holds \cup {0}]
    /\ age \in [Calls -> Nat]
    /\ reply \in [Calls -> Replies]
    /\ gone \in SUBSET Calls /\ dropped \in SUBSET Calls
    /\ pieces \in [Calls -> 0..MaxPieces]
    /\ ideal \in 0..Full
    /\ faults \in 0..MaxFaults

-----------------------------------------------------------------------------
(* Properties                                                              *)

\* No more calls run with a slot than the cap allows, crashes, lost answers
\* and lost releases included: no lease runs out under a live call.  Redis
\* forgets a slot only when it loses its data, or when a later and much shorter
\* lease has brought the end of the whole key forward; that cannot befall a call
\* whose hold is less than twice the lease of every other.
CapHeld ==
    /\ Cardinality({c \in Calls : holds[c] /\ c \notin gone \cup dropped}) <= Cap
    /\ \A c \in Calls : holds[c] /\ c \notin gone \cup dropped => c \in Pruned(zset)
    /\ \A c \in dropped : \E k \in Holds : 2 * Lease(k) <= hold[c] + Gap

\* What LlmGate::acquire promises of any hold up to 24 hours: "a lease can never
\* expire under a live call, which would let concurrency exceed the cap".
CapNeverExceeded == Cardinality({c \in Calls : holds[c] /\ c \notin gone}) <= Cap

\* The bucket, which is only brought up to date when a token is taken and
\* vanishes when nobody takes one, always holds what a bucket that is filled
\* at every tick would: so the calls that Redis lets through never exceed the
\* tenant's rate, and are never cut below it.  Calls that go on because Redis
\* does not answer are not counted.
BucketExact == Refill(bucket) = ideal

\* A streamed call succeeds only with all the text that was generated, given
\* piece by piece and closed by one final chunk; a stream that fails is never
\* closed, whatever part of it has been given away.
StreamWhole ==
    \A c \in Calls :
        /\ reply[c].done = 1 => reply[c].kind = "ok" /\ reply[c].text = pieces[c]
        /\ reply[c].text <= pieces[c]

\* A slot is given up in the end: by its call, or by time where the call has
\* died, its release or the answer that granted it was lost, although other
\* calls keep asking.
SlotsReturn == \A c \in Calls : c \in zset ~> c \notin zset
=============================================================================
