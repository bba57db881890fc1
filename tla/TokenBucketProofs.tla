------------------------- MODULE TokenBucketProofs -------------------------
(***************************************************************************)
(* The token bucket for every configuration, any number of requests and    *)
(* any clock: it admits no more than burst and rate allow, and it blocks   *)
(* nobody who comes 1 / RPS after the last one admitted.                   *)
(***************************************************************************)
EXTENDS TokenBucket, TLAPS

\* A request that the rate and the burst allow costs no more than the bucket holds.
BurstCoversCost == bucket.cost <= bucket.burst

\* The history agrees with the bucket's clock.
HistoryOK ==
    /\ since > 0 => mark <= bucket.lastFill
    /\ lastAdmit <= bucket.lastFill

\* Since the last admission the bucket was refilled at the full rate, or is full.
RefilledSince ==
    \/ bucket.tokens = bucket.burst
    \/ bucket.tokens >= bucket.rps * (bucket.lastFill - lastAdmit)

BInv ==
    /\ BucketTypeOK
    /\ BurstCoversCost
    /\ HistoryOK
    /\ WindowBound
    /\ RefilledSince

-----------------------------------------------------------------------------
(* Arithmetic *)

\* What is added by two refills is what is added by one over the whole time.
LEMMA RefillAdds ==
    ASSUME NEW r \in Nat, NEW a \in Int, NEW b \in Int, NEW c \in Int
    PROVE  r * (c - b) + r * (b - a) = r * (c - a)
BY SMT

\* A refill over a time adds nothing negative.
LEMMA RefillNat ==
    ASSUME NEW r \in Nat, NEW a \in Nat
    PROVE  r * a \in Nat
BY SMT

\* One more request costs one more times the price.
LEMMA OneMore ==
    ASSUME NEW n \in Nat, NEW c \in Nat
    PROVE  (n + 1) * c = n * c + c /\ n * c \in Nat
BY SMT

\* A burst of at least one request covers the cost of one.
LEMMA BurstUnits ==
    ASSUME NEW b \in Nat, b >= 1, NEW c \in Nat
    PROVE  b * c >= c /\ b * c \in Nat
BY SMT

-----------------------------------------------------------------------------
(* The bucket *)

Bucket == [rps : Nat \ {0}, cost : Nat \ {0}, burst : Nat, tokens : Nat, lastFill : Nat]

\* Every configuration gives a full bucket that covers the cost of a request.
LEMMA NewBucket ==
    ASSUME NEW cfg \in Limits
    PROVE  LET b == NewTokenBucketLimiter(cfg)
           IN  /\ b \in Bucket
               /\ b.tokens = b.burst /\ b.cost <= b.burst /\ b.lastFill = 0
  <1> DEFINE num == IF cfg.num <= 0 THEN 20 ELSE cfg.num
             den == IF cfg.num <= 0 THEN 1 ELSE cfg.den
             given == IF cfg.burst <= 0 THEN num \div den ELSE cfg.burst
             burst == IF given <= 0 THEN 1 ELSE given
  <1>1. cfg.num \in Int /\ cfg.den \in Nat \ {0} /\ cfg.burst \in Int
    BY TokenBucketAssumption
  <1>2. num \in Nat \ {0} /\ den \in Nat \ {0}
    BY <1>1
  <1>3. num \div den \in Int
    BY <1>2
  <1> HIDE DEF num, den
  <1>4. burst \in Nat /\ burst >= 1
    BY <1>1, <1>3
  <1> HIDE DEF burst
  <1>5. burst * den >= den /\ burst * den \in Nat
    BY <1>2, <1>4, BurstUnits
  <1>6. NewTokenBucketLimiter(cfg) =
            [rps |-> num, cost |-> den, burst |-> burst * den,
             tokens |-> burst * den, lastFill |-> 0]
    BY DEF NewTokenBucketLimiter, num, den, burst
  <1> QED
    BY <1>2, <1>5, <1>6 DEF Bucket

\* A refill sets lastFill to the later of the two times, adds the rate for the
\* time between them unless that fills the bucket, and changes nothing else.
LEMMA RefillFacts ==
    ASSUME NEW b \in Bucket, b.tokens <= b.burst, NEW now \in Nat
    PROVE  LET full == Refill(b, now)
           IN  /\ full \in Bucket
               /\ full.rps = b.rps /\ full.cost = b.cost /\ full.burst = b.burst
               /\ full.tokens <= b.burst
               /\ full.lastFill >= b.lastFill /\ full.lastFill >= now
               /\ full.lastFill = b.lastFill \/ full.lastFill = now
               /\ \/ full.tokens = b.burst
                  \/ full.tokens = b.tokens + b.rps * (full.lastFill - b.lastFill)
               /\ full.tokens <= b.tokens + b.rps * (full.lastFill - b.lastFill)
  <1> DEFINE full == Refill(b, now)
  <1>1. CASE now > b.lastFill
    <2> DEFINE more == (now - b.lastFill) * b.rps
    <2>1. more = b.rps * (now - b.lastFill) /\ more \in Nat
      BY <1>1, RefillNat DEF Bucket
    <2>2. full = [b EXCEPT !.tokens = AtMost(b.tokens + more, b.burst), !.lastFill = now]
      BY <1>1 DEF Refill
    <2> HIDE DEF more, full
    <2>3. AtMost(b.tokens + more, b.burst) \in Nat
          /\ AtMost(b.tokens + more, b.burst) <= b.burst
          /\ AtMost(b.tokens + more, b.burst) <= b.tokens + more
          /\ (AtMost(b.tokens + more, b.burst) = b.burst
              \/ AtMost(b.tokens + more, b.burst) = b.tokens + more)
      BY <2>1 DEF AtMost, Bucket
    <2>4. full \in Bucket /\ full.rps = b.rps /\ full.cost = b.cost /\ full.burst = b.burst
          /\ full.lastFill = now /\ full.tokens = AtMost(b.tokens + more, b.burst)
      BY <2>2, <2>3 DEF Bucket
    <2> QED
      BY <1>1, <2>1, <2>3, <2>4 DEF full, Bucket
  <1>2. CASE ~(now > b.lastFill)
    <2>1. full = b
      BY <1>2 DEF Refill
    <2>2. b.rps * (b.lastFill - b.lastFill) = 0
      BY DEF Bucket
    <2> QED
      BY <1>2, <2>1, <2>2 DEF Bucket
  <1> QED
    BY <1>1, <1>2

-----------------------------------------------------------------------------
(* The invariant *)

LEMMA InitBInv == BucketInit => BInv
  <1> SUFFICES ASSUME BucketInit PROVE BInv
    OBVIOUS
  <1> USE TokenBucketAssumption DEF BucketInit
  <1>1. /\ bucket \in Bucket
        /\ bucket.tokens = bucket.burst /\ bucket.cost <= bucket.burst
        /\ bucket.lastFill = 0
    BY NewBucket
  <1>2. BucketTypeOK
    <2>1. call \in [Procs -> [at : {"none", "lock", "answer"}, now : 0..MaxTime, ok : BOOLEAN]]
      BY DEF NotCalled
    <2> QED
      BY <1>1, <2>1 DEF BucketTypeOK, Bucket
  <1>3. WindowBound
    <2>1. since * bucket.cost = 0
      BY <1>1 DEF Bucket
    <2>2. bucket.rps * 0 = 0
      BY <1>1 DEF Bucket
    <2> QED
      BY <1>1, <2>1, <2>2 DEF WindowBound, Bucket
  <1> QED
    BY <1>1, <1>2, <1>3 DEF BInv, BurstCoversCost, HistoryOK, RefilledSince

\* What allow does to the bucket and to the history.
LEMMA AllowBInv ==
    ASSUME BInv, NEW p \in Procs, allow(p)
    PROVE  BInv'
  <1> DEFINE now == call[p].now
             full == Refill(bucket, now)
             ok == full.tokens >= full.cost
  <1>1. bucket \in Bucket /\ bucket.tokens <= bucket.burst /\ now \in Nat /\ mark \in Nat
        /\ since \in Nat /\ lastAdmit \in Nat
    BY TokenBucketAssumption DEF BInv, BucketTypeOK, Bucket
  <1>2. /\ full \in Bucket
        /\ full.rps = bucket.rps /\ full.cost = bucket.cost /\ full.burst = bucket.burst
        /\ full.tokens <= bucket.burst
        /\ full.lastFill >= bucket.lastFill /\ full.lastFill >= now
        /\ full.lastFill = bucket.lastFill \/ full.lastFill = now
        /\ \/ full.tokens = bucket.burst
           \/ full.tokens = bucket.tokens + bucket.rps * (full.lastFill - bucket.lastFill)
        /\ full.tokens <= bucket.tokens + bucket.rps * (full.lastFill - bucket.lastFill)
    BY <1>1, RefillFacts
  <1>3. /\ bucket' = IF ok THEN [full EXCEPT !.tokens = full.tokens - full.cost] ELSE full
        /\ call' = [call EXCEPT ![p].at = "answer", ![p].ok = ok]
        /\ since' = IF ok /\ now >= mark THEN since + 1 ELSE since
        /\ lastAdmit' = IF ok THEN full.lastFill ELSE lastAdmit
        /\ clock' = clock /\ mark' = mark
    BY DEF allow
  <1> HIDE DEF full, now
  <1>4. /\ bucket' \in Bucket
        /\ bucket'.rps = bucket.rps /\ bucket'.cost = bucket.cost
        /\ bucket'.burst = bucket.burst /\ bucket'.lastFill = full.lastFill
        /\ bucket'.tokens = IF ok THEN full.tokens - full.cost ELSE full.tokens
    BY <1>2, <1>3 DEF Bucket
  <1>5. BucketTypeOK'
    <2>1. call' \in [Procs -> [at : {"none", "lock", "answer"}, now : 0..MaxTime, ok : BOOLEAN]]
      <3>1. ok \in BOOLEAN
        OBVIOUS
      <3> HIDE DEF ok
      <3> QED
        BY <3>1, <1>3, ZenonT(60) DEF BInv, BucketTypeOK
    <2>2. bucket'.tokens <= bucket'.burst
      BY <1>2, <1>4 DEF Bucket
    <2> QED
      BY <1>1, <1>2, <1>3, <1>4, <2>1, <2>2, SMTT(30) DEF BInv, BucketTypeOK, Bucket
  <1>6. BurstCoversCost'
    BY <1>4 DEF BInv, BurstCoversCost
  <1>7. HistoryOK'
    BY <1>1, <1>2, <1>3, <1>4 DEF BInv, HistoryOK, Bucket
  <1>8. RefilledSince'
    <2>1. CASE ok
      <3>1. lastAdmit' = bucket'.lastFill
        BY <2>1, <1>3, <1>4
      <3>2. bucket'.rps * (bucket'.lastFill - lastAdmit') = 0
        BY <3>1, <1>4 DEF Bucket
      <3> QED
        BY <3>2, <1>4 DEF RefilledSince, Bucket
    <2>2. CASE ~ok
      <3>1. bucket'.tokens = full.tokens /\ lastAdmit' = lastAdmit
        BY <2>2, <1>3, <1>4
      <3>2. bucket.rps * (full.lastFill - bucket.lastFill)
                + bucket.rps * (bucket.lastFill - lastAdmit)
              = bucket.rps * (full.lastFill - lastAdmit)
        BY <1>1, <1>2, RefillAdds DEF Bucket
      <3>3. CASE full.tokens = bucket.burst
        BY <3>1, <3>3, <1>4 DEF RefilledSince
      <3>4. CASE full.tokens = bucket.tokens + bucket.rps * (full.lastFill - bucket.lastFill)
        <4>1. CASE bucket.tokens >= bucket.rps * (bucket.lastFill - lastAdmit)
          <5>1. bucket.rps * (full.lastFill - bucket.lastFill) \in Int
                /\ bucket.rps * (bucket.lastFill - lastAdmit) \in Int
            BY <1>1, <1>2 DEF Bucket
          <5>2. full.tokens >= bucket.rps * (full.lastFill - lastAdmit)
            BY <3>2, <3>4, <4>1, <5>1, <1>1 DEF Bucket
          <5> QED
            BY <5>2, <3>1, <1>4 DEF RefilledSince
        <4>2. CASE bucket.tokens = bucket.burst
          <5>1. bucket.rps * (full.lastFill - bucket.lastFill) \in Nat
            BY <1>1, <1>2, RefillNat DEF Bucket
          <5>2. full.tokens = bucket.burst
            BY <3>4, <4>2, <5>1, <1>1, <1>2 DEF Bucket
          <5> QED
            BY <5>2, <3>1, <1>4 DEF RefilledSince
        <4> QED
          BY <4>1, <4>2 DEF BInv, RefilledSince
      <3> QED
        BY <3>3, <3>4, <1>2
    <2> QED
      BY <2>1, <2>2
  <1>9. WindowBound'
    <2> DEFINE gain(b) == bucket.rps * (IF b.lastFill > mark THEN b.lastFill - mark ELSE 0)
    <2>1. gain(full) \in Nat
      <3>1. (IF full.lastFill > mark THEN full.lastFill - mark ELSE 0) \in Nat
        BY <1>1, <1>2 DEF Bucket
      <3> QED
        BY <3>1, <1>1, RefillNat DEF Bucket
    \* The bound holds after the refill.
    <2>2. since * bucket.cost + full.tokens <= bucket.burst + gain(full)
      <3>1. CASE since = 0
        <4>1. since * bucket.cost = 0
          BY <3>1, <1>1 DEF Bucket
        <4> HIDE DEF gain
        <4> QED
          BY <4>1, <2>1, <1>1, <1>2 DEF Bucket
      <3>2. CASE since > 0
        <4>1. mark <= bucket.lastFill /\ mark <= full.lastFill
          BY <3>2, <1>1, <1>2 DEF BInv, HistoryOK, Bucket
        <4>2. gain(bucket) = bucket.rps * (bucket.lastFill - mark)
              /\ gain(full) = bucket.rps * (full.lastFill - mark)
          <5>1. (IF bucket.lastFill > mark THEN bucket.lastFill - mark ELSE 0)
                  = bucket.lastFill - mark
            BY <4>1, <1>1 DEF Bucket
          <5>2. (IF full.lastFill > mark THEN full.lastFill - mark ELSE 0)
                  = full.lastFill - mark
            BY <4>1, <1>1, <1>2 DEF Bucket
          <5> QED
            BY <5>1, <5>2
        <4>3. bucket.rps * (full.lastFill - bucket.lastFill)
                  + bucket.rps * (bucket.lastFill - mark)
                = bucket.rps * (full.lastFill - mark)
          BY <1>1, <1>2, RefillAdds DEF Bucket
        <4>4. since * bucket.cost + bucket.tokens <= bucket.burst + gain(bucket)
          BY DEF BInv, WindowBound
        <4>5. bucket.rps * (full.lastFill - bucket.lastFill) \in Int
              /\ bucket.rps * (bucket.lastFill - mark) \in Int
              /\ since * bucket.cost \in Int
          BY <1>1, <1>2 DEF Bucket
        <4> HIDE DEF gain
        <4> QED
          BY <4>2, <4>3, <4>4, <4>5, <1>1, <1>2 DEF Bucket
      <3> QED
        BY <3>1, <3>2, <1>1
    <2>3. since' * bucket.cost + bucket'.tokens <= since * bucket.cost + full.tokens
      <3>1. (since + 1) * bucket.cost = since * bucket.cost + bucket.cost
            /\ since * bucket.cost \in Nat
        BY <1>1, OneMore DEF Bucket
      <3>2. CASE ok
        <4>1. bucket'.tokens = full.tokens - bucket.cost
          BY <3>2, <1>2, <1>4
        <4>2. since' = since + 1 \/ since' = since
          BY <1>3
        <4> QED
          BY <3>1, <4>1, <4>2, <1>1, <1>2 DEF Bucket
      <3>3. CASE ~ok
        <4>1. bucket'.tokens = full.tokens /\ since' = since
          BY <3>3, <1>3, <1>4
        <4> QED
          BY <3>1, <4>1, <1>2 DEF Bucket
      <3> QED
        BY <3>2, <3>3
    <2>4. since' * bucket.cost \in Int /\ since * bucket.cost \in Int
      BY <1>1, <1>3 DEF Bucket
    <2>5. bucket'.rps * (IF bucket'.lastFill > mark' THEN bucket'.lastFill - mark' ELSE 0)
            = gain(full)
      BY <1>3, <1>4
    <2>6. since' * bucket.cost + bucket'.tokens <= bucket.burst + gain(full)
      <3> HIDE DEF gain
      <3> QED
        BY <2>1, <2>2, <2>3, <2>4, <1>1, <1>2, <1>4 DEF Bucket
    <2> HIDE DEF gain
    <2> QED
      BY <2>5, <2>6, <1>4 DEF WindowBound
  <1> QED
    BY <1>5, <1>6, <1>7, <1>8, <1>9 DEF BInv

LEMMA NextBInv == BInv /\ [BucketNext]_bucketVars => BInv'
  <1> SUFFICES ASSUME BInv, [BucketNext]_bucketVars PROVE BInv'
    OBVIOUS
  <1> USE DEF BInv, BucketTypeOK, BurstCoversCost, HistoryOK, WindowBound, RefilledSince
  <1>1. ASSUME NEW p \in Procs, ReadNow(p) PROVE BInv'
    BY <1>1 DEF ReadNow
  <1>2. ASSUME NEW p \in Procs, allow(p) PROVE BInv'
    BY <1>2, AllowBInv
  <1>3. ASSUME NEW p \in Procs, Return(p) PROVE BInv'
    BY <1>3, TokenBucketAssumption DEF Return, NotCalled
  <1>4. CASE Tick
    BY <1>4, TokenBucketAssumption DEF Tick
  <1>5. CASE UNCHANGED bucketVars
    BY <1>5 DEF bucketVars
  <1> QED
    BY <1>1, <1>2, <1>3, <1>4, <1>5 DEF BucketNext

\* The inductive invariant holds.
THEOREM BInvHolds == BucketSpec => []BInv
  <1> QED
    BY InitBInv, NextBInv, PTL DEF BucketSpec

\* From any moment on, however late and in whatever order the times of requests
\* reach the mutex, no more are admitted than burst and rate allow.
THEOREM WindowBoundHolds == BucketSpec => []WindowBound
  <1>1. BInv => WindowBound
    BY DEF BInv
  <1> QED
    BY <1>1, BInvHolds, PTL

\* A request is blocked only if the last one was admitted less than 1 / RPS
\* before it.
THEOREM NoUndueRejectionHolds == BucketSpec => NoUndueRejection
  <1> DEFINE Blocked(p) == call[p].at = "lock" /\ call'[p].at = "answer" /\ ~call'[p].ok
             Due == bucket.rps * (bucket'.lastFill - lastAdmit) < bucket.cost
  <1>1. ASSUME BInv, BInv', [BucketNext]_bucketVars, NEW q \in Procs, Blocked(q)
        PROVE  Due
    <2>1. allow(q)
      <3>1. ASSUME NEW p \in Procs, ReadNow(p) PROVE FALSE
        BY <1>1, <3>1 DEF ReadNow, BInv, BucketTypeOK
      <3>2. ASSUME NEW p \in Procs, allow(p) PROVE p = q
        BY <1>1, <3>2 DEF allow, BInv, BucketTypeOK
      <3>3. ASSUME NEW p \in Procs, Return(p) PROVE FALSE
        BY <1>1, <3>3 DEF Return, NotCalled, BInv, BucketTypeOK
      <3>4. ~Tick /\ ~UNCHANGED bucketVars
        BY <1>1 DEF Tick, bucketVars
      <3> QED
        BY <1>1, <3>1, <3>2, <3>3, <3>4 DEF BucketNext
    <2> DEFINE full == Refill(bucket, call[q].now)
    <2>2. ~(full.tokens >= full.cost) /\ bucket' = full /\ lastAdmit' = lastAdmit
      BY <1>1, <2>1 DEF allow, BInv, BucketTypeOK
    <2>3. bucket \in Bucket /\ bucket.tokens <= bucket.burst /\ call[q].now \in Nat
      BY <1>1, TokenBucketAssumption DEF BInv, BucketTypeOK, Bucket
    <2>4. full \in Bucket /\ full.rps = bucket.rps /\ full.cost = bucket.cost
          /\ full.burst = bucket.burst
      BY <2>3, RefillFacts
    <2> HIDE DEF full
    <2>5. ~(bucket'.tokens = bucket'.burst)
      BY <1>1, <2>2, <2>4 DEF BInv, BurstCoversCost, Bucket
    <2>6. bucket'.tokens >= bucket'.rps * (bucket'.lastFill - lastAdmit')
      BY <1>1, <2>5 DEF BInv, RefilledSince
    <2>7. bucket.rps * (bucket'.lastFill - lastAdmit) \in Int
      BY <1>1, <2>2, <2>3, <2>4 DEF BInv, BucketTypeOK, Bucket
    <2> QED
      BY <2>2, <2>4, <2>6, <2>7 DEF Bucket
  <1>2. BInv /\ BInv' /\ [BucketNext]_bucketVars =>
            [\A p \in Procs : Blocked(p) => Due]_bucketVars
    BY <1>1
  <1> QED
    BY <1>2, BInvHolds, PTL DEF BucketSpec, NoUndueRejection
=============================================================================
