---------------------------- MODULE TokenBucket ----------------------------
(***************************************************************************)
(* The token bucket that limits POST /api/orders.  A request reads the     *)
(* clock first and takes the mutex afterwards, so the times that allow     *)
(* sees may be late and out of order.                                      *)
(*                                                                         *)
(* RPS is a fraction num / den.  A tick of the clock is a second; tokens   *)
(* are counted in units of 1 / den, so that a tick adds num units and a    *)
(* request costs den of them.  The floating-point rounding of the code is  *)
(* left out.                                                               *)
(***************************************************************************)
EXTENDS Integers

CONSTANTS
    Procs,      \* goroutines that serve requests
    Limits,     \* TokenBucketConfigs: RPS = num / den, and Burst
    MaxTime     \* bound: the clock stops here

ASSUME TokenBucketAssumption ==
    /\ Limits \subseteq [num : Int, den : Nat \ {0}, burst : Int]
    /\ MaxTime \in Nat

VARIABLES
    clock,      \* time.Now()
    bucket,     \* the TokenBucketLimiter: rps, cost of a request, burst, tokens, lastFill
    call,       \* call[p]: how far p's call of the limiter has come, its now, the result
    mark,       \* history: a moment fixed beforehand,
    since,      \*   requests admitted whose now is not before it,
    lastAdmit   \*   and lastFill as of the last admission

bucketVars == <<clock, bucket, call, mark, since, lastAdmit>>

NotCalled == [at |-> "none", now |-> 0, ok |-> FALSE]

AtMost(n, bound) == IF n > bound THEN bound ELSE n

\* Slip: no second default, a rate below one request a second gives a burst of 0.
NewTokenBucketLimiterNoFloor(cfg) ==
    LET num == IF cfg.num <= 0 THEN 20 ELSE cfg.num
        den == IF cfg.num <= 0 THEN 1 ELSE cfg.den
        burst == IF cfg.burst <= 0 THEN num \div den ELSE cfg.burst
    IN  [rps |-> num, cost |-> den, burst |-> burst * den,
         tokens |-> burst * den, lastFill |-> 0]

NewTokenBucketLimiter(cfg) ==
    LET num == IF cfg.num <= 0 THEN 20 ELSE cfg.num
        den == IF cfg.num <= 0 THEN 1 ELSE cfg.den
        given == IF cfg.burst <= 0 THEN num \div den ELSE cfg.burst
        burst == IF given <= 0 THEN 1 ELSE given
    IN  [rps |-> num, cost |-> den, burst |-> burst * den,
         tokens |-> burst * den, lastFill |-> 0]

\* Slip: lastFill is set back by a late request.
RefillBack(b, now) ==
    [b EXCEPT !.tokens = IF now > b.lastFill
                         THEN AtMost(@ + (now - b.lastFill) * b.rps, b.burst) ELSE @,
              !.lastFill = now]

\* The bucket b after it was refilled for the time until now.
Refill(b, now) ==
    IF now > b.lastFill
    THEN [b EXCEPT !.tokens = AtMost(@ + (now - b.lastFill) * b.rps, b.burst),
                   !.lastFill = now]
    ELSE b

-----------------------------------------------------------------------------

\* The argument of allow(time.Now()), evaluated before the mutex is taken.
ReadNow(p) ==
    /\ call[p].at = "none"
    /\ call' = [call EXCEPT ![p] = [at |-> "lock", now |-> clock, ok |-> FALSE]]
    /\ UNCHANGED <<clock, bucket, mark, since, lastAdmit>>

\* Slip: part of a token will do.
allowFraction(p) ==
    LET now == call[p].now
        full == Refill(bucket, now)
        ok == full.tokens > 0
    IN  /\ call[p].at = "lock"
        /\ bucket' = IF ok THEN [full EXCEPT !.tokens = @ - full.cost] ELSE full
        /\ call' = [call EXCEPT ![p].at = "answer", ![p].ok = ok]
        /\ since' = IF ok /\ now >= mark THEN since + 1 ELSE since
        /\ lastAdmit' = IF ok THEN full.lastFill ELSE lastAdmit
        /\ UNCHANGED <<clock, mark>>

allow(p) ==
    LET now == call[p].now
        full == Refill(bucket, now)
        ok == full.tokens >= full.cost
    IN  /\ call[p].at = "lock"
        /\ bucket' = IF ok THEN [full EXCEPT !.tokens = @ - full.cost] ELSE full
        /\ call' = [call EXCEPT ![p].at = "answer", ![p].ok = ok]
        /\ since' = IF ok /\ now >= mark THEN since + 1 ELSE since
        /\ lastAdmit' = IF ok THEN full.lastFill ELSE lastAdmit
        /\ UNCHANGED <<clock, mark>>

\* The middleware goes on with what allow returned.
Return(p) ==
    /\ call[p].at = "answer"
    /\ call' = [call EXCEPT ![p] = NotCalled]
    /\ UNCHANGED <<clock, bucket, mark, since, lastAdmit>>

Tick ==
    /\ clock < MaxTime
    /\ clock' = clock + 1
    /\ UNCHANGED <<bucket, call, mark, since, lastAdmit>>

BucketInit ==
    /\ clock = 0
    /\ \E cfg \in Limits : bucket = NewTokenBucketLimiter(cfg)
    /\ call = [p \in Procs |-> NotCalled]
    /\ mark \in 0..MaxTime
    /\ since = 0
    /\ lastAdmit = 0

BucketNext ==
    \/ \E p \in Procs : ReadNow(p) \/ allow(p) \/ Return(p)
    \/ Tick

BucketSpec == BucketInit /\ [][BucketNext]_bucketVars

-----------------------------------------------------------------------------
(* Properties *)

\* Every variable has its type; the bucket never holds more than its burst.
BucketTypeOK ==
    /\ clock \in 0..MaxTime
    /\ bucket \in [rps : Nat \ {0}, cost : Nat \ {0}, burst : Nat, tokens : Nat,
                   lastFill : Nat]
    /\ bucket.tokens <= bucket.burst
    /\ call \in [Procs -> [at : {"none", "lock", "answer"}, now : 0..MaxTime,
                           ok : BOOLEAN]]
    /\ mark \in 0..MaxTime
    /\ since \in Nat
    /\ lastAdmit \in Nat

\* From any moment on, no more requests of that moment or later are admitted
\* than a full bucket and the rate allow, however late and in whatever order
\* their times reach the mutex.
WindowBound ==
    since * bucket.cost + bucket.tokens <=
        bucket.burst + bucket.rps * (IF bucket.lastFill > mark
                                     THEN bucket.lastFill - mark ELSE 0)

\* A request is blocked only if the last one was admitted less than 1 / RPS
\* before it: however the configuration was defaulted, a request costs no more
\* than the bucket holds, and no refill is lost to a late request.
NoUndueRejection ==
    [][\A p \in Procs :
           call[p].at = "lock" /\ call'[p].at = "answer" /\ ~call'[p].ok =>
               bucket.rps * (bucket'.lastFill - lastAdmit) < bucket.cost]_bucketVars
=============================================================================
