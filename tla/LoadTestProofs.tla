--------------------------- MODULE LoadTestProofs ---------------------------
(***************************************************************************)
(* Proofs about the request pipeline under the load generator.             *)
(***************************************************************************)
EXTENDS LoadTest, TokenBucketProofs, FiniteSums

-----------------------------------------------------------------------------
(* The limiter *)

\* The closed system uses the limiter as TokenBucket allows: whatever handlers,
\* metrics and clients do, its variables change by steps of the bucket alone.
LEMMA BucketPart == [Next]_vars => [BucketNext]_bucketVars
BY DEF Next, vars, loadVars, ServerNext, LimiterReads, LimiterAllows, LimiterReturns,
    CreateOrder, CreateOrderCommitLost, CreateOrderFails, ReadHandler, ReadHandlerFails,
    IncBusinessEvent, ObserveHTTPRequest, processOrderCreated, TimePasses, SendRequest,
    WorkerReturns, ReceiveResponse, ResponseUnreadable, RequestFails, LoadEnds, VerifyCalls, VerifyReads,
    VerifyFails, Setup, WriteReport, BucketNext

\* The closed system implements the limiter's specification.
THEOREM ImplementsBucket == Spec => BucketSpec
<1>1. Init => BucketInit
  BY DEF Init, PipelineInit
<1> QED
  BY <1>1, BucketPart, PTL DEF Spec, BucketSpec

\* Under load too, no more requests pass the limiter from any moment on than
\* burst and rate allow.
THEOREM WindowBoundUnderLoad == Spec => []WindowBound
BY ImplementsBucket, WindowBoundHolds, PTL

\* Under load too, a request is blocked only if the last one was admitted less
\* than 1 / RPS before it.
THEOREM NoUndueRejectionUnderLoad == Spec => NoUndueRejection
BY ImplementsBucket, NoUndueRejectionHolds, PTL

-----------------------------------------------------------------------------
(* Types *)

Rows == [Users -> {"none", "QUEUED", "WAIT_PAY"}]

Routes == {"POST /orders", "GET /orders/:order_no", "GET /admin/orders",
           "POST /ops/stock/reconcile", "GET /activities"}

Stages == {"idle", "limit", "handler", "event", "observe", "reply"}

\* The answers of the read-only handlers.
Bodies(route) ==
    CASE route \in {"GET /admin/orders", "GET /orders/:order_no"} -> [rows : Rows]
      [] route = "POST /ops/stock/reconcile" -> [matches : BOOLEAN]
      [] route = "GET /activities" -> [stock : Nat]
      [] OTHER -> {<<>>}

Request ==
    [stage : Stages, route : Routes \cup {"none"}, user : Users \cup {"none"},
     activity : Activities \cup {"none"}, client : BOOLEAN, start : Nat,
     status : Statuses \cup {0}, event : Results \cup {"none"},
     body : UNION {Bodies(route) : route \in Routes}]

\* What is known of a request r, at the time now, from the stage it has reached.
RouteOK(r, now) ==
    /\ r.stage # "idle" => r.route \in Routes /\ r.activity \in Activities /\ r.start <= now
    /\ r.route = "POST /orders" => r.user \in Users
    /\ r.stage \in {"limit", "event"} => r.route = "POST /orders"

\* Answers of the order service and the limiter: only an accepted order has 202.
AnswerOK(status, event) ==
    /\ status \in Statuses \ {200} /\ event \in Results
    /\ event = "accepted" <=> status = 202

EventOK(r) == r.stage = "event" => AnswerOK(r.status, r.event)

BodyOK(r) ==
    /\ r.status = 202 => r.route = "POST /orders"
    /\ r.status = 200 => r.body \in Bodies(r.route)

StatusOK(r) == r.stage \in {"observe", "reply"} => r.status \in Statuses /\ BodyOK(r)

RequestOK(r, now) == r \in Request /\ RouteOK(r, now) /\ EventOK(r) /\ StatusOK(r)

RequestsOK == req \in [Procs -> Request] /\ \A p \in Procs : RequestOK(req[p], clock)

DataOK ==
    /\ plan \in Plans
    /\ order \in [Activities -> Rows]
    /\ stock \in [Activities -> Nat]
    /\ cache \in [Activities -> Int]
    /\ store \in [Statuses -> [count : Nat, sum : Nat, le : [Bins -> Nat]]]
    /\ events \in [Results -> Nat]
    /\ mishaps \in [MishapKinds -> Nat]

CheckState ==
    [of : Activities, at : {"orders", "queued", "reconcile", "activities"},
     proc : Procs \cup {"none"}, rows : {<<>>} \cup Rows, polls : Nat, matches : BOOLEAN]

JobState == [at : {"free", "waiting", "returned"}, proc : Procs \cup {"none"}, start : Nat]

Samples == [status : Statuses \cup {0}, failed : BOOLEAN, latency : Int]

\* Workers wait only while a load runs, for requests of that load.
JobsOK ==
    \A w \in Workers : job[w].at = "waiting" =>
        /\ Loading /\ job[w].proc \in Procs
        /\ req[job[w].proc].route \in {Route, "none"}

\* The call that verify waits for.
CheckOK ==
    Verifying /\ check.proc # "none" =>
        /\ check.proc \in Procs /\ ~Idle(check.proc) /\ req[check.proc].client
        /\ req[check.proc].route = CheckRoute

\* Writes are sent and verified only if the plan has some.
WritesOK == phase = "write" \/ check.of[1] = "write" => plan.writes = Writes /\ Writes > 0

LoadOK ==
    /\ phase \in Runs \cup {"setup", "verify", "report", "done", "aborted"}
    /\ next \in Nat
    /\ job \in [Workers -> JobState]
    /\ results \in Seq(Samples)
    /\ DOMAIN report = Loads /\ \A l \in Loads : report[l].accepted \in Nat
    /\ check \in CheckState
    /\ WritesOK

\* Before a load its report is empty, and nothing was accepted by a query.
ReportsOK ==
    /\ phase \in {"setup", "duplicate"} => report["duplicate"].accepted = 0
    /\ phase \in {"setup", "duplicate", "stock"} => report["stock"].accepted = 0
    /\ phase \in {"setup", "duplicate", "stock", "write"} => report["write"].accepted = 0
    /\ Verifying /\ check.of[1] # "write" => report["write"].accepted = 0
    /\ report["query"].accepted = 0
    /\ phase \notin {"duplicate", "stock", "write"} => WithStatus(202) = 0

\* The requests that are on their way to a count of accepted orders.
Under(stage) == {p \in Procs : req[p].stage = stage /\ req[p].status = 202}

\* What clients were told so far.
Told == Reported + WithStatus(202)

\* The request is one for an order.
IsOrder(p) == req[p].route = "POST /orders"

\* Unless a client gave up, somebody waits for every order that is placed.
WaitedFor ==
    mishaps["client"] = 0 => \A p \in Procs : Idle(p) \/ req[p].client \/ ~IsOrder(p)

\* An accepted order is counted by the database first, then as an event, then
\* as a request, then by the client.
Accounted ==
    /\ Told + Cardinality(Under("reply")) <= store[202].count
    /\ mishaps["client"] = 0 => Told + Cardinality(Under("reply")) = store[202].count
    /\ store[202].count + Cardinality(Under("observe")) = events["accepted"]
    /\ events["accepted"] + Cardinality(Under("event")) + mishaps["commit"] = Persisted

IInv ==
    /\ BInv
    /\ DataOK
    /\ RequestsOK
    /\ LoadOK
    /\ JobsOK
    /\ CheckOK
    /\ ReportsOK
    /\ WaitedFor
    /\ Accounted
    /\ HistogramConsistent

-----------------------------------------------------------------------------
(* Constants and helpers *)

LEMMA NoRequestOK == ASSUME NEW now \in Nat PROVE RequestOK(NoRequest, now)
  <1>1. <<>> \in Bodies("POST /orders") /\ "POST /orders" \in Routes
    BY DEF Bodies, Routes
  <1>2. <<>> \in UNION {Bodies(route) : route \in Routes}
    BY <1>1
  <1>3. NoRequest \in Request
    BY <1>2 DEF NoRequest, Request, Stages
  <1> QED
    BY <1>3 DEF RequestOK, RouteOK, EventOK, StatusOK, NoRequest

LEMMA ClockNat == BInv => clock \in Nat /\ clock <= clock
  BY TokenBucketAssumption DEF BInv, BucketTypeOK

LEMMA BatchSize == batchSize \in 1..UserCount
  BY LoadTestAssumption DEF batchSize, AtMost

\* The number of the batch of request i, of n.
LEMMA BatchOf ==
  ASSUME NEW b \in Nat, b >= 1, NEW n \in Nat, NEW i \in Nat, i < n
  PROVE  i \div b \in 0..(((n + b - 1) \div b) - 1)
  BY Z3

LEMMA FirstActivities ==
  /\ <<"duplicate", 0>> \in Activities /\ <<"stock", 0>> \in Activities
  /\ 1 \in Users
  /\ Writes > 0 => <<"write", 0>> \in Activities
  <1> USE LoadTestAssumption
  <1>1. ASSUME Writes > 0 PROVE <<"write", 0>> \in Activities
    <2>1. 0 \div batchSize \in 0..(Batches(Writes) - 1)
      BY <1>1, BatchSize, BatchOf DEF Batches
    <2>2. 0 \in 0..(Batches(Writes) - 1)
      BY <2>1, BatchSize
    <2> QED
      BY <2>2 DEF ActivityIDs
  <1> QED
    BY <1>1 DEF ActivityIDs

\* The user and the activity of a request exist.
LEMMA TargetOK ==
  ASSUME Loading, next \in Nat, next < Count, plan \in Plans
  PROVE  /\ Target(next)[1] \in Users
         /\ Target(next)[2] \in Activities
  <1> USE LoadTestAssumption, FirstActivities
  <1>1. CASE phase = "duplicate" \/ phase \in Reads
    BY <1>1 DEF Target, Reads
  <1>2. CASE phase = "stock"
    BY <1>2 DEF Target, Count
  <1>3. CASE phase = "write"
    <2>1. next < Writes
      BY <1>3 DEF Count
    <2>2. next \div batchSize \in 0..(Batches(Writes) - 1)
      BY <2>1, BatchSize, BatchOf DEF Batches
    <2>3. (next % batchSize) + 1 \in Users
      BY BatchSize
    <2> QED
      BY <1>3, <2>2, <2>3 DEF Target, ActivityIDs
  <1> QED
    BY <1>1, <1>2, <1>3 DEF Loading, Runs, Reads, Loads

LEMMA MishapOK ==
  ASSUME DataOK, NEW k \in MishapKinds, Mishap(k)
  PROVE  mishaps' \in [MishapKinds -> Nat]
  BY DEF DataOK, Mishap

LEMMA ObservedOK ==
  ASSUME NEW e \in [count : Nat, sum : Nat, le : [Bins -> Nat]], NEW d \in Nat
  PROVE  Observed(e, d) \in [count : Nat, sum : Nat, le : [Bins -> Nat]]
  BY DEF Observed

-----------------------------------------------------------------------------
(* The data *)

\* The steps that write a row, the metrics or the count of mishaps.
LEMMA DataChanges ==
  ASSUME [Next]_vars
  PROVE  \/ UNCHANGED <<plan, database, store, events, mishaps>>
         \/ \E p \in Procs :
               \/ CreateOrder(p) \/ CreateOrderCommitLost(p) \/ CreateOrderFails(p)
               \/ ReadHandlerFails(p) \/ IncBusinessEvent(p) \/ ObserveHTTPRequest(p)
         \/ \E a \in Activities, u \in Users : processOrderCreated(a, u)
         \/ \E w \in Workers : ResponseUnreadable(w) \/ RequestFails(w)
         \/ VerifyFails
BY ZenonT(60) DEF Next, vars, loadVars, pipelineVars, database, ServerNext, LimiterReads,
    LimiterAllows, LimiterReturns, ReadHandler, TimePasses, SendRequest, WorkerReturns, ReceiveResponse,
    LoadEnds, VerifyCalls, VerifyReads, Setup, WriteReport

\* The row that a transaction adds.
LEMMA PersistOK ==
  ASSUME IInv, NEW p \in Procs, PersistOrder(p)
  PROVE  /\ req[p].activity \in Activities /\ req[p].user \in Users
         /\ order' \in [Activities -> Rows] /\ stock' \in [Activities -> Nat]
  <1>1. req[p].activity \in Activities /\ req[p].user \in Users
    BY DEF PersistOrder, Creating, IInv, RequestsOK, RequestOK, RouteOK
  <1> QED
    BY <1>1 DEF PersistOrder, IInv, DataOK, Rows

LEMMA DataStep == IInv /\ [Next]_vars => DataOK'
  <1> SUFFICES ASSUME IInv, [Next]_vars PROVE DataOK'
    OBVIOUS
  <1>d. DataOK /\ RequestsOK
    BY DEF IInv
  <1>0. CASE UNCHANGED <<plan, database, store, events, mishaps>>
    BY <1>0, <1>d DEF DataOK, database
  <1>1. ASSUME NEW p \in Procs, CreateOrder(p) PROVE DataOK'
    BY <1>1, <1>d, PersistOK DEF CreateOrder, DataOK
  <1>2. ASSUME NEW p \in Procs, CreateOrderCommitLost(p) PROVE DataOK'
    BY <1>2, <1>d, PersistOK, MishapOK DEF CreateOrderCommitLost, DataOK, MishapKinds
  <1>3. ASSUME NEW p \in Procs, CreateOrderFails(p) PROVE DataOK'
    <2>1. mishaps' \in [MishapKinds -> Nat]
      BY <1>3, <1>d, MishapOK DEF CreateOrderFails, DataOK, MishapKinds
    <2>2. UNCHANGED <<plan, database, store, events>>
      BY <1>3 DEF CreateOrderFails, Fail
    <2> QED
      BY <2>1, <2>2, <1>d DEF DataOK, database
  <1>4. ASSUME NEW p \in Procs, ReadHandlerFails(p) PROVE DataOK'
    BY <1>4, <1>d, MishapOK DEF ReadHandlerFails, DataOK, database, MishapKinds
  <1>5. ASSUME NEW p \in Procs, IncBusinessEvent(p) PROVE DataOK'
    <2>1. req[p].event \in Results
      BY <1>5, <1>d DEF IncBusinessEvent, RequestsOK, RequestOK, EventOK, AnswerOK
    <2> QED
      BY <1>5, <2>1, <1>d DEF IncBusinessEvent, DataOK, database
  <1>6. ASSUME NEW p \in Procs, ObserveHTTPRequest(p) PROVE DataOK'
    <2>1. req[p].status \in Statuses /\ clock - req[p].start \in Nat
      <3>1. req[p] \in Request /\ RequestOK(req[p], clock) /\ clock \in Nat
        BY <1>d, ClockNat DEF RequestsOK, IInv
      <3>2. req[p].start \in Nat
        BY <3>1 DEF Request
      <3>3. req[p].stage = "observe"
        BY <1>6 DEF ObserveHTTPRequest
      <3>4. req[p].start <= clock
        BY <3>1, <3>3 DEF RequestOK, RouteOK
      <3>5. req[p].status \in Statuses
        BY <3>1, <3>3 DEF RequestOK, StatusOK
      <3> QED
        BY <3>1, <3>2, <3>4, <3>5
    <2> DEFINE e == Observed(store[req[p].status], clock - req[p].start)
    <2>2. e \in [count : Nat, sum : Nat, le : [Bins -> Nat]]
      BY <2>1, <1>d, ObservedOK DEF DataOK
    <2>3. store' = [store EXCEPT ![req[p].status] = e] \/ store' = store
      BY <1>6 DEF ObserveHTTPRequest
    <2> HIDE DEF e
    <2>4. store' \in [Statuses -> [count : Nat, sum : Nat, le : [Bins -> Nat]]]
      BY <2>2, <2>3, <1>d DEF DataOK
    <2> QED
      BY <1>6, <2>4, <1>d DEF ObserveHTTPRequest, DataOK, database
  <1>7. ASSUME NEW a \in Activities, NEW u \in Users, processOrderCreated(a, u) PROVE DataOK'
    BY <1>7, <1>d DEF processOrderCreated, DataOK, Rows
  <1>8. ASSUME NEW w \in Workers, ResponseUnreadable(w) \/ RequestFails(w) PROVE DataOK'
    <2>1. AnswerLost
      BY <1>8 DEF ResponseUnreadable, RequestFails
    <2>2. mishaps' \in [MishapKinds -> Nat]
      BY <2>1, <1>d, MishapOK DEF AnswerLost, MishapKinds
    <2> QED
      BY <1>8, <2>2, <1>d DEF ResponseUnreadable, RequestFails, DataOK, database
  <1>9. CASE VerifyFails
    <2>1. mishaps' \in [MishapKinds -> Nat]
      BY <1>9, <1>d, MishapOK DEF VerifyFails, DataOK, MishapKinds
    <2> QED
      BY <2>1, <1>9, <1>d DEF VerifyFails, DataOK, database
  <1> QED
    BY <1>0, <1>1, <1>2, <1>3, <1>4, <1>5, <1>6, <1>7, <1>8, <1>9, DataChanges

-----------------------------------------------------------------------------
(* The requests *)

LEMMA RequestChanges ==
  ASSUME [Next]_vars
  PROVE  \/ UNCHANGED req /\ clock' \in {clock, clock + 1}
         \/ \E p \in Procs :
               \/ LimiterReturns(p)
               \/ CreateOrder(p) \/ CreateOrderCommitLost(p) \/ CreateOrderFails(p)
               \/ ReadHandler(p) \/ ReadHandlerFails(p)
               \/ IncBusinessEvent(p) \/ ObserveHTTPRequest(p)
               \/ VerifyCalls(p)
         \/ \E w \in Workers : \/ \E p \in Procs : SendRequest(w, p)
                               \/ ReceiveResponse(w) \/ ResponseUnreadable(w) \/ RequestFails(w)
         \/ VerifyReads \/ VerifyFails
BY DEF Next, vars, loadVars, bucketVars, pipelineVars, ServerNext, LimiterReads, LimiterAllows,
    TimePasses, WorkerReturns, LoadEnds, Setup, WriteReport, ReadNow, allow, Tick,
    processOrderCreated

\* One request is replaced.
LEMMA PutRequest ==
  ASSUME IInv, NEW p \in Procs, NEW r, RequestOK(r, clock), clock' = clock,
         req' = [req EXCEPT ![p] = r]
  PROVE  RequestsOK'
  <1>1. r \in Request
    BY DEF RequestOK
  <1>2. req \in [Procs -> Request] /\ \A q \in Procs : RequestOK(req[q], clock)
    BY DEF IInv, RequestsOK
  <1>3. req' \in [Procs -> Request] /\ \A q \in Procs : RequestOK(req'[q], clock)
    BY <1>1, <1>2
  <1> QED
    BY <1>3 DEF RequestsOK

LEMMA DropRequest ==
  ASSUME IInv, NEW p \in Procs, clock' = clock, req' = [req EXCEPT ![p] = NoRequest]
  PROVE  RequestsOK'
  BY NoRequestOK, ClockNat, PutRequest DEF IInv

\* A handler of the order service, or the limiter, answers.
LEMMA AnswerStep ==
  ASSUME IInv, NEW p \in Procs, req[p].stage \in {"limit", "handler"},
         req[p].route = "POST /orders", clock' = clock,
         NEW s, NEW e, AnswerOK(s, e), Answer(p, s, e)
  PROVE  RequestsOK'
  <1> DEFINE t == req[p]
             r == [t EXCEPT !.stage = "event", !.status = s, !.event = e]
  <1>1. RequestOK(t, clock) /\ t \in Request
    BY DEF IInv, RequestsOK
  <1>2. req' = [req EXCEPT ![p] = r]
    BY DEF Answer
  <1>3. t.stage # "idle" /\ t.route = "POST /orders"
    OBVIOUS
  <1> HIDE DEF t
  <1>4. /\ r \in Request /\ r.stage = "event" /\ r.status = s /\ r.event = e
        /\ r.route = t.route /\ r.activity = t.activity /\ r.start = t.start
        /\ r.user = t.user
    <2>1. "event" \in Stages /\ s \in Statuses \cup {0} /\ e \in Results \cup {"none"}
      BY DEF Stages, AnswerOK
    <2> QED
      BY <1>1, <2>1 DEF Request
  <1> HIDE DEF r
  <1>5. RouteOK(r, clock)
    BY <1>1, <1>3, <1>4 DEF RequestOK, RouteOK
  <1>6. EventOK(r) /\ StatusOK(r)
    BY <1>4 DEF EventOK, StatusOK
  <1> QED
    BY <1>2, <1>4, <1>5, <1>6, PutRequest DEF RequestOK

\* An error of the order service is never one that counts as accepted.
LEMMA ErrorOK ==
  ASSUME NEW err
  PROVE  AnswerOK(orderErrorStatus(err), orderErrorMetric(err)) /\ orderErrorStatus(err) # 202
  <1>1. orderErrorStatus(err) \in Statuses \ {200, 202}
    BY DEF orderErrorStatus, Statuses
  <1>2. orderErrorMetric(err) \in Results \ {"accepted"}
    BY DEF orderErrorMetric, Results
  <1> QED
    BY <1>1, <1>2 DEF AnswerOK

\* A request that goes on to a later stage without an answer of its own.
LEMMA PlainStep ==
  ASSUME IInv, NEW p \in Procs, NEW s \in Stages, clock' = clock, Step(p, s),
         \/ req[p].stage = "limit" /\ s = "handler"
         \/ req[p].stage = "event" /\ s = "observe"
         \/ req[p].stage = "observe" /\ s = "reply"
  PROVE  RequestsOK'
  <1> DEFINE t == req[p]
             r == [t EXCEPT !.stage = s]
  <1>1. RequestOK(t, clock) /\ t \in Request
    BY DEF IInv, RequestsOK
  <1>2. req' = [req EXCEPT ![p] = r]
    BY DEF Step
  <1>3. \/ t.stage = "limit" /\ s = "handler"
        \/ t.stage = "event" /\ s = "observe"
        \/ t.stage = "observe" /\ s = "reply"
    OBVIOUS
  <1> HIDE DEF t
  <1>4. /\ r \in Request /\ r.stage = s /\ r.status = t.status /\ r.event = t.event
        /\ r.route = t.route /\ r.activity = t.activity /\ r.start = t.start
        /\ r.user = t.user /\ r.body = t.body
    BY <1>1 DEF Request
  <1> HIDE DEF r
  <1>5. RouteOK(r, clock)
    BY <1>1, <1>3, <1>4 DEF RequestOK, RouteOK
  <1>6. EventOK(r)
    BY <1>3, <1>4 DEF EventOK
  <1>7. StatusOK(r)
    <2>1. CASE t.stage = "event" /\ s = "observe"
      <3>1. t.status \in Statuses \ {200} /\ t.route = "POST /orders"
        BY <1>1, <2>1 DEF RequestOK, RouteOK, EventOK, AnswerOK
      <3> QED
        BY ZenonT(60), <1>4, <3>1 DEF StatusOK, BodyOK
    <2>2. CASE t.stage = "observe" /\ s = "reply"
      BY <1>1, <1>4, <2>2 DEF RequestOK, StatusOK, BodyOK
    <2>3. CASE s = "handler"
      BY <1>4, <2>3 DEF StatusOK
    <2> QED
      BY <1>3, <2>1, <2>2, <2>3
  <1> QED
    BY <1>2, <1>4, <1>5, <1>6, <1>7, PutRequest DEF RequestOK

\* Nobody waits for the request any more.
LEMMA AbandonStep ==
  ASSUME IInv, NEW p \in Procs, clock' = clock, Abandon(p)
  PROVE  RequestsOK'
  <1>1. CASE req[p].stage = "reply"
    BY <1>1, DropRequest DEF Abandon
  <1>2. CASE req[p].stage # "reply"
    <2> DEFINE t == req[p]
               r == [t EXCEPT !.client = FALSE]
    <2>1. RequestOK(t, clock) /\ t \in Request
      BY DEF IInv, RequestsOK
    <2>2. req' = [req EXCEPT ![p] = r]
      BY <1>2 DEF Abandon
    <2> HIDE DEF t
    <2>4. /\ r \in Request /\ r.stage = t.stage /\ r.status = t.status /\ r.event = t.event
          /\ r.route = t.route /\ r.activity = t.activity /\ r.start = t.start
          /\ r.user = t.user /\ r.body = t.body
      BY <2>1 DEF Request
    <2> HIDE DEF r
    <2>5. RouteOK(r, clock)
      BY <2>1, <2>4 DEF RequestOK, RouteOK
    <2>6. EventOK(r)
      BY <2>1, <2>4 DEF RequestOK, EventOK
    <2>7. StatusOK(r)
      BY <2>1, <2>4 DEF RequestOK, StatusOK, BodyOK
    <2> QED
      BY <2>2, <2>4, <2>5, <2>6, <2>7, PutRequest DEF RequestOK
  <1> QED
    BY <1>1, <1>2

\* A denied request is answered with 401 or 403.
LEMMA AuthOK ==
  ASSUME NEW route, NEW role
  PROVE  LET denied == AuthStatus(route, role)
         IN  /\ denied \in Statuses \cup {0}
             /\ denied # 0 => denied \in Statuses \ {200, 202}
  <1>1. AuthStatus(route, role) \in {0, 401, 403}
    BY DEF AuthStatus
  <1> QED
    BY <1>1 DEF Statuses

\* A request arrives.
LEMMA ArriveStep ==
  ASSUME IInv, NEW p \in Procs, NEW route \in Routes, NEW role,
         NEW u \in Users \cup {"none"}, route = "POST /orders" => u \in Users,
         NEW a \in Activities,
         Arrive(p, route, role, u, a), clock' = clock
  PROVE  RequestsOK'
  <1> DEFINE denied == AuthStatus(route, role)
             stage == IF denied # 0 THEN "observe"
                      ELSE IF route = "POST /orders" /\ plan.limited THEN "limit" ELSE "handler"
             n == NoRequest
             r == [n EXCEPT !.stage = stage, !.route = route, !.user = u, !.activity = a,
                            !.client = TRUE, !.start = clock, !.status = denied]
  <1>0. denied \in Statuses \cup {0}
    BY AuthOK
  <1>1. /\ stage \in {"observe", "limit", "handler"}
        /\ stage = "limit" => route = "POST /orders"
        /\ stage = "observe" => denied \in Statuses \ {200, 202}
    BY ZenonT(60), AuthOK
  <1>2. clock \in Nat /\ clock <= clock
    BY ClockNat DEF IInv
  <1>9. n \in Request
    BY <1>2, NoRequestOK DEF RequestOK
  <1>3. req' = [req EXCEPT ![p] = r]
    BY DEF Arrive
  <1> HIDE DEF n, denied, stage
  <1>4. stage \in Stages
    BY <1>1 DEF Stages
  <1>5. /\ r \in Request /\ r.stage = stage /\ r.status = denied
        /\ r.route = route /\ r.activity = a /\ r.start = clock /\ r.user = u
    BY <1>0, <1>2, <1>4, <1>9 DEF Request
  <1> HIDE DEF r
  <1>6. RouteOK(r, clock)
    BY <1>1, <1>2, <1>5 DEF RouteOK
  <1>7. EventOK(r)
    BY <1>1, <1>5 DEF EventOK
  <1>8. StatusOK(r)
    BY <1>1, <1>5 DEF StatusOK, BodyOK
  <1> QED
    BY <1>3, <1>5, <1>6, <1>7, <1>8, PutRequest DEF RequestOK

\* A read-only handler answers with what its route promises.
LEMMA ReadStep ==
  ASSUME IInv, NEW p \in Procs, ReadHandler(p)
  PROVE  RequestsOK'
  <1> DEFINE t == req[p]
             body == Body(t.route, t.activity)
             ok == 200
             r == [t EXCEPT !.stage = "observe", !.status = ok, !.body = body]
  <1>1. RequestOK(t, clock) /\ t \in Request
    BY DEF IInv, RequestsOK
  <1>2. req' = [req EXCEPT ![p] = r] /\ clock' = clock
    BY DEF ReadHandler, bucketVars
  <1>3. t.stage = "handler" /\ t.route # "POST /orders"
    BY DEF ReadHandler
  <1>4. t.route \in Routes \ {"POST /orders"} /\ t.activity \in Activities
    BY <1>1, <1>3 DEF RequestOK, RouteOK
  <1> HIDE DEF t
  <1>5. body \in Bodies(t.route)
    <2>1. order[t.activity] \in Rows /\ stock[t.activity] \in Nat
      BY <1>4 DEF IInv, DataOK
    <2>2. CASE t.route \in {"GET /admin/orders", "GET /orders/:order_no"}
      <3>1. body = [rows |-> order[t.activity]] /\ Bodies(t.route) = [rows : Rows]
        BY <2>2 DEF Body, Bodies
      <3> QED
        BY <2>1, <3>1
    <2>3. CASE t.route = "POST /ops/stock/reconcile"
      <3>1. body = [matches |-> cache[t.activity] = stock[t.activity]]
            /\ Bodies(t.route) = [matches : BOOLEAN]
        BY <2>3 DEF Body, Bodies
      <3>2. (cache[t.activity] = stock[t.activity]) \in BOOLEAN
        BY Zenon
      <3> QED
        BY <3>1, <3>2
    <2>4. CASE t.route = "GET /activities"
      <3>1. body = [stock |-> stock[t.activity]] /\ Bodies(t.route) = [stock : Nat]
        BY <2>4 DEF Body, Bodies
      <3> QED
        BY <2>1, <3>1
    <2> QED
      BY <1>4, <2>2, <2>3, <2>4 DEF Routes
  <1> HIDE DEF body
  <1>6. body \in UNION {Bodies(route) : route \in Routes}
    BY <1>4, <1>5
  <1>7. "observe" \in Stages /\ ok \in Statuses /\ ok # 202
    BY DEF Stages, Statuses
  <1> HIDE DEF ok
  <1>8. /\ r \in Request /\ r.stage = "observe" /\ r.status = ok /\ r.body = body
        /\ r.route = t.route /\ r.activity = t.activity /\ r.start = t.start
        /\ r.user = t.user
    BY <1>1, <1>6, <1>7 DEF Request
  <1> HIDE DEF r
  <1>9. RouteOK(r, clock) /\ EventOK(r)
    BY <1>1, <1>3, <1>8 DEF RequestOK, RouteOK, EventOK
  <1>10. StatusOK(r)
    BY <1>5, <1>7, <1>8 DEF StatusOK, BodyOK
  <1> QED
    BY <1>2, <1>8, <1>9, <1>10, PutRequest DEF RequestOK

LEMMA ReadErrors ==
  /\ orderErrorStatus("ErrOrderNotFound") \in Statuses \ {200, 202}
  /\ 500 \in Statuses \ {200, 202}
  BY DEF orderErrorStatus, Statuses

LEMMA ReadFailsStep ==
  ASSUME IInv, NEW p \in Procs, ReadHandlerFails(p)
  PROVE  RequestsOK'
  <1> DEFINE t == req[p]
             status == IF t.route = "GET /orders/:order_no"
                       THEN orderErrorStatus("ErrOrderNotFound") ELSE 500
             r == [t EXCEPT !.stage = "observe", !.status = status]
  <1>1. RequestOK(t, clock) /\ t \in Request
    BY DEF IInv, RequestsOK
  <1>2. req' = [req EXCEPT ![p] = r] /\ clock' = clock
    BY DEF ReadHandlerFails, bucketVars
  <1>3. t.stage = "handler" /\ t.route # "POST /orders"
    BY DEF ReadHandlerFails
  <1> HIDE DEF t
  <1>4. status \in Statuses /\ status # 200 /\ status # 202
    BY ReadErrors
  <1> HIDE DEF status
  <1>5. "observe" \in Stages /\ status \in Statuses \cup {0}
    BY <1>4 DEF Stages
  <1>6. /\ r \in Request /\ r.stage = "observe" /\ r.status = status
        /\ r.route = t.route /\ r.activity = t.activity /\ r.start = t.start
        /\ r.user = t.user
    BY <1>1, <1>5 DEF Request
  <1> HIDE DEF r
  <1>7. RouteOK(r, clock) /\ EventOK(r)
    BY <1>1, <1>3, <1>6 DEF RequestOK, RouteOK, EventOK
  <1>8. StatusOK(r)
    BY <1>4, <1>6 DEF StatusOK, BodyOK
  <1> QED
    BY <1>2, <1>6, <1>7, <1>8, PutRequest DEF RequestOK

LEMMA LimiterStep ==
  ASSUME IInv, NEW p \in Procs, LimiterReturns(p)
  PROVE  RequestsOK'
  <1>1. req[p].stage = "limit" /\ clock' = clock
    BY DEF LimiterReturns, Return
  <1>2. RequestOK(req[p], clock)
    BY DEF IInv, RequestsOK
  <1>3. req[p].route = "POST /orders"
    BY <1>1, <1>2 DEF RequestOK, RouteOK
  <1>4. AnswerOK(429, "blocked")
    BY DEF AnswerOK, Statuses, Results
  <1>5. CASE Step(p, "handler")
    BY <1>1, <1>5, PlainStep DEF Stages
  <1>6. CASE Answer(p, 429, "blocked")
    BY <1>1, <1>3, <1>4, <1>6, AnswerStep
  <1> QED
    BY <1>5, <1>6 DEF LimiterReturns

LEMMA FailStep ==
  ASSUME IInv, NEW p \in Procs, Creating(p), NEW err, Fail(p, err), clock' = clock
  PROVE  RequestsOK'
  <1>1. Answer(p, orderErrorStatus(err), orderErrorMetric(err))
    BY DEF Fail
  <1>2. AnswerOK(orderErrorStatus(err), orderErrorMetric(err))
    BY ErrorOK
  <1> QED
    BY <1>1, <1>2, AnswerStep DEF Creating

\* The arguments of the requests that the load generator sends.
LEMMA SendStep ==
  ASSUME IInv, NEW p \in Procs, NEW w \in Workers, SendRequest(w, p)
  PROVE  RequestsOK'
  <1>1. Target(next)[1] \in Users /\ Target(next)[2] \in Activities
    BY TargetOK DEF SendRequest, IInv, DataOK, LoadOK
  <1>2. Route \in Routes
    BY DEF Route, Routes
  <1>3. Arrive(p, Route, "USER", Target(next)[1], Target(next)[2]) /\ clock' = clock
    BY DEF SendRequest, bucketVars
  <1> QED
    BY <1>1, <1>2, <1>3, ArriveStep

LEMMA CallStep ==
  ASSUME IInv, NEW p \in Procs, VerifyCalls(p)
  PROVE  RequestsOK'
  <1>1. check \in CheckState
    BY DEF IInv, LoadOK
  <1>2. CheckRoute \in Routes \ {"POST /orders"} /\ check.of \in Activities
    BY <1>1 DEF CheckRoute, CheckState, Routes
  <1>3. Arrive(p, CheckRoute, "ADMIN", "none", check.of) /\ clock' = clock
    BY DEF VerifyCalls, bucketVars
  <1> QED
    BY <1>2, <1>3, ArriveStep

LEMMA RequestsStep == IInv /\ [Next]_vars => RequestsOK'
  <1> SUFFICES ASSUME IInv, [Next]_vars PROVE RequestsOK'
    OBVIOUS
  <1>0. CASE UNCHANGED req /\ clock' \in {clock, clock + 1}
    <2>1. ASSUME NEW p \in Procs PROVE RequestOK(req[p], clock')
      <3>1. RequestOK(req[p], clock) /\ req[p] \in Request /\ clock \in Nat
        BY ClockNat DEF IInv, RequestsOK
      <3>2. req[p].start \in Nat
        BY <3>1 DEF Request
      <3>3. req[p].start <= clock => req[p].start <= clock'
        BY <1>0, <3>1, <3>2
      <3>4. RouteOK(req[p], clock')
        BY <3>1, <3>3 DEF RequestOK, RouteOK
      <3> QED
        BY <3>1, <3>4 DEF RequestOK
    <2>2. req \in [Procs -> Request]
      BY DEF IInv, RequestsOK
    <2> QED
      BY <1>0, <2>1, <2>2 DEF RequestsOK
  <1>1. ASSUME NEW p \in Procs, CreateOrder(p) PROVE RequestsOK'
    <2>1. AnswerOK(202, "accepted")
      BY DEF AnswerOK, Statuses, Results
    <2>2. Creating(p) /\ Answer(p, 202, "accepted") /\ clock' = clock
      BY <1>1 DEF CreateOrder, PersistOrder, bucketVars
    <2> QED
      BY <2>1, <2>2, AnswerStep DEF Creating
  <1>2. ASSUME NEW p \in Procs, CreateOrderCommitLost(p) PROVE RequestsOK'
    <2> DEFINE err == "bad connection"
    <2>1. AnswerOK(orderErrorStatus(err), orderErrorMetric(err))
      BY ErrorOK
    <2>2. Creating(p) /\ Answer(p, orderErrorStatus(err), orderErrorMetric(err))
          /\ clock' = clock
      BY <1>2 DEF CreateOrderCommitLost, PersistOrder, bucketVars
    <2> QED
      BY <2>1, <2>2, AnswerStep DEF Creating
  <1>3. ASSUME NEW p \in Procs, CreateOrderFails(p) PROVE RequestsOK'
    <2>1. PICK err : Fail(p, err)
      BY <1>3 DEF CreateOrderFails
    <2>2. Creating(p) /\ clock' = clock
      BY <1>3 DEF CreateOrderFails, bucketVars
    <2> QED
      BY <2>1, <2>2, FailStep
  <1>4. ASSUME NEW p \in Procs, IncBusinessEvent(p) PROVE RequestsOK'
    <2>1. req[p].stage = "event" /\ Step(p, "observe") /\ clock' = clock /\ "observe" \in Stages
      BY <1>4 DEF IncBusinessEvent, bucketVars, Stages
    <2> QED
      BY <2>1, PlainStep
  <1>5. ASSUME NEW p \in Procs, ObserveHTTPRequest(p) PROVE RequestsOK'
    <2>1. req[p].stage = "observe" /\ clock' = clock /\ "reply" \in Stages
      BY <1>5 DEF ObserveHTTPRequest, bucketVars, Stages
    <2>2. CASE Step(p, "reply")
      BY <2>1, <2>2, PlainStep
    <2>3. CASE req' = [req EXCEPT ![p] = NoRequest]
      BY <2>1, <2>3, DropRequest
    <2> QED
      BY <1>5, <2>2, <2>3 DEF ObserveHTTPRequest
  <1>6. ASSUME NEW w \in Workers, ReceiveResponse(w) \/ ResponseUnreadable(w) PROVE RequestsOK'
    <2>1. job[w].proc \in Procs
      BY <1>6 DEF ReceiveResponse, ResponseUnreadable, IInv, JobsOK
    <2> QED
      BY <1>6, <2>1, DropRequest DEF ReceiveResponse, ResponseUnreadable, bucketVars
  <1>7. ASSUME NEW w \in Workers, RequestFails(w) PROVE RequestsOK'
    <2>1. job[w].proc \in Procs
      BY <1>7 DEF RequestFails, IInv, JobsOK
    <2> QED
      BY <1>7, <2>1, AbandonStep DEF RequestFails, bucketVars
  <1>8. CASE VerifyReads
    <2>1. check.proc \in Procs
      BY <1>8 DEF VerifyReads, IInv, CheckOK
    <2> QED
      BY <1>8, <2>1, DropRequest DEF VerifyReads, bucketVars
  <1>9. CASE VerifyFails
    <2>1. check.proc \in Procs
      BY <1>9 DEF VerifyFails, IInv, CheckOK
    <2> QED
      BY <1>9, <2>1, DropRequest, AbandonStep DEF VerifyFails, bucketVars
  <1> QED
    BY <1>0, <1>1, <1>2, <1>3, <1>4, <1>5, <1>6, <1>7, <1>8, <1>9, RequestChanges,
       LimiterStep, ReadStep, ReadFailsStep, SendStep, CallStep

-----------------------------------------------------------------------------
(* The load generator *)

LEMMA LoadChanges ==
  ASSUME [Next]_vars
  PROVE  \/ UNCHANGED loadVars
         \/ \E w \in Workers : \/ \E p \in Procs : SendRequest(w, p)
                               \/ WorkerReturns(w) \/ ReceiveResponse(w) \/ ResponseUnreadable(w) \/ RequestFails(w)
         \/ \E p \in Procs : VerifyCalls(p)
         \/ LoadEnds \/ VerifyReads \/ VerifyFails \/ Setup \/ WriteReport
BY DEF Next, vars

LEMMA PlanFixed == ASSUME [Next]_vars PROVE plan' = plan
BY DataChanges DEF CreateOrder, CreateOrderCommitLost, CreateOrderFails, ReadHandlerFails,
    IncBusinessEvent, ObserveHTTPRequest, processOrderCreated, ResponseUnreadable, RequestFails, VerifyFails

LEMMA NewCheckOK ==
  ASSUME NEW a \in Activities
  PROVE  NewCheck(a) \in CheckState /\ NewCheck(a).proc = "none" /\ NewCheck(a).of = a
  BY DEF NewCheck, CheckState

LEMMA ActivityNames ==
  ASSUME NEW a \in Activities
  PROVE  \/ a = <<"duplicate", 0>>
         \/ a = <<"stock", 0>>
         \/ \E b \in Nat : a = <<"write", b>>
  <1>1. a \in ActivityIDs
    BY LoadTestAssumption
  <1>2. a = <<"duplicate", 0>> \/ a = <<"stock", 0>>
        \/ \E b \in 0..(Batches(Writes) - 1) : a = <<"write", b>>
    BY <1>1 DEF ActivityIDs
  <1>3. \A x : x \in 0..(Batches(Writes) - 1) => x \in Nat
    BY BatchSize, LoadTestAssumption DEF Batches
  <1> QED
    BY <1>2, <1>3

\* Where execute goes on after a verification.
LEMMA AfterVerifyFacts ==
  ASSUME IInv, Verifying, NEW errs, AfterVerify(errs), plan' = plan
  PROVE  /\ phase' \in {"verify", "write", "warmup", "report"}
         /\ check' \in CheckState
         /\ phase' = "verify" => check'.proc = "none"
         /\ WritesOK'
         /\ phase' = "write" => check.of[1] # "write"
         /\ phase' = "verify" /\ check'.of[1] # "write" => check.of[1] # "write"
  <1> DEFINE query == IF \E e \in errs : e[2] = "duplicate" THEN "report" ELSE "warmup"
  <1>1. check \in CheckState /\ check.of \in Activities /\ plan \in Plans /\ WritesOK
    BY DEF IInv, LoadOK, DataOK, CheckState
  <1>2. query \in {"warmup", "report"}
    OBVIOUS
  <1>3. CASE check.of = <<"duplicate", 0>>
    <2>1. phase' = "verify" /\ check' = NewCheck(<<"stock", 0>>)
      BY <1>3 DEF AfterVerify
    <2>2. check' \in CheckState /\ check'.proc = "none" /\ check'.of = <<"stock", 0>>
      BY <2>1, FirstActivities, NewCheckOK
    <2> QED
      BY <1>3, <2>1, <2>2 DEF WritesOK
  <1>4. CASE check.of = <<"stock", 0>>
    <2>1. phase' = (IF plan.writes > 0 THEN "write" ELSE query) /\ check' = check
      BY <1>4 DEF AfterVerify
    <2>2. plan.writes > 0 => plan.writes = Writes /\ Writes > 0
      BY <1>1, LoadTestAssumption
    <2> HIDE DEF query
    <2> QED
      BY <1>1, <1>2, <1>4, <2>1, <2>2 DEF WritesOK
  <1>5. ASSUME NEW b \in Nat, check.of = <<"write", b>>
        PROVE  /\ phase' \in {"verify", "warmup", "report"}
               /\ check' \in CheckState
               /\ phase' = "verify" => check'.proc = "none"
               /\ WritesOK' /\ check'.of[1] = "write"
    <2>1. plan.writes = Writes /\ Writes > 0
      BY <1>1, <1>5 DEF WritesOK
    <2>2. CASE b + 1 < Batches(plan.writes)
      <3>1. phase' = "verify" /\ check' = NewCheck(<<"write", b + 1>>)
        BY <1>5, <2>2 DEF AfterVerify
      <3>2. b + 1 \in 0..(Batches(Writes) - 1)
        BY <2>1, <2>2, BatchSize, LoadTestAssumption DEF Batches
      <3>3. <<"write", b + 1>> \in Activities
        BY <3>2, LoadTestAssumption DEF ActivityIDs
      <3>4. check' \in CheckState /\ check'.proc = "none" /\ check'.of = <<"write", b + 1>>
        BY <3>1, <3>3, NewCheckOK
      <3> QED
        BY <2>1, <3>1, <3>4 DEF WritesOK
    <2>3. CASE ~(b + 1 < Batches(plan.writes))
      <3>1. phase' = query /\ check' = check
        BY <1>5, <2>3 DEF AfterVerify
      <3> HIDE DEF query
      <3> QED
        BY <1>1, <1>2, <1>5, <2>1, <3>1 DEF WritesOK
    <2> QED
      BY <2>2, <2>3
  <1> QED
    BY <1>1, <1>3, <1>4, <1>5, ActivityNames

LEMMA ReturnsFacts == ASSUME NEW kind, VerifyReturns(kind) PROVE \E errs : AfterVerify(errs)
  BY DEF VerifyReturns

\* verify takes the answer to its call and goes on, or returns.
LEMMA VerifyReadsFacts ==
  ASSUME IInv, VerifyReads
  PROVE  \/ /\ phase' = phase /\ check' \in CheckState
            /\ check'.of = check.of /\ check'.proc = "none"
         \/ \E errs : AfterVerify(errs)
  <1> DEFINE p == check.proc
             body == req[p].body
             c == check
  <1>1. c \in CheckState
    BY DEF IInv, LoadOK
  <1>2. p \in Procs /\ req[p].route = CheckRoute /\ req[p].stage = "reply" /\ req[p].status = 200
    BY DEF VerifyReads, IInv, CheckOK
  <1>3. body \in Bodies(CheckRoute)
    <2>1. RequestOK(req[p], clock)
      BY <1>2 DEF IInv, RequestsOK
    <2> QED
      BY <1>2, <2>1 DEF RequestOK, StatusOK, BodyOK
  <1> HIDE DEF body
  <1>4. CASE /\ check.at = "orders"
             /\ check' = [c EXCEPT !.at = "queued", !.proc = "none", !.rows = body.rows]
             /\ phase' = phase
    <2>1. body.rows \in Rows
      BY <1>3, <1>4 DEF CheckRoute, Bodies
    <2> HIDE DEF c
    <2>2. /\ check' \in CheckState /\ check'.of = c.of /\ check'.proc = "none"
      BY <1>1, <1>4, <2>1 DEF CheckState
    <2> QED
      BY <1>4, <2>2 DEF c
  <1>5. CASE /\ check' = [c EXCEPT !.at = "reconcile", !.proc = "none"]
             /\ phase' = phase
    <2> HIDE DEF c
    <2>2. /\ check' \in CheckState /\ check'.of = c.of /\ check'.proc = "none"
      BY <1>1, <1>5 DEF CheckState
    <2> QED
      BY <1>5, <2>2 DEF c
  <1>6. CASE /\ check' = [c EXCEPT !.at = "orders", !.proc = "none", !.polls = c.polls + 1]
             /\ phase' = phase
    <2> HIDE DEF c
    <2>1. c.polls + 1 \in Nat
      BY <1>1 DEF CheckState
    <2>2. /\ check' \in CheckState /\ check'.of = c.of /\ check'.proc = "none"
      BY <1>1, <1>6, <2>1 DEF CheckState
    <2> QED
      BY <1>6, <2>2 DEF c
  <1>7. CASE /\ check.at = "reconcile"
             /\ check' = [c EXCEPT !.at = "activities", !.proc = "none",
                                   !.matches = body.matches]
             /\ phase' = phase
    <2>1. body.matches \in BOOLEAN
      BY <1>3, <1>7 DEF CheckRoute, Bodies
    <2> DEFINE m == body.matches
    <2> HIDE DEF c, m
    <2>2. m \in BOOLEAN
      BY <2>1 DEF m
    <2>3. check' = [c EXCEPT !.at = "activities", !.proc = "none", !.matches = m]
      BY <1>7 DEF m
    <2>4. /\ check' \in CheckState /\ check'.of = c.of /\ check'.proc = "none"
      BY <1>1, <2>2, <2>3 DEF CheckState
    <2> QED
      BY <1>7, <2>4 DEF c
  <1>8. ASSUME NEW kind, VerifyReturns(kind) PROVE \E errs : AfterVerify(errs)
    BY <1>8, ReturnsFacts
  <1> QED
    BY <1>4, <1>5, <1>6, <1>7, <1>8 DEF VerifyReads, body

\* How many samples have a status.
LEMMA WithStatusNat ==
  ASSUME results \in Seq(Samples), NEW s
  PROVE  WithStatus(s) \in Nat
  <1>1. Len(results) \in Nat /\ DOMAIN results = 1..Len(results)
    OBVIOUS
  <1>2. IsFiniteSet(1..Len(results))
    BY <1>1, FS_Interval
  <1>3. IsFiniteSet({i \in DOMAIN results : results[i].status = s})
    BY <1>1, <1>2, FS_Subset
  <1> QED
    BY <1>3, FS_CardinalityType DEF WithStatus

\* A sample joins the results.
LEMMA SampleOK ==
  ASSUME IInv, NEW w \in Workers, NEW s \in Statuses \cup {0}, NEW f \in BOOLEAN,
         Sample(w, s, f)
  PROVE  results' \in Seq(Samples)
  <1> DEFINE d == clock - job[w].start
  <1>1. d \in Int /\ results \in Seq(Samples)
    BY ClockNat DEF IInv, LoadOK, JobState
  <1>2. results' = Append(results, [status |-> s, failed |-> f, latency |-> d])
    BY DEF Sample
  <1> HIDE DEF d
  <1>3. [status |-> s, failed |-> f, latency |-> d] \in Samples
    BY <1>1 DEF Samples
  <1> QED
    BY <1>1, <1>2, <1>3

LEMMA NoJobOK == NoJob \in JobState /\ NoJob.at = "free"
  BY DEF NoJob, JobState

\* The conjuncts of LoadOK that change together, of a step that ends no load.
LEMMA LoadOKPrimed ==
  ASSUME LoadOK, plan' = plan, UNCHANGED report,
         phase' \in Runs \cup {"setup", "verify", "report", "done", "aborted"},
         next' \in Nat, job' \in [Workers -> JobState], results' \in Seq(Samples),
         check' \in CheckState, WritesOK'
  PROVE  LoadOK'
  BY DEF LoadOK

LEMMA LoadStep == IInv /\ [Next]_vars => LoadOK'
  <1> SUFFICES ASSUME IInv, [Next]_vars PROVE LoadOK'
    OBVIOUS
  <1>p. plan' = plan
    BY PlanFixed
  <1>t. /\ LoadOK /\ next \in Nat /\ job \in [Workers -> JobState] /\ results \in Seq(Samples)
        /\ check \in CheckState /\ WritesOK /\ clock \in Nat
        /\ phase \in Runs \cup {"setup", "verify", "report", "done", "aborted"}
    BY ClockNat DEF IInv, LoadOK
  <1>0. CASE UNCHANGED loadVars
    BY <1>0, <1>p, <1>t DEF loadVars, LoadOK, WritesOK
  <1>1. ASSUME NEW w \in Workers, NEW p \in Procs, SendRequest(w, p) PROVE LoadOK'
    <2>1. [at |-> "waiting", proc |-> p, start |-> clock] \in JobState
      BY <1>t DEF JobState
    <2>2. job' \in [Workers -> JobState] /\ next' \in Nat
      BY <1>1, <1>t, <2>1 DEF SendRequest
    <2> QED
      BY <1>1, <1>p, <1>t, <2>2, LoadOKPrimed DEF SendRequest, WritesOK
  <1>2. ASSUME NEW w \in Workers, WorkerReturns(w) PROVE LoadOK'
    <2> DEFINE j == job[w]
               r == [j EXCEPT !.at = "returned"]
    <2>1. j \in JobState
      BY <1>t
    <2>2. job' = [job EXCEPT ![w] = r]
      BY <1>2 DEF WorkerReturns
    <2> HIDE DEF j
    <2>3. r \in JobState
      BY <2>1 DEF JobState
    <2> HIDE DEF r
    <2>4. job' \in [Workers -> JobState]
      BY <1>t, <2>2, <2>3
    <2> QED
      BY <1>2, <1>p, <1>t, <2>4, LoadOKPrimed DEF WorkerReturns, WritesOK
  <1>3. ASSUME NEW w \in Workers, ReceiveResponse(w) \/ ResponseUnreadable(w) PROVE LoadOK'
    <2>1. job[w].proc \in Procs
      BY <1>3 DEF ReceiveResponse, ResponseUnreadable, IInv, JobsOK
    <2>2. req[job[w].proc].status \in Statuses \cup {0}
      BY <2>1 DEF IInv, RequestsOK, Request
    <2>3. results' \in Seq(Samples)
      BY <1>3, <2>2, SampleOK DEF ReceiveResponse, ResponseUnreadable
    <2>4. job' \in [Workers -> JobState]
      BY <1>3, <1>t, NoJobOK DEF ReceiveResponse, ResponseUnreadable
    <2> QED
      BY <1>3, <1>p, <1>t, <2>3, <2>4, LoadOKPrimed
         DEF ReceiveResponse, ResponseUnreadable, WritesOK
  <1>4. ASSUME NEW w \in Workers, RequestFails(w) PROVE LoadOK'
    <2>3. results' \in Seq(Samples)
      BY <1>4, SampleOK DEF RequestFails
    <2>4. job' \in [Workers -> JobState]
      BY <1>4, <1>t, NoJobOK DEF RequestFails
    <2> QED
      BY <1>4, <1>p, <1>t, <2>3, <2>4, LoadOKPrimed DEF RequestFails, WritesOK
  <1>5. CASE LoadEnds
    <2>1. phase \in Runs /\ phase' = AfterLoad /\ next' = 0 /\ results' = <<>>
          /\ job' = [w \in Workers |-> NoJob] /\ check' = FirstCheck
          /\ report' \in {report, [report EXCEPT ![phase] = summarize]}
      BY <1>5 DEF LoadEnds, Loading
    <2>2. phase' \in {"stock", "verify", "query", "report"}
      BY <2>1 DEF AfterLoad, Runs, Reads, Loads
    <2>3. job' \in [Workers -> JobState] /\ results' \in Seq(Samples)
      BY <2>1, NoJobOK
    <2>4. check' \in CheckState /\ (check'.of[1] = "write" => phase = "write")
      <3>1. CASE phase = "write"
        <4>1. <<"write", 0>> \in Activities
          BY <1>t, <3>1, FirstActivities DEF WritesOK
        <4> QED
          BY <2>1, <3>1, <4>1, NewCheckOK DEF FirstCheck
      <3>2. CASE phase # "write"
        <4>1. check' = NewCheck(<<"duplicate", 0>>)
          BY <2>1, <3>2 DEF FirstCheck
        <4>2. check'.of = <<"duplicate", 0>> /\ check' \in CheckState
          BY <4>1, FirstActivities, NewCheckOK
        <4> QED
          BY <4>2
      <3> QED
        BY <3>1, <3>2
    <2>5. WritesOK'
      BY <1>p, <1>t, <2>2, <2>4 DEF WritesOK
    <2>6. DOMAIN report' = Loads /\ \A l \in Loads : report'[l].accepted \in Nat
      <3>1. summarize.accepted = WithStatus(202)
        BY DEF summarize
      <3>2. WithStatus(202) \in Nat
        BY <1>t, WithStatusNat
      <3>3. DOMAIN report = Loads /\ \A l \in Loads : report[l].accepted \in Nat
        BY <1>t DEF LoadOK
      <3> QED
        BY <2>1, <3>1, <3>2, <3>3
    <2> QED
      BY <2>1, <2>2, <2>3, <2>4, <2>5, <2>6 DEF LoadOK, Runs, Loads
  <1>6. ASSUME NEW p \in Procs, VerifyCalls(p) PROVE LoadOK'
    <2> DEFINE c == check
    <2>1. check' = [c EXCEPT !.proc = p] /\ c \in CheckState
      BY <1>6, <1>t DEF VerifyCalls
    <2> HIDE DEF c
    <2>2. check' \in CheckState /\ check'.of = c.of
      BY <2>1 DEF CheckState
    <2>3. check'.of = check.of
      BY <2>2 DEF c
    <2> QED
      BY <1>6, <1>p, <1>t, <2>2, <2>3, LoadOKPrimed DEF VerifyCalls, WritesOK
  <1>7. CASE VerifyReads \/ VerifyFails
    <2>1. /\ UNCHANGED <<next, job, results, report>> /\ Verifying
      BY <1>7 DEF VerifyReads, VerifyFails
    <2>2. CASE phase' = phase /\ check' \in CheckState /\ check'.of = check.of
      BY <1>p, <1>t, <2>1, <2>2, LoadOKPrimed DEF WritesOK
    <2>3. ASSUME NEW errs, AfterVerify(errs) PROVE LoadOK'
      BY <1>p, <1>t, <2>1, <2>3, AfterVerifyFacts, LoadOKPrimed DEF Runs, Reads, Loads
    <2> QED
      BY <1>7, <2>2, <2>3, VerifyReadsFacts, ReturnsFacts DEF VerifyFails
  <1>8. CASE Setup \/ WriteReport
    BY <1>8, <1>p, <1>t, LoadOKPrimed DEF Setup, WriteReport, Runs, Loads, WritesOK
  <1> QED
    BY <1>0, <1>1, <1>2, <1>3, <1>4, <1>5, <1>6, <1>7, <1>8, LoadChanges

-----------------------------------------------------------------------------
(* What a step does to the one request it is about *)

\* The other requests stay as they are.
Only(p) == \A q \in Procs \ {p} : req'[q] = req[q]

LEMMA StepFields ==
  ASSUME IInv, NEW p \in Procs, NEW s, Step(p, s)
  PROVE  /\ Only(p) /\ req'[p].stage = s /\ req'[p].status = req[p].status
         /\ req'[p].route = req[p].route /\ req'[p].client = req[p].client
         /\ req'[p].user = req[p].user /\ req'[p].activity = req[p].activity
         /\ req'[p].event = req[p].event /\ req'[p].body = req[p].body
  <1> DEFINE t == req[p]
  <1>1. t \in Request /\ req \in [Procs -> Request]
    BY DEF IInv, RequestsOK
  <1>2. req'[p] = [t EXCEPT !.stage = s] /\ Only(p)
    BY <1>1 DEF Step, Only
  <1> HIDE DEF t
  <1>3. /\ req'[p].stage = s /\ req'[p].status = t.status
        /\ req'[p].route = t.route /\ req'[p].client = t.client
        /\ req'[p].user = t.user /\ req'[p].activity = t.activity
        /\ req'[p].event = t.event /\ req'[p].body = t.body
    BY <1>1, <1>2 DEF Request
  <1> QED
    BY <1>2, <1>3 DEF t

LEMMA AnswerFields ==
  ASSUME IInv, NEW p \in Procs, NEW s, NEW e, Answer(p, s, e)
  PROVE  /\ Only(p) /\ req'[p].stage = "event" /\ req'[p].status = s /\ req'[p].event = e
         /\ req'[p].route = req[p].route /\ req'[p].client = req[p].client
         /\ req'[p].user = req[p].user /\ req'[p].activity = req[p].activity
  <1> DEFINE t == req[p]
  <1>1. t \in Request /\ req \in [Procs -> Request]
    BY DEF IInv, RequestsOK
  <1>2. req'[p] = [t EXCEPT !.stage = "event", !.status = s, !.event = e] /\ Only(p)
    BY <1>1 DEF Answer, Only
  <1> HIDE DEF t
  <1>3. /\ req'[p].stage = "event" /\ req'[p].status = s /\ req'[p].event = e
        /\ req'[p].route = t.route /\ req'[p].client = t.client
        /\ req'[p].user = t.user /\ req'[p].activity = t.activity
    BY <1>1, <1>2 DEF Request
  <1> QED
    BY <1>2, <1>3 DEF t

LEMMA ReadFields ==
  ASSUME IInv, NEW p \in Procs, ReadHandler(p) \/ ReadHandlerFails(p)
  PROVE  /\ Only(p) /\ req'[p].stage = "observe" /\ req'[p].status # 202
         /\ req[p].stage = "handler"
         /\ req'[p].route = req[p].route /\ req'[p].client = req[p].client
         /\ req'[p].user = req[p].user /\ req'[p].activity = req[p].activity
         /\ \/ /\ ReadHandler(p) /\ req'[p].status = 200
               /\ req'[p].body = Body(req[p].route, req[p].activity)
            \/ ReadHandlerFails(p) /\ req'[p].status # 200
  <1> DEFINE t == req[p]
             status == IF t.route = "GET /orders/:order_no"
                       THEN orderErrorStatus("ErrOrderNotFound") ELSE 500
             ok == 200
             body == Body(t.route, t.activity)
  <1>1. t \in Request /\ req \in [Procs -> Request] /\ t.stage = "handler"
    BY DEF IInv, RequestsOK, ReadHandler, ReadHandlerFails
  <1>2. ok = 200 /\ ok # 202 /\ status # 202 /\ status # 200
    <2>1. \A s \in Statuses \ {200, 202} : s # 202 /\ s # 200
      OBVIOUS
    <2>2. status \in Statuses \ {200, 202}
      BY ReadErrors
    <2>3. ok = 200 /\ ok # 202
      OBVIOUS
    <2> HIDE DEF status, ok
    <2> QED
      BY <2>1, <2>2, <2>3
  <1>3. /\ Only(p)
        /\ \/ /\ ReadHandler(p)
              /\ req'[p] = [t EXCEPT !.stage = "observe", !.status = ok, !.body = body]
           \/ /\ ReadHandlerFails(p)
              /\ req'[p] = [t EXCEPT !.stage = "observe", !.status = status]
    <2>1. CASE ReadHandler(p)
      BY <1>1, <2>1 DEF ReadHandler, Only
    <2>2. CASE ReadHandlerFails(p)
      BY ZenonT(60), <1>1, <2>2 DEF ReadHandlerFails, Only
    <2> QED
      BY <2>1, <2>2
  <1> HIDE DEF t, ok, status, body
  <1>4. /\ req'[p].stage = "observe"
        /\ \/ ReadHandler(p) /\ req'[p].status = ok /\ req'[p].body = body
           \/ ReadHandlerFails(p) /\ req'[p].status = status
        /\ req'[p].route = t.route /\ req'[p].client = t.client
        /\ req'[p].user = t.user /\ req'[p].activity = t.activity
    BY <1>1, <1>3 DEF Request
  <1> QED
    BY <1>1, <1>2, <1>3, <1>4 DEF t, body

LEMMA AbandonFields ==
  ASSUME IInv, NEW p \in Procs, Abandon(p)
  PROVE  /\ Only(p)
         /\ \/ req[p].stage = "reply" /\ req'[p] = NoRequest
            \/ /\ req[p].stage # "reply"
               /\ req'[p].stage = req[p].stage /\ req'[p].status = req[p].status
               /\ req'[p].route = req[p].route /\ ~req'[p].client
               /\ req'[p].user = req[p].user /\ req'[p].activity = req[p].activity
               /\ req'[p].event = req[p].event /\ req'[p].body = req[p].body
  <1> DEFINE t == req[p]
  <1>1. t \in Request /\ req \in [Procs -> Request]
    BY DEF IInv, RequestsOK
  <1>2. /\ Only(p)
        /\ \/ t.stage = "reply" /\ req'[p] = NoRequest
           \/ t.stage # "reply" /\ req'[p] = [t EXCEPT !.client = FALSE]
    BY <1>1 DEF Abandon, Only
  <1> HIDE DEF t
  <1>3. req'[p] = [t EXCEPT !.client = FALSE] =>
            /\ req'[p].stage = t.stage /\ req'[p].status = t.status
            /\ req'[p].route = t.route /\ ~req'[p].client
            /\ req'[p].user = t.user /\ req'[p].activity = t.activity
            /\ req'[p].event = t.event /\ req'[p].body = t.body
    BY <1>1 DEF Request
  <1> QED
    BY <1>2, <1>3 DEF t

LEMMA DropFields ==
  ASSUME IInv, NEW p \in Procs, req' = [req EXCEPT ![p] = NoRequest]
  PROVE  /\ Only(p) /\ req'[p] = NoRequest
         /\ req'[p].stage = "idle" /\ req'[p].route = "none"
  <1>1. req \in [Procs -> Request]
    BY DEF IInv, RequestsOK
  <1> QED
    BY <1>1 DEF Only, NoRequest

LEMMA ArriveFields ==
  ASSUME IInv, NEW p \in Procs, NEW route, NEW role, NEW u, NEW a,
         Arrive(p, route, role, u, a)
  PROVE  /\ Only(p) /\ Idle(p) /\ req'[p].route = route /\ req'[p].client
         /\ req'[p].stage \in {"observe", "limit", "handler"}
         /\ req'[p].stage = "observe" => req'[p].status # 202
         /\ AuthStatus(route, role) = 0 => req'[p].stage # "observe"
         /\ req'[p].user = u /\ req'[p].activity = a
  <1> DEFINE denied == AuthStatus(route, role)
             stage == IF denied # 0 THEN "observe"
                      ELSE IF route = "POST /orders" /\ plan.limited THEN "limit" ELSE "handler"
             n == NoRequest
             r == [n EXCEPT !.stage = stage, !.route = route, !.user = u, !.activity = a,
                            !.client = TRUE, !.start = clock, !.status = denied]
  <1>1. /\ stage \in {"observe", "limit", "handler"}
        /\ stage = "observe" => denied # 202
        /\ denied = 0 => stage # "observe"
    BY AuthOK
  <1>2. n \in Request
    BY NoRequestOK, ClockNat DEF RequestOK, IInv
  <1>3. req' = [req EXCEPT ![p] = r] /\ Idle(p) /\ req \in [Procs -> Request]
    BY DEF Arrive, IInv, RequestsOK
  <1> HIDE DEF n, denied, stage
  <1>4. /\ r.stage = stage /\ r.status = denied /\ r.route = route /\ r.client
        /\ r.user = u /\ r.activity = a
    BY <1>2 DEF Request
  <1> HIDE DEF r
  <1>5. Only(p) /\ req'[p] = r
    BY <1>3 DEF Only
  <1> QED
    BY <1>1, <1>3, <1>4, <1>5 DEF denied

-----------------------------------------------------------------------------
(* Who waits for what *)

\* A request that goes on keeps its route; one that somebody waits for goes on.
Onward(p) ==
    /\ req'[p].route \in {req[p].route, "none"}
    /\ ~Idle(p) /\ req[p].client =>
           req'[p].stage # "idle" /\ req'[p].client /\ req'[p].route = req[p].route
    /\ Idle(p) => req'[p].stage = "idle"

LEMMA OthersOnward ==
  ASSUME NEW p \in Procs, Only(p), Onward(p)
  PROVE  \A q \in Procs : Onward(q)
  BY DEF Only, Onward, Idle

LEMMA ServerOnward ==
  ASSUME IInv, ServerNext
  PROVE  \A q \in Procs : Onward(q)
  <1>0. CASE UNCHANGED req
    BY <1>0 DEF Onward, Idle
  <1>1. ASSUME NEW p \in Procs, LimiterReturns(p) PROVE \A q \in Procs : Onward(q)
    <2>0. ~Idle(p)
      BY <1>1 DEF LimiterReturns, Idle
    <2>1. CASE Step(p, "handler")
      BY <2>0, <2>1, StepFields, OthersOnward DEF Onward
    <2>2. CASE Answer(p, 429, "blocked")
      BY <2>0, <2>2, AnswerFields, OthersOnward DEF Onward
    <2> QED
      BY <1>1, <2>1, <2>2 DEF LimiterReturns
  <1>2. ASSUME NEW p \in Procs, NEW s, NEW e, Answer(p, s, e), ~Idle(p)
        PROVE  \A q \in Procs : Onward(q)
    BY <1>2, AnswerFields, OthersOnward DEF Onward
  <1>3. ASSUME NEW p \in Procs, CreateOrder(p) \/ CreateOrderCommitLost(p) \/ CreateOrderFails(p)
        PROVE  ~Idle(p) /\ \E s, e : Answer(p, s, e)
    <2>1. Creating(p)
      BY <1>3 DEF CreateOrder, CreateOrderCommitLost, CreateOrderFails, PersistOrder
    <2> QED
      BY <1>3, <2>1
         DEF CreateOrder, CreateOrderCommitLost, CreateOrderFails, Fail, Creating, Idle
  <1>4. ASSUME NEW p \in Procs, ReadHandler(p) \/ ReadHandlerFails(p)
        PROVE  \A q \in Procs : Onward(q)
    BY <1>4, ReadFields, OthersOnward DEF Onward, Idle
  <1>5. ASSUME NEW p \in Procs, IncBusinessEvent(p) PROVE \A q \in Procs : Onward(q)
    BY <1>5, StepFields, OthersOnward DEF Onward, IncBusinessEvent, Idle
  <1>6. ASSUME NEW p \in Procs, ObserveHTTPRequest(p) PROVE \A q \in Procs : Onward(q)
    <2>0. ~Idle(p)
      BY <1>6 DEF ObserveHTTPRequest, Idle
    <2>1. CASE Step(p, "reply")
      BY <2>0, <2>1, StepFields, OthersOnward DEF Onward
    <2>2. CASE ~req[p].client /\ req' = [req EXCEPT ![p] = NoRequest]
      BY <2>2, DropFields, OthersOnward DEF Onward
    <2> QED
      BY <1>6, <2>1, <2>2 DEF ObserveHTTPRequest
  <1>7. ASSUME NEW p \in Procs, LimiterReads(p) \/ LimiterAllows(p) PROVE UNCHANGED req
    BY <1>7 DEF LimiterReads, LimiterAllows, pipelineVars
  <1>8. ASSUME NEW a \in Activities, NEW u \in Users, processOrderCreated(a, u)
        PROVE  UNCHANGED req
    BY <1>8 DEF processOrderCreated
  <1>9. CASE TimePasses
    BY <1>0, <1>9 DEF TimePasses, pipelineVars
  <1> QED
    BY <1>0, <1>1, <1>2, <1>3, <1>4, <1>5, <1>6, <1>7, <1>8, <1>9 DEF ServerNext

LEMMA JobsStep == IInv /\ [Next]_vars => JobsOK'
  <1> SUFFICES ASSUME IInv, [Next]_vars PROVE JobsOK'
    OBVIOUS
  <1>j. JobsOK /\ job \in [Workers -> JobState]
    BY DEF IInv, LoadOK
  \* Nobody waits while no load runs.
  <1>n. ASSUME ~Loading \/ job' = [w \in Workers |-> NoJob], job' = job \/ Loading PROVE JobsOK'
    BY <1>n, <1>j, NoJobOK DEF JobsOK
  <1>0. CASE UNCHANGED vars
    BY <1>0, <1>j DEF vars, loadVars, pipelineVars, JobsOK, Loading, Route
  <1>1. CASE ServerNext /\ UNCHANGED loadVars
    <2>1. \A q \in Procs : req'[q].route \in {req[q].route, "none"}
      BY <1>1, ServerOnward DEF Onward
    <2> QED
      BY <1>1, <1>j, <2>1 DEF loadVars, JobsOK, Loading, Route
  <1>2. ASSUME NEW w \in Workers, NEW p \in Procs, SendRequest(w, p) PROVE JobsOK'
    <2>1. Only(p) /\ req'[p].route = Route
      BY <1>2, ArriveFields DEF SendRequest
    <2>2. job' = [job EXCEPT ![w] = [at |-> "waiting", proc |-> p, start |-> clock]]
          /\ phase' = phase /\ Loading
      BY <1>2 DEF SendRequest
    <2> QED
      BY <1>j, <2>1, <2>2 DEF JobsOK, Only, Loading, Route
  <1>3. ASSUME NEW w \in Workers, ReceiveResponse(w) \/ ResponseUnreadable(w) \/ RequestFails(w) PROVE JobsOK'
    <2>1. job' = [job EXCEPT ![w] = NoJob] /\ phase' = phase /\ job[w].proc \in Procs /\ Loading
      BY <1>3, <1>j DEF ReceiveResponse, ResponseUnreadable, RequestFails, JobsOK
    <2>2. \A q \in Procs : req'[q].route \in {req[q].route, "none"}
      <3>1. CASE ReceiveResponse(w) \/ ResponseUnreadable(w)
        BY <3>1, <2>1, DropFields DEF ReceiveResponse, ResponseUnreadable, Only
      <3>2. CASE RequestFails(w)
        BY <3>2, <2>1, AbandonFields DEF RequestFails, Only, NoRequest
      <3> QED
        BY <1>3, <3>1, <3>2
    <2>3. \A v \in Workers : job'[v].at = "waiting" => job'[v] = job[v]
      BY <1>j, <2>1, NoJobOK
    <2> QED
      BY <1>j, <2>1, <2>2, <2>3 DEF JobsOK, Loading, Route
  <1>4. ASSUME NEW w \in Workers, WorkerReturns(w) PROVE JobsOK'
    <2>1. \A v \in Workers : job'[v].at = "waiting" => job'[v] = job[v]
      <3> DEFINE j == job[w]
      <3>1. j \in JobState /\ job' = [job EXCEPT ![w] = [j EXCEPT !.at = "returned"]]
        BY <1>4, <1>j DEF WorkerReturns
      <3> HIDE DEF j
      <3>2. [j EXCEPT !.at = "returned"].at = "returned"
        BY <3>1 DEF JobState
      <3> QED
        BY <1>j, <3>1, <3>2
    <2> QED
      BY <1>4, <1>j, <2>1 DEF WorkerReturns, pipelineVars, JobsOK, Loading, Route
  <1>5. CASE LoadEnds
    BY <1>5, <1>n DEF LoadEnds
  <1>6. CASE VerifyReads \/ VerifyFails \/ \E p \in Procs : VerifyCalls(p)
    BY <1>6, <1>n DEF VerifyReads, VerifyFails, VerifyCalls, Verifying, Loading, Runs, Reads, Loads
  <1>7. CASE Setup \/ WriteReport
    BY <1>7, <1>n DEF Setup, WriteReport, Loading, Runs, Reads, Loads
  <1> QED
    BY <1>0, <1>1, <1>2, <1>3, <1>4, <1>5, <1>6, <1>7 DEF Next

LEMMA CheckStep == IInv /\ [Next]_vars => CheckOK'
  <1> SUFFICES ASSUME IInv, [Next]_vars PROVE CheckOK'
    OBVIOUS
  <1>c. CheckOK /\ check \in CheckState
    BY DEF IInv, LoadOK
  <1>0. CASE UNCHANGED vars
    BY <1>0, <1>c DEF vars, loadVars, pipelineVars, CheckOK, Verifying, CheckRoute, Idle
  <1>1. CASE ServerNext /\ UNCHANGED loadVars
    BY <1>1, <1>c, ServerOnward
       DEF loadVars, CheckOK, Verifying, CheckRoute, Onward, Idle
  \* No call is under way.
  <1>n. ASSUME phase' = "verify" => check'.proc = "none" PROVE CheckOK'
    BY <1>n DEF CheckOK, Verifying
  <1>2. ASSUME NEW w \in Workers,
               \/ \E p \in Procs : SendRequest(w, p)
               \/ WorkerReturns(w) \/ ReceiveResponse(w) \/ ResponseUnreadable(w) \/ RequestFails(w)
        PROVE  CheckOK'
    BY <1>2, <1>n DEF SendRequest, WorkerReturns, ReceiveResponse, ResponseUnreadable, RequestFails, Loading, Runs, Reads, Loads
  <1>3. CASE LoadEnds
    <2>1. check' = FirstCheck
      BY <1>3 DEF LoadEnds
    <2>2. check'.proc = "none"
      BY <2>1 DEF FirstCheck, NewCheck
    <2> QED
      BY <2>2, <1>n
  <1>4. ASSUME NEW p \in Procs, VerifyCalls(p) PROVE CheckOK'
    <2> DEFINE c == check
    <2>1. check' = [c EXCEPT !.proc = p] /\ c \in CheckState
      BY <1>4, <1>c DEF VerifyCalls
    <2> HIDE DEF c
    <2>2. check'.proc = p /\ check'.at = c.at
      BY <2>1 DEF CheckState
    <2>3. check'.proc = p /\ check'.at = check.at
      BY <2>2 DEF c
    <2>4. req'[p].route = CheckRoute /\ req'[p].stage # "idle" /\ req'[p].client
      BY <1>4, ArriveFields DEF VerifyCalls
    <2>5. CheckRoute' = CheckRoute
      BY <2>3 DEF CheckRoute
    <2> QED
      BY <2>3, <2>4, <2>5 DEF CheckOK, Idle
  <1>5. CASE VerifyReads \/ VerifyFails
    <2>1. Verifying
      BY <1>5 DEF VerifyReads, VerifyFails
    <2>2. ASSUME NEW errs, AfterVerify(errs) PROVE CheckOK'
      BY <2>1, <2>2, <1>n, PlanFixed, AfterVerifyFacts
    <2> QED
      BY <1>5, <1>n, <2>2, VerifyReadsFacts, ReturnsFacts DEF VerifyFails
  <1>6. CASE Setup \/ WriteReport
    BY <1>6, <1>n DEF Setup, WriteReport
  <1> QED
    BY <1>0, <1>1, <1>2, <1>3, <1>4, <1>5, <1>6 DEF Next

-----------------------------------------------------------------------------
(* The reports *)

\* Another sample of status s.
LEMMA OneMoreSample ==
  ASSUME IInv, NEW w \in Workers, NEW s \in Statuses \cup {0}, NEW f \in BOOLEAN,
         Sample(w, s, f), NEW status
  PROVE  WithStatus(status)' = IF s = status THEN WithStatus(status) + 1
                               ELSE WithStatus(status)
  <1> DEFINE n == Len(results)
             d == clock - job[w].start
             x == [status |-> s, failed |-> f, latency |-> d]
             A == {i \in DOMAIN results : results[i].status = status}
             B == {i \in DOMAIN results' : results'[i].status = status}
  <1>1. results \in Seq(Samples) /\ n \in Nat /\ DOMAIN results = 1..n
    BY DEF IInv, LoadOK
  <1>2. results' = Append(results, x) /\ x.status = s /\ x \in Samples
    <2>1. d \in Int
      BY ClockNat DEF IInv, LoadOK, JobState
    <2>2. results' = Append(results, x)
      BY DEF Sample
    <2> HIDE DEF d
    <2> QED
      BY <2>1, <2>2 DEF Samples
  <1> HIDE DEF x, d
  <1>3. /\ DOMAIN results' = 1..(n + 1) /\ results'[n + 1] = x
        /\ \A i \in 1..n : results'[i] = results[i]
    BY <1>1, <1>2
  <1>4. IsFiniteSet(A) /\ n + 1 \notin A
    <2>1. IsFiniteSet(1..n) /\ A \in SUBSET (1..n)
      BY <1>1, FS_Interval
    <2> QED
      BY <1>1, <2>1, FS_Subset
  <1>5. CASE s = status
    <2>1. B = A \cup {n + 1}
      BY <1>1, <1>2, <1>3, <1>5
    <2>2. Cardinality(B) = Cardinality(A) + 1
      BY <1>4, <2>1, FS_AddElement
    <2> QED
      BY <1>5, <2>2 DEF WithStatus
  <1>6. CASE s # status
    <2>1. B = A
      BY <1>1, <1>2, <1>3, <1>6
    <2> QED
      BY <1>6, <2>1 DEF WithStatus
  <1> QED
    BY <1>5, <1>6

\* The status of a sample: what is received in a load of queries is no acceptance.
LEMMA ReceivedStatus ==
  ASSUME IInv, NEW w \in Workers, ReceiveResponse(w) \/ ResponseUnreadable(w)
  PROVE  /\ job[w].proc \in Procs /\ phase \in Runs
         /\ req[job[w].proc].status \in Statuses \cup {0}
         /\ phase \in Reads => req[job[w].proc].status # 202
  <1> DEFINE p == job[w].proc
  <1>1. p \in Procs /\ req[p].route \in {Route, "none"} /\ phase \in Runs
    BY DEF ReceiveResponse, ResponseUnreadable, IInv, JobsOK, Loading
  <1>2. RequestOK(req[p], clock) /\ req[p].stage = "reply"
    BY <1>1 DEF ReceiveResponse, ResponseUnreadable, IInv, RequestsOK
  <1>3. req[p].status \in Statuses \cup {0}
    BY <1>2 DEF RequestOK, StatusOK
  <1>4. phase \in Reads => req[p].route # "POST /orders"
    BY <1>1 DEF Route
  <1>5. phase \in Reads => req[p].status # 202
    BY <1>2, <1>4 DEF RequestOK, StatusOK, BodyOK
  <1> QED
    BY <1>1, <1>3, <1>5

LEMMA NoSamples == ASSUME results = <<>>, NEW s PROVE WithStatus(s) = 0
  <1>1. {i \in DOMAIN results : results[i].status = s} = {}
    OBVIOUS
  <1> QED
    BY <1>1, FS_EmptySet DEF WithStatus

LEMMA ToldNat == ASSUME IInv PROVE Told \in Nat /\ Reported \in Nat /\ WithStatus(202) \in Nat
  <1>1. WithStatus(202) \in Nat
    BY WithStatusNat DEF IInv, LoadOK
  <1>2. \A l \in Loads : report[l].accepted \in Nat
    BY DEF IInv, LoadOK
  <1>3. Reported \in Nat
    BY <1>2 DEF Reported, Loads
  <1> QED
    BY <1>1, <1>3 DEF Told

\* The report of a load takes over what the samples say.
LEMMA ReportWritten ==
  ASSUME IInv, LoadEnds, phase # "warmup"
  PROVE  ReportsOK' /\ Told' = Told
  <1>1. phase \in Loads /\ phase' = AfterLoad /\ results' = <<>> /\ check' = FirstCheck
        /\ report' = [report EXCEPT ![phase] = summarize]
    BY DEF LoadEnds, Loading, Runs, Reads, Loads
  <1>2. WithStatus(202)' = 0
    <2>1. {i \in DOMAIN results' : results'[i].status = 202} = {}
      BY <1>1
    <2> QED
      BY <2>1, FS_EmptySet DEF WithStatus
  <1>3. summarize.accepted = WithStatus(202)
    BY DEF summarize
  <1> DEFINE n == WithStatus(202)
             s == summarize
  <1>4. DOMAIN report = Loads /\ (\A l \in Loads : report[l].accepted \in Nat) /\ n \in Nat
    BY ToldNat DEF IInv, LoadOK
  <1> HIDE DEF n, s
  <1>5. /\ report'[phase].accepted = n
        /\ \A l \in Loads : l # phase => report'[l].accepted = report[l].accepted
    BY <1>1, <1>3, <1>4 DEF n, s
  <1>6. ReportsOK
    BY DEF IInv
  <1>7. report[phase].accepted = 0
    BY <1>1, <1>6 DEF ReportsOK, Loads
  <1>8. phase = "query" => n = 0
    BY <1>6 DEF ReportsOK, n
  <1>9. Told' = Told
    <2>1. Told = report["duplicate"].accepted + report["stock"].accepted
                 + report["write"].accepted + report["query"].accepted + n
      BY DEF Told, Reported, n
    <2>2. Told' = report'["duplicate"].accepted + report'["stock"].accepted
                  + report'["write"].accepted + report'["query"].accepted + 0
      BY <1>2 DEF Told, Reported
    <2> DEFINE a == report["duplicate"].accepted
               b == report["stock"].accepted
               c == report["write"].accepted
               d == report["query"].accepted
    <2>3. a \in Nat /\ b \in Nat /\ c \in Nat /\ d \in Nat
      BY <1>4 DEF Loads
    <2>4. CASE phase = "duplicate"
      <3>1. a = 0 /\ Told' = n + b + c + d + 0
        BY <2>4, <1>5, <1>7, <2>2 DEF Loads
      <3> QED
        BY <1>4, <2>1, <2>3, <3>1
    <2>5. CASE phase = "stock"
      <3>1. b = 0 /\ Told' = a + n + c + d + 0
        BY <2>5, <1>5, <1>7, <2>2 DEF Loads
      <3> QED
        BY <1>4, <2>1, <2>3, <3>1
    <2>6. CASE phase = "write"
      <3>1. c = 0 /\ Told' = a + b + n + d + 0
        BY <2>6, <1>5, <1>7, <2>2 DEF Loads
      <3> QED
        BY <1>4, <2>1, <2>3, <3>1
    <2>7. CASE phase = "query"
      <3>1. d = 0 /\ Told' = a + b + c + n + 0
        BY <2>7, <1>5, <1>7, <2>2 DEF Loads
      <3> QED
        BY <1>4, <2>1, <2>3, <3>1
    <2> QED
      BY <1>1, <2>4, <2>5, <2>6, <2>7 DEF Loads
  <1>10. ReportsOK'
    <2>1. CASE phase = "duplicate"
      <3>1. phase' = "stock"
        BY <1>1, <2>1 DEF AfterLoad
      <3> QED
        BY <1>2, <1>5, <1>6, <2>1, <3>1 DEF ReportsOK, Verifying, Loads
    <2>2. CASE phase = "stock"
      <3>1. phase' = "verify"
        BY <1>1, <2>2 DEF AfterLoad
      <3> QED
        BY <1>2, <1>5, <1>6, <2>2, <3>1 DEF ReportsOK, Verifying, Loads
    <2>3. CASE phase = "write"
      <3>1. phase' = "verify"
        BY <1>1, <2>3 DEF AfterLoad
      <3>2. check'.of[1] = "write"
        BY <1>1, <2>3 DEF FirstCheck, NewCheck
      <3> QED
        BY <1>2, <1>5, <1>6, <2>3, <3>1, <3>2 DEF ReportsOK, Verifying, Loads
    <2>4. CASE phase = "query"
      <3>1. phase' = "report"
        BY <1>1, <2>4 DEF AfterLoad
      <3> QED
        BY <1>2, <1>5, <1>6, <1>8, <2>4, <3>1 DEF ReportsOK, Verifying, Loads
    <2> QED
      BY <1>1, <2>1, <2>2, <2>3, <2>4 DEF Loads
  <1> QED
    BY <1>9, <1>10

\* The samples of the warm-up are thrown away: none of them is an acceptance.
LEMMA LoadEndsFacts ==
  ASSUME IInv, LoadEnds
  PROVE  ReportsOK' /\ Told' = Told
  <1>1. CASE phase = "warmup"
    <2>1. phase' = "query" /\ results' = <<>> /\ report' = report
      BY <1>1 DEF LoadEnds, AfterLoad
    <2>2. WithStatus(202)' = 0
      BY <2>1, FS_EmptySet DEF WithStatus
    <2>3. ReportsOK /\ WithStatus(202) = 0
      BY <1>1 DEF IInv, ReportsOK
    <2> QED
      BY <1>1, <2>1, <2>2, <2>3 DEF ReportsOK, Verifying, Told, Reported
  <1> QED
    BY <1>1, ReportWritten

LEMMA ReportsStep == IInv /\ [Next]_vars => ReportsOK'
  <1> SUFFICES ASSUME IInv, [Next]_vars PROVE ReportsOK'
    OBVIOUS
  <1>r. ReportsOK
    BY DEF IInv
  \* Steps that leave reports and samples alone.
  <1>u. ASSUME UNCHANGED <<report, results>> PROVE WithStatus(202)' = WithStatus(202)
    BY <1>u DEF WithStatus
  <1>0. CASE UNCHANGED <<phase, results, report>> /\ (Verifying => check'.of = check.of)
    BY <1>0, <1>r, <1>u DEF ReportsOK, Verifying
  <1>1. ASSUME NEW w \in Workers, NEW s \in Statuses \cup {0}, NEW f \in BOOLEAN,
               Sample(w, s, f), phase \in Reads => s # 202, Loading, UNCHANGED <<phase, report>>
        PROVE  ReportsOK'
    <2>1. phase \in Reads => WithStatus(202)' = WithStatus(202)
      BY <1>1, OneMoreSample
    <2>2. phase \in Runs
      BY <1>1 DEF Loading
    <2> QED
      BY <1>1, <1>r, <2>1, <2>2 DEF ReportsOK, Verifying, Runs, Reads, Loads
  <1>2. ASSUME NEW w \in Workers, ReceiveResponse(w) \/ ResponseUnreadable(w) PROVE ReportsOK'
    BY <1>1, <1>2, ReceivedStatus DEF ReceiveResponse, ResponseUnreadable
  <1>3. ASSUME NEW w \in Workers, RequestFails(w) PROVE ReportsOK'
    <2>1. Sample(w, 0, TRUE) /\ Loading /\ UNCHANGED <<phase, report>>
      BY <1>3 DEF RequestFails
    <2>2. 0 \in Statuses \cup {0} /\ TRUE \in BOOLEAN /\ 0 # 202
      OBVIOUS
    <2> QED
      BY <1>1, <2>1, <2>2
  <1>4. ASSUME NEW p \in Procs, VerifyCalls(p) PROVE ReportsOK'
    <2> DEFINE c == check
    <2>1. check' = [c EXCEPT !.proc = p] /\ c \in CheckState
      BY <1>4 DEF VerifyCalls, IInv, LoadOK
    <2> HIDE DEF c
    <2>2. check'.of = c.of
      BY <2>1 DEF CheckState
    <2> QED
      BY <1>0, <1>4, <2>2 DEF VerifyCalls, c
  <1>5. CASE VerifyReads \/ VerifyFails
    <2>1. Verifying /\ UNCHANGED <<report, results>>
      BY <1>5 DEF VerifyReads, VerifyFails
    <2>2. ASSUME NEW errs, AfterVerify(errs) PROVE ReportsOK'
      <3>1. /\ phase' \in {"verify", "write", "warmup", "report"}
            /\ phase' = "write" => check.of[1] # "write"
            /\ phase' = "verify" /\ check'.of[1] # "write" => check.of[1] # "write"
        BY <2>1, <2>2, PlanFixed, AfterVerifyFacts
      <3>2. WithStatus(202) = 0
        BY <1>r, <2>1 DEF ReportsOK, Verifying
      <3> QED
        BY <1>r, <1>u, <2>1, <3>1, <3>2 DEF ReportsOK, Verifying
    <2> QED
      BY <1>0, <1>5, <2>1, <2>2, VerifyReadsFacts, ReturnsFacts DEF VerifyFails
  <1>6. CASE Setup
    BY <1>6, <1>r, <1>u DEF Setup, ReportsOK, Verifying
  <1>7. CASE WriteReport
    BY <1>7, <1>r, <1>u DEF WriteReport, ReportsOK, Verifying
  <1>8. CASE UNCHANGED loadVars
    BY <1>8, <1>0 DEF loadVars
  <1>9. ASSUME NEW w \in Workers, (\E p \in Procs : SendRequest(w, p)) \/ WorkerReturns(w)
        PROVE  ReportsOK'
    BY <1>9, <1>0 DEF SendRequest, WorkerReturns
  <1> QED
    BY <1>2, <1>3, <1>4, <1>5, <1>6, <1>7, <1>8, <1>9, LoadChanges, LoadEndsFacts

-----------------------------------------------------------------------------
(* The counts of accepted orders *)

In(p, stage) == req[p].stage = stage /\ req[p].status = 202

LEMMA UnderNat == ASSUME NEW stage PROVE Cardinality(Under(stage)) \in Nat
  <1>1. IsFiniteSet(Procs)
    BY RequestPipelineAssumption
  <1>2. IsFiniteSet(Under(stage))
    BY <1>1, FS_Subset DEF Under
  <1> QED
    BY <1>2, FS_CardinalityType

\* How a step that changes one request counts.
LEMMA UnderStep ==
  ASSUME IInv, NEW p \in Procs, Only(p), NEW stage
  PROVE  /\ (In(p, stage) <=> In(p, stage)') =>
                Cardinality(Under(stage))' = Cardinality(Under(stage))
         /\ In(p, stage) /\ ~In(p, stage)' =>
                Cardinality(Under(stage))' = Cardinality(Under(stage)) - 1
         /\ ~In(p, stage) /\ In(p, stage)' =>
                Cardinality(Under(stage))' = Cardinality(Under(stage)) + 1
  <1> DEFINE A == Under(stage)
             B == {q \in Procs : req'[q].stage = stage /\ req'[q].status = 202}
  <1>1. IsFiniteSet(A)
    BY RequestPipelineAssumption, FS_Subset DEF Under
  <1>2. Under(stage)' = B
    BY DEF Under
  <1>3. \A q \in Procs : q # p => (q \in A <=> q \in B)
    BY DEF Only, Under
  <1>4. (p \in A <=> In(p, stage)) /\ (p \in B <=> In(p, stage)')
    BY DEF Under, In
  <1>5. A \subseteq Procs /\ B \subseteq Procs
    BY DEF Under
  <1> HIDE DEF A, B
  <1>6. CASE In(p, stage) <=> In(p, stage)'
    <2>1. A = B
      BY <1>3, <1>4, <1>5, <1>6
    <2> QED
      BY <1>2, <1>6, <2>1 DEF A
  <1>7. CASE In(p, stage) /\ ~In(p, stage)'
    <2>1. B = A \ {p} /\ p \in A
      BY <1>3, <1>4, <1>5, <1>7
    <2>2. Cardinality(B) = Cardinality(A) - 1
      BY <1>1, <2>1, FS_RemoveElement
    <2> QED
      BY <1>2, <1>7, <2>2 DEF A
  <1>8. CASE ~In(p, stage) /\ In(p, stage)'
    <2>1. B = A \cup {p} /\ p \notin A
      BY <1>3, <1>4, <1>5, <1>8
    <2>2. Cardinality(B) = Cardinality(A) + 1
      BY <1>1, <2>1, FS_AddElement
    <2> QED
      BY <1>2, <1>8, <2>2 DEF A
  <1> QED
    BY <1>6, <1>7, <1>8

LEMMA ToldSame == ASSUME UNCHANGED <<report, results>> PROVE Told' = Told
  BY DEF Told, Reported, WithStatus

LEMMA PersistedSame == ASSUME UNCHANGED order PROVE Persisted' = Persisted
  BY DEF Persisted, Orders

\* The rows of an activity.
Rowed(a) == Orders(a, {"QUEUED", "WAIT_PAY"})

LEMMA RowedFinite ==
  ASSUME NEW a
  PROVE  IsFiniteSet(Rowed(a)) /\ Cardinality(Rowed(a)) \in Nat
  BY RequestPipelineAssumption, FS_Subset, FS_CardinalityType DEF Rowed, Orders

\* A transaction adds one row.
LEMMA PersistedMore ==
  ASSUME IInv, NEW p \in Procs, PersistOrder(p)
  PROVE  Persisted' = Persisted + 1
  <1> DEFINE a == req[p].activity
             u == req[p].user
             After(x) == {v \in Users : order'[x][v] \in {"QUEUED", "WAIT_PAY"}}
             f == [x \in Activities |-> Cardinality(Rowed(x))]
             e == [x \in Activities |-> Cardinality(After(x))]
  <1>1. a \in Activities /\ u \in Users /\ order \in [Activities -> Rows]
        /\ order[a][u] = "none" /\ order' = [order EXCEPT ![a][u] = "QUEUED"]
    BY PersistOK DEF PersistOrder, IInv, DataOK
  <1> HIDE DEF a, u
  <1>2. \A x \in Activities : x # a => After(x) = Rowed(x)
    BY <1>1 DEF Rowed, Orders
  <1>3. After(a) = Rowed(a) \cup {u} /\ u \notin Rowed(a)
    BY <1>1 DEF Rowed, Orders, Rows
  <1>4. Cardinality(After(a)) = Cardinality(Rowed(a)) + 1
    BY <1>3, RowedFinite, FS_AddElement
  <1>5. \A x \in Activities : Cardinality(After(x)) \in Int /\ Cardinality(Rowed(x)) \in Int
    <2> SUFFICES ASSUME NEW x \in Activities
                 PROVE  Cardinality(After(x)) \in Int /\ Cardinality(Rowed(x)) \in Int
      OBVIOUS
    <2>1. Cardinality(Rowed(x)) \in Nat
      BY RowedFinite
    <2> HIDE DEF After
    <2>2. CASE x = a
      BY <1>4, <2>1, <2>2
    <2>3. CASE x # a
      BY <1>2, <2>1, <2>3
    <2> QED
      BY <2>2, <2>3
  <1>6. Persisted = SumFunctionOnSet(f, Activities) /\ Persisted' = SumFunctionOnSet(e, Activities)
    BY DEF Persisted, Rowed, Orders
  <1> HIDE DEF After
  <1>7. /\ \A x \in Activities : f[x] \in Int /\ e[x] \in Int
        /\ \A x \in Activities : x # a => e[x] = f[x]
        /\ e[a] - f[a] = 1
    BY <1>1, <1>2, <1>4, <1>5, RowedFinite
  <1> HIDE DEF f, e
  <1>8. SumFunctionOnSet(e, Activities) = SumFunctionOnSet(f, Activities) + (e[a] - f[a])
    BY <1>1, <1>7, SumChange, RequestPipelineAssumption
  <1> QED
    BY <1>6, <1>7, <1>8

LEMMA PersistedKept ==
  ASSUME IInv, NEW a \in Activities, NEW u \in Users, processOrderCreated(a, u)
  PROVE  Persisted' = Persisted
  <1> DEFINE After(x) == {v \in Users : order'[x][v] \in {"QUEUED", "WAIT_PAY"}}
  <1>1. order \in [Activities -> Rows] /\ order[a][u] = "QUEUED"
        /\ order' = [order EXCEPT ![a][u] = "WAIT_PAY"]
    BY DEF processOrderCreated, IInv, DataOK
  <1>2. \A x \in Activities : After(x) = Rowed(x)
    BY <1>1 DEF Rowed, Orders, Rows
  <1>3. [x \in Activities |-> Cardinality(After(x))] = [x \in Activities |-> Cardinality(Rowed(x))]
    BY <1>2
  <1> QED
    BY <1>3 DEF Persisted, Rowed, Orders

LEMMA Numbers ==
  ASSUME IInv
  PROVE  /\ Told \in Nat /\ store[202].count \in Nat /\ events["accepted"] \in Nat
         /\ mishaps["commit"] \in Nat /\ mishaps["client"] \in Nat
         /\ Cardinality(Under("event")) \in Nat /\ Cardinality(Under("observe")) \in Nat
         /\ Cardinality(Under("reply")) \in Nat
  <1>1. 202 \in Statuses /\ "accepted" \in Results
        /\ "commit" \in MishapKinds /\ "client" \in MishapKinds
    BY DEF Statuses, Results, MishapKinds
  <1>2. DataOK
    BY DEF IInv
  <1>3. store[202] \in [count : Nat, sum : Nat, le : [Bins -> Nat]]
    BY <1>1, <1>2 DEF DataOK
  <1>4. store[202].count \in Nat
    BY <1>3
  <1>5. events["accepted"] \in Nat /\ mishaps["commit"] \in Nat /\ mishaps["client"] \in Nat
    BY <1>1, <1>2 DEF DataOK
  <1> QED
    BY <1>4, <1>5, UnderNat, ToldNat

LEMMA MishapFacts ==
  ASSUME IInv, NEW k \in MishapKinds, Mishap(k)
  PROVE  /\ mishaps'[k] = mishaps[k] + 1
         /\ \A j \in MishapKinds : j # k => mishaps'[j] = mishaps[j]
  BY DEF Mishap, IInv, DataOK

\* A lost answer is counted as one of the warm-up or as one of a client.
LEMMA LostFacts ==
  ASSUME IInv, AnswerLost
  PROVE  /\ mishaps'["commit"] = mishaps["commit"]
         /\ phase = "warmup" => mishaps'["client"] = mishaps["client"]
         /\ phase # "warmup" => mishaps'["client"] = mishaps["client"] + 1
         /\ mishaps'["client"] = 0 => mishaps["client"] = 0 /\ phase = "warmup"
  <1>1. CASE phase = "warmup"
    BY <1>1, MishapFacts DEF AnswerLost, MishapKinds
  <1>2. CASE phase # "warmup"
    <2>1. /\ mishaps'["client"] = mishaps["client"] + 1
          /\ mishaps'["commit"] = mishaps["commit"]
      BY <1>2, MishapFacts DEF AnswerLost, MishapKinds
    <2> QED
      BY <1>2, <2>1, Numbers
  <1> QED
    BY <1>1, <1>2

\* What the counts were, for arithmetic.
CountsSame ==
    /\ Told' = Told /\ store'[202].count = store[202].count
    /\ events'["accepted"] = events["accepted"]
    /\ mishaps'["commit"] = mishaps["commit"] /\ Persisted' = Persisted

LEMMA QuietStep ==
  ASSUME IInv, NEW p \in Procs, Only(p), CountsSame,
         mishaps'["client"] = 0 => mishaps["client"] = 0,
         \A stage \in {"event", "observe", "reply"} : In(p, stage) <=> In(p, stage)'
  PROVE  Accounted'
  <1>1. \A stage \in {"event", "observe", "reply"} :
            Cardinality(Under(stage))' = Cardinality(Under(stage))
    BY UnderStep
  <1> QED
    BY <1>1 DEF IInv, Accounted, CountsSame

LEMMA StutterStep ==
  ASSUME IInv, UNCHANGED req, CountsSame, mishaps'["client"] = mishaps["client"]
  PROVE  Accounted'
  <1>1. \A stage \in {"event", "observe", "reply"} :
            Cardinality(Under(stage))' = Cardinality(Under(stage))
    BY DEF Under
  <1> QED
    BY <1>1 DEF IInv, Accounted, CountsSame

\* The counts that a step leaves alone.
LEMMA SameCounts ==
  ASSUME UNCHANGED <<order, store, events, results, report>>,
         mishaps'["commit"] = mishaps["commit"]
  PROVE  CountsSame
  BY ToldSame, PersistedSame DEF CountsSame

LEMMA CreatedStep ==
  ASSUME IInv, NEW p \in Procs, CreateOrder(p), UNCHANGED <<results, report>>
  PROVE  Accounted'
  <1>1. Only(p) /\ req[p].stage = "handler" /\ req'[p].stage = "event" /\ req'[p].status = 202
    <2>1. PICK s : s = 202
      OBVIOUS
    <2>2. Answer(p, s, "accepted") /\ req[p].stage = "handler"
      BY <2>1 DEF CreateOrder, PersistOrder, Creating
    <2>3. Only(p) /\ req'[p].stage = "event" /\ req'[p].status = s
      BY <2>2, AnswerFields
    <2> QED
      BY <2>1, <2>2, <2>3
  <1>2. Persisted' = Persisted + 1 /\ Told' = Told /\ UNCHANGED <<store, events, mishaps>>
    BY PersistedMore, ToldSame DEF CreateOrder
  <1>3. /\ Cardinality(Under("event"))' = Cardinality(Under("event")) + 1
        /\ Cardinality(Under("observe"))' = Cardinality(Under("observe"))
        /\ Cardinality(Under("reply"))' = Cardinality(Under("reply"))
    BY <1>1, UnderStep DEF In
  <1> QED
    BY <1>2, <1>3, Numbers DEF IInv, Accounted

LEMMA CommitLostStep ==
  ASSUME IInv, NEW p \in Procs, CreateOrderCommitLost(p), UNCHANGED <<results, report>>
  PROVE  Accounted'
  <1> DEFINE err == "bad connection"
  <1>1. Only(p) /\ req[p].stage = "handler" /\ req'[p].stage = "event"
        /\ req'[p].status = orderErrorStatus(err)
    BY AnswerFields DEF CreateOrderCommitLost, PersistOrder, Creating
  <1>2. orderErrorStatus(err) # 202
    BY ErrorOK
  <1>3. Persisted' = Persisted + 1 /\ Told' = Told /\ UNCHANGED <<store, events>>
    BY PersistedMore, ToldSame DEF CreateOrderCommitLost
  <1>4. mishaps'["commit"] = mishaps["commit"] + 1 /\ mishaps'["client"] = mishaps["client"]
    BY MishapFacts DEF CreateOrderCommitLost, MishapKinds
  <1>5. \A stage \in {"event", "observe", "reply"} :
            Cardinality(Under(stage))' = Cardinality(Under(stage))
    <2>1. \A stage \in {"event", "observe", "reply"} : ~In(p, stage) /\ ~In(p, stage)'
      BY <1>1, <1>2 DEF In
    <2> QED
      BY <1>1, <2>1, UnderStep
  <1> QED
    BY <1>3, <1>4, <1>5, Numbers DEF IInv, Accounted

LEMMA CountedStep ==
  ASSUME IInv, NEW p \in Procs, IncBusinessEvent(p), UNCHANGED <<results, report>>
  PROVE  Accounted'
  <1>1. Only(p) /\ req[p].stage = "event" /\ req'[p].stage = "observe"
        /\ req'[p].status = req[p].status
    BY StepFields DEF IncBusinessEvent
  <1>2. Persisted' = Persisted /\ Told' = Told /\ UNCHANGED <<store, mishaps>>
    BY PersistedSame, ToldSame DEF IncBusinessEvent, database
  <1>3. AnswerOK(req[p].status, req[p].event)
    BY <1>1 DEF IInv, RequestsOK, RequestOK, EventOK
  <1>4. events \in [Results -> Nat] /\ events' = [events EXCEPT ![req[p].event] = @ + 1]
    BY DEF IncBusinessEvent, IInv, DataOK
  <1>5. CASE req[p].status = 202
    <2>1. events'["accepted"] = events["accepted"] + 1
      BY <1>3, <1>4, <1>5 DEF AnswerOK
    <2>2. /\ Cardinality(Under("event"))' = Cardinality(Under("event")) - 1
          /\ Cardinality(Under("observe"))' = Cardinality(Under("observe")) + 1
          /\ Cardinality(Under("reply"))' = Cardinality(Under("reply"))
      BY <1>1, <1>5, UnderStep DEF In
    <2>3. /\ store'[202].count = store[202].count
          /\ mishaps'["commit"] = mishaps["commit"] /\ mishaps'["client"] = mishaps["client"]
      BY <1>2
    <2>4. Accounted
      BY DEF IInv
    <2> QED
      BY <1>2, <2>1, <2>2, <2>3, <2>4, Numbers DEF Accounted
  <1>6. CASE req[p].status # 202
    <2>1. events'["accepted"] = events["accepted"]
      <3>1. req[p].event # "accepted" /\ "accepted" \in Results
        BY <1>3, <1>6 DEF AnswerOK, Results
      <3> QED
        BY <1>4, <3>1
    <2>2. CountsSame
      BY <1>2, <2>1 DEF CountsSame
    <2>3. \A stage \in {"event", "observe", "reply"} : In(p, stage) <=> In(p, stage)'
      BY <1>1, <1>6 DEF In
    <2> QED
      BY <1>1, <1>2, <2>2, <2>3, QuietStep
  <1> QED
    BY <1>5, <1>6

LEMMA ObservedStep ==
  ASSUME IInv, NEW p \in Procs, ObserveHTTPRequest(p), UNCHANGED <<results, report>>
  PROVE  Accounted'
  <1>1. /\ Only(p) /\ req[p].stage = "observe"
        /\ \/ req[p].client /\ req'[p].stage = "reply" /\ req'[p].status = req[p].status
           \/ ~req[p].client /\ req'[p].stage = "idle"
    BY StepFields, DropFields DEF ObserveHTTPRequest
  <1>2. Persisted' = Persisted /\ Told' = Told /\ UNCHANGED <<events, mishaps>>
    BY PersistedSame, ToldSame DEF ObserveHTTPRequest, database
  <1>3. RequestOK(req[p], clock)
    BY DEF IInv, RequestsOK
  <1>4. store \in [Statuses -> [count : Nat, sum : Nat, le : [Bins -> Nat]]]
    BY DEF IInv, DataOK
  <1> DEFINE e == Observed(store[req[p].status], clock - req[p].start)
  <1>5. store' = IF req[p].route = "POST /orders"
                 THEN [store EXCEPT ![req[p].status] = e] ELSE store
    BY DEF ObserveHTTPRequest
  <1>6. e.count = store[req[p].status].count + 1
    BY DEF Observed
  <1> HIDE DEF e
  <1>7. CASE req[p].status = 202
    <2>1. req[p].route = "POST /orders" /\ 202 \in Statuses
      BY <1>1, <1>3, <1>7 DEF RequestOK, StatusOK, BodyOK
    <2>2. store'[202].count = store[202].count + 1
      BY <1>4, <1>5, <1>6, <1>7, <2>1
    <2>3. /\ Cardinality(Under("event"))' = Cardinality(Under("event"))
          /\ Cardinality(Under("observe"))' = Cardinality(Under("observe")) - 1
      BY <1>1, <1>7, UnderStep DEF In
    <2>4. Accounted /\ events'["accepted"] = events["accepted"]
          /\ mishaps'["commit"] = mishaps["commit"] /\ mishaps'["client"] = mishaps["client"]
      BY <1>2 DEF IInv
    <2>5. CASE req'[p].stage = "reply" /\ req'[p].status = 202
      <3>1. Cardinality(Under("reply"))' = Cardinality(Under("reply")) + 1
        BY <1>1, <2>5, UnderStep DEF In
      <3> QED
        BY <1>2, <2>2, <2>3, <2>4, <3>1, Numbers DEF Accounted
    \* Nobody is there to be told.
    <2>6. CASE ~req[p].client /\ req'[p].stage = "idle"
      <3>1. Cardinality(Under("reply"))' = Cardinality(Under("reply"))
        BY <1>1, <2>6, UnderStep DEF In
      <3>2. mishaps["client"] # 0
        BY <1>1, <2>1, <2>6 DEF IInv, WaitedFor, Idle, IsOrder
      <3> QED
        BY <1>2, <2>2, <2>3, <2>4, <3>1, <3>2, Numbers DEF Accounted
    <2> QED
      BY <1>1, <1>7, <2>5, <2>6
  <1>8. CASE req[p].status # 202
    <2>1. store'[202].count = store[202].count
      <3>1. 202 \in Statuses
        BY DEF Statuses
      <3> QED
        BY <1>4, <1>5, <1>8, <3>1
    <2>2. CountsSame
      BY <1>2, <2>1 DEF CountsSame
    <2>3. \A stage \in {"event", "observe", "reply"} : In(p, stage) <=> In(p, stage)'
      BY <1>1, <1>8 DEF In
    <2> QED
      BY <1>1, <1>2, <2>2, <2>3, QuietStep
  <1> QED
    BY <1>7, <1>8

LEMMA ReceivedStep ==
  ASSUME IInv, NEW w \in Workers, ReceiveResponse(w) \/ ResponseUnreadable(w)
  PROVE  Accounted'
  <1>0. PICK p \in Procs : p = job[w].proc
    BY ReceivedStatus
  <1> DEFINE s == req[p].status
  <1>1. s \in Statuses \cup {0} /\ req[p].stage = "reply"
        /\ req' = [req EXCEPT ![p] = NoRequest] /\ (\E f \in BOOLEAN : Sample(w, s, f))
        /\ UNCHANGED <<order, store, events, report>>
        /\ (mishaps' = mishaps \/ AnswerLost)
    BY <1>0, ReceivedStatus DEF ReceiveResponse, ResponseUnreadable, database
  <1>c. /\ mishaps'["commit"] = mishaps["commit"]
        /\ mishaps'["client"] = 0 => mishaps["client"] = 0
    BY <1>1, LostFacts
  <1>2. Only(p) /\ req'[p].stage = "idle"
    BY <1>1, DropFields
  <1>3. WithStatus(202)' = IF s = 202 THEN WithStatus(202) + 1 ELSE WithStatus(202)
    <2>1. PICK r \in Statuses \cup {0} : r = s
      BY <1>1
    <2>2. PICK f \in BOOLEAN : Sample(w, r, f)
      BY <1>1, <2>1
    <2>3. ASSUME NEW status
          PROVE  WithStatus(status)' = IF r = status THEN WithStatus(status) + 1
                                       ELSE WithStatus(status)
      BY <2>2, OneMoreSample
    <2> QED
      BY <2>1, <2>3
  <1>4. Persisted' = Persisted /\ Reported' = Reported
    BY <1>1, PersistedSame DEF Reported
  <1>5. WithStatus(202) \in Nat /\ Reported \in Nat
    BY ToldNat
  <1>6. CASE s = 202
    <2>1. Told' = Told + 1
      BY <1>3, <1>4, <1>5, <1>6 DEF Told
    <2>2. /\ Cardinality(Under("event"))' = Cardinality(Under("event"))
          /\ Cardinality(Under("observe"))' = Cardinality(Under("observe"))
          /\ Cardinality(Under("reply"))' = Cardinality(Under("reply")) - 1
      BY <1>1, <1>2, <1>6, UnderStep DEF In
    <2>3. Accounted /\ events'["accepted"] = events["accepted"]
          /\ store'[202].count = store[202].count
      BY <1>1 DEF IInv
    <2> QED
      BY <1>c, <1>4, <2>1, <2>2, <2>3, Numbers DEF Accounted
  <1>7. CASE s # 202
    <2>1. CountsSame
      BY <1>1, <1>c, <1>3, <1>4, <1>7 DEF CountsSame, Told
    <2>2. \A stage \in {"event", "observe", "reply"} : In(p, stage) <=> In(p, stage)'
      BY <1>1, <1>2, <1>7 DEF In
    <2> QED
      BY <1>1, <1>2, <1>c, <2>1, <2>2, QuietStep
  <1> QED
    BY <1>6, <1>7

\* A client gives up: an accepted order may not reach anybody any more.  In the
\* warm-up there is none to reach it.
LEMMA GaveUpStep ==
  ASSUME IInv, NEW p \in Procs, Abandon(p), Told' = Told,
         UNCHANGED <<order, store, events>>, NEW k \in {"client", "warmup"}, Mishap(k),
         k = "warmup" => ~IsOrder(p)
  PROVE  Accounted' /\ WaitedFor'
  <1>1. Only(p)
        /\ \/ req[p].stage = "reply" /\ req'[p] = NoRequest
           \/ /\ req[p].stage # "reply"
              /\ req'[p].stage = req[p].stage /\ req'[p].status = req[p].status
              /\ req'[p].route = req[p].route
    BY AbandonFields
  <1>2. /\ mishaps'["commit"] = mishaps["commit"]
        /\ \/ mishaps'["client"] = mishaps["client"] + 1
           \/ mishaps'["client"] = mishaps["client"] /\ ~IsOrder(p)
    BY MishapFacts DEF MishapKinds
  <1>3. /\ Cardinality(Under("event"))' = Cardinality(Under("event"))
        /\ Cardinality(Under("observe"))' = Cardinality(Under("observe"))
        /\ \/ Cardinality(Under("reply"))' = Cardinality(Under("reply"))
           \/ Cardinality(Under("reply"))' = Cardinality(Under("reply")) - 1
    BY <1>1, UnderStep DEF In, NoRequest
  <1>4. mishaps'["client"] = 0 => mishaps["client"] = 0 /\ ~IsOrder(p)
    BY <1>2, Numbers
  <1>7. ~IsOrder(p) => Cardinality(Under("reply"))' = Cardinality(Under("reply"))
    <2>1. RequestOK(req[p], clock)
      BY DEF IInv, RequestsOK
    <2>2. ~IsOrder(p) => ~In(p, "reply")
      BY <2>1 DEF IsOrder, In, RequestOK, StatusOK, BodyOK
    <2>3. In(p, "reply")' => In(p, "reply")
      BY <1>1 DEF In, NoRequest
    <2> QED
      BY <1>1, <2>2, <2>3, UnderStep
  <1>5. Accounted /\ Persisted' = Persisted /\ events'["accepted"] = events["accepted"]
        /\ store'[202].count = store[202].count
    BY PersistedSame DEF IInv
  <1>6. Accounted'
    BY <1>2, <1>3, <1>4, <1>5, <1>7, Numbers DEF Accounted
  <1>8. WaitedFor'
    <2>1. \A q \in Procs : q # p => (Idle(q)' <=> Idle(q)) /\ (IsOrder(q)' <=> IsOrder(q))
                                   /\ req'[q].client = req[q].client
      BY <1>1 DEF Only, Idle, IsOrder
    <2>3. req'[p].route = req[p].route => (IsOrder(p)' <=> IsOrder(p))
      BY DEF IsOrder
    <2>2. ~IsOrder(p) => ~IsOrder(p)' \/ Idle(p)'
      BY <1>1, <2>3 DEF Idle, NoRequest
    <2> QED
      BY <1>4, <2>1, <2>2 DEF IInv, WaitedFor
  <1> QED
    BY <1>6, <1>8

LEMMA ServerAccounts ==
  ASSUME IInv, ServerNext, UNCHANGED <<results, report>>
  PROVE  Accounted' /\ mishaps'["client"] = mishaps["client"]
  <1>0. ASSUME UNCHANGED <<req, store, events, mishaps>>, Persisted' = Persisted
        PROVE  Accounted' /\ mishaps'["client"] = mishaps["client"]
    <2>1. CountsSame
      BY <1>0, ToldSame DEF CountsSame
    <2> QED
      BY <1>0, <2>1, StutterStep
  \* A request goes on that is not, and does not become, one with a 202.
  <1>q. ASSUME NEW p \in Procs, Only(p), req[p].stage \in {"limit", "handler"},
               req'[p].stage = "handler" \/ req'[p].status # 202,
               UNCHANGED <<order, store, events>>,
               UNCHANGED mishaps \/ Mishap("deadline") \/ Mishap("database")
        PROVE  Accounted' /\ mishaps'["client"] = mishaps["client"]
    <2>1. mishaps'["commit"] = mishaps["commit"] /\ mishaps'["client"] = mishaps["client"]
      BY <1>q, MishapFacts DEF MishapKinds
    <2>2. CountsSame
      BY <1>q, <2>1, SameCounts
    <2>3. \A stage \in {"event", "observe", "reply"} : In(p, stage) <=> In(p, stage)'
      BY <1>q DEF In
    <2> QED
      BY <1>q, <2>1, <2>2, <2>3, QuietStep
  <1>1. ASSUME NEW p \in Procs, LimiterReturns(p)
        PROVE  Accounted' /\ mishaps'["client"] = mishaps["client"]
    <2>1. Only(p) /\ (req'[p].stage = "handler" \/ req'[p].status = 429)
      BY <1>1, StepFields, AnswerFields DEF LimiterReturns
    <2>2. req'[p].stage = "handler" \/ req'[p].status # 202
      BY <2>1
    <2> QED
      BY <1>1, <1>q, <2>1, <2>2 DEF LimiterReturns, database
  <1>2. ASSUME NEW p \in Procs, CreateOrder(p)
        PROVE  Accounted' /\ mishaps'["client"] = mishaps["client"]
    BY <1>2, CreatedStep DEF CreateOrder
  <1>3. ASSUME NEW p \in Procs, CreateOrderCommitLost(p)
        PROVE  Accounted' /\ mishaps'["client"] = mishaps["client"]
    BY <1>3, CommitLostStep, MishapFacts DEF CreateOrderCommitLost, MishapKinds
  <1>4. ASSUME NEW p \in Procs, CreateOrderFails(p)
        PROVE  Accounted' /\ mishaps'["client"] = mishaps["client"]
    <2>1. PICK err : Fail(p, err)
      BY <1>4 DEF CreateOrderFails
    <2>2. Only(p) /\ req'[p].status = orderErrorStatus(err)
      BY <2>1, AnswerFields DEF Fail
    <2>3. req'[p].status # 202
      BY <2>2, ErrorOK
    <2>4. UNCHANGED mishaps \/ Mishap("deadline") \/ Mishap("database")
      BY <1>4 DEF CreateOrderFails
    <2>5. UNCHANGED <<order, store, events>> /\ req[p].stage = "handler"
      BY <1>4, <2>1 DEF CreateOrderFails, Fail, database, Creating
    <2> QED
      BY <1>q, <2>2, <2>3, <2>4, <2>5
  <1>5. ASSUME NEW p \in Procs, ReadHandler(p) \/ ReadHandlerFails(p)
        PROVE  Accounted' /\ mishaps'["client"] = mishaps["client"]
    <2>1. Only(p) /\ req'[p].status # 202 /\ req[p].stage = "handler"
      BY <1>5, ReadFields
    <2>2. UNCHANGED mishaps \/ Mishap("database")
      BY <1>5 DEF ReadHandler, ReadHandlerFails
    <2>3. UNCHANGED <<order, store, events>>
      BY <1>5 DEF ReadHandler, ReadHandlerFails, database
    <2> QED
      BY <1>q, <2>1, <2>2, <2>3
  <1>6. ASSUME NEW p \in Procs, IncBusinessEvent(p)
        PROVE  Accounted' /\ mishaps'["client"] = mishaps["client"]
    BY <1>6, CountedStep DEF IncBusinessEvent
  <1>7. ASSUME NEW p \in Procs, ObserveHTTPRequest(p)
        PROVE  Accounted' /\ mishaps'["client"] = mishaps["client"]
    BY <1>7, ObservedStep DEF ObserveHTTPRequest
  <1>8. ASSUME NEW p \in Procs, LimiterReads(p) \/ LimiterAllows(p)
        PROVE  Accounted' /\ mishaps'["client"] = mishaps["client"]
    BY <1>0, <1>8, PersistedSame DEF LimiterReads, LimiterAllows, pipelineVars
  <1>9. ASSUME NEW a \in Activities, NEW u \in Users, processOrderCreated(a, u)
        PROVE  Accounted' /\ mishaps'["client"] = mishaps["client"]
    BY <1>0, <1>9, PersistedKept DEF processOrderCreated
  <1>10. CASE TimePasses
    BY <1>0, <1>10, PersistedSame DEF TimePasses, pipelineVars
  <1> QED
    BY <1>1, <1>2, <1>3, <1>4, <1>5, <1>6, <1>7, <1>8, <1>9, <1>10 DEF ServerNext

LEMMA AccountedStep == IInv /\ [Next]_vars => Accounted' /\ WaitedFor'
  <1> SUFFICES ASSUME IInv, [Next]_vars PROVE Accounted' /\ WaitedFor'
    OBVIOUS
  <1>w. WaitedFor
    BY DEF IInv
  <1>0. ASSUME UNCHANGED <<req, order, store, events, mishaps>>, Told' = Told
        PROVE  Accounted' /\ WaitedFor'
    <2>1. CountsSame
      BY <1>0, PersistedSame DEF CountsSame
    <2>2. WaitedFor'
      BY <1>0, <1>w DEF WaitedFor, Idle, IsOrder
    <2> QED
      BY <1>0, <2>1, <2>2, StutterStep
  \* A request arrives, or leaves without a 202.
  <1>q. ASSUME NEW p \in Procs, Only(p),
               \A stage \in {"event", "observe", "reply"} : ~In(p, stage) /\ ~In(p, stage)',
               req'[p].stage = "idle" \/ req'[p].client,
               UNCHANGED <<order, store, events, mishaps, results, report>>
        PROVE  Accounted' /\ WaitedFor'
    <2>1. CountsSame
      BY <1>q, SameCounts
    <2>2. Accounted'
      BY <1>q, <2>1, QuietStep
    <2>3. WaitedFor'
      BY <1>q, <1>w DEF WaitedFor, Idle, Only, IsOrder
    <2> QED
      BY <2>2, <2>3
  <1>1. CASE ServerNext /\ UNCHANGED loadVars
    <2>1. Accounted' /\ mishaps'["client"] = mishaps["client"]
      BY <1>1, ServerAccounts DEF loadVars
    <2>2. WaitedFor'
      BY <1>1, <1>w, <2>1, ServerOnward DEF WaitedFor, Onward, Idle, IsOrder
    <2> QED
      BY <2>1, <2>2
  <1>2. ASSUME NEW p \in Procs, NEW route, NEW role, NEW u, NEW a, Arrive(p, route, role, u, a),
               UNCHANGED <<order, store, events, mishaps, results, report>>
        PROVE  Accounted' /\ WaitedFor'
    <2>1. /\ Only(p) /\ Idle(p) /\ req'[p].client
          /\ req'[p].stage \in {"observe", "limit", "handler"}
          /\ req'[p].stage = "observe" => req'[p].status # 202
      BY <1>2, ArriveFields
    <2>2. \A stage \in {"event", "observe", "reply"} : ~In(p, stage) /\ ~In(p, stage)'
      BY <2>1 DEF In, Idle
    <2> QED
      BY <1>2, <1>q, <2>1, <2>2
  <1>3. ASSUME NEW w \in Workers, NEW p \in Procs, SendRequest(w, p)
        PROVE  Accounted' /\ WaitedFor'
    BY <1>2, <1>3 DEF SendRequest, database
  <1>4. ASSUME NEW p \in Procs, VerifyCalls(p) PROVE Accounted' /\ WaitedFor'
    BY <1>2, <1>4 DEF VerifyCalls, database
  <1>5. ASSUME NEW w \in Workers, ReceiveResponse(w) \/ ResponseUnreadable(w)
        PROVE  Accounted' /\ WaitedFor'
    <2>0. PICK p \in Procs : p = job[w].proc
      BY <1>5, ReceivedStatus
    <2>1. Only(p) /\ req'[p].stage = "idle" /\ (UNCHANGED mishaps \/ AnswerLost)
      BY <1>5, <2>0, DropFields DEF ReceiveResponse, ResponseUnreadable
    <2>2. mishaps'["client"] = 0 => mishaps["client"] = 0
      BY <2>1, LostFacts
    <2>3. WaitedFor'
      BY <1>w, <2>1, <2>2 DEF WaitedFor, Only, Idle, IsOrder
    <2> QED
      BY <1>5, <2>3, ReceivedStep
  <1>6. ASSUME NEW w \in Workers, RequestFails(w) PROVE Accounted' /\ WaitedFor'
    <2>0. PICK p \in Procs : p = job[w].proc
      BY <1>6 DEF RequestFails, IInv, JobsOK
    <2>1. Abandon(p) /\ UNCHANGED <<order, store, events>>
      BY <1>6, <2>0 DEF RequestFails, database
    <2>3. PICK k \in {"client", "warmup"} :
              Mishap(k) /\ (k = "warmup" => ~IsOrder(p))
      <3>1. AnswerLost /\ req[p].route \in {Route, "none"}
        BY <1>6, <2>0 DEF RequestFails, IInv, JobsOK
      <3>2. CASE phase = "warmup"
        <4>1. Mishap("warmup") /\ ~IsOrder(p)
          BY <3>1, <3>2 DEF AnswerLost, Route, Reads, IsOrder
        <4> QED
          BY <4>1
      <3>3. CASE phase # "warmup"
        <4>1. Mishap("client")
          BY <3>1, <3>3 DEF AnswerLost
        <4> QED
          BY <4>1
      <3> QED
        BY <3>2, <3>3
    <2>2. Told' = Told
      <3>1. Sample(w, 0, TRUE)
        BY <1>6 DEF RequestFails
      <3>2. 0 \in Statuses \cup {0} /\ TRUE \in BOOLEAN /\ 0 # 202
        OBVIOUS
      <3>3. WithStatus(202)' = WithStatus(202)
        BY <3>1, <3>2, OneMoreSample, ZenonT(60)
      <3> QED
        BY <1>6, <3>3 DEF RequestFails, Told, Reported
    <2> QED
      BY <2>1, <2>2, <2>3, GaveUpStep
  <1>7. CASE VerifyReads \/ VerifyFails
    <2>0. PICK p \in Procs : p = check.proc
      BY <1>7 DEF VerifyReads, VerifyFails, IInv, CheckOK
    <2>1. UNCHANGED <<order, store, events, results, report>>
      BY <1>7 DEF VerifyReads, VerifyFails, database
    <2>2. CASE Mishap("client") /\ Abandon(p)
      BY <2>1, <2>2, GaveUpStep, ToldSame
    <2>3. CASE req[p].stage = "reply" /\ req' = [req EXCEPT ![p] = NoRequest] /\ UNCHANGED mishaps
      <3>1. req[p].route = CheckRoute /\ check \in CheckState /\ RequestOK(req[p], clock)
        BY <1>7, <2>0 DEF VerifyReads, VerifyFails, IInv, CheckOK, LoadOK, RequestsOK
      <3>2. req[p].route # "POST /orders"
        BY <3>1 DEF CheckRoute, CheckState
      <3>3. req[p].status # 202
        BY <2>3, <3>1, <3>2 DEF RequestOK, StatusOK, BodyOK
      <3>4. Only(p) /\ req'[p].stage = "idle"
        BY <2>3, DropFields
      <3>5. \A stage \in {"event", "observe", "reply"} : ~In(p, stage) /\ ~In(p, stage)'
        BY <3>3, <3>4 DEF In
      <3> QED
        BY <1>q, <2>1, <2>3, <3>4, <3>5
    <2> QED
      BY <1>7, <2>0, <2>2, <2>3 DEF VerifyReads, VerifyFails
  <1>8. CASE LoadEnds
    BY <1>0, <1>8, LoadEndsFacts DEF LoadEnds, pipelineVars
  <1>9. CASE Setup \/ WriteReport \/ \E w \in Workers : WorkerReturns(w)
    BY <1>0, <1>9, ToldSame DEF Setup, WriteReport, WorkerReturns, pipelineVars
  <1>10. CASE UNCHANGED vars
    BY <1>0, <1>10, ToldSame DEF vars, loadVars, pipelineVars
  <1> QED
    BY <1>1, <1>3, <1>4, <1>5, <1>6, <1>7, <1>8, <1>9, <1>10 DEF Next

-----------------------------------------------------------------------------
(* The histogram *)

Entry == [count : Nat, sum : Nat, le : [Bins -> Nat]]

\* The sum that the latencies counted in e have.
Total(e) == SumFunctionOnSet([l \in 0..MaxTime |-> l * Exactly(e, l)], 0..MaxTime)

EntryOK(e) == (\A l \in 0..MaxTime : Exactly(e, l) >= 0) /\ e.sum = Total(e)

LEMMA UpToNat ==
  ASSUME NEW e \in Entry, NEW l \in 0..MaxTime
  PROVE  UpTo(e, l) \in Nat /\ Exactly(e, l) \in Int /\ l * Exactly(e, l) \in Int
  <1>1. \A k \in 0..MaxTime : UpTo(e, k) \in Nat
    BY DEF UpTo, Entry
  <1>2. Exactly(e, l) \in Int
    BY <1>1, TokenBucketAssumption DEF Exactly
  <1> QED
    BY <1>1, <1>2

\* One more latency d is one more of exactly d.
LEMMA ObservedExactly ==
  ASSUME NEW e \in Entry, NEW d \in 0..MaxTime, NEW l \in 0..MaxTime
  PROVE  Exactly(Observed(e, d), l) = IF l = d THEN Exactly(e, l) + 1 ELSE Exactly(e, l)
  <1> DEFINE o == Observed(e, d)
  <1>1. o.count = e.count + 1 /\ o.le = [b \in Bins |-> IF d <= b THEN e.le[b] + 1 ELSE e.le[b]]
    BY DEF Observed
  <1>2. ASSUME NEW k \in 0..MaxTime
        PROVE  UpTo(o, k) = IF d <= k THEN UpTo(e, k) + 1 ELSE UpTo(e, k)
    <2> HIDE DEF o
    <2>1. CASE k \in Bins
      BY <1>1, <2>1 DEF UpTo
    <2>2. CASE k \notin Bins
      <3>1. d <= k
        BY <2>2, TokenBucketAssumption DEF Bins
      <3> QED
        BY <1>1, <2>2, <3>1 DEF UpTo
    <2> QED
      BY <2>1, <2>2
  <1> HIDE DEF o
  <1>3. UpTo(e, l) \in Nat
    BY UpToNat
  <1>4. CASE l = 0
    <2>1. 0 \in 0..MaxTime /\ UpTo(e, 0) \in Nat
      BY <1>3, <1>4
    <2>2. UpTo(o, 0) = IF d <= 0 THEN UpTo(e, 0) + 1 ELSE UpTo(e, 0)
      BY <1>2, <2>1
    <2> QED
      BY <1>4, <2>1, <2>2 DEF Exactly, o
  <1>5. CASE l # 0
    <2>1. l - 1 \in 0..MaxTime
      BY <1>5, TokenBucketAssumption
    <2>2. UpTo(e, l - 1) \in Nat
      BY <2>1, UpToNat
    <2>3. /\ UpTo(o, l) = IF d <= l THEN UpTo(e, l) + 1 ELSE UpTo(e, l)
          /\ UpTo(o, l - 1) = IF d <= l - 1 THEN UpTo(e, l - 1) + 1 ELSE UpTo(e, l - 1)
      BY <1>2, <2>1
    <2>4. Exactly(o, l) = UpTo(o, l) - UpTo(o, l - 1)
          /\ Exactly(e, l) = UpTo(e, l) - UpTo(e, l - 1)
      BY <1>5 DEF Exactly
    <2>5. l \in Nat /\ d \in Nat
      BY TokenBucketAssumption
    <2> QED
      BY <1>3, <1>5, <2>2, <2>3, <2>4, <2>5 DEF o
  <1> QED
    BY <1>4, <1>5

\* An observation keeps the histogram, the count and the sum in step.
LEMMA ObservedEntry ==
  ASSUME NEW e \in Entry, EntryOK(e), NEW d \in 0..MaxTime
  PROVE  EntryOK(Observed(e, d))
  <1> DEFINE o == Observed(e, d)
             f == [l \in 0..MaxTime |-> l * Exactly(e, l)]
             g == [l \in 0..MaxTime |-> l * Exactly(o, l)]
  <1>1. o \in Entry /\ o.sum = e.sum + d /\ d \in Nat
    BY ObservedOK, TokenBucketAssumption DEF Entry, Observed
  <1>2. \A l \in 0..MaxTime :
            Exactly(o, l) = IF l = d THEN Exactly(e, l) + 1 ELSE Exactly(e, l)
    BY ObservedExactly
  <1> HIDE DEF o
  <1>3. \A l \in 0..MaxTime : Exactly(e, l) \in Int /\ Exactly(o, l) \in Int
            /\ l * Exactly(e, l) \in Int /\ l * Exactly(o, l) \in Int
    BY <1>1, UpToNat
  <1>4. \A l \in 0..MaxTime : Exactly(o, l) >= 0
    BY <1>2, <1>3 DEF EntryOK
  <1>5. /\ \A l \in 0..MaxTime : f[l] \in Int /\ g[l] \in Int
        /\ \A l \in 0..MaxTime : l # d => g[l] = f[l]
        /\ f[d] = d * Exactly(e, d) /\ g[d] = d * (Exactly(e, d) + 1)
    BY <1>2, <1>3
  <1>6. g[d] - f[d] = d
    <2>1. d * (Exactly(e, d) + 1) = d * Exactly(e, d) + d
      BY <1>1, <1>3
    <2> QED
      BY <1>1, <1>3, <1>5, <2>1
  <1>7. IsFiniteSet(0..MaxTime)
    BY FS_Interval, TokenBucketAssumption
  <1>8. Total(e) = SumFunctionOnSet(f, 0..MaxTime) /\ Total(o) = SumFunctionOnSet(g, 0..MaxTime)
    BY DEF Total
  <1> HIDE DEF f, g
  <1>9. SumFunctionOnSet(g, 0..MaxTime) = SumFunctionOnSet(f, 0..MaxTime) + (g[d] - f[d])
    BY <1>5, <1>7, SumChange
  <1>10. o.sum = Total(o)
    BY <1>1, <1>6, <1>8, <1>9 DEF EntryOK
  <1> QED
    BY <1>4, <1>10 DEF EntryOK, o

LEMMA HistogramEntries == HistogramConsistent <=> \A s \in Statuses : EntryOK(store[s])
  BY DEF HistogramConsistent, EntryOK, Total

LEMMA HistogramStep == IInv /\ [Next]_vars => HistogramConsistent'
  <1> SUFFICES ASSUME IInv, [Next]_vars PROVE HistogramConsistent'
    OBVIOUS
  <1>0. CASE UNCHANGED store
    BY <1>0 DEF IInv, HistogramConsistent
  <1>1. ASSUME NEW p \in Procs, ObserveHTTPRequest(p) PROVE HistogramConsistent'
    <2> DEFINE s == req[p].status
               d == clock - req[p].start
               e == Observed(store[s], d)
    <2>1. RequestOK(req[p], clock) /\ req[p] \in Request /\ req[p].stage = "observe"
      BY <1>1 DEF ObserveHTTPRequest, IInv, RequestsOK
    <2>2. s \in Statuses
      BY <2>1 DEF RequestOK, StatusOK
    <2>3. req[p].start \in Nat /\ req[p].start <= clock
      BY <2>1 DEF RequestOK, RouteOK, Request
    <2>4. d \in 0..MaxTime
      BY <2>3, TokenBucketAssumption DEF IInv, BInv, BucketTypeOK
    <2>5. store \in [Statuses -> Entry] /\ \A t \in Statuses : EntryOK(store[t])
      BY HistogramEntries DEF IInv, DataOK, Entry
    <2>6. EntryOK(e)
      BY <2>2, <2>4, <2>5, ObservedEntry
    <2>7. store' = store \/ store' = [store EXCEPT ![s] = e]
      BY <1>1 DEF ObserveHTTPRequest
    <2> HIDE DEF s, d, e
    <2>8. \A t \in Statuses : EntryOK(store'[t])
      BY <2>2, <2>5, <2>6, <2>7
    <2> QED
      BY <2>8 DEF HistogramConsistent, EntryOK, Total
  <1>2. UNCHANGED store \/ \E p \in Procs : ObserveHTTPRequest(p)
    BY DataChanges DEF CreateOrder, CreateOrderCommitLost, CreateOrderFails, ReadHandlerFails,
        IncBusinessEvent, processOrderCreated, ResponseUnreadable, RequestFails, VerifyFails
  <1> QED
    BY <1>0, <1>1, <1>2

-----------------------------------------------------------------------------
(* The invariant *)

LEMMA InitIInv == Init => IInv
  <1> SUFFICES ASSUME Init PROVE IInv
    OBVIOUS
  <1> USE DEF Init, PipelineInit
  <1>1. BInv
    BY InitBInv
  <1>2. DataOK
    <2>1. Stock0 \in [Activities -> Nat]
      BY RequestPipelineAssumption
    <2>2. \A s \in Statuses : [count |-> 0, sum |-> 0, le |-> [b \in Bins |-> 0]] \in Entry
      BY DEF Entry
    <2>3. store \in [Statuses -> Entry]
      BY <2>2
    <2> QED
      BY <2>1, <2>3 DEF DataOK, Entry, Rows
  <1>3. RequestsOK
    <2>1. \A p \in Procs : req[p] = NoRequest
      OBVIOUS
    <2>2. RequestOK(NoRequest, clock)
      BY <1>1, ClockNat, NoRequestOK
    <2> QED
      BY <2>1, <2>2 DEF RequestsOK, RequestOK
  <1>4. LoadOK
    <2>1. check \in CheckState /\ check.of = <<"duplicate", 0>>
      BY FirstActivities, NewCheckOK
    <2>2. job \in [Workers -> JobState]
      BY NoJobOK
    <2>3. DOMAIN report = Loads /\ \A l \in Loads : report[l].accepted = 0
      BY DEF NoReport
    <2> QED
      BY <2>1, <2>2, <2>3 DEF LoadOK, WritesOK
  <1>5. JobsOK
    BY NoJobOK DEF JobsOK
  <1>6. CheckOK
    BY DEF CheckOK, Verifying
  <1>7. WithStatus(202) = 0 /\ Told = 0 /\ \A l \in Loads : report[l].accepted = 0
    <2>1. WithStatus(202) = 0
      BY NoSamples
    <2>2. \A l \in Loads : report[l].accepted = 0
      BY DEF NoReport
    <2> QED
      BY <2>1, <2>2 DEF Told, Reported, Loads
  <1>8. ReportsOK
    BY <1>7 DEF ReportsOK, Verifying, Loads
  <1>9. WaitedFor
    BY DEF WaitedFor, Idle, NoRequest
  <1>10. Accounted
    <2>1. ASSUME NEW stage \in {"event", "observe", "reply"}
          PROVE  Cardinality(Under(stage)) = 0
      <3>1. Under(stage) = {}
        BY DEF Under, NoRequest
      <3> QED
        BY <3>1, FS_EmptySet
    <2>2. Persisted = 0
      <3> DEFINE f == [a \in Activities |-> Cardinality(Orders(a, {"QUEUED", "WAIT_PAY"}))]
      <3>1. \A a \in Activities : f[a] = 0
        <4>1. \A a \in Activities : Orders(a, {"QUEUED", "WAIT_PAY"}) = {}
          BY DEF Orders
        <4> QED
          BY <4>1, FS_EmptySet
      <3>2. Persisted = SumFunctionOnSet(f, Activities)
        BY DEF Persisted
      <3> HIDE DEF f
      <3> QED
        BY <3>1, <3>2, SumZero, RequestPipelineAssumption
    <2>3. store[202].count = 0 /\ events["accepted"] = 0
          /\ mishaps["commit"] = 0 /\ mishaps["client"] = 0
      BY DEF Statuses, Results, MishapKinds
    <2> QED
      BY <1>7, <2>1, <2>2, <2>3 DEF Accounted
  <1>11. HistogramConsistent
    <2> SUFFICES ASSUME NEW s \in Statuses PROVE EntryOK(store[s])
      BY HistogramEntries
    <2> DEFINE e == store[s]
               f == [l \in 0..MaxTime |-> l * Exactly(e, l)]
    <2>1. e.count = 0 /\ e.sum = 0 /\ e.le = [b \in Bins |-> 0]
      OBVIOUS
    <2> HIDE DEF e
    <2>2. \A l \in 0..MaxTime : UpTo(e, l) = 0
      BY <2>1 DEF UpTo
    <2>3. \A l \in 0..MaxTime : Exactly(e, l) = 0
      BY <2>2, TokenBucketAssumption DEF Exactly
    <2>4. \A l \in 0..MaxTime : f[l] = 0
      BY <2>3
    <2>5. Total(e) = SumFunctionOnSet(f, 0..MaxTime)
      BY DEF Total
    <2>6. IsFiniteSet(0..MaxTime)
      BY FS_Interval, TokenBucketAssumption
    <2> HIDE DEF f
    <2>7. Total(e) = 0
      BY <2>4, <2>5, <2>6, SumZero
    <2> QED
      BY <2>1, <2>3, <2>7 DEF EntryOK, e
  <1> QED
    BY <1>1, <1>2, <1>3, <1>4, <1>5, <1>6, <1>8, <1>9, <1>10, <1>11 DEF IInv

LEMMA NextIInv == IInv /\ [Next]_vars => IInv'
  <1> SUFFICES ASSUME IInv, [Next]_vars PROVE IInv'
    OBVIOUS
  <1>1. BInv'
    BY BucketPart, NextBInv DEF IInv
  <1> QED
    BY <1>1, DataStep, RequestsStep, LoadStep, JobsStep, CheckStep, ReportsStep,
       AccountedStep, HistogramStep DEF IInv

\* The inductive invariant holds.
THEOREM IInvHolds == Spec => []IInv
  BY InitIInv, NextIInv, PTL DEF Spec

\* Every variable has its type, for any number of workers, users and activities,
\* any plan and any clock.
THEOREM TypeCorrect == Spec => []TypeOK
  <1>1. IInv => TypeOK
    BY DEF IInv, BInv, DataOK, RequestsOK, Request, Stages, LoadOK, JobState, TypeOK, Rows
  <1> QED
    BY <1>1, IInvHolds, PTL

\* With no order under way and without a mishap clients were told what is stored.
LEMMA AllTold ==
  ASSUME IInv, \A p \in Procs : Idle(p) \/ ~IsOrder(p), Clean
  PROVE  Told = Persisted
  <1>1. ASSUME NEW stage \in {"event", "observe", "reply"}
        PROVE  Cardinality(Under(stage)) = 0
    <2>1. ASSUME NEW p \in Procs, req[p].stage = stage, req[p].status = 202 PROVE FALSE
      <3>1. RequestOK(req[p], clock) /\ ~Idle(p)
        BY <2>1 DEF IInv, RequestsOK, Idle
      <3>2. IsOrder(p)
        BY <2>1, <3>1 DEF RequestOK, RouteOK, StatusOK, BodyOK, IsOrder
      <3> QED
        BY <3>1, <3>2
    <2>2. Under(stage) = {}
      BY <2>1 DEF Under
    <2> QED
      BY <2>2, FS_EmptySet
  <1>2. Accounted
    BY DEF IInv
  <1>3. mishaps["commit"] = 0 /\ mishaps["client"] = 0
    BY DEF Clean, MishapKinds
  <1> QED
    BY <1>1, <1>2, <1>3, Numbers DEF Accounted

\* What a client was told is in the metrics, what the metrics count as answered
\* they count as accepted, and that is in the database; when no request is under
\* way and nothing failed, clients, metrics and database agree.
THEOREM AcceptedIsAccountedHolds == Spec => []AcceptedIsAccounted
  <1>1. ASSUME IInv PROVE AcceptedIsAccounted
    <2>1. Sampled(202) = WithStatus(202)
      BY <1>1 DEF Sampled, Reads, IInv, ReportsOK
    <2>2. Accounted
      BY <1>1 DEF IInv
    <2>3. Told = Reported + Sampled(202)
      BY <2>1 DEF Told
    <2>4. Told <= store[202].count /\ store[202].count <= events["accepted"]
          /\ events["accepted"] <= Persisted
      BY <2>2, Numbers, <1>1 DEF Accounted
    <2> QED
      BY <1>1, <2>3, <2>4, AllTold DEF AcceptedIsAccounted
  <1> QED
    BY <1>1, IInvHolds, PTL

\* Whatever is observed when, the histogram, the count and the sum of the
\* metrics are those of one set of latencies.
THEOREM HistogramConsistentHolds == Spec => []HistogramConsistent
  <1>1. IInv => HistogramConsistent
    BY DEF IInv
  <1> QED
    BY <1>1, IInvHolds, PTL
-----------------------------------------------------------------------------
(* What a report of success, and one of failure, rest on *)

\* The loads that create orders, and what each of them asks for.
Sales == {"duplicate", "stock", "write"}

\* The user and the activity of request i of load l (see Target).
Aim(l, i) ==
    CASE l = "duplicate" -> <<1, <<"duplicate", 0>>>>
      [] l = "stock" -> <<i + 1, <<"stock", 0>>>>
      [] l = "write" -> <<(i % batchSize) + 1, <<"write", i \div batchSize>>>>

\* How many requests load l makes.
Planned(l) ==
    CASE l = "duplicate" -> Duplicates [] l = "stock" -> UserCount [] l = "write" -> plan.writes

\* Load l has not begun.
Ahead(l) ==
    CASE l = "duplicate" -> phase \in {"setup", "aborted"}
      [] l = "stock" -> phase \in {"setup", "aborted", "duplicate"}
      [] l = "write" -> \/ phase \in {"setup", "aborted", "duplicate", "stock"}
                        \/ Verifying /\ check.of[1] # "write"

\* Load l is over.
Over(l) == phase # l /\ ~Ahead(l)

\* Activity a was verified.
Settled(a) ==
    CASE a[1] = "duplicate" -> \/ Verifying /\ check.of[1] # "duplicate"
                               \/ phase \in {"write", "warmup", "query", "report", "done"}
      [] a[1] = "stock" -> \/ Verifying /\ check.of[1] = "write"
                           \/ phase \in {"write", "warmup", "query", "report", "done"}
      [] a[1] = "write" -> plan.writes > 0 /\ \/ Verifying /\ check.of[1] = "write" /\ a[2] < check.of[2]
                                              \/ phase \in {"warmup", "query", "report", "done"}

\* How many requests of load l were sent.
Sent(l) == IF phase = l THEN next ELSE IF Ahead(l) THEN 0 ELSE Planned(l)

\* Goroutine p serves a request for an order.
Ordering(p) == ~Idle(p) /\ req[p].route = "POST /orders"

\* The request for a to u is one of those that were sent.
Asked(a, u) == \E i \in 0..(Sent(a[1]) - 1) : Aim(a[1], i) = <<u, a>>

\* No connection broke and no timeout of the client was over.
NoClientGaveUp == mishaps["client"] = 0

\* Units and the copy in Redis.
Units ==
    /\ \A a \in Activities : /\ stock[a] + Cardinality(Rowed(a)) = Initial(a)
                             /\ stock[a] <= cache[a] /\ cache[a] <= Initial(a)
    /\ mishaps["commit"] = 0 <=> \A a \in Activities : cache[a] = stock[a]

\* Orders and requests for orders come from the loads.
FromLoads ==
    /\ \A a \in Activities : \A u \in Rowed(a) : Asked(a, u)
    /\ \A p \in Procs : Ordering(p) => Asked(req[p].activity, req[p].user)

\* The counter of a load, its end, and that nothing of it is left afterwards.
Progress ==
    /\ phase \in Sales => next <= Count
    /\ \A w \in Workers : job[w].at = "returned" /\ phase \in Sales => next >= Count
    /\ ~Loading => next = 0 /\ results = <<>> /\ \A w \in Workers : job[w] = NoJob

\* Somebody waits for a request that has a client.
Waiting(p) ==
    \/ \E w \in Workers : job[w].at = "waiting" /\ job[w].proc = p
    \/ Verifying /\ check.proc = p

\* A client waits for every request that still has one.
Clients == \A p \in Procs : req[p].client => Waiting(p)

\* Orders are asked for by the load that runs.
OfThisLoad ==
    NoClientGaveUp => \A p \in Procs : Ordering(p) => phase \in Sales /\ req[p].activity[1] = phase

\* The call of verify is about the activity it verifies.
CallOfCheck ==
    Verifying /\ check.proc # "none" => req[check.proc].activity = check.of

\* No report of a load before its end.
Unreported ==
    /\ \A l \in Sales : Ahead(l) \/ phase = l => report[l] = NoReport
    /\ phase \notin {"report", "done"} => report["query"] = NoReport
    /\ plan.writes = 0 => report["write"] = NoReport

\* What an earlier answer still says of the rows of a.
Older(rows, a) ==
    \A u \in Users : /\ rows[u] = "none" <=> order[a][u] = "none"
                     /\ rows[u] = "WAIT_PAY" => order[a][u] = "WAIT_PAY"

\* The answer to this call of verify was 200; it is there or on its way.
Fetched(at) ==
    /\ check.at = at /\ check.proc # "none"
    /\ req[check.proc].stage \in {"observe", "reply"} /\ req[check.proc].status = 200

\* What verify has read still holds when it compares it.
Readings ==
    Verifying /\ NoClientGaveUp =>
        LET a == check.of
            body == req[check.proc].body
        IN  /\ Fetched("orders") => Older(body.rows, a)
            /\ check.at # "orders" => Older(check.rows, a)
            /\ Fetched("reconcile") => body.matches = (cache[a] = stock[a])
            /\ check.at = "activities" => check.matches = (cache[a] = stock[a])
            /\ Fetched("activities") => body.stock = stock[a]

\* What was verified stays as it was found.
Verified ==
    NoClientGaveUp /\ errors = {} =>
        \A a \in Activities : Settled(a) =>
            /\ Orders(a, {"QUEUED"}) = {}
            /\ Cardinality(Rowed(a)) = Accepted(a)
            /\ cache[a] = stock[a]

\* A client that gave up shows in what is reported, or will.
Traces ==
    ~NoClientGaveUp => \/ errors # {}
                       \/ phase # "warmup" /\ \E i \in DOMAIN results : results[i].failed
                       \/ \E l \in Loads : report[l].errors > 0

\* A report without errors passed the checks on the reports.
Judged == phase = "done" /\ errors = {} => ReportErrors = {}

-----------------------------------------------------------------------------
(* Constants *)

\* The stocks the activities are created with.
LEMMA InitialStocks ==
  /\ Initial(<<"duplicate", 0>>) = 5
  /\ Initial(<<"stock", 0>>) = Stock
  /\ \A b : <<"write", b>> \in Activities =>
         Initial(<<"write", b>>) = BatchStock(Writes, b)
  BY FirstActivities, LoadTestAssumption DEF Initial, InitialStock

\* The activity of a load, and the batch.
LEMMA ActivityLoads ==
  ASSUME NEW a \in Activities
  PROVE  /\ a[1] \in Sales
         /\ a[1] = "duplicate" => a = <<"duplicate", 0>>
         /\ a[1] = "stock" => a = <<"stock", 0>>
         /\ a[1] = "write" => a[2] \in 0..(Batches(Writes) - 1) /\ a = <<"write", a[2]>>
  <1>1. a \in ActivityIDs
    BY LoadTestAssumption
  <1> QED
    BY <1>1 DEF ActivityIDs, Sales

\* Request i is the one for place i % b of batch i \div b.
LEMMA Division ==
  ASSUME NEW b \in Nat, b >= 1, NEW i \in Nat
  PROVE  /\ i \div b \in Nat /\ i % b \in 0..(b - 1)
         /\ i = b * (i \div b) + (i % b)
  BY Z3

\* Quotient and remainder are unique.
LEMMA DivisionUnique ==
  ASSUME NEW b \in Nat, b >= 1, NEW q \in Nat, NEW r \in 0..(b - 1), NEW i \in Nat,
         i = q * b + r
  PROVE  i \div b = q /\ i % b = r
  BY Z3

\* A batch that has activities begins before the last write.
LEMMA BatchBegins ==
  ASSUME NEW b \in Nat, b >= 1, NEW n \in Nat, NEW q \in 0..(((n + b - 1) \div b) - 1)
  PROVE  q \in Nat /\ q * b < n
  BY Z3

\* The place of a write is one of its batch.
LEMMA BatchPlaces ==
  ASSUME NEW i \in 0..(Writes - 1)
  PROVE  /\ i \div batchSize \in 0..(Batches(Writes) - 1)
         /\ (i % batchSize) + 1 \in 1..BatchStock(Writes, i \div batchSize)
  <1>1. batchSize \in Nat /\ batchSize >= 1 /\ Writes \in Nat /\ i \in Nat /\ i < Writes
    BY BatchSize, LoadTestAssumption
  <1> DEFINE s == batchSize
             q == i \div s
             r == i % s
  <1>2. q \in Nat /\ r \in 0..(s - 1) /\ i = s * q + r
    BY <1>1, Division
  <1>3. q \in 0..(Batches(Writes) - 1)
    BY <1>1, BatchOf DEF Batches
  <1>4. r + 1 <= Writes - s * q
    <2> HIDE DEF s, q, r
    <2>1. s * q \in Int
      BY <1>1, <1>2 DEF s
    <2> QED
      BY <1>1, <1>2, <2>1
  <1>5. q * s = s * q
    <2> HIDE DEF s, q
    <2> QED
      BY <1>1, <1>2 DEF s
  <1>6. r + 1 \in 1..AtMost(s, Writes - q * s)
    <2> DEFINE left == Writes - q * s
    <2>1. left \in Int /\ r + 1 <= left
      <3> HIDE DEF s, q, r
      <3>1. q * s \in Int
        BY <1>1, <1>2 DEF s
      <3> QED
        BY <1>1, <1>4, <1>5, <3>1
    <2> HIDE DEF left, r, q
    <2> QED
      BY <1>1, <1>2, <2>1 DEF AtMost, left
  <1> QED
    BY <1>3, <1>6 DEF BatchStock

\* Every batch has a place, and every place is asked for.
LEMMA PlacesOf ==
  ASSUME NEW b \in 0..(Batches(Writes) - 1)
  PROVE  /\ BatchStock(Writes, b) \in Nat /\ BatchStock(Writes, b) >= 1
         /\ \A u \in 1..BatchStock(Writes, b) :
                \E i \in 0..(Writes - 1) : Aim("write", i) = <<u, <<"write", b>>>>
  <1>1. batchSize \in Nat /\ batchSize >= 1 /\ Writes \in Nat
    BY BatchSize, LoadTestAssumption
  <1>2. b \in Nat /\ b * batchSize < Writes
    BY <1>1, BatchBegins DEF Batches
  <1> DEFINE s == batchSize
             m == b * s
             n == AtMost(s, Writes - m)
  <1>3. m \in Nat
    BY <1>1, <1>2
  <1> HIDE DEF m
  <1>4. n \in Nat /\ n >= 1 /\ n <= s /\ n <= Writes - m
    BY <1>1, <1>2, <1>3 DEF AtMost, m
  <1>5. ASSUME NEW u \in 1..n
        PROVE  \E i \in 0..(Writes - 1) : Aim("write", i) = <<u, <<"write", b>>>>
    <2> DEFINE r == u - 1
               i == m + r
    <2> HIDE DEF n, s
    <2>1. r \in 0..(s - 1) /\ r + 1 = u
      BY <1>4, <1>1 DEF s
    <2>2. i \in 0..(Writes - 1)
      BY <1>1, <1>3, <1>4
    <2>3. i = b * s + r /\ s \in Nat /\ s >= 1
      BY <1>1 DEF m, s
    <2> HIDE DEF i, r
    <2> HIDE DEF m
    <2>n. i \in Nat /\ b \in Nat
      BY <1>1, <1>2, <2>2
    <2>4. i \div s = b /\ i % s = r
      BY <2>n, <2>1, <2>3, DivisionUnique
    <2>5. Aim("write", i) = <<u, <<"write", b>>>>
      BY <2>1, <2>4 DEF Aim, s
    <2> QED
      BY <2>2, <2>5
  <1> QED
    BY <1>4, <1>5 DEF BatchStock, n, m

-----------------------------------------------------------------------------
(* What happens to one request *)

\* The steps that are about request p.
About(p) ==
    \/ LimiterReturns(p)
    \/ CreateOrder(p) \/ CreateOrderCommitLost(p) \/ CreateOrderFails(p)
    \/ ReadHandler(p) \/ ReadHandlerFails(p)
    \/ IncBusinessEvent(p) \/ ObserveHTTPRequest(p)
    \/ VerifyCalls(p) \/ \E w \in Workers : SendRequest(w, p)
    \/ \E w \in Workers : job[w].proc = p /\ (ReceiveResponse(w) \/ ResponseUnreadable(w) \/ RequestFails(w))
    \/ check.proc = p /\ (VerifyReads \/ VerifyFails)

\* A request arrives, is worked on, is answered or loses its client.
Arrives(p) ==
    /\ Idle(p) /\ req'[p].client /\ req'[p].stage \in {"limit", "handler"}
    /\ \/ VerifyCalls(p) /\ req'[p].route = CheckRoute /\ req'[p].activity = check.of
       \/ /\ \E w \in Workers : SendRequest(w, p)
          /\ req'[p].route = Route
          /\ req'[p].user = Target(next)[1] /\ req'[p].activity = Target(next)[2]

\* The request of p stays the same one.
SameRequest(p) ==
    /\ req'[p].route = req[p].route /\ req'[p].user = req[p].user
    /\ req'[p].activity = req[p].activity

\* Work on the request of p goes on.
Proceeds(p) ==
    /\ ~Idle(p) /\ req'[p].stage # "idle" /\ SameRequest(p)
    /\ req'[p].client = req[p].client

\* Nothing is left of the request of p.
Ends(p) == req'[p] = NoRequest

\* A client gives up on p, in the warm-up or elsewhere.
GivenUp(p) == Mishap("client") \/ (Mishap("warmup") /\ ~IsOrder(p))

\* Nobody waits for the request of p any more.
LosesClient(p) ==
    /\ SameRequest(p) /\ ~req'[p].client /\ GivenUp(p)
    /\ req'[p].stage = req[p].stage /\ req'[p].status = req[p].status
    /\ req'[p].event = req[p].event

\* In the warm-up no order is placed.
LEMMA FailureGivesUp ==
  ASSUME IInv, NEW w \in Workers, RequestFails(w)
  PROVE  GivenUp(job[w].proc)
  <1>1. AnswerLost /\ req[job[w].proc].route \in {Route, "none"}
    BY DEF RequestFails, IInv, JobsOK
  <1>2. CASE phase = "warmup"
    <2>1. ~IsOrder(job[w].proc)
      BY <1>1, <1>2 DEF Route, Reads, IsOrder
    <2>2. Mishap("warmup")
      BY <1>1, <1>2 DEF AnswerLost
    <2> QED
      BY <2>1, <2>2 DEF GivenUp
  <1>3. CASE phase # "warmup"
    BY <1>1, <1>3 DEF AnswerLost, GivenUp
  <1> QED
    BY <1>2, <1>3

\* What the order handler does is answered.
LEMMA AnsweringSteps ==
  ASSUME NEW p \in Procs, CreateOrder(p) \/ CreateOrderCommitLost(p) \/ CreateOrderFails(p)
  PROVE  Creating(p) /\ \E s, e : Answer(p, s, e)
  BY DEF CreateOrder, CreateOrderCommitLost, CreateOrderFails, Fail, PersistOrder

\* The load generator may call what it calls.
LEMMA ArrivalsAllowed ==
  /\ AuthStatus(Route, "USER") = 0
  /\ check \in CheckState => AuthStatus(CheckRoute, "ADMIN") = 0
  BY DEF AuthStatus, Access, Route, CheckRoute, CheckState

\* A step changes the request of q only if it is about q.
LEMMA OneRequest ==
  ASSUME IInv, [Next]_vars, NEW q \in Procs
  PROVE  req'[q] = req[q] \/ About(q)
  <1> DEFINE Goal == req'[q] = req[q] \/ About(q)
  <1>o. ASSUME NEW p \in Procs, Only(p), About(p) PROVE Goal
    BY <1>o DEF Only
  <1>1. ASSUME NEW p \in Procs, LimiterReturns(p) PROVE Goal
    BY <1>1, <1>o, StepFields, AnswerFields DEF LimiterReturns, About
  <1>2. ASSUME NEW p \in Procs,
               CreateOrder(p) \/ CreateOrderCommitLost(p) \/ CreateOrderFails(p)
        PROVE  Goal
    <2>1. Only(p)
      BY <1>2, AnsweringSteps, AnswerFields
    <2> QED
      BY <1>2, <1>o, <2>1 DEF About
  <1>3. ASSUME NEW p \in Procs, ReadHandler(p) \/ ReadHandlerFails(p) PROVE Goal
    BY <1>3, <1>o, ReadFields DEF About
  <1>4. ASSUME NEW p \in Procs, IncBusinessEvent(p) PROVE Goal
    BY <1>4, <1>o, StepFields DEF IncBusinessEvent, About
  <1>5. ASSUME NEW p \in Procs, ObserveHTTPRequest(p) PROVE Goal
    <2>1. Only(p)
      BY <1>5, StepFields, DropFields DEF ObserveHTTPRequest
    <2> QED
      BY <1>5, <1>o, <2>1 DEF About
  <1>6. ASSUME NEW p \in Procs, VerifyCalls(p) PROVE Goal
    <2>1. Only(p)
      BY <1>6, ArriveFields DEF VerifyCalls
    <2> QED
      BY <1>6, <1>o, <2>1 DEF About
  <1>7. ASSUME NEW w \in Workers, NEW p \in Procs, SendRequest(w, p) PROVE Goal
    <2>1. Only(p)
      BY <1>7, ArriveFields DEF SendRequest
    <2> QED
      BY <1>7, <1>o, <2>1 DEF About
  <1>8. ASSUME NEW w \in Workers, ReceiveResponse(w) \/ ResponseUnreadable(w) \/ RequestFails(w) PROVE Goal
    <2>1. job[w].proc \in Procs
      BY <1>8 DEF ReceiveResponse, ResponseUnreadable, RequestFails, IInv, JobsOK
    <2>2. Only(job[w].proc)
      BY <1>8, <2>1, DropFields, AbandonFields DEF ReceiveResponse, ResponseUnreadable, RequestFails
    <2> QED
      BY <1>8, <1>o, <2>1, <2>2 DEF About
  <1>9. CASE VerifyReads \/ VerifyFails
    <2>1. check.proc \in Procs
      BY <1>9 DEF VerifyReads, VerifyFails, IInv, CheckOK
    <2>2. Only(check.proc)
      BY <1>9, <2>1, DropFields, AbandonFields DEF VerifyReads, VerifyFails
    <2> QED
      BY <1>9, <1>o, <2>1, <2>2 DEF About
  <1> QED
    BY <1>1, <1>2, <1>3, <1>4, <1>5, <1>6, <1>7, <1>8, <1>9, RequestChanges

\* What a step does to the request it is about.
LEMMA Fate ==
  ASSUME IInv, NEW p \in Procs, About(p)
  PROVE  Arrives(p) \/ Proceeds(p) \/ Ends(p) \/ LosesClient(p)
  <1> DEFINE Goal == Arrives(p) \/ Proceeds(p) \/ Ends(p) \/ LosesClient(p)
  <1>1. CASE LimiterReturns(p)
    <2>1. ~Idle(p)
      BY <1>1 DEF LimiterReturns, Idle
    <2> QED
      BY <1>1, <2>1, StepFields, AnswerFields DEF LimiterReturns, Proceeds, SameRequest
  <1>2. CASE CreateOrder(p) \/ CreateOrderCommitLost(p) \/ CreateOrderFails(p)
    <2>1. ~Idle(p) /\ \E s, e : Answer(p, s, e)
      BY <1>2, AnsweringSteps DEF Creating, Idle
    <2> QED
      BY <2>1, AnswerFields DEF Proceeds, SameRequest
  <1>3. CASE ReadHandler(p) \/ ReadHandlerFails(p)
    BY <1>3, ReadFields DEF Proceeds, SameRequest, Idle
  <1>4. CASE IncBusinessEvent(p)
    BY <1>4, StepFields DEF IncBusinessEvent, Proceeds, SameRequest, Idle
  <1>5. CASE ObserveHTTPRequest(p)
    <2>0. ~Idle(p)
      BY <1>5 DEF ObserveHTTPRequest, Idle
    <2>1. CASE Step(p, "reply")
      BY <2>0, <2>1, StepFields DEF Proceeds, SameRequest
    <2>2. CASE req' = [req EXCEPT ![p] = NoRequest]
      BY <2>2, DropFields DEF Ends
    <2> QED
      BY <1>5, <2>1, <2>2 DEF ObserveHTTPRequest
  <1>6. CASE VerifyCalls(p)
    <2>1. Arrive(p, CheckRoute, "ADMIN", "none", check.of) /\ AuthStatus(CheckRoute, "ADMIN") = 0
      BY <1>6, ArrivalsAllowed DEF VerifyCalls, IInv, LoadOK
    <2> QED
      BY <1>6, <2>1, ArriveFields DEF Arrives
  <1>7. ASSUME NEW w \in Workers, SendRequest(w, p) PROVE Goal
    <2>1. Arrive(p, Route, "USER", Target(next)[1], Target(next)[2]) /\ AuthStatus(Route, "USER") = 0
      BY <1>7, ArrivalsAllowed DEF SendRequest
    <2> QED
      BY <1>7, <2>1, ArriveFields DEF Arrives
  <1>8. ASSUME NEW w \in Workers, job[w].proc = p, ReceiveResponse(w) \/ ResponseUnreadable(w) \/ RequestFails(w) PROVE Goal
    <2>1. CASE ReceiveResponse(w) \/ ResponseUnreadable(w)
      BY <1>8, <2>1, DropFields DEF ReceiveResponse, ResponseUnreadable, Ends
    <2>2. CASE RequestFails(w)
      BY <1>8, <2>2, AbandonFields, FailureGivesUp DEF RequestFails, Ends, LosesClient, SameRequest
    <2> QED
      BY <1>8, <2>1, <2>2
  <1>9. CASE check.proc = p /\ (VerifyReads \/ VerifyFails)
    BY <1>9, DropFields, AbandonFields
       DEF VerifyReads, VerifyFails, Ends, LosesClient, GivenUp, SameRequest
  <1> QED
    BY <1>1, <1>2, <1>3, <1>4, <1>5, <1>6, <1>7, <1>8, <1>9 DEF About

-----------------------------------------------------------------------------
(* What never comes back *)

\* The counters of mishaps never fall.
LEMMA MishapsGrow ==
  ASSUME IInv, [Next]_vars, NEW k \in MishapKinds
  PROVE  mishaps'[k] \in Nat /\ mishaps'[k] >= mishaps[k]
  <1>1. \A j \in MishapKinds : mishaps[j] \in Nat
    BY DEF IInv, DataOK
  <1>2. ASSUME NEW j \in MishapKinds, Mishap(j) PROVE mishaps'[k] \in Nat /\ mishaps'[k] >= mishaps[k]
    <2>1. mishaps'[k] = mishaps[k] + 1 \/ mishaps'[k] = mishaps[k]
      BY <1>2, MishapFacts
    <2> QED
      BY <1>1, <2>1
  <1>3. UNCHANGED mishaps \/ \E j \in MishapKinds : Mishap(j)
    BY DataChanges DEF CreateOrder, CreateOrderCommitLost, CreateOrderFails, ReadHandlerFails,
        IncBusinessEvent, ObserveHTTPRequest, processOrderCreated, ResponseUnreadable, RequestFails, VerifyFails,
        AnswerLost, MishapKinds
  <1> QED
    BY <1>1, <1>2, <1>3

\* Where there was no mishap there was none before.
LEMMA NoMishapBefore ==
  ASSUME IInv, [Next]_vars
  PROVE  /\ \A k \in MishapKinds : mishaps'[k] = 0 => mishaps[k] = 0
         /\ Clean' => Clean
         /\ NoClientGaveUp' => NoClientGaveUp
         /\ Clean => NoClientGaveUp /\ mishaps["commit"] = 0 /\ mishaps["database"] = 0
  <1>1. \A k \in MishapKinds : mishaps'[k] = 0 => mishaps[k] = 0
    <2> TAKE k \in MishapKinds
    <2>1. mishaps'[k] >= mishaps[k] /\ mishaps[k] \in Nat
      BY MishapsGrow DEF IInv, DataOK
    <2> QED
      BY <2>1
  <1> QED
    BY <1>1 DEF Clean, NoClientGaveUp, MishapKinds

\* A mishap is not clean.
LEMMA MishapShows ==
  ASSUME IInv, NEW k \in MishapKinds, Mishap(k)
  PROVE  mishaps'[k] # 0 /\ ~Clean'
  <1>1. mishaps'[k] = mishaps[k] + 1 /\ mishaps[k] \in Nat
    BY MishapFacts DEF IInv, DataOK
  <1> QED
    BY <1>1 DEF Clean

\* Errors of the verification stay.
LEMMA ErrorsGrow ==
  ASSUME [Next]_vars
  PROVE  errors \subseteq errors'
  <1>1. ASSUME NEW kind, VerifyReturns(kind) PROVE errors \subseteq errors'
    BY <1>1 DEF VerifyReturns
  <1>2. UNCHANGED errors \/ (\E kind : VerifyReturns(kind)) \/ WriteReport
    BY LoadChanges DEF loadVars, SendRequest, WorkerReturns, ReceiveResponse, ResponseUnreadable, RequestFails,
       VerifyCalls, LoadEnds, VerifyReads, VerifyFails, Setup
  <1> QED
    BY <1>1, <1>2 DEF WriteReport

-----------------------------------------------------------------------------
(* How far the loads have come *)

\* Where execute goes when verify returns.
LEMMA AfterVerifyMoves ==
  ASSUME IInv, Verifying, NEW errs, AfterVerify(errs)
  PROVE  \/ /\ check.of[1] = "duplicate"
            /\ phase' = "verify" /\ check' = NewCheck(<<"stock", 0>>)
         \/ /\ check.of[1] = "stock" /\ plan.writes > 0
            /\ phase' = "write" /\ check' = check
         \/ /\ check.of[1] = "stock" /\ plan.writes = 0
            /\ phase' \in {"warmup", "report"} /\ check' = check
         \/ /\ check.of[1] = "write" /\ check.of[2] + 1 < Batches(plan.writes)
            /\ phase' = "verify" /\ check' = NewCheck(<<"write", check.of[2] + 1>>)
         \/ /\ check.of[1] = "write" /\ ~(check.of[2] + 1 < Batches(plan.writes))
            /\ phase' \in {"warmup", "report"} /\ check' = check
  <1> DEFINE query == IF \E e \in errs : e[2] = "duplicate" THEN "report" ELSE "warmup"
  <1>1. check.of \in Activities /\ plan \in Plans
    BY DEF IInv, LoadOK, CheckState, DataOK
  <1>2. check.of[1] \in Sales
    BY <1>1, ActivityLoads
  <1>3. plan.writes \in Nat /\ query \in {"warmup", "report"}
    BY <1>1, RequestPipelineAssumption
  <1>4. CASE check.of[1] = "duplicate"
    BY <1>4 DEF AfterVerify
  <1>5. CASE check.of[1] = "stock"
    <2>1. phase' = (IF plan.writes > 0 THEN "write" ELSE query) /\ check' = check
      BY <1>5 DEF AfterVerify
    <2> HIDE DEF query
    <2> QED
      BY <1>3, <1>5, <2>1
  <1>6. CASE check.of[1] = "write"
    <2>1. CASE check.of[2] + 1 < Batches(plan.writes)
      BY <1>6, <2>1 DEF AfterVerify
    <2>2. CASE ~(check.of[2] + 1 < Batches(plan.writes))
      <3>1. phase' = query /\ check' = check
        BY <1>6, <2>2 DEF AfterVerify
      <3> HIDE DEF query
      <3> QED
        BY <1>3, <1>6, <2>2, <3>1
    <2> QED
      BY <2>1, <2>2
  <1> QED
    BY <1>2, <1>4, <1>5, <1>6 DEF Sales

\* The steps of verify: the next call, or the way on.
LEMMA VerifyMoves ==
  ASSUME IInv, VerifyReads \/ VerifyFails
  PROVE  /\ Verifying /\ UNCHANGED <<plan, next, job, results, report>>
         /\ \/ phase' = phase /\ check'.of = check.of /\ check'.proc = "none"
            \/ \E errs : AfterVerify(errs)
  BY VerifyReadsFacts, ReturnsFacts DEF VerifyReads, VerifyFails

\* The loads have a length.
LEMMA Counts ==
  ASSUME IInv
  PROVE  /\ plan.writes \in Nat /\ next \in Nat
         /\ \A l \in Sales : Planned(l) \in Nat
         /\ phase \in Sales => Count = Planned(phase)
  <1>1. plan.writes \in Nat /\ next \in Nat
    BY RequestPipelineAssumption DEF IInv, DataOK, LoadOK
  <1> QED
    BY <1>1, LoadTestAssumption DEF Planned, Sales, Count

\* Every step keeps Progress.
LEMMA ProgressStep == IInv /\ Progress /\ [Next]_vars => Progress'
  <1> SUFFICES ASSUME IInv, Progress, [Next]_vars PROVE Progress'
    OBVIOUS
  <1>c. plan' = plan /\ next \in Nat /\ job \in [Workers -> JobState] /\ (phase \in Sales => Count \in Nat)
    BY PlanFixed, Counts DEF IInv, LoadOK
  <1>n. NoJob.at = "free"
    BY DEF NoJob
  <1>0. CASE UNCHANGED <<phase, next, job, results>>
    BY <1>0, <1>c DEF Progress, Count, Loading
  <1>1. ASSUME NEW w \in Workers, NEW p \in Procs, SendRequest(w, p) PROVE Progress'
    <2>1. /\ Loading /\ next < Count /\ next' = next + 1 /\ phase' = phase
          /\ job' = [job EXCEPT ![w] = [at |-> "waiting", proc |-> p, start |-> clock]]
      BY <1>1 DEF SendRequest
    <2>2. phase \in Sales => next' <= Count /\ \A v \in Workers : job'[v].at # "returned"
      <3>1. ASSUME phase \in Sales, NEW v \in Workers PROVE job'[v].at # "returned"
        <4>1. job[v].at # "returned"
          BY <1>c, <2>1, <3>1 DEF Progress
        <4> QED
          BY <1>c, <2>1, <4>1
      <3> QED
        BY <1>c, <2>1, <3>1
    <2> QED
      BY <1>c, <2>1, <2>2 DEF Progress, Loading, Count
  <1>2. ASSUME NEW w \in Workers, WorkerReturns(w) PROVE Progress'
    <2>1. /\ Loading /\ (phase = "query" \/ next >= Count) /\ UNCHANGED <<phase, next, results>>
          /\ \A v \in Workers : v # w => job'[v] = job[v]
      BY <1>2, <1>c DEF WorkerReturns
    <2> QED
      BY <1>c, <2>1 DEF Progress, Loading, Count, Sales
  <1>3. ASSUME NEW w \in Workers, ReceiveResponse(w) \/ ResponseUnreadable(w) \/ RequestFails(w) PROVE Progress'
    <2>1. Loading /\ UNCHANGED <<phase, next>> /\ job' = [job EXCEPT ![w] = NoJob]
      BY <1>3 DEF ReceiveResponse, ResponseUnreadable, RequestFails
    <2> QED
      BY <1>c, <1>n, <2>1 DEF Progress, Loading, Count
  <1>4. CASE LoadEnds
    <2>1. next' = 0 /\ results' = <<>> /\ job' = [w \in Workers |-> NoJob] /\ phase' = AfterLoad
      BY <1>4 DEF LoadEnds
    <2>2. Count' \in Nat \/ phase' \notin Sales
      BY <2>1, <1>c, Counts, LoadTestAssumption DEF Count, Sales
    <2> QED
      BY <1>n, <2>1, <2>2 DEF Progress
  <1>5. CASE VerifyReads \/ VerifyFails
    <2>1. Verifying /\ UNCHANGED <<plan, next, job, results>>
      BY <1>5, VerifyMoves
    <2>2. next = 0 /\ results = <<>> /\ \A w \in Workers : job[w] = NoJob
      BY <2>1 DEF Progress, Loading, Runs, Reads, Loads, Verifying
    <2>3. Count' \in Nat \/ phase' \notin Sales
      BY <2>1, Counts, LoadTestAssumption DEF Count, Sales
    <2> QED
      BY <1>n, <2>1, <2>2, <2>3 DEF Progress
  <1>6. CASE Setup \/ WriteReport
    <2>1. next = 0 /\ results = <<>> /\ \A w \in Workers : job[w] = NoJob
      BY <1>6 DEF Setup, WriteReport, Progress, Loading, Runs, Reads, Loads
    <2>2. Count' \in Nat \/ phase' \notin Sales
      BY <1>c, Counts, LoadTestAssumption DEF Count, Sales
    <2>3. UNCHANGED <<next, results, job>>
      BY <1>6 DEF Setup, WriteReport
    <2> QED
      BY <1>n, <2>1, <2>2, <2>3 DEF Progress
  <1> QED
    BY <1>0, <1>1, <1>2, <1>3, <1>4, <1>5, <1>6, LoadChanges DEF loadVars, VerifyCalls

\* All requests of a load were sent when it ends.
LEMMA AllSent ==
  ASSUME IInv, Progress, LoadEnds, phase \in Sales
  PROVE  next = Planned(phase)
  <1>1. PICK w \in Workers : job[w].at = "returned"
    BY LoadTestAssumption DEF LoadEnds
  <1> QED
    BY <1>1, Counts DEF Progress

\* More requests were sent only when a worker sends one.
LEMMA SentSame ==
  ASSUME IInv, Progress, [Next]_vars, NEW l \in Sales
  PROVE  /\ Sent(l) \in Nat
         /\ \/ Sent(l)' = Sent(l)
            \/ /\ \E w \in Workers, p \in Procs : SendRequest(w, p)
               /\ phase = l /\ Sent(l) = next /\ Sent(l)' = Sent(l) + 1
  <1>c. plan' = plan /\ Sent(l) \in Nat /\ Planned(l)' = Planned(l)
    BY PlanFixed, Counts DEF Sent, Planned
  <1>0. ASSUME UNCHANGED <<phase, next>>, Verifying => check'.of = check.of
        PROVE  Sent(l)' = Sent(l)
    BY <1>0, <1>c DEF Sent, Ahead, Verifying, Sales
  <1>1. ASSUME NEW w \in Workers, NEW p \in Procs, SendRequest(w, p)
        PROVE  \/ Sent(l)' = Sent(l)
               \/ phase = l /\ Sent(l) = next /\ Sent(l)' = Sent(l) + 1
    <2>1. phase' = phase /\ next' = next + 1 /\ check' = check
      BY <1>1 DEF SendRequest
    <2> QED
      BY <1>c, <2>1 DEF Sent, Ahead, Verifying, Sales
  <1>2. CASE LoadEnds
    <2>1. phase \in Runs /\ phase' = AfterLoad /\ next' = 0 /\ check' = FirstCheck
      BY <1>2 DEF LoadEnds, Loading
    <2>2. phase = l => next = Planned(l)
      BY <1>2, AllSent
    <2>3. phase = "stock" => check'.of[1] = "duplicate"
      BY <2>1 DEF FirstCheck, NewCheck
    <2>4. phase = "write" => check'.of[1] = "write"
      BY <2>1 DEF FirstCheck, NewCheck
    <2> QED
      BY <1>c, <2>1, <2>2, <2>3, <2>4 DEF Sent, Ahead, Verifying, Sales, AfterLoad, Runs, Reads, Loads
  <1>3. CASE VerifyReads \/ VerifyFails
    <2>1. Verifying /\ next' = next /\ next = 0
      BY <1>3, VerifyMoves DEF Progress, Loading, Runs, Reads, Loads, Verifying
    <2>2. ASSUME NEW errs, AfterVerify(errs) PROVE Sent(l)' = Sent(l)
      <3>0. ASSUME NEW a PROVE NewCheck(a).of = a
        BY DEF NewCheck
      <3>1. \/ check.of[1] = "duplicate" /\ phase' = "verify" /\ check'.of[1] = "stock"
            \/ check.of[1] = "stock" /\ phase' = "write"
            \/ check.of[1] = "stock" /\ phase' \in {"warmup", "report"} /\ plan.writes = 0
            \/ check.of[1] = "write" /\ phase' = "verify" /\ check'.of[1] = "write"
            \/ check.of[1] = "write" /\ phase' \in {"warmup", "report"}
        BY <2>1, <2>2, <3>0, AfterVerifyMoves
      <3>2. phase = "verify" /\ next = 0
        BY <2>1 DEF Verifying
      <3>d. CASE l = "duplicate"
        BY <1>c, <3>1, <3>2, <3>d DEF Sent, Ahead
      <3>s. CASE l = "stock"
        BY <1>c, <3>1, <3>2, <3>s DEF Sent, Ahead
      <3>w. CASE l = "write"
        <4>1. Planned(l) = plan.writes
          BY <3>w DEF Planned
        <4>2. Sent(l) = IF check.of[1] # "write" THEN 0 ELSE Planned(l)
          BY <3>2, <3>w DEF Sent, Ahead, Verifying
        <4>3. Sent(l)' = IF phase' = "write" THEN 0
                         ELSE IF phase' = "verify" /\ check'.of[1] # "write" THEN 0
                         ELSE Planned(l)
          BY <1>c, <2>1, <3>1, <3>w DEF Sent, Ahead, Verifying
        <4> QED
          BY <3>1, <4>1, <4>2, <4>3
      <3> QED
        BY <3>d, <3>s, <3>w DEF Sales
    <2>3. ASSUME phase' = phase, check'.of = check.of PROVE Sent(l)' = Sent(l)
      BY <1>0, <2>1, <2>3
    <2> QED
      BY <1>c, <1>3, <2>2, <2>3, VerifyMoves
  <1>4. ASSUME NEW p \in Procs, VerifyCalls(p) PROVE Sent(l)' = Sent(l)
    <2>1. UNCHANGED <<phase, next>> /\ check' = [check EXCEPT !.proc = p]
      BY <1>4 DEF VerifyCalls
    <2>2. check \in CheckState
      BY DEF IInv, LoadOK
    <2>3. check'.of = check.of
      BY <2>1, <2>2 DEF CheckState
    <2> QED
      BY <1>0, <2>1, <2>3
  <1>5. CASE Setup \/ WriteReport
    <2>1. next = 0 /\ next' = next
      BY <1>5 DEF Setup, WriteReport, Progress, Loading, Runs, Reads, Loads
    <2> QED
      BY <1>5, <1>c, <2>1 DEF Setup, WriteReport, Sent, Ahead, Verifying, Sales
  <1>6. ASSUME UNCHANGED <<phase, next, check>> PROVE Sent(l)' = Sent(l)
    BY <1>0, <1>6
  <1>7. ASSUME NEW w \in Workers, WorkerReturns(w) \/ ReceiveResponse(w) \/ ResponseUnreadable(w) \/ RequestFails(w)
        PROVE  Sent(l)' = Sent(l)
    BY <1>6, <1>7 DEF WorkerReturns, ReceiveResponse, ResponseUnreadable, RequestFails
  <1> QED
    BY <1>1, <1>2, <1>3, <1>4, <1>5, <1>6, <1>7, <1>c, LoadChanges DEF loadVars

-----------------------------------------------------------------------------
(* Rows, units and the copy in Redis *)

\* Who writes the database.
LEMMA RowChanges ==
  ASSUME [Next]_vars
  PROVE  \/ UNCHANGED database
         \/ \E p \in Procs : CreateOrder(p) \/ CreateOrderCommitLost(p)
         \/ \E a \in Activities, u \in Users : processOrderCreated(a, u)
  BY DataChanges DEF CreateOrderFails, Fail, ReadHandlerFails, IncBusinessEvent,
     ObserveHTTPRequest, ResponseUnreadable, RequestFails, VerifyFails

\* What the transaction of an order writes.
LEMMA NewRow ==
  ASSUME IInv, NEW p \in Procs, PersistOrder(p), NEW a, a = req[p].activity,
         NEW u, u = req[p].user
  PROVE  /\ a \in Activities /\ u \in Users /\ order[a][u] = "none"
         /\ \A x \in Activities : \A v \in Users :
                order'[x][v] = IF x = a /\ v = u THEN "QUEUED" ELSE order[x][v]
         /\ stock[a] > 0 /\ stock[a] \in Nat /\ stock'[a] = stock[a] - 1
         /\ \A x \in Activities : x # a => stock'[x] = stock[x]
         /\ u \notin Rowed(a) /\ Rowed(a)' = Rowed(a) \cup {u}
         /\ \A x \in Activities : x # a => Rowed(x)' = Rowed(x)
         /\ Cardinality(Rowed(a))' = Cardinality(Rowed(a)) + 1
  <1>1. a \in Activities /\ u \in Users
    BY PersistOK
  <1>2. /\ order[a][u] = "none" /\ stock[a] > 0 /\ stock[a] \in Nat
        /\ stock \in [Activities -> Nat] /\ order \in [Activities -> Rows]
        /\ order' = [order EXCEPT ![a][u] = "QUEUED"] /\ stock' = [stock EXCEPT ![a] = @ - 1]
    BY <1>1 DEF PersistOrder, IInv, DataOK
  <1>3. \A x \in Activities : \A v \in Users :
            order'[x][v] = IF x = a /\ v = u THEN "QUEUED" ELSE order[x][v]
    BY <1>1, <1>2 DEF Rows
  <1>4. /\ u \notin Rowed(a) /\ Rowed(a)' = Rowed(a) \cup {u}
        /\ \A x \in Activities : x # a => Rowed(x)' = Rowed(x)
    BY <1>1, <1>2, <1>3 DEF Rowed, Orders
  <1>5. Cardinality(Rowed(a))' = Cardinality(Rowed(a)) + 1
    BY <1>4, RowedFinite, FS_AddElement
  <1> QED
    BY <1>1, <1>2, <1>3, <1>4, <1>5

\* What the worker behind the queue writes.
LEMMA MovedRow ==
  ASSUME IInv, NEW b \in Activities, NEW v \in Users, processOrderCreated(b, v)
  PROVE  /\ \A a \in Activities : Rowed(a)' = Rowed(a)
         /\ \A a \in Activities : \A u \in Users :
                order'[a][u] = IF a = b /\ u = v THEN "WAIT_PAY" ELSE order[a][u]
         /\ order[b][v] = "QUEUED" /\ UNCHANGED <<stock, cache, req, events, mishaps>>
  <1>1. /\ order \in [Activities -> Rows] /\ order[b][v] = "QUEUED"
        /\ order' = [order EXCEPT ![b][v] = "WAIT_PAY"]
        /\ UNCHANGED <<stock, cache, req, events, mishaps>>
    BY DEF processOrderCreated, IInv, DataOK
  <1>2. \A a \in Activities : \A u \in Users :
            order'[a][u] = IF a = b /\ u = v THEN "WAIT_PAY" ELSE order[a][u]
    BY <1>1 DEF Rows
  <1> QED
    BY <1>1, <1>2 DEF Rowed, Orders

\* Stocks are natural numbers.
LEMMA InitialNat == ASSUME NEW a \in Activities PROVE Initial(a) \in Nat
  BY LoadTestAssumption, RequestPipelineAssumption DEF Initial

\* Every step keeps Units.
LEMMA UnitsStep == IInv /\ Units /\ [Next]_vars => Units'
  <1> SUFFICES ASSUME IInv, Units, [Next]_vars PROVE Units'
    OBVIOUS
  <1>d. stock \in [Activities -> Nat] /\ cache \in [Activities -> Int]
    BY DEF IInv, DataOK
  <1>0. ASSUME UNCHANGED <<order, stock, cache>>, mishaps'["commit"] = mishaps["commit"]
        PROVE  Units'
    BY <1>0 DEF Units, Rowed, Orders
  <1>1. ASSUME NEW p \in Procs, CreateOrder(p) PROVE Units'
    <2>0. PersistOrder(p) /\ UNCHANGED mishaps
      BY <1>1 DEF CreateOrder
    <2>1. PICK b, u :
             /\ b = req[p].activity /\ u = req[p].user
             /\ b \in Activities /\ stock[b] > 0
             /\ stock'[b] = stock[b] - 1 /\ Cardinality(Rowed(b))' = Cardinality(Rowed(b)) + 1
             /\ \A a \in Activities : a # b => stock'[a] = stock[a] /\ Rowed(a)' = Rowed(a)
      BY <2>0, NewRow
    <2>2. cache' = [cache EXCEPT ![b] = @ - 1]
      BY <1>1, <2>1 DEF CreateOrder
    <2>3. cache'[b] = cache[b] - 1 /\ \A a \in Activities : a # b => cache'[a] = cache[a]
      BY <1>d, <2>1, <2>2
    <2>4. ASSUME NEW a \in Activities
          PROVE  /\ stock'[a] + Cardinality(Rowed(a))' = Initial(a)
                 /\ stock'[a] <= cache'[a] /\ cache'[a] <= Initial(a)
                 /\ cache'[a] = stock'[a] <=> cache[a] = stock[a]
      <3>1. /\ stock[a] + Cardinality(Rowed(a)) = Initial(a) /\ Initial(a) \in Nat
            /\ stock[a] <= cache[a] /\ cache[a] <= Initial(a)
            /\ stock[a] \in Nat /\ cache[a] \in Int /\ Cardinality(Rowed(a)) \in Nat
        BY <1>d, InitialNat, RowedFinite DEF Units
      <3>2. CASE a = b
        BY <2>1, <2>3, <3>1, <3>2
      <3>3. CASE a # b
        BY <2>1, <2>3, <3>1, <3>3
      <3> QED
        BY <3>2, <3>3
    <2> QED
      BY <2>0, <2>4 DEF Units
  <1>2. ASSUME NEW p \in Procs, CreateOrderCommitLost(p) PROVE Units'
    <2>0. PersistOrder(p) /\ UNCHANGED cache
      BY <1>2 DEF CreateOrderCommitLost
    <2>1. PICK b, u :
             /\ b = req[p].activity /\ u = req[p].user
             /\ b \in Activities /\ stock[b] > 0
             /\ stock'[b] = stock[b] - 1 /\ Cardinality(Rowed(b))' = Cardinality(Rowed(b)) + 1
             /\ \A a \in Activities : a # b => stock'[a] = stock[a] /\ Rowed(a)' = Rowed(a)
      BY <2>0, NewRow
    <2>2. mishaps'["commit"] # 0
      BY <1>2, MishapShows DEF CreateOrderCommitLost, MishapKinds
    <2>4. ASSUME NEW a \in Activities
          PROVE  /\ stock'[a] + Cardinality(Rowed(a))' = Initial(a)
                 /\ stock'[a] <= cache'[a] /\ cache'[a] <= Initial(a)
                 /\ a = b => cache'[a] # stock'[a]
      <3>1. /\ stock[a] + Cardinality(Rowed(a)) = Initial(a) /\ Initial(a) \in Nat
            /\ stock[a] <= cache[a] /\ cache[a] <= Initial(a)
            /\ stock[a] \in Nat /\ cache[a] \in Int /\ Cardinality(Rowed(a)) \in Nat
        BY <1>d, InitialNat, RowedFinite DEF Units
      <3>2. CASE a = b
        BY <2>0, <2>1, <3>1, <3>2
      <3>3. CASE a # b
        BY <2>0, <2>1, <3>1, <3>3
      <3> QED
        BY <3>2, <3>3
    <2> QED
      BY <2>0, <2>1, <2>2, <2>4 DEF Units
  <1>3. ASSUME NEW b \in Activities, NEW v \in Users, processOrderCreated(b, v) PROVE Units'
    BY <1>3, MovedRow DEF Units
  <1>4. ASSUME UNCHANGED database, mishaps'["commit"] # mishaps["commit"]
        PROVE  \E p \in Procs : CreateOrderCommitLost(p)
    <2>1. ASSUME NEW k \in MishapKinds, k # "commit", Mishap(k) PROVE FALSE
      BY <1>4, <2>1, MishapFacts DEF MishapKinds
    <2>2. /\ "deadline" \in MishapKinds /\ "database" \in MishapKinds
          /\ "client" \in MishapKinds /\ "warmup" \in MishapKinds
      BY DEF MishapKinds
    <2> QED
      BY <1>4, <2>1, <2>2, DataChanges
         DEF CreateOrder, CreateOrderFails, ReadHandlerFails, IncBusinessEvent,
             ObserveHTTPRequest, processOrderCreated, ResponseUnreadable, RequestFails, VerifyFails,
             AnswerLost
  <1> QED
    BY <1>0, <1>1, <1>2, <1>3, <1>4, RowChanges DEF database

-----------------------------------------------------------------------------
(* Who asks for orders, and who waits *)

\* The next request of a load has its aim.
LEMMA AimIsTarget ==
  ASSUME phase \in Sales
  PROVE  Aim(phase, next) = Target(next)
  BY DEF Aim, Target, Sales

\* A load asks for its own activities.
LEMMA AimLoad == ASSUME NEW l \in Sales, NEW i PROVE Aim(l, i)[2][1] = l
  BY DEF Aim, Sales

\* Every step keeps FromLoads.
LEMMA FromLoadsStep == IInv /\ Progress /\ FromLoads /\ [Next]_vars => FromLoads'
  <1> SUFFICES ASSUME IInv, Progress, FromLoads, [Next]_vars PROVE FromLoads'
    OBVIOUS
  <1>1. ASSUME NEW a \in Activities, NEW u, Asked(a, u) PROVE Asked(a, u)'
    <2>1. a[1] \in Sales
      BY ActivityLoads
    <2>2. Sent(a[1]) \in Nat /\ (Sent(a[1])' = Sent(a[1]) \/ Sent(a[1])' = Sent(a[1]) + 1)
      BY <2>1, SentSame
    <2>3. 0..(Sent(a[1]) - 1) \subseteq 0..(Sent(a[1])' - 1)
      BY <2>2
    <2> QED
      BY <1>1, <2>3 DEF Asked, Aim
  <1>2. ASSUME NEW q \in Procs, Ordering(q)' PROVE Asked(req[q].activity, req[q].user)'
    <2>a. Ordering(q) => req[q].activity \in Activities
      BY DEF Ordering, Idle, IInv, RequestsOK, RequestOK, RouteOK
    <2>1. CASE Ordering(q) /\ SameRequest(q)
      BY <1>1, <2>1, <2>a DEF FromLoads, SameRequest
    <2>2. CASE Arrives(q)
      <3>1. PICK w \in Workers : SendRequest(w, q)
        <4>1. CheckRoute # "POST /orders"
          BY DEF CheckRoute, IInv, LoadOK, CheckState
        <4> QED
          BY <1>2, <2>2, <4>1 DEF Arrives, Ordering
      <3>0. PICK a, u : a = Target(next)[2] /\ u = Target(next)[1]
        OBVIOUS
      <3>2. Loading /\ next < Count /\ Route = "POST /orders" /\ req'[q].activity = a /\ req'[q].user = u
        <4>1. CheckRoute # "POST /orders"
          BY DEF CheckRoute, IInv, LoadOK, CheckState
        <4> QED
          BY <1>2, <2>2, <3>0, <3>1, <4>1 DEF Arrives, Ordering, SendRequest
      <3>3. phase \in Sales
        BY <3>2 DEF Route, Loading, Runs, Reads, Loads, Sales
      <3>4. Aim(phase, next) = <<u, a>> /\ a[1] = phase
        <4>1. Target(next) = <<u, a>>
          BY <3>0, <3>3 DEF Target, Sales
        <4> QED
          BY <3>0, <3>3, <4>1, AimIsTarget, AimLoad
      <3>5. phase' = phase /\ next' = next + 1 /\ next \in Nat
        BY <3>1, Counts DEF SendRequest
      <3>6. Sent(a[1])' = next + 1
        BY <3>4, <3>5 DEF Sent
      <3>7. PICK i : i = next
        OBVIOUS
      <3>8. i \in 0..(Sent(a[1])' - 1) /\ Aim(a[1], i) = <<u, a>>
        BY <3>4, <3>5, <3>6, <3>7
      <3>9. Asked(a, u)'
        BY <3>8 DEF Asked, Aim
      <3> QED
        BY <3>2, <3>9
    <2>3. CASE Ends(q)
      BY <1>2, <2>3 DEF Ends, Ordering, Idle, NoRequest
    <2>4. Proceeds(q) \/ LosesClient(q) \/ req'[q] = req[q] => Ordering(q) /\ SameRequest(q)
      BY <1>2 DEF Proceeds, LosesClient, Ordering, SameRequest, Idle
    <2> QED
      BY <2>1, <2>2, <2>3, <2>4, OneRequest, Fate
  <1>3. ASSUME NEW a \in Activities, NEW u \in Rowed(a)' PROVE Asked(a, u)'
    <2>1. u \in Rowed(a) => Asked(a, u)'
      BY <1>1 DEF FromLoads
    <2>2. ASSUME NEW p \in Procs, PersistOrder(p), u \notin Rowed(a) PROVE Asked(a, u)'
      <3>1. a = req[p].activity /\ u = req[p].user
        BY <1>3, <2>2, NewRow
      <3>2. Ordering(p)
        BY <2>2 DEF PersistOrder, Creating, Ordering, Idle
      <3> QED
        BY <1>1, <3>1, <3>2 DEF FromLoads
    <2>3. UNCHANGED database => Rowed(a)' = Rowed(a)
      BY DEF database, Rowed, Orders
    <2> QED
      BY <1>3, <2>1, <2>2, <2>3, RowChanges, MovedRow DEF CreateOrder, CreateOrderCommitLost
  <1> QED
    BY <1>2, <1>3 DEF FromLoads

\* Every step keeps Clients.
LEMMA ClientsStep == IInv /\ Clients /\ [Next]_vars => Clients'
  <1> SUFFICES ASSUME IInv, Clients, [Next]_vars, NEW q \in Procs, req'[q].client
               PROVE  Waiting(q)'
    BY DEF Clients
  <1>j. job \in [Workers -> JobState] /\ check \in CheckState /\ JobsOK
    BY DEF IInv, LoadOK
  <1>n. NoRequest.client = FALSE /\ NoJob.at # "waiting"
    BY DEF NoRequest, NoJob
  <1>1. CASE Arrives(q)
    <2>1. ASSUME NEW w \in Workers, SendRequest(w, q) PROVE Waiting(q)'
      <3>1. job' = [job EXCEPT ![w] = [at |-> "waiting", proc |-> q, start |-> clock]]
        BY <2>1 DEF SendRequest
      <3>2. job'[w].at = "waiting" /\ job'[w].proc = q
        BY <1>j, <3>1
      <3> QED
        BY <3>2 DEF Waiting
    <2>2. ASSUME VerifyCalls(q) PROVE Waiting(q)'
      <3>1. phase' = phase /\ Verifying /\ check' = [check EXCEPT !.proc = q]
        BY <2>2 DEF VerifyCalls
      <3>2. check'.proc = q
        BY <1>j, <3>1 DEF CheckState
      <3> QED
        BY <3>1, <3>2 DEF Waiting, Verifying
    <2> QED
      BY <1>1, <2>1, <2>2 DEF Arrives
  <1>2. CASE req[q].client
    <2>0. Waiting(q)
      BY <1>2 DEF Clients
    <2>1. CASE UNCHANGED loadVars
      BY <2>0, <2>1 DEF Waiting, Verifying, loadVars
    <2>2. ASSUME NEW w \in Workers, job[w].at = "free", UNCHANGED <<phase, check>>,
                 \A v \in Workers : v # w => job'[v] = job[v]
          PROVE  Waiting(q)'
      BY <2>0, <2>2 DEF Waiting, Verifying
    <2>3. ASSUME NEW w \in Workers, ReceiveResponse(w) \/ ResponseUnreadable(w) \/ RequestFails(w) PROVE Waiting(q)'
      <3>1. job[w].proc # q
        <4>1. SUFFICES ASSUME job[w].proc = q PROVE ~req'[q].client
          OBVIOUS
        <4>2. CASE ReceiveResponse(w) \/ ResponseUnreadable(w)
          <5>1. req' = [req EXCEPT ![q] = NoRequest]
            BY <4>1, <4>2 DEF ReceiveResponse, ResponseUnreadable
          <5> QED
            BY <1>n, <5>1, DropFields
        <4>3. CASE RequestFails(w)
          <5>1. Abandon(q)
            BY <4>1, <4>3 DEF RequestFails
          <5> QED
            BY <1>n, <5>1, AbandonFields
        <4> QED
          BY <2>3, <4>2, <4>3
      <3>2. job' = [job EXCEPT ![w] = NoJob] /\ UNCHANGED <<phase, check>>
        BY <2>3 DEF ReceiveResponse, ResponseUnreadable, RequestFails
      <3>3. \A v \in Workers : v # w => job'[v] = job[v]
        BY <1>j, <3>2
      <3> QED
        BY <2>0, <3>1, <3>2, <3>3 DEF Waiting, Verifying
    <2>4. ASSUME NEW w \in Workers, (\E p \in Procs : SendRequest(w, p)) \/ WorkerReturns(w)
          PROVE  Waiting(q)'
      <3>1. job[w].at = "free" /\ UNCHANGED <<phase, check>>
            /\ \A v \in Workers : v # w => job'[v] = job[v]
        BY <1>j, <2>4 DEF SendRequest, WorkerReturns
      <3> QED
        BY <2>2, <3>1
    <2>5. CASE LoadEnds
      BY <2>0, <2>5 DEF LoadEnds, Waiting, Loading, Runs, Reads, Loads, Verifying
    <2>6. ASSUME NEW p \in Procs, VerifyCalls(p) PROVE Waiting(q)'
      <3>1. check.proc = "none" /\ q # "none" /\ job' = job
        BY <2>6, LoadTestAssumption DEF VerifyCalls
      <3> QED
        BY <2>0, <3>1 DEF Waiting
    <2>7. CASE VerifyReads \/ VerifyFails
      <3>1. check.proc # q /\ job' = job
        BY <1>n, <2>7, DropFields, AbandonFields DEF VerifyReads, VerifyFails
      <3> QED
        BY <2>0, <3>1 DEF Waiting
    <2>8. CASE Setup \/ WriteReport
      BY <2>0, <2>8 DEF Setup, WriteReport, Waiting, Verifying
    <2> QED
      BY <2>1, <2>3, <2>4, <2>5, <2>6, <2>7, <2>8, LoadChanges
  <1>3. CASE Ends(q)
    BY <1>3, <1>n DEF Ends
  <1> QED
    BY <1>1, <1>2, <1>3, OneRequest, Fate DEF Proceeds, LosesClient

\* With every client waiting, a load ends only when its orders are done.
LEMMA NobodyLeft ==
  ASSUME IInv, Clients, NoClientGaveUp, NEW p \in Procs, Ordering(p)
  PROVE  /\ Loading \/ Verifying
         /\ ~LoadEnds
         /\ Verifying => check.proc = p
         /\ Loading => req[p].route = Route
  <1>1. Waiting(p) /\ req[p].route \in Routes
    BY DEF Ordering, IsOrder, IInv, WaitedFor, Clients, NoClientGaveUp, RequestsOK, RequestOK, RouteOK, Idle
  <1>2. "none" \notin Routes
    BY DEF Routes
  <1>3. JobsOK
    BY DEF IInv
  <1>4. ~(Loading /\ Verifying)
    BY DEF Loading, Runs, Reads, Loads, Verifying
  <1> QED
    BY <1>1, <1>2, <1>3, <1>4 DEF JobsOK, Waiting, LoadEnds

\* The verification creates no orders.
LEMMA CheckRouteReads == ASSUME IInv PROVE CheckRoute # "POST /orders"
  BY DEF CheckRoute, IInv, LoadOK, CheckState

\* Unless a client gave up, nobody orders but while a load runs that does.
LEMMA NoOrdering ==
  ASSUME IInv, Clients, NoClientGaveUp
  PROVE  /\ phase \notin Sales => \A p \in Procs : ~Ordering(p)
         /\ LoadEnds => \A p \in Procs : ~Ordering(p)
  <1>1. ASSUME NEW p \in Procs, phase \notin Sales, Ordering(p) PROVE FALSE
    <2>1. CASE Verifying
      <3>1. check.proc = p /\ check.proc # "none"
        BY <1>1, <2>1, NobodyLeft, LoadTestAssumption
      <3> QED
        BY <1>1, <2>1, <3>1, CheckRouteReads DEF Ordering, IInv, CheckOK
    <2>2. CASE phase \in Reads
      BY <1>1, <2>2, NobodyLeft DEF Ordering, Route, Loading, Runs
    <2>3. CASE ~Verifying /\ ~Loading
      BY <1>1, <2>3, NobodyLeft
    <2> QED
      BY <1>1, <2>1, <2>2, <2>3 DEF Loading, Runs, Reads, Loads, Sales
  <1> QED
    BY <1>1, NobodyLeft

\* Every step keeps OfThisLoad.
LEMMA OfThisLoadStep ==
  IInv /\ IInv' /\ Clients /\ Clients' /\ OfThisLoad /\ [Next]_vars => OfThisLoad'
  <1> SUFFICES ASSUME IInv, IInv', Clients, Clients', OfThisLoad, [Next]_vars, NoClientGaveUp',
                      NEW q \in Procs, Ordering(q)'
               PROVE  phase' \in Sales /\ req'[q].activity[1] = phase'
    BY DEF OfThisLoad
  <1>c. NoClientGaveUp
    BY NoMishapBefore
  <1>1. CASE Ordering(q) /\ SameRequest(q)
    <2>1. phase \in Sales /\ req[q].activity[1] = phase
      BY <1>1, <1>c DEF OfThisLoad
    <2>2. ~LoadEnds
      BY <1>1, <1>c, NoOrdering
    <2>3. phase' = phase
      BY <2>1, <2>2, LoadChanges
         DEF loadVars, SendRequest, WorkerReturns, ReceiveResponse, ResponseUnreadable, RequestFails, VerifyCalls,
             VerifyReads, VerifyFails, Setup, WriteReport, Verifying, Sales
    <2> QED
      BY <1>1, <2>1, <2>3 DEF SameRequest
  <1>2. CASE Arrives(q)
    <2>1. CheckRoute # "POST /orders"
      BY CheckRouteReads
    <2>2. PICK w \in Workers : SendRequest(w, q)
      BY <1>2, <2>1 DEF Arrives, Ordering
    <2>3. Loading /\ Route = "POST /orders" /\ phase' = phase /\ req'[q].activity = Target(next)[2]
      BY <1>2, <2>1, <2>2 DEF Arrives, Ordering, SendRequest
    <2>4. phase \in Sales
      BY <2>3 DEF Route, Loading, Runs, Reads, Loads, Sales
    <2>5. Target(next)[2][1] = phase
      BY <2>4, AimIsTarget, AimLoad
    <2> QED
      BY <2>3, <2>4, <2>5
  <1>3. CASE Ends(q)
    BY <1>3 DEF Ends, Ordering, Idle, NoRequest
  <1>4. Proceeds(q) \/ LosesClient(q) \/ req'[q] = req[q] => Ordering(q) /\ SameRequest(q)
    BY DEF Proceeds, LosesClient, Ordering, SameRequest, Idle
  <1> QED
    BY <1>1, <1>2, <1>3, <1>4, OneRequest, Fate

-----------------------------------------------------------------------------
(* Reports and calls *)

\* A load that is over stays over.
LEMMA AheadBefore ==
  ASSUME IInv, [Next]_vars, NEW l \in Sales, Ahead(l)' \/ phase' = l
  PROVE  Ahead(l) \/ phase = l
  <1> DEFINE Goal == Ahead(l) \/ phase = l
  <1>0. ASSUME phase' = phase, Verifying => check'.of = check.of PROVE Goal
    BY <1>0 DEF Ahead, Verifying
  <1>1. CASE LoadEnds
    <2>1. phase \in Runs /\ phase' = AfterLoad /\ check' = FirstCheck
      BY <1>1 DEF LoadEnds, Loading
    <2>2. phase = "write" => check'.of[1] = "write"
      BY <2>1 DEF FirstCheck, NewCheck
    <2> QED
      BY <2>1, <2>2 DEF Ahead, Verifying, Sales, AfterLoad, Runs, Reads, Loads
  <1>2. CASE VerifyReads \/ VerifyFails
    <2>1. phase = "verify"
      BY <1>2, VerifyMoves DEF Verifying
    <2>2. ASSUME NEW errs, AfterVerify(errs) PROVE Goal
      <3>0. ASSUME NEW a PROVE NewCheck(a).of = a
        BY DEF NewCheck
      <3>1. \/ check.of[1] = "duplicate" /\ phase' = "verify" /\ check'.of[1] = "stock"
            \/ check.of[1] = "stock" /\ phase' = "write"
            \/ check.of[1] = "stock" /\ phase' \in {"warmup", "report"} /\ plan.writes = 0
            \/ check.of[1] = "write" /\ phase' = "verify" /\ check'.of[1] = "write"
            \/ check.of[1] = "write" /\ phase' \in {"warmup", "report"}
        BY <2>1, <2>2, <3>0, AfterVerifyMoves DEF Verifying
      <3> QED
        BY <2>1, <3>1 DEF Ahead, Verifying, Sales
    <2>3. ASSUME phase' = phase, check'.of = check.of PROVE Goal
      BY <1>0, <2>3
    <2> QED
      BY <1>2, <2>2, <2>3, VerifyMoves
  <1>3. ASSUME NEW p \in Procs, VerifyCalls(p) PROVE Goal
    <2>1. phase' = phase /\ check' = [check EXCEPT !.proc = p] /\ check \in CheckState
      BY <1>3 DEF VerifyCalls, IInv, LoadOK
    <2>2. check'.of = check.of
      BY <2>1 DEF CheckState
    <2> QED
      BY <1>0, <2>1, <2>2
  <1>4. CASE Setup \/ WriteReport
    BY <1>4 DEF Setup, WriteReport, Ahead, Verifying, Sales
  <1>5. ASSUME UNCHANGED <<phase, check>> PROVE Goal
    BY <1>0, <1>5
  <1>6. ASSUME NEW w \in Workers,
               \/ \E p \in Procs : SendRequest(w, p)
               \/ WorkerReturns(w) \/ ReceiveResponse(w) \/ ResponseUnreadable(w) \/ RequestFails(w)
        PROVE  Goal
    BY <1>5, <1>6 DEF SendRequest, WorkerReturns, ReceiveResponse, ResponseUnreadable, RequestFails
  <1> QED
    BY <1>1, <1>2, <1>3, <1>4, <1>5, <1>6, LoadChanges DEF loadVars

\* Who writes a report.
LEMMA ReportChanges ==
  ASSUME [Next]_vars
  PROVE  UNCHANGED report \/ LoadEnds
  BY LoadChanges, VerifyReadsFacts
     DEF loadVars, SendRequest, WorkerReturns, ReceiveResponse, ResponseUnreadable, RequestFails, VerifyCalls,
         VerifyReads, VerifyFails, Setup, WriteReport

\* A load is left by its end only, and the end is final.
LEMMA PhaseEnds ==
  ASSUME IInv, [Next]_vars
  PROVE  /\ phase \in {"report", "done"} => phase' \in {"report", "done"}
         /\ phase \in Loads => phase' = phase \/ LoadEnds
         /\ phase' = phase \/ ~Loading \/ LoadEnds
  BY LoadChanges
     DEF loadVars, SendRequest, WorkerReturns, ReceiveResponse, ResponseUnreadable, RequestFails, VerifyCalls,
         LoadEnds, VerifyReads, VerifyFails, Setup, WriteReport, Loading, Runs, Reads, Loads, Verifying

\* Every step keeps Unreported.
LEMMA UnreportedStep == IInv /\ Unreported /\ [Next]_vars => Unreported'
  <1> SUFFICES ASSUME IInv, Unreported, [Next]_vars PROVE Unreported'
    OBVIOUS
  <1>n. NoReport' = NoReport
    BY DEF NoReport
  <1>p. plan' = plan
    BY PlanFixed
  <1>1. CASE UNCHANGED report
    BY <1>1, <1>p, <1>n, AheadBefore, PhaseEnds DEF Unreported
  <1>2. CASE LoadEnds
    <2>1. /\ phase \in Runs /\ phase' = AfterLoad /\ check' = FirstCheck
          /\ report' = IF phase = "warmup" THEN report ELSE [report EXCEPT ![phase] = summarize]
      BY <1>2 DEF LoadEnds, Loading
    <2>2. DOMAIN report = Loads /\ \A l \in Loads : l # phase => report'[l] = report[l]
      BY <2>1 DEF IInv, LoadOK
    <2>3. ASSUME NEW l \in Sales, Ahead(l)' \/ phase' = l PROVE report'[l] = NoReport
      <3>1. Ahead(l) \/ phase = l
        BY <2>3, AheadBefore
      <3>2. phase = "stock" => check'.of[1] = "duplicate"
        BY <2>1 DEF FirstCheck, NewCheck
      <3>3. phase = "write" => check'.of[1] = "write"
        BY <2>1 DEF FirstCheck, NewCheck
      <3>4. phase # l
        BY <2>1, <2>3, <3>2, <3>3 DEF Ahead, AfterLoad, Verifying, Sales
      <3> QED
        BY <2>2, <3>1, <3>4 DEF Unreported, Sales, Loads
    <2>4. phase' \notin {"report", "done"} => report'["query"] = NoReport
      <3>1. phase' \notin {"report", "done"} => phase # "query" /\ phase \notin {"report", "done"}
        BY <2>1 DEF AfterLoad, Runs, Reads, Loads
      <3> QED
        BY <2>2, <3>1 DEF Unreported, Loads
    <2>5. plan.writes = 0 => report'["write"] = NoReport
      <3>1. plan.writes = 0 => phase # "write"
        BY LoadTestAssumption DEF IInv, LoadOK, WritesOK
      <3> QED
        BY <2>2, <3>1 DEF Unreported, Loads
    <2> QED
      BY <1>n, <1>p, <2>3, <2>4, <2>5 DEF Unreported
  <1> QED
    BY <1>1, <1>2, ReportChanges

\* The call of verify that is under way is the one that was, or a new one.
LEMMA CallKept ==
  ASSUME IInv, IInv', [Next]_vars, Verifying', check'.proc # "none"
  PROVE  \/ /\ Verifying /\ UNCHANGED loadVars /\ check.proc \in Procs
            /\ check.proc # "none" /\ SameRequest(check.proc) /\ req[check.proc].client
            /\ req[check.proc].route = CheckRoute
            /\ Proceeds(check.proc) \/ req'[check.proc] = req[check.proc]
         \/ \E p \in Procs : VerifyCalls(p)
  <1>1. CASE UNCHANGED loadVars
    <2>1. Verifying /\ check' = check /\ check.proc # "none"
      BY <1>1 DEF loadVars, Verifying
    <2>2. PICK q : q = check.proc
      OBVIOUS
    <2>3. /\ q \in Procs /\ ~Idle(q) /\ req[q].client /\ req[q].route = CheckRoute
          /\ ~Idle(q)' /\ req'[q].client
      BY <2>1, <2>2 DEF IInv, CheckOK, Verifying
    <2>4. Proceeds(q) \/ req'[q] = req[q]
      BY <2>3, OneRequest, Fate DEF Arrives, Ends, LosesClient, Idle, NoRequest
    <2> QED
      BY <1>1, <2>1, <2>2, <2>3, <2>4 DEF Proceeds, SameRequest
  <1>2. ASSUME NEW w \in Workers,
               \/ \E p \in Procs : SendRequest(w, p)
               \/ WorkerReturns(w) \/ ReceiveResponse(w) \/ ResponseUnreadable(w) \/ RequestFails(w)
        PROVE  FALSE
    BY <1>2 DEF SendRequest, WorkerReturns, ReceiveResponse, ResponseUnreadable, RequestFails, Verifying, Loading, Runs, Reads, Loads
  <1>3. ASSUME LoadEnds PROVE FALSE
    BY <1>3 DEF LoadEnds, FirstCheck, NewCheck
  <1>4. ASSUME VerifyReads \/ VerifyFails PROVE FALSE
    <2>1. ASSUME NEW a PROVE NewCheck(a).proc = "none"
      BY DEF NewCheck
    <2>2. Verifying
      BY <1>4, VerifyMoves
    <2>3. ASSUME NEW errs, AfterVerify(errs) PROVE FALSE
      BY <2>1, <2>2, <2>3, AfterVerifyMoves DEF Verifying
    <2> QED
      BY <1>4, <2>3, VerifyMoves
  <1>5. ASSUME Setup \/ WriteReport PROVE FALSE
    BY <1>5 DEF Setup, WriteReport, Verifying
  <1> QED
    BY <1>1, <1>2, <1>3, <1>4, <1>5, LoadChanges

\* A new call.
LEMMA CallMade ==
  ASSUME IInv, NEW p \in Procs, VerifyCalls(p)
  PROVE  /\ Verifying /\ UNCHANGED <<database, mishaps, phase, job, results, report, errors>>
         /\ check' = [check EXCEPT !.proc = p] /\ check'.proc = p
         /\ check'.of = check.of /\ check'.at = check.at /\ check'.rows = check.rows
         /\ check'.matches = check.matches
         /\ req'[p].activity = check.of /\ req'[p].stage \in {"limit", "handler"}
  <1>1. check' = [check EXCEPT !.proc = p] /\ check \in CheckState
    BY DEF VerifyCalls, IInv, LoadOK
  <1>2. /\ check'.proc = p /\ check'.of = check.of /\ check'.at = check.at
        /\ check'.rows = check.rows /\ check'.matches = check.matches
    BY <1>1 DEF CheckState
  <1>3. Arrive(p, CheckRoute, "ADMIN", "none", check.of) /\ AuthStatus(CheckRoute, "ADMIN") = 0
    BY <1>1, ArrivalsAllowed DEF VerifyCalls
  <1>4. req'[p].activity = check.of /\ req'[p].stage \in {"limit", "handler"}
    BY <1>3, ArriveFields
  <1> QED
    BY <1>1, <1>2, <1>4 DEF VerifyCalls

\* Every step keeps CallOfCheck.
LEMMA CallOfCheckStep == IInv /\ IInv' /\ CallOfCheck /\ [Next]_vars => CallOfCheck'
  <1> SUFFICES ASSUME IInv, IInv', CallOfCheck, [Next]_vars, Verifying', check'.proc # "none"
               PROVE  req'[check'.proc].activity = check'.of
    BY DEF CallOfCheck
  <1>1. ASSUME NEW p \in Procs, VerifyCalls(p) PROVE req'[check'.proc].activity = check'.of
    BY <1>1, CallMade
  <1>2. CASE Verifying /\ UNCHANGED loadVars /\ check.proc # "none" /\ SameRequest(check.proc)
    BY <1>2 DEF CallOfCheck, SameRequest, loadVars
  <1> QED
    BY <1>1, <1>2, CallKept

\* Every step keeps Judged.
LEMMA JudgedStep == IInv /\ Judged /\ [Next]_vars => Judged'
  <1> SUFFICES ASSUME IInv, Judged, [Next]_vars, phase' = "done", errors' = {}
               PROVE  ReportErrors' = {}
    BY DEF Judged
  <1>1. errors = {} /\ plan' = plan
    BY ErrorsGrow, PlanFixed
  <1>2. CASE WriteReport
    <2>1. ReportErrors = {} /\ UNCHANGED <<report, plan>> /\ errors' = errors
      BY <1>1, <1>2 DEF WriteReport
    <2> QED
      BY <2>1 DEF ReportErrors, QueryFailed
  <1>3. CASE UNCHANGED loadVars
    <2>1. phase = "done" /\ UNCHANGED <<report, plan, errors>>
      BY <1>1, <1>3 DEF loadVars
    <2>2. ReportErrors = {}
      BY <1>1, <2>1 DEF Judged
    <2> QED
      BY <2>1, <2>2 DEF ReportErrors, QueryFailed
  <1>4. ASSUME ~WriteReport, ~UNCHANGED loadVars PROVE FALSE
    <2>1. phase # "done" => phase' # "done" \/ WriteReport
      <3>1. ASSUME VerifyReads \/ VerifyFails, phase' = "done" PROVE FALSE
        BY <3>1, VerifyMoves, AfterVerifyMoves DEF Verifying
      <3> QED
        BY <3>1, LoadChanges
           DEF loadVars, SendRequest, WorkerReturns, ReceiveResponse, ResponseUnreadable, RequestFails, VerifyCalls,
               LoadEnds, Setup, Loading, Runs, Reads, Loads, AfterLoad
    <2>2. phase = "done" => UNCHANGED loadVars
      BY LoadChanges
         DEF SendRequest, WorkerReturns, ReceiveResponse, ResponseUnreadable, RequestFails, VerifyCalls,
             LoadEnds, VerifyReads, VerifyFails, Setup, WriteReport, Loading, Runs, Reads, Loads, Verifying
    <2> QED
      BY <1>4, <2>1, <2>2
  <1> QED
    BY <1>2, <1>3, <1>4

-----------------------------------------------------------------------------
(* What verify has read *)

\* While verify runs with all its calls answered, orders only move on.
LEMMA QuietDatabase ==
  ASSUME IInv, Clients, [Next]_vars, NoClientGaveUp, phase \notin Sales
  PROVE  /\ UNCHANGED <<stock, cache>>
         /\ \A a \in Activities : \A rows : Older(rows, a) => Older(rows, a)'
  <1>1. ASSUME NEW p \in Procs, PersistOrder(p) PROVE FALSE
    <2>1. Ordering(p)
      BY <1>1 DEF PersistOrder, Creating, Ordering, Idle
    <2> QED
      BY <2>1, NoOrdering
  <1>2. ASSUME NEW b \in Activities, NEW v \in Users, processOrderCreated(b, v),
               NEW a \in Activities, NEW rows, Older(rows, a)
        PROVE  Older(rows, a)'
    BY <1>2, MovedRow DEF Older
  <1>3. ASSUME UNCHANGED database, NEW a \in Activities, NEW rows, Older(rows, a)
        PROVE  Older(rows, a)'
    BY <1>3 DEF Older, database
  <1> QED
    BY <1>1, <1>2, <1>3, RowChanges, MovedRow
       DEF CreateOrder, CreateOrderCommitLost, database

\* An answer that has been fetched is the one that was, or a new one.
LEMMA AnswerKept ==
  ASSUME IInv, NEW q \in Procs, Proceeds(q) \/ req'[q] = req[q], About(q) \/ req'[q] = req[q],
         req[q].route # "POST /orders",
         req'[q].stage \in {"observe", "reply"}, req'[q].status = 200
  PROVE  \/ /\ req[q].stage \in {"observe", "reply"} /\ req[q].status = 200
            /\ req'[q].body = req[q].body
         \/ /\ ReadHandler(q) /\ req'[q].body = Body(req[q].route, req[q].activity)
  <1> DEFINE Goal ==
        \/ /\ req[q].stage \in {"observe", "reply"} /\ req[q].status = 200
           /\ req'[q].body = req[q].body
        \/ /\ ReadHandler(q) /\ req'[q].body = Body(req[q].route, req[q].activity)
  <1>0. ~Idle(q)
    BY DEF Proceeds, Idle
  <1>1. CASE req'[q] = req[q]
    BY <1>1
  <1>2. ASSUME req[q].stage \in {"limit", "event"} PROVE FALSE
    BY <1>2 DEF IInv, RequestsOK, RequestOK, RouteOK
  <1>3. CASE ReadHandler(q) \/ ReadHandlerFails(q)
    BY <1>3, ReadFields
  <1>4. CASE ObserveHTTPRequest(q)
    <2>1. CASE Step(q, "reply")
      BY <1>4, <2>1, StepFields DEF ObserveHTTPRequest
    <2>2. CASE req' = [req EXCEPT ![q] = NoRequest]
      BY <2>2, DropFields
    <2> QED
      BY <1>4, <2>1, <2>2 DEF ObserveHTTPRequest
  <1>5. CASE CreateOrder(q) \/ CreateOrderCommitLost(q) \/ CreateOrderFails(q)
    BY <1>5, AnsweringSteps DEF Creating
  <1>6. ASSUME Abandon(q) \/ req' = [req EXCEPT ![q] = NoRequest] PROVE Goal
    <2>1. NoRequest.stage = "idle"
      BY DEF NoRequest
    <2>2. CASE Abandon(q)
      BY <2>1, <2>2, AbandonFields
    <2>3. CASE req' = [req EXCEPT ![q] = NoRequest]
      BY <2>3, DropFields
    <2> QED
      BY <1>6, <2>2, <2>3
  <1>7. ASSUME NEW w \in Workers, job[w].proc = q, ReceiveResponse(w) \/ ResponseUnreadable(w) \/ RequestFails(w)
        PROVE  Abandon(q) \/ req' = [req EXCEPT ![q] = NoRequest]
    BY <1>7 DEF ReceiveResponse, ResponseUnreadable, RequestFails
  <1>8. ASSUME check.proc = q, VerifyReads \/ VerifyFails
        PROVE  Abandon(q) \/ req' = [req EXCEPT ![q] = NoRequest]
    BY <1>8 DEF VerifyReads, VerifyFails
  <1>9. ~VerifyCalls(q) /\ ~\E w \in Workers : SendRequest(w, q)
    BY <1>0 DEF VerifyCalls, SendRequest, Arrive
  <1> QED
    BY <1>0, <1>1, <1>2, <1>3, <1>4, <1>5, <1>6, <1>7, <1>8, <1>9
       DEF About, LimiterReturns, IncBusinessEvent

\* What Readings says, of activity a, the answer body and what was kept.
ReadingsOf(a, body, at, rows, matches, fetched) ==
    /\ fetched /\ at = "orders" => Older(body.rows, a)
    /\ at # "orders" => Older(rows, a)
    /\ fetched /\ at = "reconcile" => body.matches = (cache[a] = stock[a])
    /\ at = "activities" => matches = (cache[a] = stock[a])
    /\ fetched /\ at = "activities" => body.stock = stock[a]

\* Readings in terms of ReadingsOf.
LEMMA ReadingsParts ==
  Readings <=> (Verifying /\ NoClientGaveUp =>
                   ReadingsOf(check.of, req[check.proc].body, check.at, check.rows,
                              check.matches, Fetched(check.at)))
  BY DEF Readings, ReadingsOf, Fetched

\* Every step keeps Readings.
LEMMA ReadingsStep ==
  IInv /\ IInv' /\ Clients /\ CallOfCheck /\ Readings /\ [Next]_vars => Readings'
  <1> SUFFICES ASSUME IInv, IInv', Clients, CallOfCheck, Readings, [Next]_vars,
                      Verifying', NoClientGaveUp'
               PROVE  ReadingsOf(check.of, req[check.proc].body, check.at, check.rows,
                                 check.matches, Fetched(check.at))'
    BY ReadingsParts DEF ReadingsOf, Readings, Fetched
  <1> DEFINE Goal == ReadingsOf(check.of, req[check.proc].body, check.at, check.rows,
                                check.matches, Fetched(check.at))'
  <1>c. NoClientGaveUp /\ check \in CheckState
    BY NoMishapBefore DEF IInv, LoadOK
  \* Right after the load, or after another activity.
  <1>n. ASSUME check'.proc = "none", check'.at = "orders" PROVE Goal
    BY <1>n DEF ReadingsOf, Fetched
  \* The server goes on; the call is answered.
  <1>1. CASE UNCHANGED loadVars /\ Verifying
    <2>1. PICK q, a, at, rows, matches :
             /\ q = check.proc /\ a = check.of /\ at = check.at
             /\ rows = check.rows /\ matches = check.matches
      OBVIOUS
    <2>2. /\ check'.proc = q /\ check'.of = a /\ check'.at = at /\ a \in Activities
          /\ check'.rows = rows /\ check'.matches = matches
      BY <1>1, <1>c, <2>1 DEF loadVars, CheckState
    <2>3. phase \notin Sales
      BY <1>1 DEF Verifying, Sales
    <2>4. UNCHANGED <<stock, cache>> /\ \A r : Older(r, a) => Older(r, a)'
      BY <1>c, <2>2, <2>3, QuietDatabase
    <2>5. ReadingsOf(a, req[q].body, at, rows, matches, Fetched(at))
      BY <1>1, <1>c, <2>1, ReadingsParts
    <2>6. ASSUME Fetched(at)'
          PROVE  \/ Fetched(at) /\ req'[q].body = req[q].body
                 \/ /\ req'[q].body = Body(CheckRoute, a) /\ UNCHANGED database
      <3>1. check'.proc # "none" /\ ~\E p \in Procs : VerifyCalls(p)
        <4>1. check'.proc # "none"
          BY <2>6 DEF Fetched
        <4> QED
          BY <2>1, <2>2, <4>1 DEF VerifyCalls
      <3>2. /\ q \in Procs /\ q # "none" /\ req[q].route = CheckRoute
            /\ Proceeds(q) \/ req'[q] = req[q]
        BY <2>1, <3>1, CallKept
      <3>3. req[q].activity = a /\ CheckRoute # "POST /orders"
        BY <1>1, <2>1, <3>2, CheckRouteReads DEF CallOfCheck
      <3>4. req'[q].stage \in {"observe", "reply"} /\ req'[q].status = 200
        BY <2>2, <2>6 DEF Fetched
      <3>5. About(q) \/ req'[q] = req[q]
        BY <3>2, OneRequest
      <3>6. \/ /\ req[q].stage \in {"observe", "reply"} /\ req[q].status = 200
               /\ req'[q].body = req[q].body
            \/ ReadHandler(q) /\ req'[q].body = Body(req[q].route, req[q].activity)
        BY <3>2, <3>3, <3>4, <3>5, AnswerKept
      <3> QED
        BY <2>1, <3>2, <3>3, <3>6 DEF Fetched, ReadHandler
    <2>7. ReadingsOf(a, req[q].body, at, rows, matches, Fetched(at))'
      <3>1. CASE Fetched(at)' /\ req'[q].body = Body(CheckRoute, a) /\ UNCHANGED database
        <4>1. CASE at = "orders"
          <5>0. PICK r : r = order[a]
            OBVIOUS
          <5>1. req'[q].body.rows = r
            BY <2>1, <3>1, <4>1, <5>0 DEF Body, CheckRoute
          <5>2. Older(r, a)'
            BY <3>1, <5>0 DEF Older, database
          <5>3. Older(req[q].body.rows, a)'
            BY <5>1, <5>2 DEF Older
          <5> QED
            BY <4>1, <5>3 DEF ReadingsOf
        <4>2. CASE at = "reconcile"
          <5>1. req'[q].body.matches = (cache[a] = stock[a])
            BY <2>1, <3>1, <4>2 DEF Body, CheckRoute
          <5> QED
            BY <2>4, <2>5, <4>2, <5>1 DEF ReadingsOf
        <4>3. CASE at = "activities"
          <5>1. req'[q].body.stock = stock[a]
            BY <2>1, <3>1, <4>3 DEF Body, CheckRoute
          <5> QED
            BY <2>4, <2>5, <4>3, <5>1 DEF ReadingsOf
        <4>4. CASE at = "queued"
          BY <2>4, <2>5, <4>4 DEF ReadingsOf
        <4> QED
          BY <1>c, <2>1, <4>1, <4>2, <4>3, <4>4 DEF CheckState
      <3>2. CASE ~Fetched(at)'
        BY <2>4, <2>5, <3>2 DEF ReadingsOf
      <3>3. CASE Fetched(at) /\ req'[q].body = req[q].body
        <4>0. PICK b : b = req[q].body
          OBVIOUS
        <4>1. ReadingsOf(a, b, at, rows, matches, TRUE)
          BY <2>5, <3>3, <4>0
        <4>2. ReadingsOf(a, b, at, rows, matches, Fetched(at))'
          BY <2>4, <4>1 DEF ReadingsOf
        <4> QED
          BY <3>3, <4>0, <4>2 DEF ReadingsOf
      <3> QED
        BY <2>6, <3>1, <3>2, <3>3
    <2> QED
      BY <2>2, <2>7 DEF ReadingsOf, Fetched
  <1>2. ASSUME NEW p \in Procs, VerifyCalls(p) PROVE Goal
    <2>1. ReadingsOf(check.of, req[check.proc].body, check.at, check.rows, check.matches,
                     Fetched(check.at))
      BY <1>2, <1>c, ReadingsParts, CallMade
    <2>2. ~Fetched(check.at)' /\ UNCHANGED database
      BY <1>2, CallMade DEF Fetched
    <2> QED
      BY <1>2, <2>1, <2>2, CallMade DEF ReadingsOf, Older, database
  <1>3. CASE VerifyReads
    <2> DEFINE body == req[check.proc].body
               c == check
    <2>1. Verifying /\ UNCHANGED database /\ Fetched(check.at)
      BY <1>3 DEF VerifyReads, Fetched
    <2>2. ReadingsOf(check.of, body, check.at, check.rows, check.matches, TRUE)
      BY <1>c, <2>1, ReadingsParts
    <2>3. \/ /\ check.at = "orders"
             /\ check' = [c EXCEPT !.at = "queued", !.proc = "none", !.rows = body.rows]
          \/ /\ check.at = "queued"
             /\ check' = [c EXCEPT !.at = "reconcile", !.proc = "none"]
          \/ check' = [c EXCEPT !.at = "orders", !.proc = "none", !.polls = @ + 1]
          \/ /\ check.at = "reconcile"
             /\ check' = [c EXCEPT !.at = "activities", !.proc = "none",
                                   !.matches = body.matches]
          \/ \E errs : AfterVerify(errs)
      BY <1>3, ReturnsFacts DEF VerifyReads
    <2>4. ASSUME NEW errs, AfterVerify(errs) PROVE Goal
      <3>1. ASSUME NEW a PROVE NewCheck(a).proc = "none" /\ NewCheck(a).at = "orders"
        BY DEF NewCheck
      <3> QED
        BY <1>n, <2>1, <2>4, <3>1, AfterVerifyMoves DEF Verifying
    <2> HIDE DEF body, c
    <2>5. CASE \/ /\ check.at = "orders"
                  /\ check' = [c EXCEPT !.at = "queued", !.proc = "none", !.rows = body.rows]
               \/ check.at = "queued" /\ check' = [c EXCEPT !.at = "reconcile", !.proc = "none"]
               \/ check' = [c EXCEPT !.at = "orders", !.proc = "none", !.polls = @ + 1]
               \/ /\ check.at = "reconcile"
                  /\ check' = [c EXCEPT !.at = "activities", !.proc = "none",
                                        !.matches = body.matches]
      <3>1. c \in CheckState /\ c = check
        BY <1>c DEF c
      <3>2. /\ check'.proc = "none" /\ check'.of = check.of
            /\ \/ check'.at = "orders"
               \/ check.at = "orders" /\ check'.at = "queued" /\ check'.rows = body.rows
               \/ check.at = "queued" /\ check'.at = "reconcile" /\ check'.rows = check.rows
               \/ /\ check.at = "reconcile" /\ check'.at = "activities"
                  /\ check'.rows = check.rows /\ check'.matches = body.matches
        BY <2>5, <3>1 DEF CheckState
      <3>3. ~Fetched(check.at)'
        BY <3>2 DEF Fetched
      <3> QED
        BY <2>1, <2>2, <3>2, <3>3 DEF ReadingsOf, Older, database
    <2> QED
      BY <2>3, <2>4, <2>5 DEF body, c
  <1>4. CASE VerifyFails
    <2>1. Verifying /\ \E errs : AfterVerify(errs)
      BY <1>4, ReturnsFacts DEF VerifyFails
    <2>2. ASSUME NEW a PROVE NewCheck(a).proc = "none" /\ NewCheck(a).at = "orders"
      BY DEF NewCheck
    <2> QED
      BY <1>n, <2>1, <2>2, AfterVerifyMoves DEF Verifying
  <1>5. CASE LoadEnds
    BY <1>5, <1>n DEF LoadEnds, FirstCheck, NewCheck
  <1>6. ASSUME NEW w \in Workers,
               \/ \E p \in Procs : SendRequest(w, p)
               \/ WorkerReturns(w) \/ ReceiveResponse(w) \/ ResponseUnreadable(w) \/ RequestFails(w)
        PROVE  FALSE
    BY <1>6 DEF SendRequest, WorkerReturns, ReceiveResponse, ResponseUnreadable, RequestFails, Verifying, Loading, Runs, Reads, Loads
  <1>7. ASSUME Setup \/ WriteReport PROVE FALSE
    BY <1>7 DEF Setup, WriteReport, Verifying
  <1>8. UNCHANGED loadVars => Verifying
    BY DEF loadVars, Verifying
  <1> QED
    BY <1>1, <1>2, <1>3, <1>4, <1>5, <1>6, <1>7, <1>8, LoadChanges

-----------------------------------------------------------------------------
(* What was verified *)

\* An activity is verified when verify returns.
LEMMA SettledNew ==
  ASSUME IInv, [Next]_vars, NEW a \in Activities, Settled(a)', ~Settled(a)
  PROVE  Verifying /\ check.of = a /\ (VerifyReads \/ VerifyFails)
  <1> DEFINE Goal == Verifying /\ check.of = a /\ (VerifyReads \/ VerifyFails)
  <1>p. plan' = plan
    BY PlanFixed
  <1>a. /\ a[1] \in Sales
        /\ a[1] = "duplicate" => a = <<"duplicate", 0>>
        /\ a[1] = "stock" => a = <<"stock", 0>>
        /\ a[1] = "write" => a[2] \in 0..(Batches(Writes) - 1) /\ a = <<"write", a[2]>>
    BY ActivityLoads
  <1>c. check.of \in Activities
    BY DEF IInv, LoadOK, CheckState
  <1>o. /\ check.of[1] \in Sales
        /\ check.of[1] = "duplicate" => check.of = <<"duplicate", 0>>
        /\ check.of[1] = "stock" => check.of = <<"stock", 0>>
        /\ check.of[1] = "write" => /\ check.of[2] \in 0..(Batches(Writes) - 1)
                                    /\ check.of = <<"write", check.of[2]>>
    BY <1>c, ActivityLoads
  <1>b. Batches(Writes) \in Nat
    <2>1. batchSize \in Nat /\ batchSize >= 1 /\ Writes \in Nat
      BY BatchSize, LoadTestAssumption
    <2>2. Writes + batchSize - 1 \in Nat
      BY <2>1
    <2> QED
      BY <2>1, <2>2, Division DEF Batches
  <1>0. ASSUME phase' = phase, Verifying => check'.of = check.of PROVE Goal
    BY <1>0, <1>a, <1>p DEF Settled, Verifying, Sales
  <1>1. CASE LoadEnds
    <2>1. phase \in Runs /\ phase' = AfterLoad /\ check' = FirstCheck
      BY <1>1 DEF LoadEnds, Loading
    <2>2. /\ phase = "write" => check'.of = <<"write", 0>>
          /\ phase = "stock" => check'.of = <<"duplicate", 0>>
      BY <2>1 DEF FirstCheck, NewCheck
    <2>3. a[1] = "write" => ~(a[2] < 0)
      BY <1>a, <1>b
    <2>4. \/ phase = "duplicate" /\ phase' = "stock"
          \/ phase = "stock" /\ phase' = "verify" /\ check'.of = <<"duplicate", 0>>
          \/ phase = "write" /\ phase' = "verify" /\ check'.of = <<"write", 0>>
          \/ phase = "warmup" /\ phase' = "query"
          \/ phase = "query" /\ phase' = "report"
      BY <2>1, <2>2 DEF AfterLoad, Runs, Reads, Loads
    <2>d. CASE a[1] = "duplicate"
      BY <1>p, <2>4, <2>d DEF Settled, Verifying
    <2>s. CASE a[1] = "stock"
      BY <1>p, <2>4, <2>s DEF Settled, Verifying
    <2>w. CASE a[1] = "write"
      BY <1>p, <2>3, <2>4, <2>w DEF Settled, Verifying
    <2> QED
      BY <1>a, <2>d, <2>s, <2>w DEF Sales
  <1>2. CASE VerifyReads \/ VerifyFails
    <2>1. phase = "verify" /\ Verifying
      BY <1>2, VerifyMoves DEF Verifying
    <2>2. ASSUME NEW errs, AfterVerify(errs) PROVE check.of = a
      <3>0. ASSUME NEW b PROVE NewCheck(b).of = b
        BY DEF NewCheck
      <3>1. \/ check.of[1] = "duplicate" /\ phase' = "verify" /\ check'.of = <<"stock", 0>>
            \/ check.of[1] = "stock" /\ plan.writes > 0 /\ phase' = "write"
            \/ check.of[1] = "stock" /\ phase' \in {"warmup", "report"} /\ plan.writes = 0
            \/ /\ check.of[1] = "write" /\ phase' = "verify"
               /\ check'.of = <<"write", check.of[2] + 1>>
            \/ /\ check.of[1] = "write" /\ ~(check.of[2] + 1 < Batches(plan.writes))
               /\ phase' \in {"warmup", "report"}
        BY <2>1, <2>2, <3>0, AfterVerifyMoves
      <3>w. check.of[1] = "write" => plan.writes = Writes
        BY DEF IInv, LoadOK, WritesOK
      <3>d. CASE a[1] = "duplicate"
        BY <1>a, <1>o, <2>1, <3>1, <3>d DEF Settled, Verifying, Sales
      <3>s. CASE a[1] = "stock"
        BY <1>a, <1>o, <2>1, <3>1, <3>s DEF Settled, Verifying, Sales
      <3>v. CASE a[1] = "write"
        <4>1. /\ plan.writes > 0 => phase' # "write"
              /\ plan.writes > 0 => ~(check.of[1] = "write" /\ a[2] < check.of[2])
              /\ plan.writes > 0 /\ (\/ phase' = "verify" /\ check'.of[1] = "write" /\ a[2] < check'.of[2]
                                     \/ phase' \in {"warmup", "query", "report", "done"})
          BY <1>p, <2>1, <3>1, <3>v DEF Settled, Verifying
        <4>2. check.of[1] = "write"
          BY <3>1, <4>1
        <4>3. \/ check'.of = <<"write", check.of[2] + 1>> /\ a[2] < check'.of[2]
              \/ ~(check.of[2] + 1 < Batches(Writes))
          BY <3>1, <3>w, <4>1, <4>2
        <4>4. a[2] = check.of[2]
          BY <1>a, <1>b, <1>o, <3>v, <4>1, <4>2, <4>3
        <4> QED
          BY <1>a, <1>o, <3>v, <4>2, <4>4
      <3> QED
        BY <1>a, <3>d, <3>s, <3>v DEF Sales
    <2>3. ASSUME phase' = phase, check'.of = check.of PROVE Goal
      BY <1>0, <2>3
    <2> QED
      BY <1>2, <2>1, <2>2, <2>3, VerifyMoves
  <1>3. ASSUME NEW p \in Procs, VerifyCalls(p) PROVE Goal
    BY <1>0, <1>3, CallMade
  <1>4. CASE Setup \/ WriteReport
    BY <1>4, <1>a, <1>p DEF Setup, WriteReport, Settled, Verifying, Sales
  <1>5. ASSUME UNCHANGED <<phase, check>> PROVE Goal
    BY <1>0, <1>5
  <1>6. ASSUME NEW w \in Workers,
               \/ \E p \in Procs : SendRequest(w, p)
               \/ WorkerReturns(w) \/ ReceiveResponse(w) \/ ResponseUnreadable(w) \/ RequestFails(w)
        PROVE  Goal
    BY <1>5, <1>6 DEF SendRequest, WorkerReturns, ReceiveResponse, ResponseUnreadable, RequestFails
  <1> QED
    BY <1>1, <1>2, <1>3, <1>4, <1>5, <1>6, LoadChanges DEF loadVars

\* verify returned without an error.
LEMMA NoErrorReturned ==
  ASSUME IInv, VerifyReads \/ VerifyFails, errors' = {}, \E errs : AfterVerify(errs),
         Verifying, phase' # phase \/ check'.of # check.of
  PROVE  /\ VerifyReads /\ check.at = "activities"
         /\ Verdict(check.of, check.rows, check.matches, req[check.proc].body.stock) = "none"
  <1>1. ASSUME NEW kind, VerifyReturns(kind), kind # "none" PROVE FALSE
    BY <1>1 DEF VerifyReturns
  <1>2. ~VerifyFails
    BY <1>1 DEF VerifyFails
  <1>3. check \in CheckState
    BY DEF IInv, LoadOK
  <1>4. \/ phase' = phase /\ check'.of = check.of
        \/ VerifyReturns("settle")
        \/ /\ check.at = "activities"
           /\ VerifyReturns(Verdict(check.of, check.rows, check.matches, req[check.proc].body.stock))
    <2> DEFINE c == check
               body == req[check.proc].body
    <2>1. \/ /\ phase' = phase
             /\ \/ check' = [c EXCEPT !.at = "queued", !.proc = "none", !.rows = body.rows]
                \/ check' = [c EXCEPT !.at = "reconcile", !.proc = "none"]
                \/ check' = [c EXCEPT !.at = "orders", !.proc = "none", !.polls = @ + 1]
                \/ check' = [c EXCEPT !.at = "activities", !.proc = "none", !.matches = body.matches]
          \/ VerifyReturns("settle")
          \/ /\ check.at = "activities"
             /\ VerifyReturns(Verdict(check.of, check.rows, check.matches, body.stock))
      BY <1>2 DEF VerifyReads
    <2>2. c \in CheckState
      BY <1>3
    <2> HIDE DEF c
    <2>3. \/ check' = [c EXCEPT !.at = "queued", !.proc = "none", !.rows = body.rows]
          \/ check' = [c EXCEPT !.at = "reconcile", !.proc = "none"]
          \/ check' = [c EXCEPT !.at = "orders", !.proc = "none", !.polls = @ + 1]
          \/ check' = [c EXCEPT !.at = "activities", !.proc = "none", !.matches = body.matches]
          => check'.of = c.of
      BY <2>2 DEF CheckState
    <2> QED
      BY <2>1, <2>3 DEF c
  <1> QED
    BY <1>1, <1>2, <1>4

\* Every step keeps Verified.
LEMMA VerifiedStep ==
  IInv /\ Clients /\ OfThisLoad /\ Readings /\ Verified /\ [Next]_vars => Verified'
  <1> SUFFICES ASSUME IInv, Clients, OfThisLoad, Readings, Verified, [Next]_vars,
                      NoClientGaveUp', errors' = {}, NEW a \in Activities, Settled(a)'
               PROVE  /\ Orders(a, {"QUEUED"})' = {}
                      /\ Cardinality(Rowed(a))' = Accepted(a)'
                      /\ cache'[a] = stock'[a]
    BY DEF Verified
  <1>c. NoClientGaveUp /\ errors = {} /\ plan' = plan
    BY NoMishapBefore, ErrorsGrow, PlanFixed
  <1>l. a[1] \in Sales
    BY ActivityLoads
  <1>r. phase # a[1] \/ ~LoadEnds => Accepted(a)' = Accepted(a)
    <2>1. report' = report \/ LoadEnds
      BY ReportChanges
    <2>2. ASSUME LoadEnds, phase # a[1] PROVE report'[a[1]] = report[a[1]]
      BY <1>l, <2>2 DEF LoadEnds, IInv, LoadOK, Sales, Loads
    <2> QED
      BY <2>1, <2>2 DEF Accepted, Initial
  <1>1. CASE Settled(a)
    <2>1. phase # a[1]
      BY <1>1, <1>l DEF Settled, Verifying, Sales
    <2>2. /\ Orders(a, {"QUEUED"}) = {} /\ Cardinality(Rowed(a)) = Accepted(a)
          /\ cache[a] = stock[a]
      BY <1>1, <1>c DEF Verified
    <2>3. UNCHANGED database => /\ Orders(a, {"QUEUED"})' = {} /\ Rowed(a)' = Rowed(a)
                                /\ cache'[a] = stock'[a]
      BY <2>2 DEF database, Orders, Rowed
    <2>4. ASSUME NEW p \in Procs, PersistOrder(p), cache' = [cache EXCEPT ![req[p].activity] = @ - 1]
                                                   \/ cache' = cache
          PROVE  /\ Orders(a, {"QUEUED"})' = {} /\ Rowed(a)' = Rowed(a) /\ cache'[a] = stock'[a]
      <3>1. Ordering(p)
        BY <2>4 DEF PersistOrder, Creating, Ordering, Idle
      <3>2. PICK b, u : b = req[p].activity /\ u = req[p].user
        OBVIOUS
      <3>3. b # a
        BY <1>c, <2>1, <3>1, <3>2 DEF OfThisLoad
      <3>4. /\ \A v \in Users : order'[a][v] = order[a][v]
            /\ stock'[a] = stock[a] /\ Rowed(a)' = Rowed(a)
        BY <2>4, <3>2, <3>3, NewRow
      <3>5. cache'[a] = cache[a]
        BY <2>4, <3>2, <3>3 DEF IInv, DataOK
      <3> QED
        BY <2>2, <3>4, <3>5 DEF Orders
    <2>5. ASSUME NEW b \in Activities, NEW v \in Users, processOrderCreated(b, v)
          PROVE  /\ Orders(a, {"QUEUED"})' = {} /\ Rowed(a)' = Rowed(a) /\ cache'[a] = stock'[a]
      BY <2>2, <2>5, MovedRow DEF Orders
    <2>6. /\ Orders(a, {"QUEUED"})' = {} /\ Rowed(a)' = Rowed(a) /\ cache'[a] = stock'[a]
      BY <2>3, <2>4, <2>5, RowChanges DEF CreateOrder, CreateOrderCommitLost
    <2> QED
      BY <1>r, <2>1, <2>2, <2>6
  <1>2. CASE ~Settled(a)
    <2>1. Verifying /\ check.of = a /\ (VerifyReads \/ VerifyFails)
      BY <1>2, SettledNew
    <2>2. phase' # phase \/ check'.of # check.of
      BY <1>2, <1>c, <1>l, <2>1 DEF Settled, Verifying, Sales
    <2>3. \E errs : AfterVerify(errs)
      BY <2>1, <2>2, VerifyMoves
    <2> DEFINE body == req[check.proc].body
    <2>4. /\ VerifyReads /\ check.at = "activities"
          /\ Verdict(a, check.rows, check.matches, body.stock) = "none"
      BY <2>1, <2>2, <2>3, NoErrorReturned
    <2>5. Older(check.rows, a) /\ check.matches = (cache[a] = stock[a])
      BY <1>c, <2>1, <2>4 DEF Readings
    <2>6. /\ \A u \in Users : check.rows[u] \in {"none", "WAIT_PAY"}
          /\ Cardinality({u \in Users : check.rows[u] # "none"}) = Accepted(a)
          /\ check.matches
      BY <2>4 DEF Verdict
    <2>7. order \in [Activities -> Rows] /\ UNCHANGED database
      BY <2>4 DEF IInv, DataOK, VerifyReads
    <2>8. Rowed(a) = {u \in Users : check.rows[u] # "none"} /\ Orders(a, {"QUEUED"}) = {}
      BY <2>5, <2>6, <2>7 DEF Older, Rowed, Orders, Rows
    <2>9. Rowed(a)' = Rowed(a) /\ Orders(a, {"QUEUED"})' = Orders(a, {"QUEUED"})
          /\ cache'[a] = cache[a] /\ stock'[a] = stock[a]
      BY <2>7 DEF Rowed, Orders, database
    <2>10. ~LoadEnds
      BY <2>1 DEF Verifying, LoadEnds, Loading, Runs, Reads, Loads
    <2> QED
      BY <1>r, <2>5, <2>6, <2>8, <2>9, <2>10
  <1> QED
    BY <1>1, <1>2

-----------------------------------------------------------------------------
(* Samples, and what mishaps leave behind *)

\* The sample a worker adds.
LEMMA SampleFields ==
  ASSUME IInv, NEW w \in Workers, NEW s \in Statuses \cup {0}, NEW f \in BOOLEAN,
         Sample(w, s, f), NEW n, n = Len(results)
  PROVE  /\ n \in Nat /\ DOMAIN results = 1..n /\ DOMAIN results' = 1..(n + 1)
         /\ \A i \in 1..n : results'[i] = results[i]
         /\ results'[n + 1].status = s /\ results'[n + 1].failed = f
  <1> DEFINE d == clock - job[w].start
             x == [status |-> s, failed |-> f, latency |-> d]
  <1>1. results \in Seq(Samples)
    BY DEF IInv, LoadOK
  <1>2. results' = Append(results, x) /\ x.status = s /\ x.failed = f /\ x \in Samples
    <2>1. d \in Int
      BY ClockNat DEF IInv, LoadOK, JobState
    <2>2. results' = Append(results, x)
      BY DEF Sample
    <2> HIDE DEF d
    <2> QED
      BY <2>1, <2>2 DEF Samples
  <1> HIDE DEF x, d
  <1> QED
    BY <1>1, <1>2

\* Who changes the samples.
LEMMA SampleChanges ==
  ASSUME [Next]_vars
  PROVE  results' = results \/ LoadEnds \/ \E w \in Workers : ReceiveResponse(w) \/ ResponseUnreadable(w) \/ RequestFails(w)
  BY LoadChanges DEF loadVars, SendRequest, WorkerReturns, VerifyCalls, VerifyReads, VerifyFails,
     Setup, WriteReport

\* What is received is a status of the request of the load.
LEMMA ReceivedSample ==
  ASSUME IInv, NEW w \in Workers, ReceiveResponse(w), NEW n, n = Len(results),
         NEW q, q = job[w].proc
  PROVE  /\ q \in Procs /\ req[q].stage = "reply" /\ req[q].route = Route
         /\ req' = [req EXCEPT ![q] = NoRequest]
         /\ n \in Nat /\ DOMAIN results = 1..n /\ DOMAIN results' = 1..(n + 1)
         /\ \A i \in 1..n : results'[i] = results[i]
         /\ results'[n + 1].status = req[q].status /\ ~results'[n + 1].failed
         /\ phase' = phase
  <1>1. req[q].status \in Statuses \cup {0} /\ q \in Procs
    BY ReceivedStatus
  <1>2. Sample(w, req[q].status, FALSE) /\ req[q].stage = "reply" /\ phase' = phase
        /\ req' = [req EXCEPT ![q] = NoRequest]
    BY DEF ReceiveResponse
  <1>3. req[q].route \in {Route, "none"} /\ req[q].route \in Routes
    BY <1>1, <1>2 DEF ReceiveResponse, IInv, JobsOK, RequestsOK, RequestOK, RouteOK
  <1>4. "none" \notin Routes
    BY DEF Routes
  <1>5. PICK s : s = req[q].status
    OBVIOUS
  <1>6. /\ n \in Nat /\ DOMAIN results = 1..n /\ DOMAIN results' = 1..(n + 1)
        /\ \A i \in 1..n : results'[i] = results[i]
        /\ results'[n + 1].status = s /\ results'[n + 1].failed = FALSE
    BY <1>1, <1>2, <1>5, SampleFields
  <1> QED
    BY <1>1, <1>2, <1>3, <1>4, <1>5, <1>6

\* The sample of a request that failed, or whose response could not be read.
LEMMA FailedSample ==
  ASSUME IInv, NEW w \in Workers, RequestFails(w) \/ ResponseUnreadable(w),
         NEW n, n = Len(results)
  PROVE  /\ n \in Nat /\ DOMAIN results = 1..n /\ DOMAIN results' = 1..(n + 1)
         /\ \A i \in 1..n : results'[i] = results[i]
         /\ results'[n + 1].failed /\ phase' = phase
  <1>1. PICK s \in Statuses \cup {0} : Sample(w, s, TRUE)
    <2>1. CASE RequestFails(w)
      BY <2>1 DEF RequestFails
    <2>2. CASE ResponseUnreadable(w)
      BY <2>2, ReceivedStatus DEF ResponseUnreadable
    <2> QED
      BY <2>1, <2>2
  <1>2. phase' = phase
    BY DEF RequestFails, ResponseUnreadable
  <1>3. /\ n \in Nat /\ DOMAIN results = 1..n /\ DOMAIN results' = 1..(n + 1)
        /\ \A i \in 1..n : results'[i] = results[i]
        /\ results'[n + 1].status = s /\ results'[n + 1].failed = TRUE
    BY <1>1, SampleFields
  <1> QED
    BY <1>2, <1>3

\* The samples that are counted as system errors.
Failures == {i \in DOMAIN results : results[i].failed \/ results[i].status >= 500}

\* The warm-up leaves no report.
LEMMA WarmUpEnds ==
  ASSUME LoadEnds, phase = "warmup"
  PROVE  report' = report /\ phase' = "query"
  BY DEF LoadEnds, AfterLoad

\* The report of a load that is not the warm-up.
LEMMA Summary ==
  ASSUME IInv, LoadEnds, phase # "warmup"
  PROVE  /\ phase \in Loads /\ phase' = AfterLoad
         /\ report'[phase].accepted = WithStatus(202) /\ report'[phase].ok = WithStatus(200)
         /\ report'[phase].requests = Len(results)
         /\ report'[phase].errors = Cardinality(Failures)
         /\ \A l \in Loads : l # phase => report'[l] = report[l]
  <1> DEFINE s == summarize
  <1>1. /\ phase \in Loads /\ phase' = AfterLoad /\ report' = [report EXCEPT ![phase] = s]
    BY DEF LoadEnds, Loading, Runs, Reads, Loads
  <1>2. /\ s.accepted = WithStatus(202) /\ s.ok = WithStatus(200) /\ s.requests = Len(results)
        /\ s.errors = Cardinality(Failures)
    BY DEF summarize, Failures
  <1>3. DOMAIN report = Loads
    BY DEF IInv, LoadOK
  <1> HIDE DEF s
  <1>4. report'[phase] = s /\ \A l \in Loads : l # phase => report'[l] = report[l]
    BY <1>1, <1>3
  <1> QED
    BY <1>1, <1>2, <1>4

\* No error is counted if there was none, and all are 200 if so many are.
LEMMA FailuresCount ==
  ASSUME IInv
  PROVE  /\ Cardinality(Failures) \in Nat /\ Len(results) \in Nat /\ WithStatus(200) \in Nat
         /\ Cardinality(Failures) = 0 <=> Failures = {}
         /\ WithStatus(200) = Len(results) <=> \A i \in DOMAIN results : results[i].status = 200
  <1> DEFINE n == Len(results)
             G == {i \in DOMAIN results : results[i].status = 200}
  <1>0. results \in Seq(Samples)
    BY DEF IInv, LoadOK
  <1>1. n \in Nat /\ DOMAIN results = 1..n
    BY <1>0
  <1>2. IsFiniteSet(1..n) /\ Cardinality(1..n) = n
    <2> HIDE DEF n
    <2>1. IsFiniteSet(1..n) /\ Cardinality(1..n) = IF 1 > n THEN 0 ELSE n - 1 + 1
      BY <1>1, FS_Interval
    <2> QED
      BY <1>1, <2>1
  <1>3. Failures \subseteq 1..n /\ G \subseteq 1..n
    BY <1>1 DEF Failures
  <1>4. IsFiniteSet(Failures) /\ IsFiniteSet(G)
    BY ZenonT(60), <1>2, <1>3, FS_Subset
  <1>5. Cardinality(G) = n => G = 1..n
    BY <1>2, <1>3, FS_Subset
  <1>6. G = 1..n => Cardinality(G) = n
    BY <1>2
  <1>7. (G = 1..n) <=> \A i \in DOMAIN results : results[i].status = 200
    BY <1>1
  <1>8. WithStatus(200) = Cardinality(G)
    BY DEF WithStatus
  <1> QED
    BY <1>1, <1>4, <1>5, <1>6, <1>7, <1>8, FS_CardinalityType, FS_EmptySet

\* A report of the load that runs is still empty.
LEMMA EmptyReport ==
  ASSUME IInv, Unreported, phase \in Loads
  PROVE  report[phase].errors = 0 /\ report[phase].ok = report[phase].requests
  <1>1. NoReport.errors = 0 /\ NoReport.ok = 0 /\ NoReport.requests = 0
    BY DEF NoReport
  <1> QED
    BY <1>1 DEF Unreported, Loads, Sales

\* The trace of a client that gave up stays.
LEMMA GaveUpTrace ==
  ASSUME IInv, Unreported, Progress, Traces, [Next]_vars, ~NoClientGaveUp'
  PROVE  \/ errors' # {}
         \/ phase' # "warmup" /\ \E i \in DOMAIN results' : results'[i].failed
         \/ \E l \in Loads : report'[l].errors > 0
  <1> DEFINE Goal == \/ errors' # {}
                     \/ phase' # "warmup" /\ \E i \in DOMAIN results' : results'[i].failed
                     \/ \E l \in Loads : report'[l].errors > 0
  <1>1. ASSUME NEW w \in Workers, RequestFails(w) \/ ResponseUnreadable(w), phase # "warmup"
        PROVE  Goal
    <2>1. PICK n : n = Len(results)
      OBVIOUS
    <2>2. n \in Nat /\ DOMAIN results' = 1..(n + 1) /\ results'[n + 1].failed /\ phase' = phase
      BY <1>1, <2>1, FailedSample
    <2>3. n + 1 \in DOMAIN results'
      BY <2>2
    <2> QED
      BY <1>1, <2>2, <2>3
  <1>2. CASE VerifyFails
    BY <1>2 DEF VerifyFails, VerifyReturns
  <1>3. ASSUME ~VerifyFails,
               ~\E w \in Workers : (RequestFails(w) \/ ResponseUnreadable(w)) /\ phase # "warmup"
        PROVE  ~NoClientGaveUp
    <2>1. ASSUME NEW k \in MishapKinds, k # "client", Mishap(k) PROVE mishaps'["client"] = mishaps["client"]
      BY <2>1, MishapFacts DEF MishapKinds
    <2>2. "deadline" \in MishapKinds /\ "database" \in MishapKinds /\ "commit" \in MishapKinds
      BY DEF MishapKinds
    <2>3. ASSUME NEW w \in Workers, RequestFails(w) \/ ResponseUnreadable(w)
          PROVE  mishaps'["client"] = mishaps["client"]
      BY <1>3, <2>3, LostFacts DEF RequestFails, ResponseUnreadable
    <2>4. mishaps'["client"] = mishaps["client"]
      BY <1>3, <2>1, <2>2, <2>3, DataChanges
         DEF CreateOrder, CreateOrderCommitLost, CreateOrderFails, ReadHandlerFails, IncBusinessEvent,
             ObserveHTTPRequest, processOrderCreated
    <2> QED
      BY <2>4 DEF NoClientGaveUp
  <1>4. CASE ~NoClientGaveUp
    <2>1. CASE errors # {}
      BY <2>1, ErrorsGrow
    <2>2. ASSUME phase # "warmup", NEW i \in DOMAIN results, results[i].failed PROVE Goal
      <3>1. ASSUME NEW w \in Workers, ReceiveResponse(w) PROVE Goal
        <4>1. PICK n, q : n = Len(results) /\ q = job[w].proc
          OBVIOUS
        <4>2. i \in DOMAIN results' /\ results'[i] = results[i] /\ phase' = phase
          BY <2>2, <3>1, <4>1, ReceivedSample
        <4> QED
          BY <2>2, <4>2
      <3>2. CASE LoadEnds
        <4>1. Failures # {}
          BY <2>2 DEF Failures
        <4>2. report'[phase].errors > 0 /\ phase \in Loads
          BY <2>2, <3>2, <4>1, Summary, FailuresCount
        <4> QED
          BY <4>2
      <3>3. CASE results' = results /\ ~LoadEnds
        <4>1. Loading
          BY <2>2 DEF Progress
        <4>2. phase' = phase
          BY <3>3, <4>1, PhaseEnds
        <4> QED
          BY <2>2, <3>3, <4>2
      <3> QED
        BY <1>1, <2>2, <3>1, <3>2, <3>3, SampleChanges
    <2>3. ASSUME NEW l \in Loads, report[l].errors > 0 PROVE Goal
      <3>1. CASE LoadEnds /\ phase # "warmup"
        <4>1. l # phase
          BY <2>3, <3>1, EmptyReport
        <4> QED
          BY <2>3, <3>1, <4>1, Summary
      <3> QED
        BY <2>3, <3>1, ReportChanges, WarmUpEnds
    <2> QED
      BY <1>4, <2>1, <2>2, <2>3 DEF Traces
  <1> QED
    BY <1>1, <1>2, <1>3, <1>4

\* Every step keeps Traces.
LEMMA TracesStep == IInv /\ Unreported /\ Progress /\ Traces /\ [Next]_vars => Traces'
  BY GaveUpTrace DEF Traces

-----------------------------------------------------------------------------
(* A report of success *)

\* What PassedMeansCorrect rests on, besides IInv.
VInv ==
    /\ Units /\ FromLoads /\ Progress /\ Clients /\ OfThisLoad /\ CallOfCheck /\ Unreported
    /\ Readings /\ Verified /\ Traces /\ Judged

\* VInv holds initially.
LEMMA InitVInv == Init => VInv
  <1> SUFFICES ASSUME Init PROVE VInv
    OBVIOUS
  <1> USE DEF Init, PipelineInit
  <1>1. \A p \in Procs : req[p] = NoRequest
    OBVIOUS
  <1>2. \A p \in Procs : ~Ordering(p) /\ ~req[p].client
    BY <1>1 DEF Ordering, Idle, NoRequest
  <1>3. \A a \in Activities : Rowed(a) = {}
    BY DEF Rowed, Orders
  <1>4. \A a \in Activities : stock[a] = Initial(a) /\ cache[a] = Initial(a) /\ Initial(a) \in Nat
    BY InitialNat, LoadTestAssumption DEF Initial
  <1>5. Units
    <2>1. "commit" \in MishapKinds
      BY DEF MishapKinds
    <2>2. mishaps["commit"] = 0
      BY <2>1
    <2>3. \A a \in Activities : Cardinality(Rowed(a)) = 0
      BY <1>3, FS_EmptySet
    <2> QED
      BY <1>4, <2>2, <2>3 DEF Units
  <1>6. Progress
    BY DEF Progress, Loading, Runs, Reads, Loads, Sales
  <1>7. FromLoads /\ Clients /\ OfThisLoad
    BY <1>2, <1>3 DEF FromLoads, Clients, OfThisLoad
  <1>8. CallOfCheck /\ Readings /\ Judged
    BY DEF CallOfCheck, Readings, Judged, Verifying
  <1>9. Unreported
    BY DEF Unreported, Sales, Loads
  <1>10. Verified
    <2>1. \A a \in Activities : ~Settled(a)
      BY ActivityLoads DEF Settled, Verifying, Sales
    <2> QED
      BY <2>1 DEF Verified
  <1>11. Traces
    BY DEF Traces, NoClientGaveUp, MishapKinds
  <1> QED
    BY <1>5, <1>6, <1>7, <1>8, <1>9, <1>10, <1>11 DEF VInv

\* Every step keeps VInv.
LEMMA NextVInv == IInv /\ IInv' /\ VInv /\ [Next]_vars => VInv'
  <1> SUFFICES ASSUME IInv, IInv', VInv, [Next]_vars PROVE VInv'
    OBVIOUS
  <1> USE DEF VInv
  <1>1. Units' /\ FromLoads' /\ Progress' /\ Clients'
    BY UnitsStep, FromLoadsStep, ProgressStep, ClientsStep
  <1>2. OfThisLoad' /\ CallOfCheck' /\ Unreported'
    BY <1>1, OfThisLoadStep, CallOfCheckStep, UnreportedStep
  <1>3. Readings' /\ Verified' /\ Traces' /\ Judged'
    BY ReadingsStep, VerifiedStep, TracesStep, JudgedStep
  <1> QED
    BY <1>1, <1>2, <1>3

\* At every moment orders come from what was asked for and units are conserved, what
\* verify read and accepted still holds, and a client that gave up outside the warm-up
\* leaves a trace in what is reported.
THEOREM VInvHolds == Spec => []VInv
  <1>1. Init => IInv
    BY InitIInv
  <1>2. IInv /\ [Next]_vars => IInv'
    BY NextIInv
  <1> QED
    BY <1>1, <1>2, InitVInv, NextVInv, PTL DEF Spec

\* What verify found of an activity holds when the program is done.
LEMMA DoneSettled ==
  ASSUME IInv, VInv, Passed
  PROVE  /\ NoClientGaveUp
         /\ \A p \in Procs : ~Ordering(p)
         /\ ReportErrors = {}
         /\ \A a \in Activities :
                a[1] # "write" \/ plan.writes > 0 =>
                    /\ Orders(a, {"QUEUED"}) = {} /\ Cardinality(Rowed(a)) = Accepted(a)
                    /\ cache[a] = stock[a]
  <1>1. phase = "done" /\ errors = {} /\ ~Loading /\ ~Verifying
    BY DEF Passed, Loading, Runs, Reads, Loads, Verifying
  <1>2. ReportErrors = {}
    BY <1>1 DEF VInv, Judged
  <1>3. \A l \in Loads : ~(report[l].errors > 0)
    BY <1>2 DEF ReportErrors
  <1>5. results = <<>>
    BY <1>1 DEF VInv, Progress
  <1>6. NoClientGaveUp
    BY <1>1, <1>3, <1>5 DEF VInv, Traces
  <1>7. \A p \in Procs : ~Ordering(p)
    BY <1>1, <1>6, NobodyLeft DEF VInv
  <1>9. ASSUME NEW a \in Activities, a[1] # "write" \/ plan.writes > 0 PROVE Settled(a)
    BY <1>1, <1>9, ActivityLoads DEF Settled, Sales
  <1> QED
    BY <1>1, <1>2, <1>6, <1>7, <1>9 DEF VInv, Verified

\* A report of success is true: one order for the user who asked many times, the
\* stock sold and no more, every write stored, all of them moved on, both stock
\* stores in step, no order under way, and no answer of a reported load lost nor
\* commit in doubt, for any number of workers, users, activities and requests.
THEOREM PassedMeansCorrectHolds == Spec => []PassedMeansCorrect
  <1>1. ASSUME IInv, VInv PROVE PassedMeansCorrect
    <2> SUFFICES ASSUME Passed
                 PROVE  /\ \A a \in Activities :
                               LET n == Cardinality(Orders(a, {"WAIT_PAY"}))
                               IN  /\ n = CASE a[1] = "duplicate" -> 1
                                            [] a[1] = "stock" -> Stock
                                            [] a[1] = "write" -> IF plan.writes = 0 THEN 0
                                                                 ELSE Initial(a)
                                   /\ stock[a] = Initial(a) - n
                                   /\ Orders(a, {"QUEUED"}) = {}
                        /\ \A p \in Procs : req[p].route = "POST /orders" => req[p].stage = "idle"
                        /\ mishaps["client"] = 0 /\ mishaps["commit"] = 0
      BY DEF PassedMeansCorrect
    <2>1. /\ NoClientGaveUp /\ ReportErrors = {}
          /\ \A p \in Procs : ~Ordering(p)
      BY <1>1, DoneSettled
    <2>2. ASSUME NEW a \in Activities, a[1] = "write", plan.writes = 0
          PROVE  Rowed(a) = {} /\ cache[a] = stock[a]
      <3>1. Sent("write") = 0
        BY <2>2 DEF Sent, Planned, Ahead, Verifying, Passed
      <3>2. Rowed(a) = {}
        BY <1>1, <2>2, <3>1 DEF VInv, FromLoads, Asked
      <3>3. Cardinality(Rowed(a)) = 0
        BY <3>2, FS_EmptySet
      <3>4. /\ stock[a] + Cardinality(Rowed(a)) = Initial(a)
            /\ stock[a] <= cache[a] /\ cache[a] <= Initial(a)
            /\ stock[a] \in Nat /\ cache[a] \in Int
        BY <1>1, <2>2 DEF VInv, Units, IInv, DataOK
      <3> QED
        BY <3>2, <3>3, <3>4, InitialNat
    <2>3. /\ report["duplicate"].accepted = 1 /\ report["stock"].accepted = Stock
      BY <2>1 DEF ReportErrors
    <2>4. ASSUME NEW a \in Activities
          PROVE  /\ Orders(a, {"QUEUED"}) = {} /\ cache[a] = stock[a]
                 /\ Cardinality(Rowed(a)) = CASE a[1] = "duplicate" -> 1
                                              [] a[1] = "stock" -> Stock
                                              [] a[1] = "write" -> IF plan.writes = 0 THEN 0
                                                                   ELSE Initial(a)
      <3>1. a[1] \in Sales /\ plan.writes \in Nat
        BY <1>1, ActivityLoads, Counts
      <3>2. CASE a[1] # "write" \/ plan.writes > 0
        <4>1. /\ Orders(a, {"QUEUED"}) = {} /\ Cardinality(Rowed(a)) = Accepted(a)
              /\ cache[a] = stock[a]
          BY <1>1, <3>2, DoneSettled
        <4> QED
          BY <2>3, <3>1, <3>2, <4>1 DEF Accepted, Sales
      <3>3. CASE a[1] = "write" /\ plan.writes = 0
        <4>1. Rowed(a) = {} /\ cache[a] = stock[a]
          BY <2>2, <3>3
        <4>2. Orders(a, {"QUEUED"}) = {}
          BY <4>1 DEF Rowed, Orders
        <4> QED
          BY <3>3, <4>1, <4>2, FS_EmptySet
      <3>4. plan.writes > 0 \/ plan.writes = 0
        BY <3>1
      <3> QED
        BY <3>2, <3>3, <3>4, Zenon
    <2>5. ASSUME NEW a \in Activities
          PROVE  Orders(a, {"WAIT_PAY"}) = Rowed(a) /\ stock[a] = Initial(a) - Cardinality(Rowed(a))
      <3>1. Orders(a, {"WAIT_PAY"}) = Rowed(a)
        BY <2>4 DEF Orders, Rowed
      <3>2. stock[a] + Cardinality(Rowed(a)) = Initial(a) /\ stock[a] \in Nat
        BY <1>1 DEF VInv, Units, IInv, DataOK
      <3> QED
        BY <3>1, <3>2, RowedFinite, InitialNat
    <2>6. mishaps["commit"] = 0
      BY <1>1, <2>4 DEF VInv, Units
    <2> QED
      BY <2>1, <2>4, <2>5, <2>6 DEF NoClientGaveUp, Ordering, Idle
  <1> QED
    BY <1>1, IInvHolds, VInvHolds, PTL

-----------------------------------------------------------------------------
(* Without a mishap *)

\* There was no mishap, and nobody was or is about to be blocked.
Unhindered ==
    /\ Clean /\ events["blocked"] = 0
    /\ \A p \in Procs : req[p].stage = "event" => req[p].event # "blocked"

\* Without a mishap, what is answered to a query, and to an order.
StatusClean(s, query) == IF query THEN s = 200 ELSE s \in {202, 409, 429}

\* The status r is answered with is one of those.
AnswerClean(r) ==
    r.stage \in {"event", "observe", "reply"} => StatusClean(r.status, r.route # "POST /orders")

\* The status of a sample is one of those.
SampleClean(s, queries) ==
    ~s.failed /\ StatusClean(s.status, queries)

\* Answers on their way, samples and reports when there was no mishap.
CleanAnswers == Clean => \A p \in Procs : AnswerClean(req[p])

CleanSamples == Clean => \A i \in DOMAIN results : SampleClean(results[i], phase \in Reads)

CleanReports ==
    Clean => /\ \A l \in Loads : report[l].errors = 0
             /\ report["query"].ok = report["query"].requests

\* p is about to order a for u.
Wants(p, a, u) ==
    /\ req[p].stage \in {"limit", "handler"} /\ req[p].route = "POST /orders"
    /\ req[p].user = u /\ req[p].activity = a

\* A request of u for a waits for the limiter or its handler.
Pending(a, u) == \E p \in Procs : Wants(p, a, u)

\* Whoever asked has an order, finds nothing left, or waits.
Served ==
    Unhindered => \A l \in Sales : \A i \in 0..(Sent(l) - 1) :
        LET u == Aim(l, i)[1]
            a == Aim(l, i)[2]
        IN  u \in Rowed(a) \/ stock[a] = 0 \/ Pending(a, u)

\* The orders, as pairs.
Pairs == {x \in Activities \X Users : order[x[1]][x[2]] # "none"}

\* Persisted counts the pairs.
Counted == Persisted = Cardinality(Pairs)

\* What execute expects to be accepted.
Expected(l) ==
    CASE l = "duplicate" -> 1 [] l = "stock" -> Stock [] l = "write" -> plan.writes

\* The reports of the loads that are over are as expected.
RightReports == Unhindered => \A l \in Sales : Over(l) => report[l].accepted = Expected(l)

\* The verification finds nothing but orders that were not settled.
RightErrors ==
    Unhindered /\ (phase = "done" => \/ report["query"].requests > 0
                                    \/ \E e \in errors : e[2] = "duplicate") =>
        \A e \in errors : e[1] \in {"state", "settle"}

\* Who counts events.
LEMMA EventChanges ==
  ASSUME [Next]_vars
  PROVE  UNCHANGED events \/ \E p \in Procs : IncBusinessEvent(p)
  BY DataChanges DEF CreateOrder, CreateOrderCommitLost, CreateOrderFails, ReadHandlerFails,
     ObserveHTTPRequest, processOrderCreated, ResponseUnreadable, RequestFails, VerifyFails

\* The counter of blocked requests never falls.
LEMMA EventsGrow ==
  ASSUME IInv, [Next]_vars
  PROVE  events'["blocked"] = 0 => events["blocked"] = 0
  <1>1. events \in [Results -> Nat] /\ "blocked" \in Results
    BY DEF IInv, DataOK, Results
  <1>2. ASSUME NEW p \in Procs, IncBusinessEvent(p)
        PROVE  events'["blocked"] = 0 => events["blocked"] = 0
    BY <1>1, <1>2 DEF IncBusinessEvent
  <1> QED
    BY <1>2, EventChanges

\* What still makes a run not unhindered makes the next state so.
LEMMA UnhinderedBefore ==
  ASSUME IInv, [Next]_vars, Unhindered'
  PROVE  Unhindered
  <1>1. Clean /\ events["blocked"] = 0
    BY NoMishapBefore, EventsGrow DEF Unhindered
  <1>2. ASSUME NEW p \in Procs, req[p].stage = "event", req[p].event = "blocked"
        PROVE  FALSE
    <2>1. CASE req'[p] = req[p]
      BY <1>2, <2>1 DEF Unhindered
    <2>2. CASE IncBusinessEvent(p)
      <3>1. events \in [Results -> Nat] /\ "blocked" \in Results
        BY DEF IInv, DataOK, Results
      <3>2. events'["blocked"] = events["blocked"] + 1
        BY <1>2, <2>2, <3>1 DEF IncBusinessEvent
      <3> QED
        BY <1>1, <3>2 DEF Unhindered
    <2>3. CASE \E w \in Workers : job[w].proc = p /\ RequestFails(w)
      BY <2>3, MishapShows DEF RequestFails, AnswerLost, MishapKinds, Unhindered
    <2>4. CASE check.proc = p /\ VerifyFails
      BY <1>2, <2>4, MishapShows DEF VerifyFails, MishapKinds, Unhindered
    <2> QED
      BY <1>2, <2>1, <2>2, <2>3, <2>4, OneRequest
         DEF About, LimiterReturns, CreateOrder, CreateOrderCommitLost, CreateOrderFails,
             PersistOrder, Creating, ReadHandler, ReadHandlerFails, ObserveHTTPRequest,
             VerifyCalls, SendRequest, Arrive, Idle, ReceiveResponse, ResponseUnreadable,
             VerifyReads
  <1> QED
    BY <1>1, <1>2 DEF Unhindered

\* An order is refused, without a mishap, because it exists or nothing is left.
LEMMA RefusedClean ==
  ASSUME IInv, [Next]_vars, Clean', NEW p \in Procs, CreateOrderFails(p), NEW a, NEW u,
         a = req[p].activity, u = req[p].user
  PROVE  /\ \E e : Answer(p, 409, e) /\ e # "blocked"
         /\ order[a][u] # "none" \/ stock[a] <= 0
         /\ Creating(p)
  <1>1. Clean /\ NoClientGaveUp
    BY NoMishapBefore
  <1>2. req[p].client
    BY <1>1 DEF IInv, WaitedFor, NoClientGaveUp, CreateOrderFails, Creating, Idle, IsOrder
  <1>3. ~Mishap("deadline") /\ ~Mishap("database")
    BY MishapShows DEF MishapKinds
  <1>4. \/ order[a][u] # "none" /\ Fail(p, "ErrDuplicateOrder")
        \/ stock[a] <= 0 /\ Fail(p, "ErrSoldOut")
    BY <1>2, <1>3 DEF CreateOrderFails
  <1>5. /\ orderErrorStatus("ErrDuplicateOrder") = 409 /\ orderErrorStatus("ErrSoldOut") = 409
        /\ orderErrorMetric("ErrDuplicateOrder") = "duplicate_order"
        /\ orderErrorMetric("ErrSoldOut") = "sold_out"
    BY DEF orderErrorStatus, orderErrorMetric
  <1>6. Answer(p, 409, "duplicate_order") \/ Answer(p, 409, "sold_out")
    BY <1>4, <1>5 DEF Fail
  <1>7. Creating(p)
    BY DEF CreateOrderFails
  <1> QED
    BY <1>4, <1>6, <1>7

\* No client goes away and no call fails.
LEMMA NothingFails ==
  ASSUME IInv, [Next]_vars, Clean'
  PROVE  /\ \A w \in Workers : ~RequestFails(w) /\ ~ResponseUnreadable(w)
         /\ \A p \in Procs : ~CreateOrderCommitLost(p) /\ ~ReadHandlerFails(p)
         /\ VerifyFails => /\ req[check.proc].stage = "reply" /\ req[check.proc].status # 200
                           /\ req' = [req EXCEPT ![check.proc] = NoRequest]
  BY MishapShows DEF RequestFails, ResponseUnreadable, AnswerLost, CreateOrderCommitLost,
     ReadHandlerFails, VerifyFails, MishapKinds

\* Every step keeps CleanAnswers.
LEMMA CleanAnswersStep == IInv /\ CleanAnswers /\ [Next]_vars => CleanAnswers'
  <1> SUFFICES ASSUME IInv, CleanAnswers, [Next]_vars, Clean', NEW p \in Procs
               PROVE  AnswerClean(req'[p])
    BY DEF CleanAnswers
  <1>1. AnswerClean(req[p])
    BY NoMishapBefore DEF CleanAnswers
  <1>2. req[p].stage \in {"limit", "event"} => req[p].route = "POST /orders"
    BY DEF IInv, RequestsOK, RequestOK, RouteOK
  <1>b. ASSUME req'[p].route # "POST /orders", req'[p].status = 200 PROVE AnswerClean(req'[p])
    BY <1>b DEF AnswerClean, StatusClean
  <1>c. ASSUME req'[p].stage \in {"idle", "limit", "handler"} PROVE AnswerClean(req'[p])
    BY <1>c DEF AnswerClean
  <1>d. ASSUME req[p].stage \in {"event", "observe"}, req'[p].status = req[p].status,
               req'[p].route = req[p].route
        PROVE  AnswerClean(req'[p])
    BY <1>1, <1>d DEF AnswerClean
  <1>0. CASE req'[p] = req[p]
    BY <1>0, <1>1 DEF AnswerClean
  <1>3. CASE LimiterReturns(p)
    <2>1. req[p].route = "POST /orders"
      BY <1>2, <1>3 DEF LimiterReturns
    <2>2. CASE Step(p, "handler")
      BY <1>c, <2>2, StepFields
    <2>3. CASE Answer(p, 429, "blocked")
      <3>1. req'[p].status = 429 /\ req'[p].route = "POST /orders"
        <4>1. PICK s : s = 429
          OBVIOUS
        <4>2. Answer(p, s, "blocked")
          BY <2>3, <4>1
        <4>3. req'[p].status = s /\ req'[p].route = "POST /orders"
          BY <2>1, <4>2, AnswerFields
        <4> QED
          BY <4>1, <4>3
      <3> QED
        BY <3>1 DEF AnswerClean, StatusClean
    <2> QED
      BY <1>3, <2>2, <2>3 DEF LimiterReturns
  <1>4. CASE CreateOrder(p)
    <2>1. PICK s : s = 202
      OBVIOUS
    <2>2. Answer(p, s, "accepted") /\ req[p].route = "POST /orders"
      BY <1>4, <2>1 DEF CreateOrder, PersistOrder, Creating
    <2>3. req'[p].status = s /\ req'[p].route = "POST /orders"
      BY <2>2, AnswerFields
    <2>4. req'[p].status = 202 /\ req'[p].route = "POST /orders"
      BY <2>1, <2>3
    <2> QED
      BY <2>4 DEF AnswerClean, StatusClean
  <1>5. CASE CreateOrderFails(p)
    <2>1. PICK s : s = 409
      OBVIOUS
    <2>2. PICK e : Answer(p, s, e) /\ req[p].route = "POST /orders"
      BY <1>5, <2>1, RefusedClean DEF Creating
    <2>3. req'[p].status = s /\ req'[p].route = "POST /orders"
      BY <2>2, AnswerFields
    <2>4. req'[p].status = 409 /\ req'[p].route = "POST /orders"
      BY <2>1, <2>3
    <2> QED
      BY <2>4 DEF AnswerClean, StatusClean
  <1>6. CASE ReadHandler(p)
    <2>1. /\ req'[p].route = req[p].route /\ req[p].route # "POST /orders"
          /\ req'[p].status = 200 \/ ReadHandlerFails(p)
      BY <1>6, ReadFields DEF ReadHandler
    <2> QED
      BY <1>b, <2>1, NothingFails
  <1>7. CASE IncBusinessEvent(p)
    BY <1>7, <1>d, StepFields DEF IncBusinessEvent
  <1>8. CASE Arrives(p)
    BY <1>8, <1>c DEF Arrives
  <1>9. ASSUME req' = [req EXCEPT ![p] = NoRequest] PROVE AnswerClean(req'[p])
    BY <1>9, <1>c, DropFields
  <1>10. CASE ObserveHTTPRequest(p)
    <2>1. CASE Step(p, "reply")
      BY <1>d, <1>10, <2>1, StepFields DEF ObserveHTTPRequest
    <2> QED
      BY <1>9, <1>10, <2>1 DEF ObserveHTTPRequest
  <1>11. ASSUME NEW w \in Workers, job[w].proc = p, ReceiveResponse(w)
         PROVE  req' = [req EXCEPT ![p] = NoRequest]
    BY <1>11 DEF ReceiveResponse
  <1>12. ASSUME check.proc = p, VerifyReads \/ VerifyFails
         PROVE  req' = [req EXCEPT ![p] = NoRequest]
    BY <1>12, NothingFails DEF VerifyReads
  <1>13. ASSUME VerifyCalls(p) \/ \E w \in Workers : SendRequest(w, p) PROVE Arrives(p)
    <2>1. Idle(p) /\ About(p)
      BY <1>13 DEF VerifyCalls, SendRequest, Arrive, About
    <2>2. req'[p].client
      BY <1>13, ArriveFields DEF VerifyCalls, SendRequest
    <2> QED
      BY <2>1, <2>2, Fate DEF Proceeds, Ends, LosesClient, NoRequest
  <1> QED
    BY <1>0, <1>3, <1>4, <1>5, <1>6, <1>7, <1>8, <1>9, <1>10, <1>11, <1>12, <1>13,
       OneRequest, NothingFails DEF About

\* Every step keeps CleanSamples.
LEMMA CleanSamplesStep ==
  IInv /\ Progress /\ CleanAnswers /\ CleanSamples /\ [Next]_vars => CleanSamples'
  <1> SUFFICES ASSUME IInv, Progress, CleanAnswers, CleanSamples, [Next]_vars, Clean',
                      NEW i \in DOMAIN results'
               PROVE  SampleClean(results'[i], phase' \in Reads)
    BY DEF CleanSamples
  <1>1. Clean /\ \A j \in DOMAIN results : SampleClean(results[j], phase \in Reads)
    BY NoMishapBefore DEF CleanSamples
  <1>2. ASSUME NEW w \in Workers, ReceiveResponse(w)
        PROVE  SampleClean(results'[i], phase' \in Reads)
    <2>1. PICK n, q : n = Len(results) /\ q = job[w].proc
      OBVIOUS
    <2>2. /\ q \in Procs /\ req[q].stage = "reply" /\ req[q].route = Route
          /\ n \in Nat /\ DOMAIN results = 1..n /\ DOMAIN results' = 1..(n + 1)
          /\ \A j \in 1..n : results'[j] = results[j]
          /\ results'[n + 1].status = req[q].status /\ ~results'[n + 1].failed
          /\ phase' = phase
      BY <1>2, <2>1, ReceivedSample
    <2>3. CASE i = n + 1
      <3>r. phase \in Reads <=> Route # "POST /orders"
        BY DEF Route
      <3>0. StatusClean(req[q].status, req[q].route # "POST /orders")
        BY <1>1, <2>2 DEF CleanAnswers, AnswerClean
      <3>1. StatusClean(req[q].status, phase \in Reads)
        BY <2>2, <3>r, <3>0 DEF StatusClean
      <3> QED
        BY <2>2, <2>3, <3>1 DEF SampleClean
    <2>4. CASE i \in 1..n
      BY <1>1, <2>2, <2>4
    <2>5. i \in 1..n \/ i = n + 1
      BY <2>2
    <2> QED
      BY <2>3, <2>4, <2>5
  <1>3. ~LoadEnds
    BY DEF LoadEnds
  <1>4. CASE results' = results
    <2>1. Loading
      BY <1>4 DEF Progress
    <2>2. phase' = phase
      BY <1>3, <2>1, PhaseEnds
    <2> QED
      BY <1>1, <1>4, <2>2
  <1> QED
    BY <1>2, <1>3, <1>4, SampleChanges, NothingFails

\* Every step keeps CleanReports.
LEMMA CleanReportsStep == IInv /\ CleanSamples /\ CleanReports /\ [Next]_vars => CleanReports'
  <1> SUFFICES ASSUME IInv, CleanSamples, CleanReports, [Next]_vars, Clean'
               PROVE  /\ \A l \in Loads : report'[l].errors = 0
                      /\ report'["query"].ok = report'["query"].requests
    BY DEF CleanReports
  <1>1. /\ Clean /\ \A l \in Loads : report[l].errors = 0
        /\ report["query"].ok = report["query"].requests
    BY NoMishapBefore DEF CleanReports
  <1>2. CASE LoadEnds /\ phase # "warmup"
    <2>1. Failures = {}
      BY <1>1 DEF CleanSamples, SampleClean, StatusClean, Failures
    <2>2. phase = "query" => WithStatus(200) = Len(results)
      BY <1>1, FailuresCount DEF CleanSamples, SampleClean, StatusClean, Reads
    <2> QED
      BY <1>1, <1>2, <2>1, <2>2, Summary, FailuresCount DEF Loads
  <1> QED
    BY <1>1, <1>2, ReportChanges, WarmUpEnds

\* Rows stay, and a stock that is used up stays so.
LEMMA RowsStay ==
  ASSUME IInv, [Next]_vars, NEW a \in Activities
  PROVE  Rowed(a) \subseteq Rowed(a)' /\ (stock[a] = 0 => stock'[a] = 0)
  <1>1. CASE UNCHANGED database
    BY <1>1 DEF database, Rowed, Orders
  <1>2. ASSUME NEW p \in Procs, CreateOrder(p) \/ CreateOrderCommitLost(p)
        PROVE  Rowed(a) \subseteq Rowed(a)' /\ (stock[a] = 0 => stock'[a] = 0)
    <2>1. PICK b, v : b = req[p].activity /\ v = req[p].user
      OBVIOUS
    <2>2. PersistOrder(p)
      BY <1>2 DEF CreateOrder, CreateOrderCommitLost
    <2>3. /\ Rowed(b)' = Rowed(b) \cup {v} /\ stock[b] > 0
          /\ \A x \in Activities : x # b => stock'[x] = stock[x] /\ Rowed(x)' = Rowed(x)
      BY <2>1, <2>2, NewRow
    <2> QED
      BY <2>3
  <1>3. ASSUME NEW b \in Activities, NEW v \in Users, processOrderCreated(b, v)
        PROVE  Rowed(a) \subseteq Rowed(a)' /\ (stock[a] = 0 => stock'[a] = 0)
    BY <1>3, MovedRow
  <1> QED
    BY <1>1, <1>2, <1>3, RowChanges

\* An order that is asked for is stored, or nothing is left of its activity.
LEMMA PendingFate ==
  ASSUME IInv, [Next]_vars, Unhindered', NEW q \in Procs,
         NEW a, NEW u, Wants(q, a, u)
  PROVE  Wants(q, a, u)' \/ u \in Rowed(a)' \/ stock'[a] = 0
  <1> DEFINE Goal == Wants(q, a, u)' \/ u \in Rowed(a)' \/ stock'[a] = 0
  <1>0. a \in Activities /\ u \in Users /\ Clean'
    BY DEF IInv, RequestsOK, RequestOK, RouteOK, Unhindered, Wants
  <1>w. a = req[q].activity /\ u = req[q].user
    BY DEF Wants
  <1>1. CASE req'[q] = req[q]
    BY <1>1 DEF Wants
  <1>2. CASE LimiterReturns(q)
    <2>1. CASE Step(q, "handler")
      BY <2>1, StepFields DEF Wants
    <2>2. CASE Answer(q, 429, "blocked")
      <3>1. PICK s : s = 429
        OBVIOUS
      <3>2. Answer(q, s, "blocked")
        BY <2>2, <3>1
      <3>3. req'[q].stage = "event" /\ req'[q].event = "blocked"
        BY <3>2, AnswerFields
      <3> QED
        BY <3>3 DEF Unhindered
    <2> QED
      BY <1>2, <2>1, <2>2 DEF LimiterReturns
  <1>3. CASE CreateOrder(q)
    <2>1. PersistOrder(q)
      BY <1>3 DEF CreateOrder
    <2>2. Rowed(a)' = Rowed(a) \cup {u}
      BY <1>w, <2>1, NewRow
    <2> QED
      BY <2>2
  <1>4. CASE CreateOrderFails(q)
    <2>1. order[a][u] # "none" \/ stock[a] <= 0
      BY <1>0, <1>4, <1>w, RefusedClean
    <2>2. order[a] \in Rows /\ stock[a] \in Nat
      BY <1>0 DEF IInv, DataOK
    <2>3. u \in Rowed(a) \/ stock[a] = 0
      BY <1>0, <2>1, <2>2 DEF Rowed, Orders, Rows
    <2> QED
      BY <1>0, <2>3, RowsStay
  <1>5. ASSUME About(q) PROVE LimiterReturns(q) \/ CreateOrder(q) \/ CreateOrderFails(q)
    <2>1. ~VerifyFails \/ check.proc # q
      BY <1>0, NothingFails DEF Wants
    <2> QED
      BY <1>0, <1>5, <2>1, NothingFails
         DEF About, ReadHandler, ReadHandlerFails, IncBusinessEvent, ObserveHTTPRequest,
             VerifyCalls, SendRequest, Arrive, Idle, ReceiveResponse, VerifyReads, Wants
  <1> QED
    BY <1>1, <1>2, <1>3, <1>4, <1>5, OneRequest

\* Aims of the requests that may be sent exist.
LEMMA AimOK ==
  ASSUME IInv, NEW l \in Sales, NEW i \in 0..(Planned(l) - 1)
  PROVE  Aim(l, i)[1] \in Users /\ Aim(l, i)[2] \in Activities
  <1>1. CASE l = "duplicate"
    BY <1>1, FirstActivities DEF Aim
  <1>2. CASE l = "stock"
    BY <1>2, FirstActivities, LoadTestAssumption DEF Aim, Planned
  <1>3. CASE l = "write"
    <2>1. plan.writes \in Nat /\ plan.writes \in {0, Writes} /\ Writes \in Nat /\ UserCount \in Nat
      BY LoadTestAssumption, RequestPipelineAssumption DEF IInv, DataOK
    <2>2. i \in 0..(Writes - 1)
      BY <1>3, <2>1 DEF Planned
    <2>3. i \div batchSize \in 0..(Batches(Writes) - 1)
      BY <2>2, BatchPlaces
    <2>4. batchSize \in 1..UserCount /\ i \in Nat
      BY <2>1, <2>2, BatchSize
    <2>5. (i % batchSize) + 1 \in Users
      BY <2>1, <2>4, LoadTestAssumption
    <2> QED
      BY <1>3, <2>3, <2>5, LoadTestAssumption DEF Aim, ActivityIDs
  <1> QED
    BY <1>1, <1>2, <1>3 DEF Sales

\* No more requests are sent than planned.
LEMMA SentBound ==
  ASSUME IInv, Progress, NEW l \in Sales
  PROVE  Sent(l) \in Nat /\ Sent(l) <= Planned(l)
  BY Counts DEF Sent, Progress

\* The request a worker sends.
LEMMA SentRequest ==
  ASSUME IInv, NEW w \in Workers, NEW p \in Procs, SendRequest(w, p)
  PROVE  /\ req'[p].stage \in {"limit", "handler"} /\ req'[p].route = Route
         /\ req'[p].user = Target(next)[1] /\ req'[p].activity = Target(next)[2]
  <1>1. Arrive(p, Route, "USER", Target(next)[1], Target(next)[2]) /\ AuthStatus(Route, "USER") = 0
    BY ArrivalsAllowed DEF SendRequest
  <1> QED
    BY <1>1, ArriveFields

\* Every step keeps Served.
LEMMA ServedStep == IInv /\ Progress /\ Served /\ [Next]_vars => Served'
  <1> SUFFICES ASSUME IInv, Progress, Served, [Next]_vars, Unhindered', NEW l \in Sales,
                      NEW i \in 0..(Sent(l)' - 1), NEW u, NEW a, u = Aim(l, i)[1],
                      a = Aim(l, i)[2]
               PROVE  u \in Rowed(a)' \/ stock'[a] = 0 \/ Pending(a, u)'
    BY DEF Served
  <1>1. Unhindered
    BY UnhinderedBefore
  <1>2. /\ Sent(l) \in Nat /\ Sent(l) <= Planned(l) /\ Planned(l) \in Nat
        /\ \/ i \in 0..(Sent(l) - 1)
           \/ (\E w \in Workers, p \in Procs : SendRequest(w, p)) /\ phase = l /\ i = next
    BY SentBound, SentSame, Counts
  <1>3. CASE i \in 0..(Sent(l) - 1)
    <2>1. u \in Rowed(a) \/ stock[a] = 0 \/ Pending(a, u)
      BY <1>1, <1>3 DEF Served
    <2>2. a \in Activities
      <3>1. i \in 0..(Planned(l) - 1)
        BY <1>2, <1>3
      <3> QED
        BY <3>1, AimOK
    <2>3. CASE Pending(a, u)
      <3>1. PICK q \in Procs : Wants(q, a, u)
        BY <2>3 DEF Pending
      <3> QED
        BY <3>1, PendingFate DEF Pending
    <2> QED
      BY <2>1, <2>2, <2>3, RowsStay
  <1>4. ASSUME NEW w \in Workers, NEW p \in Procs, SendRequest(w, p), phase = l, i = next
        PROVE  Pending(a, u)'
    <2>1. Target(next)[1] = u /\ Target(next)[2] = a /\ Route = "POST /orders"
      BY <1>4, AimIsTarget DEF Route, Reads, Sales
    <2>2. Wants(p, a, u)'
      BY <1>4, <2>1, SentRequest DEF Wants
    <2> QED
      BY <2>2 DEF Pending
  <1> QED
    BY <1>2, <1>3, <1>4

\* Every step keeps Counted.
LEMMA PairsStep == IInv /\ Counted /\ [Next]_vars => Counted'
  <1> SUFFICES ASSUME IInv, Counted, [Next]_vars PROVE Counted'
    OBVIOUS
  <1>1. IsFiniteSet(Pairs)
    <2>1. IsFiniteSet(Activities \X Users)
      BY FS_Product, RequestPipelineAssumption
    <2> QED
      BY <2>1, FS_Subset DEF Pairs
  <1>2. CASE UNCHANGED database
    BY <1>2, PersistedSame DEF database, Counted, Pairs
  <1>3. ASSUME NEW p \in Procs, CreateOrder(p) \/ CreateOrderCommitLost(p) PROVE Counted'
    <2>1. PICK b, v : b = req[p].activity /\ v = req[p].user
      OBVIOUS
    <2>2. PersistOrder(p)
      BY <1>3 DEF CreateOrder, CreateOrderCommitLost
    <2>3. /\ b \in Activities /\ v \in Users /\ order[b][v] = "none"
          /\ \A x \in Activities : \A y \in Users :
                order'[x][y] = IF x = b /\ y = v THEN "QUEUED" ELSE order[x][y]
      BY <2>1, <2>2, NewRow
    <2>4. Pairs' = Pairs \cup {<<b, v>>} /\ <<b, v>> \notin Pairs
      BY <2>3 DEF Pairs
    <2>5. Cardinality(Pairs \cup {<<b, v>>}) = Cardinality(Pairs) + 1
      BY <1>1, <2>4, FS_AddElement
    <2>6. Persisted' = Persisted + 1
      BY <2>2, PersistedMore
    <2> QED
      BY <2>4, <2>5, <2>6 DEF Counted
  <1>4. ASSUME NEW b \in Activities, NEW v \in Users, processOrderCreated(b, v) PROVE Counted'
    <2>1. /\ order[b][v] = "QUEUED"
          /\ \A x \in Activities : \A y \in Users :
                order'[x][y] = IF x = b /\ y = v THEN "WAIT_PAY" ELSE order[x][y]
      BY <1>4, MovedRow
    <2>2. Pairs' = Pairs
      BY <2>1 DEF Pairs
    <2> QED
      BY <1>4, <2>2, PersistedKept DEF Counted
  <1> QED
    BY <1>2, <1>3, <1>4, RowChanges

-----------------------------------------------------------------------------
(* How many orders there are when every request was served *)

\* A bijection keeps the number of elements.
LEMMA Counting ==
  ASSUME NEW S, IsFiniteSet(S), NEW T, NEW f \in [S -> T],
         \A x, y \in S : f[x] = f[y] => x = y, \A z \in T : \E x \in S : f[x] = z
  PROVE  IsFiniteSet(T) /\ Cardinality(T) = Cardinality(S)
  <1>1. f \in Bijection(S, T)
    BY DEF Bijection, Injection, Surjection, IsInjective
  <1> QED
    BY <1>1, FS_Bijection DEF ExistsBijection

\* The orders for one activity, and those of the writes, with their users.
PairsOf(a) == {x \in Pairs : x[1] = a}
WritePairs == {x \in Pairs : x[1][1] = "write"}

\* There are finitely many orders.
LEMMA PairsFinite == IsFiniteSet(Pairs)
  <1>1. IsFiniteSet(Activities \X Users)
    BY FS_Product, RequestPipelineAssumption
  <1> QED
    BY <1>1, FS_Subset DEF Pairs

\* The users with an order for a.
LEMMA RowedUsers ==
  ASSUME IInv, NEW a \in Activities, NEW u
  PROVE  u \in Rowed(a) <=> u \in Users /\ order[a][u] # "none"
  BY DEF Rowed, Orders, IInv, DataOK, Rows

\* They are as many as the pairs of a.
LEMMA PairsOfRowed ==
  ASSUME IInv, NEW a \in Activities
  PROVE  Cardinality(PairsOf(a)) = Cardinality(Rowed(a))
  <1> DEFINE R == Rowed(a)
             f == [u \in R |-> <<a, u>>]
  <1>1. \A u : u \in R <=> u \in Users /\ order[a][u] # "none"
    BY RowedUsers
  <1>2. IsFiniteSet(R)
    BY RowedFinite
  <1> HIDE DEF R
  <1>3. f \in [R -> PairsOf(a)]
    BY <1>1 DEF PairsOf, Pairs
  <1>4. \A x, y \in R : f[x] = f[y] => x = y
    OBVIOUS
  <1>5. \A z \in PairsOf(a) : \E x \in R : f[x] = z
    BY <1>1 DEF PairsOf, Pairs
  <1> HIDE DEF f
  <1> QED
    BY <1>2, <1>3, <1>4, <1>5, Counting DEF R

\* Orders by load.
LEMMA PairsSplit ==
  ASSUME IInv
  PROVE  /\ Cardinality(WritePairs) \in Nat
         /\ Cardinality(Pairs) = Cardinality(Rowed(<<"duplicate", 0>>))
                                 + Cardinality(Rowed(<<"stock", 0>>)) + Cardinality(WritePairs)
  <1>1. PICK D, S, W : D = PairsOf(<<"duplicate", 0>>) /\ S = PairsOf(<<"stock", 0>>) /\ W = WritePairs
    OBVIOUS
  <1>2. IsFiniteSet(D) /\ IsFiniteSet(S) /\ IsFiniteSet(W)
    BY <1>1, PairsFinite, FS_Subset DEF PairsOf, WritePairs
  <1>3. Pairs = D \cup (S \cup W)
    <2>1. ASSUME NEW x \in Pairs PROVE x \in D \/ x \in S \/ x \in W
      BY <1>1, ActivityLoads DEF Pairs, PairsOf, WritePairs, Sales
    <2> QED
      BY <1>1, <2>1 DEF PairsOf, WritePairs
  <1>4. S \cap W = {} /\ D \cap (S \cup W) = {}
    BY <1>1 DEF PairsOf, WritePairs
  <1>5. /\ IsFiniteSet(S \cup W)
        /\ Cardinality(S \cup W) = Cardinality(S) + Cardinality(W) - Cardinality(S \cap W)
    BY <1>2, FS_Union
  <1>6. Cardinality(D \cup (S \cup W)) =
            Cardinality(D) + Cardinality(S \cup W) - Cardinality(D \cap (S \cup W))
    BY <1>2, <1>5, FS_Union
  <1>7. Cardinality(S \cap W) = 0 /\ Cardinality(D \cap (S \cup W)) = 0
    BY <1>4, FS_EmptySet
  <1>8. Cardinality(D) \in Nat /\ Cardinality(S) \in Nat /\ Cardinality(W) \in Nat
    BY <1>2, FS_CardinalityType
  <1>9. /\ Cardinality(D) = Cardinality(Rowed(<<"duplicate", 0>>))
        /\ Cardinality(S) = Cardinality(Rowed(<<"stock", 0>>))
    BY <1>1, PairsOfRowed, FirstActivities
  <1> QED
    BY <1>1, <1>3, <1>5, <1>6, <1>7, <1>8, <1>9

\* Nobody was hindered, and no order is under way any more.
AllServed ==
    /\ IInv /\ Units /\ FromLoads /\ Served /\ Unhindered
    /\ \A p \in Procs : ~Ordering(p)

\* Who asked, of AllServed, has an order or finds nothing left.
LEMMA SentServed ==
  ASSUME AllServed, NEW l \in Sales, NEW i \in 0..(Sent(l) - 1), NEW u, NEW a, Aim(l, i) = <<u, a>>
  PROVE  u \in Rowed(a) \/ stock[a] = 0
  <1>1. Aim(l, i)[1] = u /\ Aim(l, i)[2] = a
    OBVIOUS
  <1>2. ~Pending(a, u)
    BY DEF AllServed, Pending, Wants, Ordering, Idle
  <1> QED
    BY <1>1, <1>2 DEF AllServed, Served

\* Who has an order asked for it.
LEMMA RowsAsked ==
  ASSUME AllServed, NEW a \in Activities, NEW u \in Rowed(a)
  PROVE  \E i \in 0..(Sent(a[1]) - 1) : Aim(a[1], i) = <<u, a>>
  BY DEF AllServed, FromLoads, Asked

\* The units of an activity, after a run without a mishap.
LEMMA UnitsLeft ==
  ASSUME AllServed, NEW a \in Activities
  PROVE  /\ stock[a] \in Nat /\ Initial(a) \in Nat
         /\ IsFiniteSet(Rowed(a)) /\ Cardinality(Rowed(a)) \in Nat
         /\ stock[a] + Cardinality(Rowed(a)) = Initial(a)
         /\ cache[a] = stock[a]
  <1>1. mishaps["commit"] = 0
    BY DEF AllServed, Unhindered, Clean, MishapKinds
  <1> QED
    BY <1>1, RowedFinite, InitialNat DEF AllServed, Units, IInv, DataOK

\* Of many requests of one user one became an order.
LEMMA SoldDuplicate ==
  ASSUME AllServed, Sent("duplicate") = Planned("duplicate")
  PROVE  Cardinality(Rowed(<<"duplicate", 0>>)) = 1
  <1>0. PICK a : a = <<"duplicate", 0>>
    OBVIOUS
  <1>1. a \in Activities /\ a[1] = "duplicate" /\ Initial(a) = 5 /\ "duplicate" \in Sales
    BY <1>0, FirstActivities, InitialStocks DEF Sales
  <1>2. Rowed(a) \subseteq {1}
    <2>1. ASSUME NEW u \in Rowed(a) PROVE u = 1
      <3>1. PICK i : Aim("duplicate", i) = <<u, a>>
        BY <1>1, RowsAsked
      <3> QED
        BY <3>1 DEF Aim
    <2> QED
      BY <2>1
  <1>3. IsFiniteSet({1}) /\ Cardinality({1}) = 1
    BY FS_Singleton
  <1>4. Cardinality(Rowed(a)) <= 1
    BY <1>2, <1>3, FS_Subset
  <1>5. stock[a] # 0
    BY <1>1, <1>4, UnitsLeft
  <1>6. 0 \in 0..(Sent("duplicate") - 1)
    BY LoadTestAssumption DEF Planned
  <1>7. Aim("duplicate", 0) = <<1, a>>
    BY <1>0 DEF Aim
  <1>8. 1 \in Rowed(a)
    <2>1. PICK i : i = 0
      OBVIOUS
    <2>2. i \in 0..(Sent("duplicate") - 1) /\ Aim("duplicate", i) = <<1, a>>
      BY <1>6, <1>7, <2>1
    <2> QED
      BY <1>1, <1>5, <2>2, SentServed
  <1>9. Rowed(a) = {1}
    BY <1>2, <1>8
  <1> QED
    BY <1>0, <1>3, <1>9

\* The stock is sold.
LEMMA SoldStock ==
  ASSUME AllServed, Sent("stock") = Planned("stock")
  PROVE  Cardinality(Rowed(<<"stock", 0>>)) = Stock
  <1>0. PICK a : a = <<"stock", 0>>
    OBVIOUS
  <1>1. /\ a \in Activities /\ Initial(a) = Stock /\ "stock" \in Sales
        /\ UserCount \in Nat /\ Users = 1..UserCount /\ Stock \in 1..UserCount
    BY <1>0, FirstActivities, InitialStocks, LoadTestAssumption DEF Sales
  <1>2. ASSUME stock[a] # 0 PROVE Rowed(a) = Users
    <2>1. ASSUME NEW u \in Users PROVE u \in Rowed(a)
      <3>1. PICK i : i = u - 1
        OBVIOUS
      <3>2. i \in 0..(Sent("stock") - 1)
        BY <1>1, <3>1 DEF Planned
      <3>3. Aim("stock", i) = <<u, a>>
        BY <1>0, <1>1, <3>1 DEF Aim
      <3> QED
        BY <1>1, <1>2, <3>2, <3>3, SentServed
    <2> QED
      BY <2>1 DEF Rowed, Orders
  <1>3. Cardinality(Users) = UserCount
    BY <1>1, FS_Interval
  <1>4. stock[a] = 0
    BY <1>1, <1>2, <1>3, UnitsLeft
  <1> QED
    BY <1>0, <1>1, <1>4, UnitsLeft

\* Every write of a batch is stored.
LEMMA SoldWrite ==
  ASSUME AllServed, Sent("write") = Writes, NEW b \in 0..(Batches(Writes) - 1), NEW a,
         a = <<"write", b>>
  PROVE  Rowed(a) = 1..BatchStock(Writes, b)
  <1>1. a \in Activities /\ a[1] = "write" /\ "write" \in Sales
    BY LoadTestAssumption DEF ActivityIDs, Sales
  <1>2. PICK n : n = BatchStock(Writes, b)
    OBVIOUS
  <1>3. Initial(a) = n /\ n \in Nat
    BY <1>1, <1>2, InitialStocks, PlacesOf
  <1>4. Rowed(a) \subseteq 1..n
    <2>1. ASSUME NEW u \in Rowed(a) PROVE u \in 1..n
      <3>1. PICK i \in 0..(Writes - 1) : Aim("write", i) = <<u, a>>
        BY <1>1, RowsAsked
      <3>2. (i % batchSize) + 1 = u /\ i \div batchSize = b
        BY <3>1 DEF Aim
      <3> QED
        BY <1>2, <3>1, <3>2, BatchPlaces
    <2> QED
      BY <2>1
  <1>5. IsFiniteSet(1..n) /\ Cardinality(1..n) = n
    BY <1>3, FS_Interval
  <1>6. CASE stock[a] = 0
    <2>1. Cardinality(Rowed(a)) = n
      BY <1>1, <1>3, <1>6, UnitsLeft
    <2> QED
      BY <1>2, <1>4, <1>5, <2>1, FS_Subset
  <1>7. CASE stock[a] # 0
    <2>1. ASSUME NEW u \in 1..n PROVE u \in Rowed(a)
      <3>1. PICK i \in 0..(Writes - 1) : Aim("write", i) = <<u, a>>
        BY <1>2, PlacesOf
      <3> QED
        BY <1>1, <1>7, <3>1, SentServed
    <2> QED
      BY <1>2, <1>4, <2>1
  <1> QED
    BY <1>6, <1>7

\* Nothing was sold by a load that has not begun.
LEMMA SoldNothing ==
  ASSUME AllServed, NEW l \in Sales, Sent(l) = 0
  PROVE  /\ \A a \in Activities : a[1] = l => Rowed(a) = {} /\ Cardinality(Rowed(a)) = 0
         /\ l = "write" => Cardinality(WritePairs) = 0
  <1>1. ASSUME NEW a \in Activities, a[1] = l PROVE Rowed(a) = {}
    BY <1>1, RowsAsked
  <1>2. l = "write" => WritePairs = {}
    <2>1. ASSUME NEW x \in WritePairs, l = "write" PROVE FALSE
      <3>1. x[1] \in Activities /\ x[1][1] = l /\ x[2] \in Users /\ order[x[1]][x[2]] # "none"
        BY <2>1 DEF WritePairs, Pairs
      <3>2. x[2] \in Rowed(x[1])
        BY <3>1, RowedUsers DEF AllServed
      <3> QED
        BY <1>1, <3>1, <3>2
    <2> QED
      BY <2>1
  <1> QED
    BY <1>1, <1>2, FS_EmptySet

\* Every write is stored, in its place.
LEMMA SoldWrites ==
  ASSUME AllServed, Sent("write") = plan.writes
  PROVE  Cardinality(WritePairs) = plan.writes
  <1>0. plan.writes \in {0, Writes} /\ Writes \in Nat
    BY LoadTestAssumption DEF AllServed, IInv, DataOK
  <1>1. CASE plan.writes = 0
    BY <1>1, SoldNothing DEF Sales
  <1>2. CASE plan.writes = Writes
    <2> DEFINE I == 0..(Writes - 1)
               f == [i \in I |-> <<<<"write", i \div batchSize>>, (i % batchSize) + 1>>]
    <2>1. IsFiniteSet(I) /\ Cardinality(I) = Writes
      BY <1>0, FS_Interval
    <2>2. batchSize \in Nat /\ batchSize >= 1
      BY BatchSize, LoadTestAssumption
    <2>3. ASSUME NEW i \in I
          PROVE  <<<<"write", i \div batchSize>>, (i % batchSize) + 1>> \in WritePairs
      <3>1. PICK b, u : b = i \div batchSize /\ u = (i % batchSize) + 1
        OBVIOUS
      <3>2. b \in 0..(Batches(Writes) - 1) /\ u \in 1..BatchStock(Writes, b)
        BY <3>1, BatchPlaces
      <3>3. PICK a : a = <<"write", b>>
        OBVIOUS
      <3>4. u \in Rowed(a)
        BY <1>2, <3>2, <3>3, SoldWrite
      <3>5. a \in Activities /\ a[1] = "write"
        BY <3>2, <3>3, LoadTestAssumption DEF ActivityIDs
      <3>6. <<a, u>> \in WritePairs
        BY <3>4, <3>5, RowedUsers DEF AllServed, WritePairs, Pairs
      <3> QED
        BY <3>1, <3>3, <3>6
    <2>4. ASSUME NEW x \in WritePairs
          PROVE  \E i \in I : <<<<"write", i \div batchSize>>, (i % batchSize) + 1>> = x
      <3>1. PICK a \in Activities, u \in Users : x = <<a, u>> /\ a[1] = "write" /\ order[a][u] # "none"
        BY DEF WritePairs, Pairs
      <3>2. u \in Rowed(a)
        BY <3>1, RowedUsers DEF AllServed
      <3>3. PICK i \in I : Aim("write", i) = <<u, a>>
        BY <1>2, <3>1, <3>2, RowsAsked
      <3> QED
        BY <3>1, <3>3 DEF Aim
    <2>5. ASSUME NEW i \in I, NEW j \in I, i \div batchSize = j \div batchSize,
                 i % batchSize = j % batchSize
          PROVE  i = j
      <3>1. i \in Nat /\ j \in Nat
        BY <1>0
      <3>2. /\ i = batchSize * (i \div batchSize) + (i % batchSize)
            /\ j = batchSize * (j \div batchSize) + (j % batchSize)
        BY <2>2, <3>1, Division
      <3> QED
        BY <2>5, <3>2
    <2>6. ASSUME NEW i \in I, NEW j \in I, f[i] = f[j] PROVE i = j
      <3>1. i \div batchSize = j \div batchSize /\ (i % batchSize) + 1 = (j % batchSize) + 1
        BY <2>6
      <3>2. i % batchSize \in Int /\ j % batchSize \in Int
        BY <1>0, <2>2, Division
      <3>3. i % batchSize = j % batchSize
        BY <3>1, <3>2
      <3> QED
        BY <2>5, <3>1, <3>3
    <2>7. f \in [I -> WritePairs]
      BY <2>3
    <2>8. \A x \in WritePairs : \E i \in I : f[i] = x
      BY <2>4
    <2> HIDE DEF f, I
    <2> QED
      BY <1>2, <2>1, <2>6, <2>7, <2>8, Counting
  <1> QED
    BY <1>0, <1>1, <1>2

\* A load is over when it ends, or when there is nothing to write.
LEMMA OverNew ==
  ASSUME IInv, [Next]_vars, NEW l \in Sales, Over(l)', ~Over(l)
  PROVE  (LoadEnds /\ phase = l) \/ (l = "write" /\ plan.writes = 0)
  <1> DEFINE Goal == (LoadEnds /\ phase = l) \/ (l = "write" /\ plan.writes = 0)
  <1>0. ASSUME phase' = phase, Verifying => check'.of = check.of PROVE Goal
    BY <1>0 DEF Over, Ahead, Verifying, Sales
  <1>1. CASE LoadEnds
    <2>1. phase \in Runs /\ phase' = AfterLoad /\ check' = FirstCheck
      BY <1>1 DEF LoadEnds, Loading
    <2>2. phase = "stock" => check'.of[1] = "duplicate"
      BY <2>1 DEF FirstCheck, NewCheck
    <2>3. ASSUME phase # l PROVE FALSE
      <3>0. Ahead(l)
        BY <2>3 DEF Over
      <3>1. CASE l = "duplicate"
        BY <2>1, <3>0, <3>1 DEF Ahead, Runs, Reads, Loads
      <3>2. CASE l = "stock"
        <4>1. phase' = "stock"
          BY <2>1, <3>0, <3>2 DEF Ahead, Runs, Reads, Loads, AfterLoad
        <4> QED
          BY <3>2, <4>1 DEF Over
      <3>3. CASE l = "write"
        <4>1. \/ phase' = "stock"
              \/ phase' = "verify" /\ check'.of[1] = "duplicate"
          BY <2>1, <2>2, <3>0, <3>3 DEF Ahead, Runs, Reads, Loads, AfterLoad, Verifying
        <4> QED
          BY <3>3, <4>1 DEF Over, Ahead, Verifying
      <3> QED
        BY <3>1, <3>2, <3>3 DEF Sales
    <2> QED
      BY <1>1, <2>3
  <1>2. CASE VerifyReads \/ VerifyFails
    <2>1. phase = "verify"
      BY <1>2, VerifyMoves DEF Verifying
    <2>2. ASSUME NEW errs, AfterVerify(errs) PROVE Goal
      <3>0. ASSUME NEW a PROVE NewCheck(a).of = a
        BY DEF NewCheck
      <3>1. \/ check.of[1] = "duplicate" /\ phase' = "verify" /\ check'.of[1] = "stock"
            \/ check.of[1] = "stock" /\ phase' = "write"
            \/ check.of[1] = "stock" /\ phase' \in {"warmup", "report"} /\ plan.writes = 0
            \/ check.of[1] = "write" /\ phase' = "verify" /\ check'.of[1] = "write"
            \/ check.of[1] = "write" /\ phase' \in {"warmup", "report"}
        BY <2>1, <2>2, <3>0, AfterVerifyMoves DEF Verifying
      <3> QED
        BY <2>1, <3>1 DEF Over, Ahead, Verifying, Sales
    <2>3. ASSUME phase' = phase, check'.of = check.of PROVE Goal
      BY <1>0, <2>3
    <2> QED
      BY <1>2, <2>2, <2>3, VerifyMoves
  <1>3. ASSUME NEW p \in Procs, VerifyCalls(p) PROVE Goal
    <2>1. phase' = phase /\ check' = [check EXCEPT !.proc = p] /\ check \in CheckState
      BY <1>3 DEF VerifyCalls, IInv, LoadOK
    <2>2. check'.of = check.of
      BY <2>1 DEF CheckState
    <2> QED
      BY <1>0, <2>1, <2>2
  <1>4. CASE Setup \/ WriteReport
    BY <1>4 DEF Setup, WriteReport, Over, Ahead, Verifying, Sales
  <1>5. ASSUME UNCHANGED <<phase, check>> PROVE Goal
    BY <1>0, <1>5
  <1> QED
    BY <1>1, <1>2, <1>3, <1>4, <1>5, LoadChanges
       DEF loadVars, SendRequest, WorkerReturns, ReceiveResponse, ResponseUnreadable, RequestFails

\* How many orders of a load were accepted when it ends.
LEMMA Accepting ==
  ASSUME AllServed, Clients, Progress, Counted, RightReports, LoadEnds, phase \in Sales
  PROVE  WithStatus(202) = Expected(phase)
  <1>1. NoClientGaveUp /\ Clean /\ IInv
    BY DEF AllServed, Unhindered, Clean, NoClientGaveUp, MishapKinds
  <1>2. Told = Persisted
    <2>1. \A p \in Procs : Idle(p) \/ ~IsOrder(p)
      BY <1>1, NoOrdering DEF Ordering, IsOrder
    <2> QED
      BY <1>1, <2>1, AllTold
  <1>3. PICK d, s, w, x : /\ d = report["duplicate"].accepted /\ s = report["stock"].accepted
                          /\ w = report["write"].accepted /\ x = WithStatus(202)
    OBVIOUS
  <1>4. d \in Nat /\ s \in Nat /\ w \in Nat /\ x \in Nat
    BY <1>1, <1>3, ToldNat DEF IInv, LoadOK, Loads
  <1>5. d + s + w + x = Cardinality(Pairs)
    BY <1>1, <1>2, <1>3, <1>4 DEF Told, Reported, IInv, ReportsOK, Counted
  <1>6. PICK D, S, W : /\ D = Cardinality(Rowed(<<"duplicate", 0>>))
                       /\ S = Cardinality(Rowed(<<"stock", 0>>)) /\ W = Cardinality(WritePairs)
    OBVIOUS
  <1>7. /\ D \in Nat /\ S \in Nat /\ W \in Nat
        /\ d + s + w + x = D + S + W
    BY <1>1, <1>5, <1>6, PairsSplit, RowedFinite
  <1>8. Sent(phase) = Planned(phase)
    BY <1>1, AllSent DEF Sent
  <1>9. /\ Sent("duplicate") = Planned("duplicate") => D = 1
        /\ Sent("stock") = Planned("stock") => S = Stock
        /\ Sent("stock") = 0 => S = 0
        /\ Sent("write") = Planned("write") => W = plan.writes
        /\ Sent("write") = 0 => W = 0
    BY <1>6, SoldDuplicate, SoldStock, SoldWrites, SoldNothing, FirstActivities DEF Sales, Planned
  <1>10. Stock \in Nat /\ plan.writes \in Nat
    BY <1>1, Counts, LoadTestAssumption
  <1>11. CASE phase = "duplicate"
    <2>1. d = 0 /\ s = 0 /\ w = 0
      BY <1>1, <1>3, <1>11 DEF IInv, ReportsOK
    <2>2. Sent("stock") = 0 /\ Sent("write") = 0
      BY <1>11 DEF Sent, Ahead
    <2>3. D = 1 /\ S = 0 /\ W = 0
      BY <1>8, <1>9, <1>11, <2>2
    <2> QED
      BY <1>3, <1>4, <1>7, <1>11, <2>1, <2>3 DEF Expected
  <1>12. CASE phase = "stock"
    <2>1. s = 0 /\ w = 0
      BY <1>1, <1>3, <1>12 DEF IInv, ReportsOK
    <2>2. Sent("duplicate") = Planned("duplicate") /\ Sent("write") = 0
      BY <1>12 DEF Sent, Ahead
    <2>3. D = 1 /\ S = Stock /\ W = 0
      BY <1>8, <1>9, <1>12, <2>2
    <2>4. d = 1
      BY <1>3, <1>12 DEF AllServed, RightReports, Over, Ahead, Expected, Sales
    <2> QED
      BY <1>3, <1>4, <1>7, <1>10, <1>12, <2>1, <2>3, <2>4 DEF Expected
  <1>13. CASE phase = "write"
    <2>1. w = 0
      BY <1>1, <1>3, <1>13 DEF IInv, ReportsOK
    <2>2. Sent("duplicate") = Planned("duplicate") /\ Sent("stock") = Planned("stock")
      BY <1>13 DEF Sent, Ahead
    <2>3. D = 1 /\ S = Stock /\ W = plan.writes
      BY <1>8, <1>9, <1>13, <2>2
    <2>4. d = 1 /\ s = Stock
      BY <1>3, <1>13 DEF AllServed, RightReports, Over, Ahead, Expected, Sales, Verifying
    <2> QED
      BY <1>3, <1>4, <1>7, <1>10, <1>13, <2>1, <2>3, <2>4 DEF Expected
  <1> QED
    BY <1>11, <1>12, <1>13 DEF Sales

\* Every step keeps RightReports.
LEMMA RightReportsStep ==
  IInv /\ VInv /\ Served /\ Counted /\ RightReports /\ [Next]_vars => RightReports'
  <1> SUFFICES ASSUME IInv, VInv, Served, Counted, RightReports, [Next]_vars, Unhindered',
                      NEW l \in Sales, Over(l)'
               PROVE  report'[l].accepted = Expected(l)'
    BY DEF RightReports
  <1>0. Expected(l)' = Expected(l)
    BY PlanFixed DEF Expected
  <1> SUFFICES report'[l].accepted = Expected(l)
    BY <1>0
  <1>1. Unhindered /\ Clean
    BY UnhinderedBefore DEF Unhindered
  <1>2. CASE Over(l)
    <2>1. report[l].accepted = Expected(l)
      BY <1>1, <1>2 DEF RightReports
    <2>2. report'[l] = report[l]
      <3>1. CASE UNCHANGED report
        BY <3>1
      <3>2. CASE LoadEnds /\ phase # "warmup"
        BY <1>2, <3>2, Summary DEF Over, Sales, Loads
      <3> QED
        BY <3>1, <3>2, ReportChanges, WarmUpEnds
    <2> QED
      BY <2>1, <2>2
  <1>3. CASE LoadEnds /\ phase = l
    <2>1. NoClientGaveUp
      BY <1>1, NoMishapBefore
    <2>2. AllServed
      BY <1>1, <1>3, <2>1, NoOrdering DEF AllServed, VInv
    <2>3. WithStatus(202) = Expected(l)
      BY <1>3, <2>2, Accepting DEF VInv
    <2> QED
      BY <1>3, <2>3, Summary DEF Sales
  <1>4. CASE l = "write" /\ plan.writes = 0
    <2>1. Unreported' /\ plan' = plan
      BY UnreportedStep, PlanFixed DEF VInv
    <2>2. report'["write"].accepted = 0
      BY <1>4, <2>1 DEF Unreported, NoReport
    <2> QED
      BY <1>4, <2>2 DEF Expected
  <1> QED
    BY <1>2, <1>3, <1>4, OverNew

\* What verify finds, unhindered, is what it expects.
LEMMA Found ==
  ASSUME IInv, VInv, Served, RightReports, Unhindered, Verifying, NEW a, a = check.of
  PROVE  /\ a \in Activities /\ stock[a] \in Nat /\ Initial(a) \in Nat
         /\ Cardinality(Rowed(a)) = Accepted(a) /\ Accepted(a) \in Nat /\ Accepted(a) >= 1
         /\ stock[a] = Initial(a) - Accepted(a) /\ cache[a] = stock[a]
  <1>1. a \in Activities /\ phase = "verify"
    BY DEF IInv, LoadOK, CheckState, Verifying
  <1>2. AllServed
    <2>1. NoClientGaveUp
      BY DEF Unhindered, Clean, NoClientGaveUp, MishapKinds
    <2> QED
      BY <1>1, <2>1, NoOrdering DEF AllServed, VInv, Sales
  <1>3. Cardinality(Rowed(a)) = Accepted(a) /\ Accepted(a) \in Nat /\ Accepted(a) >= 1
    <2>1. CASE a[1] = "duplicate"
      <3>1. Sent("duplicate") = Planned("duplicate") /\ Over("duplicate")
        BY <1>1 DEF Sent, Ahead, Over
      <3>2. report["duplicate"].accepted = 1
        BY <3>1 DEF RightReports, Expected, Sales
      <3>3. a = <<"duplicate", 0>>
        BY <1>1, <2>1, ActivityLoads
      <3> QED
        BY <1>2, <2>1, <3>1, <3>2, <3>3, SoldDuplicate DEF Accepted
    <2>2. CASE a[1] = "stock"
      <3>1. Sent("stock") = Planned("stock") /\ Over("stock")
        BY <1>1 DEF Sent, Ahead, Over
      <3>2. report["stock"].accepted = Stock
        BY <3>1 DEF RightReports, Expected, Sales
      <3>3. a = <<"stock", 0>>
        BY <1>1, <2>2, ActivityLoads
      <3>4. Stock \in Nat /\ Stock >= 1
        BY LoadTestAssumption
      <3> QED
        BY <1>2, <2>2, <3>1, <3>2, <3>3, <3>4, SoldStock DEF Accepted
    <2>3. CASE a[1] = "write"
      <3>1. PICK b \in 0..(Batches(Writes) - 1) : a = <<"write", b>>
        BY <1>1, <2>3, ActivityLoads
      <3>2. Sent("write") = Writes
        BY <1>1, <2>3 DEF Sent, Ahead, Planned, Verifying, IInv, LoadOK, WritesOK
      <3>3. PICK n : n = BatchStock(Writes, b)
        OBVIOUS
      <3>4. n \in Nat /\ n >= 1 /\ Initial(a) = n
        BY <1>1, <3>1, <3>3, PlacesOf, InitialStocks
      <3>5. Rowed(a) = 1..n
        BY <1>2, <3>1, <3>2, <3>3, SoldWrite
      <3>6. Cardinality(1..n) = n
        BY <3>4, FS_Interval
      <3> QED
        BY <2>3, <3>4, <3>5, <3>6 DEF Accepted
    <2> QED
      BY <1>1, <2>1, <2>2, <2>3, ActivityLoads DEF Sales
  <1> QED
    BY <1>1, <1>2, <1>3, UnitsLeft

\* Unhindered, only the state of an order can be wrong.
LEMMA VerdictRight ==
  ASSUME IInv, VInv, Served, RightReports, Unhindered, Verifying, Fetched("activities")
  PROVE  Verdict(check.of, check.rows, check.matches, req[check.proc].body.stock)
             \in {"state", "none"}
  <1>1. PICK a, rows, left, matches :
            a = check.of /\ rows = check.rows /\ left = req[check.proc].body.stock
            /\ matches = check.matches
    OBVIOUS
  <1>2. NoClientGaveUp /\ check.at = "activities"
    BY DEF Unhindered, Clean, NoClientGaveUp, MishapKinds, Fetched
  <1>3. Older(rows, a) /\ (matches = (cache[a] = stock[a])) /\ left = stock[a]
    BY <1>1, <1>2 DEF VInv, Readings
  <1>4. /\ a \in Activities /\ stock[a] \in Nat /\ Initial(a) \in Nat
        /\ Cardinality(Rowed(a)) = Accepted(a) /\ Accepted(a) \in Nat /\ Accepted(a) >= 1
        /\ stock[a] = Initial(a) - Accepted(a) /\ cache[a] = stock[a]
    BY <1>1, Found
  <1>5. {u \in Users : rows[u] # "none"} = Rowed(a)
    BY <1>3, <1>4, RowedUsers DEF Older
  <1>6. Rowed(a) # {}
    BY <1>4, FS_EmptySet
  <1>7. matches /\ left = Initial(a) - Accepted(a)
    BY <1>3, <1>4
  <1>8. Verdict(a, rows, matches, left) \in {"state", "none"}
    BY <1>4, <1>5, <1>6, <1>7 DEF Verdict
  <1> QED
    BY <1>1, <1>8

\* Every step keeps RightErrors.
LEMMA RightErrorsStep ==
  IInv /\ VInv /\ CleanAnswers /\ CleanReports /\ Served /\ RightReports /\ RightErrors
      /\ [Next]_vars => RightErrors'
  <1> SUFFICES ASSUME IInv, VInv, CleanAnswers, CleanReports, Served, RightReports, RightErrors,
                      [Next]_vars, Unhindered',
                      phase' = "done" => \/ report'["query"].requests > 0
                                         \/ \E x \in errors' : x[2] = "duplicate",
                      NEW e \in errors'
               PROVE  e[1] \in {"state", "settle"}
    BY DEF RightErrors
  <1>1. Unhindered /\ Clean /\ Clean'
    BY UnhinderedBefore DEF Unhindered
  <1>2. CASE e \in errors
    <2>1. phase = "done" => phase' = "done" /\ UNCHANGED <<report, errors>>
      BY LoadChanges DEF loadVars, SendRequest, WorkerReturns, ReceiveResponse, ResponseUnreadable, RequestFails,
           VerifyCalls, LoadEnds, VerifyReads, VerifyFails, Setup, WriteReport, Loading, Runs, Reads, Loads,
           Verifying
    <2> QED
      BY <1>1, <1>2, <2>1 DEF RightErrors
  <1>3. CASE VerifyFails
    <2>1. /\ req[check.proc].stage = "reply" /\ req[check.proc].status # 200
          /\ Verifying /\ check.proc # "none"
      BY <1>1, <1>3, NothingFails DEF VerifyFails
    <2>2. check.proc \in Procs /\ req[check.proc].route # "POST /orders"
      BY <2>1, CheckRouteReads DEF IInv, CheckOK
    <2> QED
      BY <1>1, <2>1, <2>2 DEF CleanAnswers, AnswerClean, StatusClean
  <1>4. CASE VerifyReads /\ e \notin errors
    <2>r. ASSUME NEW kind, VerifyReturns(kind), kind \in {"settle", "state", "none"}
          PROVE  e[1] \in {"state", "settle"}
      BY <1>4, <2>r DEF VerifyReturns
    <2>1. \/ errors' = errors \/ VerifyReturns("settle")
          \/ check.at = "activities" /\
             VerifyReturns(Verdict(check.of, check.rows, check.matches,
                                   req[check.proc].body.stock))
      BY <1>4 DEF VerifyReads
    <2>2. Verifying /\ (check.at = "activities" => Fetched("activities"))
      BY <1>4 DEF VerifyReads, Fetched
    <2>3. CASE check.at = "activities" /\
               VerifyReturns(Verdict(check.of, check.rows, check.matches,
                                     req[check.proc].body.stock))
      <3>1. PICK kind : kind = Verdict(check.of, check.rows, check.matches,
                                       req[check.proc].body.stock)
        OBVIOUS
      <3>2. kind \in {"state", "none"}
        BY <1>1, <2>2, <2>3, <3>1, VerdictRight
      <3>3. VerifyReturns(kind)
        BY <2>3, <3>1
      <3> QED
        BY <2>r, <3>2, <3>3
    <2> QED
      BY <1>4, <2>1, <2>3, <2>r
  <1>5. CASE WriteReport /\ e \notin errors
    <2>1. phase = "report" /\ phase' = "done" /\ report' = report /\ e \in ReportErrors
      BY <1>5 DEF WriteReport
    <2>2. \A l \in Sales : report[l].accepted = Expected(l)
      <3>1. \A l \in Sales : Over(l)
        BY <2>1 DEF Over, Ahead, Sales, Verifying
      <3> QED
        BY <1>1, <3>1 DEF RightReports
    <2>3. /\ \A l \in Loads : report[l].errors = 0
          /\ report["query"].ok = report["query"].requests
      BY <1>1, <2>1 DEF CleanReports
    <2>5. {<<"accepted", l>> : l \in {l \in {"duplicate", "stock", "write"} :
              report[l].accepted # CASE l = "duplicate" -> 1
                                     [] l = "stock" -> Stock
                                     [] l = "write" -> plan.writes}} = {}
      BY <2>2 DEF Expected, Sales
    <2>6. {<<"system", l>> : l \in {l \in Loads : report[l].errors > 0}} = {}
      BY <2>3
    <2>7. ReportErrors = IF QueryFailed THEN {<<"answers", "query">>} ELSE {}
      BY <2>5, <2>6 DEF ReportErrors
    <2>8. errors' = errors \cup ReportErrors
      BY <1>5 DEF WriteReport
    <2>4. ~QueryFailed
      <3>1. CASE report["query"].requests > 0
        BY <2>3, <3>1 DEF QueryFailed
      <3>2. ASSUME NEW x \in errors', x[2] = "duplicate" PROVE x \in errors
        BY <2>7, <2>8, <3>2
      <3>3. ASSUME NEW x \in errors', x[2] = "duplicate" PROVE ~QueryFailed
        BY <3>2, <3>3 DEF QueryFailed
      <3> QED
        BY <2>1, <3>1, <3>3
    <2> QED
      BY <2>1, <2>4, <2>7
  <1>6. errors' = errors \/ VerifyReads \/ VerifyFails \/ WriteReport
    BY LoadChanges DEF loadVars, SendRequest, WorkerReturns, ReceiveResponse, ResponseUnreadable, RequestFails,
       VerifyCalls, LoadEnds, Setup
  <1> QED
    BY <1>2, <1>3, <1>4, <1>5, <1>6

\* What FailedOnlyIfUnsettled rests on, besides IInv and VInv.
CInv == /\ CleanAnswers /\ CleanSamples /\ CleanReports
        /\ Served /\ Counted /\ RightReports /\ RightErrors

\* CInv holds initially.
LEMMA InitCInv == Init => CInv
  <1> SUFFICES ASSUME Init PROVE CInv
    OBVIOUS
  <1> USE DEF Init, PipelineInit
  <1>1. IInv
    BY InitIInv
  <1>2. CleanAnswers
    BY DEF CleanAnswers, AnswerClean, NoRequest
  <1>3. CleanSamples
    BY DEF CleanSamples
  <1>4. CleanReports
    BY DEF CleanReports, NoReport, Loads
  <1>5. Served
    <2>1. ASSUME NEW l \in Sales PROVE Sent(l) = 0
      BY DEF Sent, Ahead, Sales
    <2> QED
      BY <2>1 DEF Served
  <1>6. Counted
    <2>1. Pairs = {}
      BY DEF Pairs
    <2>2. Persisted = 0
      <3>1. \A stage : Under(stage) = {}
        BY DEF Under, NoRequest
      <3>2. Accounted
        BY <1>1 DEF IInv
      <3>3. events["accepted"] = 0 /\ mishaps["commit"] = 0
        BY DEF Results, MishapKinds
      <3>4. Cardinality(Under("event")) = 0
        BY <3>1, FS_EmptySet
      <3> QED
        BY <3>2, <3>3, <3>4 DEF Accounted
    <2> QED
      BY <2>1, <2>2, FS_EmptySet DEF Counted
  <1>7. RightReports
    BY DEF RightReports, Over, Ahead, Sales
  <1>8. RightErrors
    BY DEF RightErrors
  <1> QED
    BY <1>2, <1>3, <1>4, <1>5, <1>6, <1>7, <1>8 DEF CInv

\* Every step keeps CInv.
LEMMA NextCInv == IInv /\ VInv /\ CInv /\ [Next]_vars => CInv'
  <1> SUFFICES ASSUME IInv, VInv, CInv, [Next]_vars PROVE CInv'
    OBVIOUS
  <1> USE DEF CInv, VInv
  <1>1. CleanAnswers' /\ CleanSamples' /\ CleanReports'
    BY CleanAnswersStep, CleanSamplesStep, CleanReportsStep
  <1>2. Served' /\ Counted'
    BY ServedStep, PairsStep
  <1>3. RightReports' /\ RightErrors'
    BY RightReportsStep, RightErrorsStep
  <1> QED
    BY <1>1, <1>2, <1>3

\* Without a mishap and without a blocked request, every request is served as the
\* activity allows, and reports and verification say so.
THEOREM CInvHolds == Spec => []CInv
  <1> QED
    BY IInvHolds, VInvHolds, InitCInv, NextCInv, PTL DEF Spec

\* A server that made no mistake, blocked nobody and answered in time is failed
\* only because an order was still QUEUED when verify read it, for any number of
\* workers, users, activities and requests.
THEOREM FailedOnlyIfUnsettledHolds == Spec => []FailedOnlyIfUnsettled
  <1>1. ASSUME IInv, VInv, CInv PROVE FailedOnlyIfUnsettled
    <2> SUFFICES ASSUME phase = "done", Clean, events["blocked"] = 0,
                        \/ report["query"].requests > 0
                        \/ \E e \in errors : e[2] = "duplicate"
                 PROVE  \A e \in errors : e[1] \in {"state", "settle"}
      BY DEF FailedOnlyIfUnsettled
    <2>1. \A p \in Procs : ~Ordering(p)
      <3>1. NoClientGaveUp /\ ~Loading /\ ~Verifying
        BY DEF Clean, NoClientGaveUp, MishapKinds, Loading, Runs, Reads, Loads, Verifying
      <3> QED
        BY <1>1, <3>1, NobodyLeft DEF VInv
    <2>2. Unhindered
      BY <1>1, <2>1 DEF Unhindered, Ordering, Idle, IInv, RequestsOK, RequestOK, RouteOK
    <2> QED
      BY <1>1, <2>2 DEF CInv, RightErrors
  <1> QED
    BY <1>1, IInvHolds, VInvHolds, CInvHolds, PTL
=============================================================================
