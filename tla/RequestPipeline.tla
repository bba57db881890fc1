-------------------------- MODULE RequestPipeline --------------------------
(***************************************************************************)
(* What happens to an HTTP request between the router and the client: the  *)
(* middleware chain (TraceID, Metrics, AccessLog, RequestTimeout, Auth,    *)
(* RequireRole, the limiter of TokenBucket), the handler with the          *)
(* statuses and business events it chooses, and the metrics store.  The    *)
(* routes are the ones the load generator calls.                           *)
(*                                                                         *)
(* The order service behind POST /api/orders is one atomic step here;      *)
(* RedisGuard and OrderTx open it up.  A trace id or an access log line    *)
(* changes nothing that is modelled.                                       *)
(***************************************************************************)
EXTENDS TokenBucket, FiniteSetsExt

CONSTANTS
    Users,
    Activities,
    Stock0,       \* Stock0[a]: stock an activity is created with
    Plans         \* what may be run: with the limiter or without, how many writes
                  \* the load generator makes, and, as bounds, how many mishaps
                  \* and ticks of the clock there are

MishapKinds == {"deadline", "commit", "database", "client", "warmup"}

ASSUME RequestPipelineAssumption ==
    /\ IsFiniteSet(Procs) /\ IsFiniteSet(Users) /\ IsFiniteSet(Activities)
    /\ Stock0 \in [Activities -> Nat]
    /\ Plans \subseteq [limited : BOOLEAN, writes : Nat, mishaps : Nat, ticks : 0..MaxTime]

VARIABLES
    plan,      \* the one of Plans this behaviour follows
    order,     \* order[a][u]: status of u's order row for activity a, or "none"
    stock,     \* stock[a]: activities.stock
    cache,     \* cache[a]: its copy in Redis
    req,       \* req[p]: the request goroutine p serves
    store,     \* the metrics of POST /api/orders: store[status]
    events,    \* businessEvents
    mishaps    \* mishaps[k]: mishaps of kind k so far

pipelineVars == <<plan, order, stock, cache, req, store, events, mishaps>>
database == <<order, stock, cache>>

Statuses == {200, 202, 400, 401, 403, 404, 408, 409, 429, 500, 504}
Results == {"accepted", "sold_out", "duplicate_order", "activity_not_found", "error",
            "blocked"}

\* latencyBins, in ticks: those that latencies up to MaxTime can tell apart.
Bins == 0..(MaxTime - 1)

NoRequest == [stage |-> "idle", route |-> "none", user |-> "none", activity |-> "none",
              client |-> FALSE, start |-> 0, status |-> 0, event |-> "none",
              body |-> <<>>]

Mishap(kind) ==
    /\ SumFunctionOnSet(mishaps, MishapKinds) < plan.mishaps
    /\ mishaps' = [mishaps EXCEPT ![kind] = @ + 1]

Clean == \A k \in MishapKinds : mishaps[k] = 0

Idle(p) == req[p].stage = "idle"

Step(p, stage) == req' = [req EXCEPT ![p] = [req[p] EXCEPT !.stage = stage]]

Answer(p, status, event) ==
    req' = [req EXCEPT ![p] = [req[p] EXCEPT !.stage = "event", !.status = status,
                                             !.event = event]]

-----------------------------------------------------------------------------
(* Routing *)

\* Who may call: anybody, a user with a valid token, an administrator.
Access(route) ==
    CASE route \in {"GET /activities"} -> "public"
      [] route \in {"POST /orders", "GET /orders/:order_no"} -> "user"
      [] route \in {"GET /admin/orders", "POST /ops/stock/reconcile"} -> "admin"

\* Auth and RequireRole: the status they answer with, or 0 if they let pass.
\* The role is the one in the token, as of when it was signed.
AuthStatus(route, role) ==
    CASE Access(route) = "public" -> 0
      [] role = "none" -> 401
      [] Access(route) = "admin" /\ role # "ADMIN" -> 403
      [] OTHER -> 0

\* A request arrives and passes the chain up to the limiter or the handler.
Arrive(p, route, role, u, a) ==
    LET denied == AuthStatus(route, role)
        stage == IF denied # 0 THEN "observe"
                 ELSE IF route = "POST /orders" /\ plan.limited THEN "limit" ELSE "handler"
    IN  /\ Idle(p)
        /\ req' = [req EXCEPT ![p] = [NoRequest EXCEPT
                     !.stage = stage, !.route = route, !.user = u, !.activity = a,
                     !.client = TRUE, !.start = clock, !.status = denied]]

\* The middleware of the limiter: allow, then a blocked request is counted and
\* answered.
LimiterReads(p) ==
    /\ req[p].stage = "limit" /\ ReadNow(p)
    /\ UNCHANGED pipelineVars

LimiterAllows(p) ==
    /\ req[p].stage = "limit" /\ allow(p)
    /\ UNCHANGED pipelineVars

LimiterReturns(p) ==
    /\ req[p].stage = "limit" /\ Return(p)
    /\ \/ call[p].ok /\ Step(p, "handler")
       \/ ~call[p].ok /\ Answer(p, 429, "blocked")
    /\ UNCHANGED <<plan, database, store, events, mishaps>>

-----------------------------------------------------------------------------
(* CreateOrder *)

\* orderErrorStatus and orderErrorMetric of what CreateOrderContext returns.
orderErrorStatus(err) ==
    CASE err = "DeadlineExceeded" -> 504
      [] err = "Canceled" -> 408
      [] err \in {"ErrActivityNotFound", "ErrOrderNotFound"} -> 404
      [] err \in {"ErrSoldOut", "ErrDuplicateOrder"} -> 409
      [] OTHER -> 400

orderErrorMetric(err) ==
    CASE err = "ErrActivityNotFound" -> "activity_not_found"
      [] err = "ErrSoldOut" -> "sold_out"
      [] err = "ErrDuplicateOrder" -> "duplicate_order"
      [] OTHER -> "error"

Fail(p, err) ==
    /\ Answer(p, orderErrorStatus(err), orderErrorMetric(err))
    /\ UNCHANGED database

Creating(p) == req[p].stage = "handler" /\ req[p].route = "POST /orders"

\* The transaction commits.
PersistOrder(p) ==
    LET a == req[p].activity
        u == req[p].user
    IN  /\ Creating(p)
        /\ order[a][u] = "none" /\ stock[a] > 0
        /\ order' = [order EXCEPT ![a][u] = "QUEUED"]
        /\ stock' = [stock EXCEPT ![a] = @ - 1]

\* Slip: the order is counted as accepted once the response was written.
CreateOrderLateEvent(p) ==
    /\ PersistOrder(p)
    /\ cache' = [cache EXCEPT ![req[p].activity] = @ - 1]
    /\ req' = [req EXCEPT ![p].stage = "observe", ![p].status = 202,
                          ![p].event = "accepted"]
    /\ UNCHANGED <<plan, store, events, mishaps, bucketVars>>

CreateOrder(p) ==
    /\ PersistOrder(p)
    /\ cache' = [cache EXCEPT ![req[p].activity] = @ - 1]
    /\ Answer(p, 202, "accepted")
    /\ UNCHANGED <<plan, store, events, mishaps, bucketVars>>

\* The answer to the commit is lost: an error is returned for an order that is
\* there, and its unit in Redis is released.
CreateOrderCommitLost(p) ==
    /\ PersistOrder(p)
    /\ Mishap("commit")
    /\ Answer(p, orderErrorStatus("bad connection"), orderErrorMetric("bad connection"))
    /\ UNCHANGED <<plan, cache, store, events, bucketVars>>

\* Refused; or a query, or the context it runs under, fails.  The first query,
\* for the activity, turns every error into ErrActivityNotFound; in the
\* transaction the error is passed on, or database/sql has rolled back already
\* and reports ErrTxDone.  (Redis answers here: RedisGuard has its failures.)
CreateOrderFails(p) ==
    LET a == req[p].activity
    IN  /\ Creating(p)
        /\ \/ order[a][req[p].user] # "none" /\ Fail(p, "ErrDuplicateOrder")
              /\ UNCHANGED mishaps
           \/ order[a][req[p].user] = "none" /\ stock[a] <= 0 /\ Fail(p, "ErrSoldOut")
              /\ UNCHANGED mishaps
           \/ /\ ~req[p].client /\ UNCHANGED mishaps
              /\ \E err \in {"Canceled", "ErrTxDone", "ErrActivityNotFound"} : Fail(p, err)
           \/ /\ Mishap("deadline")
              /\ \E err \in {"DeadlineExceeded", "ErrTxDone", "ErrActivityNotFound"} :
                     Fail(p, err)
           \/ /\ Mishap("database")
              /\ \E err \in {"driver error", "ErrActivityNotFound"} : Fail(p, err)
        /\ UNCHANGED <<plan, store, events, bucketVars>>

-----------------------------------------------------------------------------
(* Read-only handlers *)

\* AdminService.ListOrders.  Its two queries see the same rows unless a request
\* commits between them.
Orders(a, statuses) == {u \in Users : order[a][u] \in statuses}

\* What the handler answers with.
Body(route, a) ==
    CASE route = "GET /admin/orders" -> [rows |-> order[a]]
      [] route = "POST /ops/stock/reconcile" -> [matches |-> cache[a] = stock[a]]
      [] route = "GET /activities" -> [stock |-> stock[a]]
      [] route = "GET /orders/:order_no" -> [rows |-> order[a]]

ReadHandler(p) ==
    /\ req[p].stage = "handler" /\ req[p].route # "POST /orders"
    /\ req' = [req EXCEPT ![p] = [req[p] EXCEPT !.stage = "observe", !.status = 200,
                     !.body = Body(req[p].route, req[p].activity)]]
    /\ UNCHANGED <<plan, database, store, events, mishaps, bucketVars>>

\* A query fails; GetOrder takes any error for a missing order.
ReadHandlerFails(p) ==
    /\ req[p].stage = "handler" /\ req[p].route # "POST /orders"
    /\ Mishap("database")
    /\ req' = [req EXCEPT ![p] = [req[p] EXCEPT !.stage = "observe",
                     !.status = IF req[p].route = "GET /orders/:order_no"
                                THEN orderErrorStatus("ErrOrderNotFound") ELSE 500]]
    /\ UNCHANGED <<plan, database, store, events, bucketVars>>

-----------------------------------------------------------------------------
(* Metrics *)

IncBusinessEvent(p) ==
    /\ req[p].stage = "event"
    /\ events' = [events EXCEPT ![req[p].event] = @ + 1]
    /\ Step(p, "observe")
    /\ UNCHANGED <<plan, database, store, mishaps, bucketVars>>

\* Slip: a latency on the boundary of a bin is left out of it.
ObservedStrict(entry, latency) ==
    [count |-> entry.count + 1, sum |-> entry.sum + latency,
     le |-> [b \in Bins |-> IF latency < b THEN entry.le[b] + 1 ELSE entry.le[b]]]

Observed(entry, latency) ==
    [count |-> entry.count + 1, sum |-> entry.sum + latency,
     le |-> [b \in Bins |-> IF latency <= b THEN entry.le[b] + 1 ELSE entry.le[b]]]

\* The handler has returned and written its response: RequestTimeout writes
\* none, Metrics observes the status, and then the response is flushed.
ObserveHTTPRequest(p) ==
    /\ req[p].stage = "observe"
    /\ store' = IF req[p].route = "POST /orders"
                THEN [store EXCEPT ![req[p].status] = Observed(@, clock - req[p].start)]
                ELSE store
    /\ \/ req[p].client /\ Step(p, "reply")
       \/ ~req[p].client /\ req' = [req EXCEPT ![p] = NoRequest]
    /\ UNCHANGED <<plan, database, events, mishaps, bucketVars>>

-----------------------------------------------------------------------------
(* The rest of the system *)

\* A worker moves the order on (OrderDispatch).
processOrderCreated(a, u) ==
    /\ order[a][u] = "QUEUED"
    /\ order' = [order EXCEPT ![a][u] = "WAIT_PAY"]
    /\ UNCHANGED <<plan, stock, cache, req, store, events, mishaps, bucketVars>>

TimePasses == clock < plan.ticks /\ Tick /\ UNCHANGED pipelineVars

PipelineInit ==
    /\ BucketInit
    /\ plan \in Plans
    /\ ~plan.limited => mark = 0 /\ bucket = NewTokenBucketLimiter(CHOOSE c \in Limits : TRUE)
    /\ order = [a \in Activities |-> [u \in Users |-> "none"]]
    /\ stock = Stock0
    /\ cache = Stock0
    /\ req = [p \in Procs |-> NoRequest]
    /\ store = [s \in Statuses |-> [count |-> 0, sum |-> 0, le |-> [b \in Bins |-> 0]]]
    /\ events = [r \in Results |-> 0]
    /\ mishaps = [k \in MishapKinds |-> 0]

ServerNext ==
    \/ \E p \in Procs :
           \/ LimiterReads(p) \/ LimiterAllows(p) \/ LimiterReturns(p)
           \/ CreateOrder(p) \/ CreateOrderCommitLost(p) \/ CreateOrderFails(p)
           \/ ReadHandler(p) \/ ReadHandlerFails(p)
           \/ IncBusinessEvent(p) \/ ObserveHTTPRequest(p)
    \/ \E a \in Activities, u \in Users : processOrderCreated(a, u)
    \/ TimePasses
=============================================================================
