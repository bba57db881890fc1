# Verification of go-order-lab

TLA+ models of the order service in `src/`: how its database transactions, its
Redis stock guard, its task queue, its carts, its request pipeline and the
process itself behave when requests, workers, timeouts, crashes and broken
connections interleave, and whether its load generator judges it rightly. TLC
checks the models on small instances; TLAPS proves theorems about all of them
for every size.

## 1. Inventory

| part | state it keeps | operations | interacts with |
|---|---|---|---|
| order transactions (`internal/service/order.go`) | rows of activities, orders, payments | create with and without Redis, cancel, expire, compensate, confirm, pay | database pool, Redis, task queue |
| order dispatch (`order.go`, `rabbitmq.go`) | RabbitMQ queue and `.dlq`, Go channel `tasks`, worker goroutines | publish with fallback, consume, retry, dead letter, requeue | order rows, broker |
| Redis stock guard (`redis_stock.go`, `ReconcileStock`) | stock key, set of buyers | reserve, release, prewarm, compare, repair | activity row, not in its transaction |
| catalog (`catalog.go`) | products, activities | create, change status | activity row (saved whole), Redis (prewarm) |
| carts, coupons, checkout (`cart.go`, `coupon.go`, `order.go`) | cart rows, coupons, product stock | add, update, delete, claim, check out | order rows |
| addresses (`address.go`) | address rows, the default flag | create, set default | database locks |
| rate limiter (`middleware/rate_limit.go`) | tokens, last fill | allow | `POST /orders`, the clock |
| accounts (`auth.go`, `middleware/auth.go`) | user rows, tokens | register, log in, ensure the administrator, check a token | every protected route |
| opening the database (`database.go`) | pool size, schema, indexes | migrate, backfill keys, fill in statuses and roles | everything |
| start and shutdown (`cmd/server/main.go`) | contexts, wait group, listener | start, stop, restart | everything |
| handlers, middleware, metrics (`handler/`, `middleware/`, `metrics/`) | counters, histogram, business events | route, limit, handle, observe | services, clients |
| load generator (`cmd/pressure`) | samples, reports | run a load, summarise, verify, report | the API as a client |
| admin queries, configuration, tracing | none that others rely on | - | - |

What is hard here:

* **Overlapping transactions.** Every handler reads rows, decides, and then
  `Save`s *whole rows from its copies*. SQLite has one connection, so
  transactions are serial; MySQL has up to 30, and InnoDB's snapshot reads let
  two handlers decide on the same copy.
* **Two stores, one transaction.** Redis is called inside and around database
  transactions that may still roll back; replies get lost, keys expire.
* **Work after the commit.** A task is published after its order is committed;
  the process may die in between, the broker may be gone, the channel full.
* **Statements outside transactions** (`UpdateActivityStatus`,
  `UpdateQuantity`), which race even on one connection.
* **A migration of single statements**, which a crash may cut off anywhere and
  which the next start repeats.
* **A shutdown with one time budget** for requests and workers that may hang.
* **A clock read outside the lock** (the limiter), and reads one after the other
  that are judged together (the load generator's verification).

What makes each part correct: stock and live orders add up, a user buys once, a
payment counts once, no unit is returned twice (transactions); a queued order is
eventually confirmed and no stored task is lost (dispatch); Redis and the database
neither create nor destroy units and do not oversell, short of the mishaps of §3
(guard); products and coupons are conserved (checkout); there is one
default address (addresses); neither too many nor too few requests get through
(limiter); only configured names are administrators (accounts); nothing is served
before the migration is complete, and the process ends when told to (server);
what a client was told, what the metrics count and what the database holds agree
(pipeline); a load test that passes counted what the database holds, and one without
mishap fails only for a race of its own readings (load generator). Each hazard is listed with its source line in `PROJECT.json`.

## 2. Modules

| module | models | shape |
|---|---|---|
| `Promotion` | the contract of one activity: buy, confirm, pay, record a failed payment, give up | abstract specification |
| `OrderTx` | every transaction on the rows of one activity | two steps per transaction; refines `Promotion` |
| `OrderTxProofs` | theorems about `OrderTx` | TLAPS |
| `OrderDispatch` | publish, RabbitMQ, Go channel, workers, retries, requeueing, start/stop | one action per step of a goroutine or of the broker |
| `OrderDispatchProofs` | theorems about `OrderDispatch` | TLAPS |
| `RedisGuard` | the two Lua scripts beside the activity row, and all callers | one action per call to Redis or the database |
| `RedisGuardProofs` | theorems about `RedisGuard` | TLAPS |
| `CartCheckout` | carts, product stock, one coupon, cart orders | two steps per transaction |
| `CartCheckoutProofs` | theorems about `CartCheckout` | TLAPS |
| `FiniteSums` | lemmas on sums over finite sets, and induction over their subsets | TLAPS |
| `TokenBucket` | the limiter: clock, mutex, refill | one action per step of a goroutine |
| `TokenBucketProofs` | theorems about `TokenBucket` | TLAPS |
| `RequestPipeline` | middleware chain, order handlers, metrics | extends `TokenBucket`; one action per stage of a request |
| `LoadTest` | the load generator | extends `RequestPipeline`: a client closes the system |
| `LoadTestProofs` | theorems about the limiter, the pipeline and the metrics under load, and about the verdict | TLAPS |
| `AddressBook` | address transactions with database locks | one action per statement |
| `Migration` | the tables `database.Open` changes | one action per statement |
| `Accounts` | accounts, tokens, the administrator | one action per call |
| `Server` | the process: start, requests, workers, shutdown | extends the three above |
| `ServerProofs` | theorems about `Server` and the three above | TLAPS |
| `MC...` | symmetry sets and configurations for TLC | - |

**`OrderTx`.** `X_Read(p)` is the part of handler X up to its last early return:
process `p` takes a connection (`ConnFree`, `MaxOpenConns`) and keeps copies of
the rows in `tx[p]`. `X_Write(p)` applies the writes and commits. `Save` writes
the copy; a conditional `UPDATE` and a unique index look at the committed rows.
All handlers lock activity, order, payment in this order, so the writes and the
commit can be one step. `Rollback` is every failure: a statement error, a
cancelled context, a unique conflict, a crash. `createOrderWithRedis_Reserve`
lets Redis answer anything; `RedisGuard` says what it answers. The clock is
`ended`; timeouts are configured and may be zero, so any order may have timed
out. The empty activity status, which the code treats as published, is "EMPTY".

**`OrderDispatch`.** The worker's transaction is two steps, the read of the order and
the `Save` of the whole row (stage "confirming"), so another transaction may run in
between if `MaxOpenConns` leaves it a connection; the others, which `OrderTx` opens up,
are atomic here. `pub[c]` is a running `publishOrderTask`, `job[w]` the task of a worker, `held` says that the
broker still waits for the acknowledgement. A prefetched but unread delivery
counts as still queued: the broker requeues it anyway. `server` is the
configuration the server was started with (RabbitMQ or Go channel); a restart may
change it. The broker (`LinkBreaks`, `QueueAfterClose`) is external: durable
queue, persistent messages, redelivery of what was not acknowledged, no publisher
confirms.

**`RedisGuard`.** Units, buyers and marks of one activity in both stores; a stock key
that is not there is the constant `Missing`, which is no number. A live order is
QUEUED, WAIT_PAY or PAID. Besides the callers of Redis there are those that write the
same rows from copies: the worker and the payment callback
(`processOrderCreated_Read`, `_Save`) and `UpdateActivityStatus`. On MySQL the former
may save WAIT_PAY or PAID over an order that a cancellation has given back since it was
read; `revived` is the history of these orders.
`engine` is the database, `Serial` says that it has one connection. A commit whose
answer is lost (kind "commit") leaves an order that the code takes for failed and
whose reservation it releases. `mishaps` counts what has gone wrong by kind, so
that each property names the mishaps it survives: `GuardBalanced` all but lost
keys and repairs, `BuyersAreMarked` and (on MySQL) `NoOversell` not those in which
a `Release` is not matched by the database. The latter two also except the orders in
`revived`, which nothing has to go wrong for.

**`CartCheckout`.** As `OrderTx`. `coupon` is the `UserCouponID` of an order, 0 without
one. Prices are 1, addresses are left out. Saving
`EXPIRED` in `applyCoupon` is rolled back by the error that follows, so it is no
step. `Save` of a deleted cart row inserts it again (GORM).

**`TokenBucket`.** `call[p]` is a call of the limiter: `ReadNow` evaluates
`time.Now()`, `allow` is the critical section, so times reach it late and out of
order. A rate is a fraction num/den and tokens are counted in units of 1/den,
which is exact where the code uses float64. `mark` is a moment fixed beforehand;
`since` counts the admissions of requests that are not older.

**`RequestPipeline`.** `req[p]` is a request on its way: limiter, handler, business
event, HTTP metric, reply. The order service is one step here (`PersistOrder`);
`OrderTx` and `RedisGuard` open it up. A client may have gone (`client = FALSE`)
while the server goes on. `RequestTimeout` sets a deadline, which may pass in the
handler and then shows as the deadline, as a missing activity (the first query takes
every error for that) or, in a transaction that `database/sql` has already rolled back,
as another error; a failing query looks like the latter two. The handlers always write a response, so
the 504 of the middleware itself never happens on these routes. `ListOrders` counts
and reads in one step.

**`LoadTest`.** `phase` is how far `execute` has come. `runLoad` is `SendRequest`,
`ReceiveResponse`, `ResponseUnreadable` or `RequestFails`, `WorkerReturns`, `LoadEnds`;
`verify` is one call after the other through the same pipeline. The warm-up before the
queries is a load whose samples are thrown away; an answer lost in it is a mishap of a
kind of its own. The limit of 100 rows never binds, since no activity sells more.

**`AddressBook`.** One user's addresses. SQLite has one connection. On MySQL
(REPEATABLE READ, an index on `user_id`) the `UPDATE` that resets the defaults
locks the user's rows and the gap around them to the end of the transaction; if
there are none it locks the gap only, which others may do too, and the insert then
waits or one transaction is rolled back as a deadlock victim. These locks are
assumptions about InnoDB, marked external.

**`Migration`, `Accounts`, `Server`.** `phase` walks through `main`. Every
statement of `database.Open` is a step, so a crash falls between any two. A row's
`key` is the pair `NewActivityOrderKey` formats, or `NoKey` for the null. The
initial database is new or one of the earlier version: orders without keys, the
index `idx_user_activity`, empty statuses and roles. A failing statement ends the
process (`log.Fatal`), which is `Crash`; `DropIndexFails` is the one whose error is
ignored. `handler` and `background` are goroutines that may hang; `expired` is the
shared `shutdownCtx`. `config.Load` never returns an empty administrator name, so
the test for one in `main` is always true.

**`Promotion`.** `OrderTx` implements it with `stock <- activity.stock`: a
`..._Write` is a step of the contract, everything else stutters.

## 3. Runs

All runs switch deadlock checking off: order numbers and faults are bounded, so a
behaviour may run out of work.

| run | instance | result |
|---|---|---|
| `tx_sqlite` | 1 connection, no Redis, 3 users, 2 units | `StockConserved`, `PaidOnce`, `ImplementsPromotion`, `OfflineSellsNothing` |
| `tx_mysql` | 2 connections, Redis path, edits, 2 users, 1 unit | `TypeOK`, `OneOrderPerUser`, `StockNonNegative`, `PaidHasReceipt`, `ReceiptsAreFinal` |
| `tx_mysql_oversell` | 2 connections, no Redis | **violates** `NoOversell` |
| `tx_mysql_paid_cancelled` | 2 connections | **violates** `PaidIsFinal` |
| `dispatch` | 2 orders, 2 workers, 2 connections, 2 faults of six kinds, both configurations, fair | `TypeOK`, `AcceptedTaskSurvives`, `DeadLetterAfterAllRetries`, `ConfirmedUnlessDetached` |
| `dispatch_link_lost` | RabbitMQ, the connection breaks once, fair | **violates** `EventuallyConfirmed` |
| `redis` | SQLite and MySQL, 2 requests, 3 users, 1 unit, 2 mishaps of eight kinds | `TypeOK`, `DatabaseConserved`, `GuardBalanced`, `AgreeWhenQuiet`, `BuyersAreMarked`, `NoOversell`, `GivenBackIsFinal` |
| `redis_mysql_revived` | MySQL, 2 requests, 2 users, 1 unit, no mishap | **violates** `SoldWithinStock` |
| `redis_repair_race` | 1 connection, 1 repair | **violates** `AgreeAfterRepair` |
| `cart_sqlite` | 1 connection, 2 users, 2 products, 2 orders, 1 coupon | `TypeOK`, `ProductConserved`, `CouponConserved`, `CouponSpentOnce` |
| `load` | 2 client workers, 2 server goroutines, 2 users; limiter with 2 ticks, or 1 mishap, or 2 batches of writes | `TypeOK`, `WindowBound`, `NoUndueRejection`, `AcceptedIsAccounted`, `HistogramConsistent`, `PassedMeansCorrect`, `FailedOnlyIfUnsettled` |
| `server` | 2 overlapping requests, 1 crash or failing statement, 1 signal, old and new database, both engines, 2 administrator settings, fair | `TypeOK`, `OneDefaultAddress`, `UniqueActivityOrder`, `AdminsWereConfigured`, `ServingMeansReady`, `OrderlyShutdown`, `StopsAfterSignal`, `EventuallyServes` |

**Bounds.** The races are between two transactions, so two processes meet them.
Stock is below the number of users, so the last unit is contended. `MaxRetries = 1` has a
retry and a last try; `ChanCap = 1` makes the channel full with the second order;
`MaxCopies = 2` bounds how often compensation publishes one order and still
allows duplicates; `MaxFaults` and `MaxMishaps` allow a fault during the recovery
from another. `MaxRevived = 1`: one revived order suffices for the exception, a second one
adds no other step. In `redis` one unit is enough for both ends, a key at zero and a key
that grows too far. `load` takes one of three plans rather than their product:
time and the limiter matter to the limiter's properties, mishaps to those of the
verification, writes to the batches. A mishap in a write batch takes the same path
as one in the other checks and is not in the run. Its limiter has a rate of 1/2 and the default burst, so that the
second default of the constructor matters and two requests contend for one token;
`BatchCap = 1` gives two batches; `MaxPolls = 1` has a poll that finds a QUEUED
order and one that gives up. In `server` one fault suffices for every place of a
crash in a start, and the start after it meets every half-migrated database;
`MaxRequests = 2` are two address transactions that overlap, or a request that is
cut off by the shutdown beside one that is not. Symmetry is used only in runs
without liveness.

**Fairness** (`dispatch`, `dispatch_link_lost`): weak fairness of each
goroutine's next step (the Go scheduler), of the delivery of each ready message
(the broker), of `CompensateRequeue` (the ticker of
`StartCompensationWorkerContext`, or an administrator who calls the endpoint) and
of a restart. Nothing is assumed of users and faults. Compensation is needed:
it is off by default, and with it silent the property fails. In `server`: weak
fairness of `main`'s next step, of the timer of `shutdownCtx`, and of a restart
unless a signal stopped the process (`restart: unless-stopped` in
`docker-compose.yml`). Nothing is assumed of requests and workers: `StopsAfterSignal`
holds though all of them hang.

**What the verification of a load test shows.** `verify` reads the orders, then asks
for those that are QUEUED, and judges the first answer. An order that is confirmed
between the two reads fails a correct server with "unexpected order state QUEUED".
The comment above it speaks of reading "after async processing settles";
`FailedOnlyIfUnsettled` states precisely that this is the only way in which a
server that made no mistake can fail. `PassedMeansCorrect` is the other direction: what
a passed report says of orders and stocks is true whatever has failed on the way, and no
order is still to come. That nothing has failed it does *not* say. A client's timeout or
a lost commit never ends in a passed report, except in the warm-up, whose samples nobody
looks at; and a query or a deadline that fails inside a create is answered like a
missing activity or a bad request, which is no system error for the load generator, and
passes if another request makes up for it.

**The violations.** They share one cause: a row is saved from a copy that was
read earlier.

* `tx_mysql_oversell`: two creates read stock 1 and both save 0.
* `tx_mysql_paid_cancelled`: a cancellation saves CANCELLED over a payment.
  By the same overlap two SUCCESS callbacks can both be accepted, and `restoreStock`
  can put PUBLISHED back over OFFLINE with the unit it returns, which is why `PaidOnce`,
  `ImplementsPromotion` and `OfflineSellsNothing` are stated for one connection.
* `redis_mysql_revived`: the worker reads a QUEUED order, a cancellation commits and
  releases its unit, the worker saves WAIT_PAY, and the unit is sold to somebody else.
  Nothing has failed, and Redis was asked each time. So the guard does *not* keep MySQL
  from overselling without exception: `NoOversell` counts the orders that were never
  revived, and `GivenBackIsFinal` says that SQLite revives none.
* `redis_repair_race`: `ReconcileStock` writes a stock read before a sale.
* `dispatch_link_lost` is different: after the connection breaks, publishes fall
  back to a Go channel that no worker reads, since the RabbitMQ workers have
  returned and nothing reconnects. The contrary case, `Consume` failing at start,
  leaves channel workers while publishes go to RabbitMQ. `Detached` describes both
  situations; `ConfirmedUnlessDetached` says that nothing else, and no combination
  of two faults, keeps an order QUEUED for ever.

## 4. Proofs

`OrderTxProofs` proves, for any sets of processes, users, orders and transaction
numbers, any stock, any pool size, with and without Redis and status edits:
`TypeCorrect`, `OneOrderPerUserHolds`, `StockNonNegativeHolds`,
`PaidHasReceiptHolds`, `ReceiptsAreFinalHolds`. Assumed is only
`OrderTxAssumption`: finite sets of processes and orders, positive stock and pool
size, and that `None` is none of the others.

None of these is inductive: the writes use copies. The inductive invariant `IInv`
adds what a copy may still be trusted for, however old it is. `CopiesOK`: a copy
of the activity in a create transaction has stock at least 1, in any other
operation at least 0, and the copied order names the user the row still names,
since no write changes it. `BuyersOK`: an order without a row has no user. Stale
copies may be wrong about the current stock and status, but these facts cannot go
stale, and they suffice. The proof has one step per action.

For `MaxOpenConns = 1` and `StatusEdits = {}`, the setting of SQLite while nobody
edits the activity, it also proves `StockConservedHolds`, `PaidOnceHolds` and
`ImplementsPromotionHolds`. The extra invariant `FreshCopies` says that at most
one transaction is open and that its copies equal the committed rows; with it
every write is a step of `Promotion`. `tx_mysql_oversell` shows that the condition on
connections is needed. The one on edits is, because `UpdateActivityStatus` reads and
saves the row in two statements: a sale in between vanishes from the stock column even
on SQLite.

`OfflineSellsNothingHolds` is for `MaxOpenConns = 1`, with Redis and without, and for
edits that only take the activity off sale: it stays off sale and sells nothing more.
`FreshActivity` says that at most one transaction is open, that a copy it is going to
save is still the row, and that a create under way was admitted while the activity was
on sale. The run `tx_sqlite` has
the part without edits, in which compensation ends the activity.

`TokenBucketProofs` proves, for any number of goroutines, any configuration (rates
below one, defaults, negative values) and any clock, `WindowBoundHolds` and
`NoUndueRejectionHolds`, from `TokenBucketAssumption`: a configuration is a fraction
and an integer, the clock's bound a natural number. Neither is inductive. `BInv`
adds that the burst covers the cost of a request (this is where the constructor's
defaults matter), that an admission since `mark` has moved `lastFill` to `mark` or
later, and `RefilledSince`: the bucket is full, or holds at least what the rate gives
for the time since the last admission. The theorems are about `BucketSpec`;
`ImplementsBucket` in `LoadTestProofs` proves that the closed system implements it, so
they hold under load too (`WindowBoundUnderLoad`, `NoUndueRejectionUnderLoad`).

`RedisGuardProofs` proves every invariant of `RedisGuard` for any number of requests,
users, units and mishaps, from `RedisGuardAssumption`. The two stores are
tied together by who may still act on what. `FreshCancel`: on one connection an open
transaction has read an order that is still live, and the stock it has read is still
the row's unless an edit wrote one back; so `GivenBackIsFinal`. `Untouched`: before the first script there is no
order, no mark and no stale copy, so a script that finds no key initialises it
rightly. `HoldersOK`: a reservation is held by one request whose user is marked until
the order exists. `MarksOK`: every mark has an order or a request behind it. Each is
conditional on the mishaps that really break it, and the conditions of the
properties are the union of those their argument needs; on several connections
`NoOversell` follows from `GuardBalanced` and `BuyersAreMarked` alone (live buyers are
marked unless they were revived, marks and key add up, the key is not negative), without
the row, and so also after an edit.

`OrderDispatchProofs` proves `TypeCorrect`, `AcceptedTaskSurvivesHolds`,
`DeadLetterAfterAllRetriesHolds` for any number of
orders, workers, connections, retries, faults and any capacity of the channel. For one
connection it proves the action property `RedeliveryIsHarmlessHolds`: an order that was
cancelled or paid stays so, however often its task is delivered. That the worker looks at
the status does not suffice, since it saves in a later step: `ReadIsCurrent` says that
an order is still QUEUED while a worker that has read it so holds the connection.
`AcceptedTaskSurvives` is not inductive, since a worker may have moved the
order or published its next try and not acknowledged yet; `AcceptedTaskKept` follows a
task through these stages, `HeldByRabbit` and `DownIsEmpty` say what a lost connection
or a dead process leaves to requeue, and `RetriesAreFailures` counts the failures
behind a retry number, whoever published the message.

`CartCheckoutProofs` proves for any number of connections `TypeCorrect` and what
overlapping transactions leave of the conservation laws: `StocksNonNegativeHolds` and
`CouponsNeverLostHolds`. `CopiesCover` is the inductive part: however old a copy is, it
covers what its transaction takes, and a claim's copy of the coupon's stock is not less
than the coupons users have leave of it, a bound that only sinks. For
`MaxOpenConns = 1` (SQLite, the setting of `cart_sqlite`), `ProductConservedHolds`,
`CouponConservedHolds`, `CouponSpentOnceHolds` and
`SerialHolds`: every change of the rows is one step of a shop without transactions.
`FreshCopies` is the inductive part; each shop step then conserves products and
coupons. The sums over orders are `SumFunctionOnSet` of the community modules, a fold,
about which nothing can be proved by unfolding. `FiniteSums` therefore proves by
induction that it does what a sum does. The induction is over the subsets of a finite
set and takes the *set* of the good subsets as its parameter (`SubsetInduction`), since
the library's theorems take an operator, which the provers cannot instantiate; it rests
on the well-foundedness of strict inclusion among finite sets.

`ServerProofs` proves, for any sets of goroutines, buyers and names, any settings of the
administrator and any number of requests, crashes and signals, every invariant of
`server` and `OneDefaultAddress`, from `ServerAssumption` (finite goroutines, at least one
setting, and that the databases found at first fit the bounds). The three parts of
the database share no variable; each has an invariant, and the process ties them
together by its phase. `AddressInv`: under the gap lock there are no addresses, under
the row lock all of them have been reset, and no default is set without one of the
two. `ProcessInv`: requests run only while the server listens, and how far the
shutdown has come says what has ended. `TablesInv` and `AccountsInv` say for each
statement of the start what is true once `main` is past it; no request undoes it. That
every order of an activity has its key is what makes the unique index
protect an insert, so `UniqueActivityOrder` needs the order of the statements and not
only the index.

`LoadTestProofs` proves, for any numbers of users, server goroutines, client workers,
requests, polls, plans and mishaps and any clock, `TypeCorrect`,
`AcceptedIsAccountedHolds` and `HistogramConsistentHolds`, from `LoadTestAssumption`,
`RequestPipelineAssumption` and `TokenBucketAssumption`. `AcceptedIsAccounted` compares
four counts that four different actors keep, so it is not inductive. `Accounted` says
exactly what lies between two neighbours: an accepted order is a row first, then an
event, then a request in the metric, then an answer at the client, and the requests at
stage `event`, `observe` and `reply` make up the differences, beside lost commits and
clients that gave up. That it holds needs the other parts. `RequestsOK`: only an
accepted order has status 202, and only a create has that status. `JobsOK` and
`CheckOK`: a worker and `verify` wait for a request of their own phase, so no answer is
counted in another's report. `ReportsOK`: a report is empty until its load ends, and
with it the samples become the report. `WaitedFor`: without a client's mishap every
request has somebody who receives its answer. Counting users, goroutines and samples is
by cardinalities and sums of `FiniteSums`. `HistogramConsistent` is inductive as it
stands: an observation of latency d raises the cumulative buckets from d on, so exactly
one term of the sum changes, by d (`SumChange`). TLC checked `IInv` on the instance of
`load` (686,071 states) before it was proved.

`PassedMeansCorrectHolds` and `FailedOnlyIfUnsettledHolds` say, for the same
parameters, that the verdict of a load test is right in both directions. Both
properties compare the end of `execute` with its whole history, so each has an
inductive invariant of its own on top of `IInv`. `LoadTestAssumption` adds what the
program checks before it starts: there is at least one worker (`main` rejects
`-concurrency` below 1), and "none", which stands for no request, is no goroutine.

`VInv` is what a report of success rests on.

* Where orders come from: `FromLoads` says that every row, and every request for one,
  is the aim of a request the loads have sent (`Aim`, `Sent`), `Units` that rows and
  stock add up, and that the copy in Redis differs from the stock exactly if a commit was
  lost. The writes of a batch are the place and the quotient of a division by
  `batchSize`; `BatchPlaces` and `PlacesOf` show that requests and places are in
  one-to-one correspondence, also in the last, shorter batch.
* That nothing is left over: `Clients` says that somebody waits for every request with
  a client, so unless a client gave up no order is under way once its load has ended
  (`OfThisLoad`), and the database is quiet while it is verified.
* What was read: `Readings` carries each answer of the admin API to the comparison at
  the end. An earlier answer is only `Older`: a row that was QUEUED may have moved on
  since, but no row comes or goes. `Verified` keeps the result until the end.
* What cannot go unnoticed: `Traces` follows a client that gave up outside the warm-up
  from the sample to the report and the errors. A lost commit shows in `Units`. Nothing
  is claimed of failing queries.

`CInv` is what a report of failure rests on, for a run without a mishap and without a
blocked request. `Served` is the converse of `FromLoads`: whoever asked has an order,
finds nothing left, or has a request under way. When none is, the orders of each load
are counted exactly (`SoldDuplicate`, `SoldStock`, `SoldWrites`; the last by a bijection
between writes and orders). `RightReports` then needs `Accounted`: at the end of a
load clients were told as many orders as are stored, the earlier reports are right, so
the new one is. Hence `Verdict` can only be "none" or "state", which, with the polls
that run out, is what the property allows (`RightErrors`).
TLC checked `VInv` and `CInv`, too, on the instance of `load`.

Only model-checked: liveness (`ConfirmedUnlessDetached`, `StopsAfterSignal`,
`EventuallyServes`), since fairness and ENABLED are out of the prover's reach. Every
safety property that a passing run checks is a theorem.

## 5. Not modelled

* Trace ids and the access log change nothing that another part reads.
  `RenderPrometheus`, `parseUintQuery` and the like are formatting and parsing.
* Handlers that only bind a request and call a service modelled elsewhere, and the
  read-only queries (`Overview`, the lists), have no control of their own.
* Of the configuration, the values that matter are varied by the runs; parsing
  environment variables is left out. Hashing and JWT verification are libraries.
* Amounts are left out of `OrderTx`, prices are 1 in `CartCheckout`;
  `OperationLog` is write-only. `CreateProduct` and creating coupons are initial
  states.
* In `OrderTx` InnoDB's gap locks and deadlock detection only add rollbacks, which
  may happen at any time anyway; in `AddressBook` they decide, and are modelled.
* The floating-point rounding of the limiter, and the expiry of tokens.

## 6. Plan

1. Done: `Promotion`, `OrderTx` and its proofs; `OrderDispatch`; `RedisGuard`;
   `CartCheckout`; `TokenBucket` and its proofs; `RequestPipeline` and `LoadTest`;
   `AddressBook`, `Migration`, `Accounts` and `Server`.
2. Done: proofs about `RedisGuard`, `OrderDispatch`, `CartCheckout`, `Server` and its
   parts, the limiter, the pipeline, the metrics under load, the verdict of a load
   test, an activity taken off sale, stocks and coupons of `CartCheckout` on several
   connections.
3. Left: what the unique indexes of `CartCheckout` keep on several connections.
