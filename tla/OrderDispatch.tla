--------------------------- MODULE OrderDispatch ---------------------------
(***************************************************************************)
(* How a created order reaches a worker: publishOrderTask, the RabbitMQ    *)
(* queue and its dead letter queue, the Go channel used instead of it, the *)
(* workers, retries, and the requeueing part of Compensate - with crashes, *)
(* failing database transactions, a lost AMQP connection and a failing     *)
(* Consume.                                                                *)
(*                                                                         *)
(* An order is committed as QUEUED first and published afterwards, outside *)
(* the transaction, by the request that created it or by Compensate.  The  *)
(* worker's transaction is two steps, a read of the order and a save of    *)
(* the whole row; the other transactions are atomic here (OrderTx opens    *)
(* them up), and with one connection none of them runs in between.         *)
(*                                                                         *)
(* The AMQP client never reconnects: when its connection breaks, every     *)
(* publish fails, unacknowledged deliveries go back to the queue, the      *)
(* deliveries channel is closed and the RabbitMQ workers return.           *)
(***************************************************************************)
EXTENDS Integers, Sequences, FiniteSetsExt

CONSTANTS
    Orders,
    Workers,
    MaxOpenConns,         \* connections of the pool: 1 for SQLite
    MaxRetries,           \* ORDER_RABBITMQ_MAX_RETRIES
    ChanCap,              \* capacity of s.tasks
    Configs,              \* what the server may be started with: "rabbit" (s.rabbit
                          \* is set) or "channel"
    CompensationEnabled,  \* somebody calls Compensate: worker or administrator
    Faults,               \* the kinds of faults that may happen
    MaxFaults,            \* bound: how many faults happen in one behaviour
    MaxCopies             \* bound: Compensate requeues no order with this many tasks

FaultKinds == {"crash", "db", "link", "lost", "publish", "consume"}

ASSUME OrderDispatchAssumption ==
    /\ IsFiniteSet(Orders) /\ IsFiniteSet(Workers)
    /\ MaxOpenConns \in Nat \ {0}
    /\ MaxRetries \in Nat
    /\ ChanCap \in Nat \ {0}
    /\ Configs \subseteq {"rabbit", "channel"} /\ CompensationEnabled \in BOOLEAN
    /\ Faults \subseteq FaultKinds
    /\ MaxFaults \in Nat /\ MaxCopies \in Nat \ {0}

VARIABLES
    server,    \* the configuration the server runs with, or "down"
    link,      \* its AMQP connection is open
    consumer,  \* what the workers read: "rabbit", "channel" or "none"
    status,    \* status[o] of the order row; "NEW" before it is created
    pub,       \* pub[c]: how far a call of publishOrderTask has come
    queue,     \* queue[m]: copies of message m ready in the RabbitMQ queue
    job,       \* job[w]: the task worker w is busy with
    dlq,       \* messages in the dead letter queue
    tasks,     \* the Go channel s.tasks
    faults,    \* faults so far
    fails,     \* history: failed processing attempts per order
    accepted   \* history: orders a message of which the broker has stored

vars == <<server, link, consumer, status, pub, queue, job, dlq, tasks, faults,
          fails, accepted>>

Messages == [order : Orders, retry : 0..MaxRetries]

\* An order is published by its request and by Compensate, perhaps at once.
Callers == {"request", "compensate"} \X Orders

NoMessage == [order |-> "none", retry |-> 0]
NoJob == [msg |-> NoMessage, stage |-> "none", held |-> FALSE]

\* held: the message is unacknowledged on an open connection.  In stage
\* "confirming" the worker's transaction has read a QUEUED order; "failed" is
\* handleRabbitOrderFailure, "done" is just before the Ack.
Job(m, held) == [msg |-> m, stage |-> "processing", held |-> held]

Jobs == {NoJob} \cup [msg : Messages, held : BOOLEAN,
                      stage : {"processing", "confirming", "failed", "done"}]

\* A transaction can begin: a connection is left.
ConnFree ==
    Cardinality({w \in Workers : job[w].stage = "confirming"}) < MaxOpenConns

Add(m) == [queue EXCEPT ![m] = @ + 1]

HeldCopies(m) == Cardinality({w \in Workers : job[w].held /\ job[w].msg = m})

\* The broker returns what was not acknowledged.
QueueAfterClose == [m \in Messages |-> queue[m] + HeldCopies(m)]

Fault(kind) ==
    /\ kind \in Faults
    /\ faults < MaxFaults
    /\ faults' = faults + 1

\* Tasks for o under way in the running server's own store; what an earlier
\* configuration left behind in RabbitMQ does not keep Compensate from
\* publishing.
Copies(o) ==
    Cardinality({c \in Callers : c[2] = o /\ pub[c] # "no"})
    + Cardinality({w \in Workers : job[w].msg.order = o})
    + Cardinality({i \in 1..Len(tasks) : tasks[i] = o})
    + IF server = "rabbit"
      THEN MapThenSumSet(LAMBDA m : queue[m], {m \in Messages : m.order = o})
      ELSE 0

-----------------------------------------------------------------------------
(* publishOrderTask *)

\* Where publishOrderTask begins: s.rabbit if it is set.
FirstStage == server

\* The transaction of createOrder commits; the publish has not begun.
createOrder(o) ==
    /\ server # "down"
    /\ ConnFree
    /\ status[o] = "NEW"
    /\ status' = [status EXCEPT ![o] = "QUEUED"]
    /\ pub' = [pub EXCEPT ![<<"request", o>>] = FirstStage]
    /\ UNCHANGED <<server, link, consumer, queue, job, dlq, tasks, faults, fails, accepted>>

\* Slip: updated_at is refreshed but the order is not published.
CompensateRequeueSilent(o) ==
    /\ server # "down" /\ CompensationEnabled
    /\ ConnFree
    /\ status[o] = "QUEUED"
    /\ pub[<<"compensate", o>>] = "no"
    /\ Copies(o) < MaxCopies
    /\ UNCHANGED vars

\* Compensate takes a stale order if it is still QUEUED (its updated_at is
\* refreshed in that transaction) and publishes it again.  Any QUEUED order may
\* be stale: the timeouts are configured and may be zero.
CompensateRequeue(o) ==
    /\ server # "down" /\ CompensationEnabled
    /\ ConnFree
    /\ status[o] = "QUEUED"
    /\ pub[<<"compensate", o>>] = "no"
    /\ Copies(o) < MaxCopies
    /\ pub' = [pub EXCEPT ![<<"compensate", o>>] = FirstStage]
    /\ UNCHANGED <<server, link, consumer, status, queue, job, dlq, tasks, faults,
                   fails, accepted>>

PublishRabbit(c) ==
    /\ pub[c] = "rabbit"
    /\ link
    /\ queue' = Add([order |-> c[2], retry |-> 0])
    /\ accepted' = accepted \cup {c[2]}
    /\ pub' = [pub EXCEPT ![c] = "no"]
    /\ UNCHANGED <<server, link, consumer, status, job, dlq, tasks, faults, fails>>

\* The connection is lost: the effect on the broker, the workers and the
\* copies they hold.
CloseLink ==
    /\ link' = FALSE
    /\ queue' = QueueAfterClose
    /\ job' = [w \in Workers |-> IF job[w].held THEN [job[w] EXCEPT !.held = FALSE]
                                 ELSE job[w]]
    /\ consumer' = IF consumer = "rabbit" THEN "none" ELSE consumer

\* Without publisher confirms a publish succeeds as soon as it is written to
\* a connection that is about to break.
PublishLost(c) ==
    /\ pub[c] = "rabbit"
    /\ link
    /\ Fault("lost")
    /\ pub' = [pub EXCEPT ![c] = "no"]
    /\ CloseLink
    /\ UNCHANGED <<server, status, dlq, tasks, fails, accepted>>

\* Publish returns an error, on a broken connection or by its timeout: the
\* task goes to the Go channel, whether or not anybody reads it.
PublishFallback(c) ==
    /\ pub[c] = "rabbit"
    /\ \/ ~link /\ UNCHANGED faults
       \/ Fault("publish")
    /\ pub' = [pub EXCEPT ![c] = "channel"]
    /\ UNCHANGED <<server, link, consumer, status, queue, job, dlq, tasks, fails, accepted>>

SendTask(c) ==
    /\ pub[c] = "channel"
    /\ Len(tasks) < ChanCap
    /\ tasks' = Append(tasks, c[2])
    /\ pub' = [pub EXCEPT ![c] = "no"]
    /\ UNCHANGED <<server, link, consumer, status, queue, job, dlq, faults, fails, accepted>>

\* The channel stays full for two seconds: the task is dropped.
SendTimeout(c) ==
    /\ pub[c] = "channel"
    /\ Len(tasks) = ChanCap
    /\ pub' = [pub EXCEPT ![c] = "no"]
    /\ UNCHANGED <<server, link, consumer, status, queue, job, dlq, tasks, faults,
                   fails, accepted>>

-----------------------------------------------------------------------------
(* Workers *)

ReceiveDelivery(w, m) ==
    /\ consumer = "rabbit"
    /\ job[w] = NoJob
    /\ queue[m] > 0
    /\ queue' = [queue EXCEPT ![m] = @ - 1]
    /\ job' = [job EXCEPT ![w] = Job(m, TRUE)]
    /\ UNCHANGED <<server, link, consumer, status, pub, dlq, tasks, faults, fails, accepted>>

ReceiveTask(w) ==
    /\ consumer = "channel"
    /\ job[w] = NoJob
    /\ tasks # <<>>
    /\ tasks' = Tail(tasks)
    /\ job' = [job EXCEPT ![w] = Job([order |-> Head(tasks), retry |-> 0], FALSE)]
    /\ UNCHANGED <<server, link, consumer, status, pub, queue, dlq, faults, fails, accepted>>

\* A channel worker has nothing to acknowledge and no way to retry.
AfterProcessing(w, stage) ==
    job' = [job EXCEPT ![w] = IF consumer = "channel" THEN NoJob
                              ELSE [@ EXCEPT !.stage = stage]]

\* First(&order): if it is not QUEUED any more the task is done.
processOrderCreated_Read(w) ==
    /\ job[w].stage = "processing"
    /\ ConnFree
    /\ IF status[job[w].msg.order] = "QUEUED"
       THEN job' = [job EXCEPT ![w].stage = "confirming"]
       ELSE AfterProcessing(w, "done")
    /\ UNCHANGED <<server, link, consumer, status, pub, queue, dlq, tasks, faults,
                   fails, accepted>>

\* Save(&order) and the commit: the whole row is written, whatever its status is
\* by now.
processOrderCreated_Save(w) ==
    /\ job[w].stage = "confirming"
    /\ status' = [status EXCEPT ![job[w].msg.order] = "WAIT_PAY"]
    /\ AfterProcessing(w, "done")
    /\ UNCHANGED <<server, link, consumer, pub, queue, dlq, tasks, faults, fails, accepted>>

\* A statement or the commit fails.
processOrderCreatedFails(w) ==
    /\ job[w].stage \in {"processing", "confirming"}
    /\ Fault("db")
    /\ fails' = [fails EXCEPT ![job[w].msg.order] = @ + 1]
    /\ AfterProcessing(w, "failed")
    /\ UNCHANGED <<server, link, consumer, status, pub, queue, dlq, tasks, accepted>>

\* Slip: the retry counter is not compared with its limit.
PublishRetryNoLimit(w) ==
    /\ job[w].stage = "failed"
    /\ link
    /\ LET next == [job[w].msg EXCEPT !.retry = @ + 1]
       IN  queue' = [m \in Messages \cup {next} |->
                        (IF m \in Messages THEN queue[m] ELSE 0) + IF m = next THEN 1 ELSE 0]
    /\ job' = [job EXCEPT ![w].stage = "done"]
    /\ UNCHANGED <<server, link, consumer, status, pub, dlq, tasks, faults, fails, accepted>>

\* handleRabbitOrderFailure: publish the next try, then acknowledge this one.
PublishRetry(w) ==
    /\ job[w].stage = "failed"
    /\ job[w].msg.retry < MaxRetries
    /\ link
    /\ queue' = Add([job[w].msg EXCEPT !.retry = @ + 1])
    /\ job' = [job EXCEPT ![w].stage = "done"]
    /\ UNCHANGED <<server, link, consumer, status, pub, dlq, tasks, faults, fails, accepted>>

\* Slip: the retry count is off by one.
PublishDeadLetterEarly(w) ==
    /\ job[w].stage = "failed"
    /\ job[w].msg.retry + 1 >= MaxRetries
    /\ link
    /\ dlq' = dlq \cup {job[w].msg}
    /\ job' = [job EXCEPT ![w].stage = "done"]
    /\ UNCHANGED <<server, link, consumer, status, pub, queue, tasks, faults, fails, accepted>>

PublishDeadLetter(w) ==
    /\ job[w].stage = "failed"
    /\ job[w].msg.retry >= MaxRetries
    /\ link
    /\ dlq' = dlq \cup {job[w].msg}
    /\ job' = [job EXCEPT ![w].stage = "done"]
    /\ UNCHANGED <<server, link, consumer, status, pub, queue, tasks, faults, fails, accepted>>

\* Slip: a message whose retry could not be published is acknowledged.
NackRequeueAcks(w) ==
    /\ job[w].stage = "failed"
    /\ \/ ~link /\ UNCHANGED faults
       \/ Fault("publish")
    /\ job' = [job EXCEPT ![w] = NoJob]
    /\ UNCHANGED <<server, link, consumer, status, pub, queue, dlq, tasks, fails, accepted>>

\* Neither could be published: Nack with requeue, which does nothing on a
\* broken connection.
NackRequeue(w) ==
    /\ job[w].stage = "failed"
    /\ \/ ~link /\ UNCHANGED faults
       \/ Fault("publish")
    /\ queue' = IF job[w].held THEN Add(job[w].msg) ELSE queue
    /\ job' = [job EXCEPT ![w] = NoJob]
    /\ UNCHANGED <<server, link, consumer, status, pub, dlq, tasks, fails, accepted>>

Ack(w) ==
    /\ job[w].stage = "done"
    /\ job' = [job EXCEPT ![w] = NoJob]
    /\ UNCHANGED <<server, link, consumer, status, pub, queue, dlq, tasks, faults,
                   fails, accepted>>

-----------------------------------------------------------------------------
(* The environment *)

\* The user cancels, or a timeout closes, the order (see OrderTx).
CancelOrder(o) ==
    /\ server # "down"
    /\ ConnFree
    /\ status[o] \in {"QUEUED", "WAIT_PAY"}
    /\ status' = [status EXCEPT ![o] = "CANCELLED"]
    /\ UNCHANGED <<server, link, consumer, pub, queue, job, dlq, tasks, faults, fails, accepted>>

\* The first SUCCESS callback (see OrderTx).
PaymentCallback(o) ==
    /\ server # "down"
    /\ ConnFree
    /\ status[o] = "WAIT_PAY"
    /\ status' = [status EXCEPT ![o] = "PAID"]
    /\ UNCHANGED <<server, link, consumer, pub, queue, job, dlq, tasks, faults, fails, accepted>>

LinkBreaks ==
    /\ link
    /\ Fault("link")
    /\ CloseLink
    /\ UNCHANGED <<server, status, pub, dlq, tasks, fails, accepted>>

\* A crash, or a shutdown: publishes, jobs and the Go channel are gone.
ServerStops ==
    /\ server # "down"
    /\ Fault("crash")
    /\ server' = "down"
    /\ link' = FALSE
    /\ consumer' = "none"
    /\ queue' = QueueAfterClose
    /\ job' = [w \in Workers |-> NoJob]
    /\ pub' = [c \in Callers |-> "no"]
    /\ tasks' = <<>>
    /\ UNCHANGED <<status, dlq, fails, accepted>>

\* The server does not start without the broker it is configured for.
NewRabbitQueue(config) == link' = (config = "rabbit")

\* If Consume fails, channel workers are started though publishes go to RabbitMQ.
StartWorkersContext(config) ==
    /\ server = "down"
    /\ server' = config
    /\ NewRabbitQueue(config)
    /\ \/ consumer' = config /\ UNCHANGED faults
       \/ config = "rabbit" /\ Fault("consume") /\ consumer' = "channel"
    /\ UNCHANGED <<status, pub, queue, job, dlq, tasks, fails, accepted>>

-----------------------------------------------------------------------------
(* Specification *)

Init ==
    /\ server = "down" /\ link = FALSE /\ consumer = "none"
    /\ status = [o \in Orders |-> "NEW"]
    /\ pub = [c \in Callers |-> "no"]
    /\ queue = [m \in Messages |-> 0]
    /\ job = [w \in Workers |-> NoJob]
    /\ dlq = {}
    /\ tasks = <<>>
    /\ faults = 0
    /\ fails = [o \in Orders |-> 0]
    /\ accepted = {}

Next ==
    \/ \E o \in Orders :
           createOrder(o) \/ CompensateRequeue(o) \/ CancelOrder(o) \/ PaymentCallback(o)
    \/ \E c \in Callers :
           \/ PublishRabbit(c) \/ PublishLost(c) \/ PublishFallback(c)
           \/ SendTask(c) \/ SendTimeout(c)
    \/ \E w \in Workers :
           \/ \E m \in Messages : ReceiveDelivery(w, m)
           \/ ReceiveTask(w)
           \/ processOrderCreated_Read(w) \/ processOrderCreated_Save(w)
           \/ processOrderCreatedFails(w)
           \/ PublishRetry(w) \/ PublishDeadLetter(w) \/ NackRequeue(w) \/ Ack(w)
    \/ LinkBreaks
    \/ ServerStops
    \/ \E config \in Configs : StartWorkersContext(config)

Spec == Init /\ [][Next]_vars

\* Goroutines that can run do run, the broker delivers what is ready, the
\* compensation ticker keeps firing, and a stopped server is started again.
\* Nothing is assumed of users (create, cancel, pay) and of faults.
Fairness ==
    /\ WF_vars(\E config \in Configs : StartWorkersContext(config))
    /\ \A o \in Orders : WF_vars(CompensateRequeue(o))
    /\ \A c \in Callers :
           WF_vars(PublishRabbit(c) \/ PublishFallback(c) \/ SendTask(c) \/ SendTimeout(c))
    /\ \A w \in Workers :
           WF_vars(\/ processOrderCreated_Read(w) \/ processOrderCreated_Save(w)
                   \/ PublishRetry(w) \/ PublishDeadLetter(w)
                   \/ (NackRequeue(w) /\ ~link)
                   \/ Ack(w))
    /\ WF_vars(\E w \in Workers : ReceiveTask(w))
    /\ \A m \in Messages : WF_vars(\E w \in Workers : ReceiveDelivery(w, m))

FairSpec == Spec /\ Fairness

-----------------------------------------------------------------------------
(* Properties *)

\* Every variable has its type.
TypeOK ==
    /\ server \in {"down", "rabbit", "channel"}
    /\ link \in BOOLEAN
    /\ consumer \in {"rabbit", "channel", "none"}
    /\ status \in [Orders -> {"NEW", "QUEUED", "WAIT_PAY", "PAID", "CANCELLED"}]
    /\ pub \in [Callers -> {"no", "rabbit", "channel"}]
    /\ queue \in [Messages -> Nat]
    /\ job \in [Workers -> Jobs]
    /\ dlq \subseteq Messages
    /\ tasks \in Seq(Orders) /\ Len(tasks) <= ChanCap
    /\ faults \in 0..MaxFaults
    /\ fails \in [Orders -> Nat]
    /\ accepted \subseteq Orders

\* The broker still has a message of o: ready, unacknowledged, or dead.
BrokerHas(o) ==
    \/ \E m \in Messages : m.order = o /\ queue[m] > 0
    \/ \E w \in Workers : job[w].held /\ job[w].msg.order = o
    \/ \E m \in dlq : m.order = o

\* A task the broker has stored is not lost while its order waits for it, by a
\* crash, a broken connection, a failing transaction or a failing retry: it is
\* acknowledged only after the order was moved or its next try was published.
AcceptedTaskSurvives ==
    \A o \in accepted : status[o] = "QUEUED" => BrokerHas(o)

\* A message is given up only after MaxRetries retries have failed as well.
DeadLetterAfterAllRetries == \A m \in dlq : fails[m.order] > MaxRetries

\* A task delivered twice, late, or again after a crash never moves an order that
\* was cancelled or paid meanwhile, nor moves any order back, if no other
\* transaction runs between the worker's read of the order and its save.
RedeliveryIsHarmless ==
    [][\A o \in Orders :
           /\ status[o] \in {"CANCELLED", "PAID"} => status'[o] = status[o]
           /\ status[o] # "NEW" /\ status'[o] = "QUEUED" => status[o] = "QUEUED"]_vars

\* Every order that is QUEUED leaves that status: a worker moves it on.
EventuallyConfirmed ==
    \A o \in Orders : status[o] = "QUEUED" ~> status[o] # "QUEUED"

\* Publishes go to RabbitMQ but cannot arrive, or nobody consumes what arrives.
Detached == server = "rabbit" /\ (~link \/ consumer # "rabbit")

\* Whatever fails, crashes, is lost or is dropped on the way, a QUEUED order is
\* moved on in the end, or its server has lost its broker and is never
\* restarted: that is the one state from which nothing recovers by itself.
ConfirmedUnlessDetached ==
    \A o \in Orders : status[o] = "QUEUED" ~> status[o] # "QUEUED" \/ Detached
=============================================================================
