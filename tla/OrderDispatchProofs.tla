------------------------ MODULE OrderDispatchProofs ------------------------
(***************************************************************************)
(* Proofs about OrderDispatch for every number of orders, workers, retries *)
(* and faults, with RabbitMQ and without.                                  *)
(***************************************************************************)
EXTENDS OrderDispatch, FiniteSetTheorems, TLAPS

-----------------------------------------------------------------------------
(* The inductive invariant, in parts *)

\* Nothing of a server outlives it.
DownIsEmpty ==
    server = "down" =>
        /\ \A w \in Workers : job[w] = NoJob
        /\ \A c \in Callers : pub[c] = "no"
        /\ consumer = "none" /\ ~link

\* A delivery is unacknowledged only while RabbitMQ's workers run: when the
\* connection is lost, the copies they hold and they themselves go together.
HeldByRabbit == \A w \in Workers : job[w].held => consumer = "rabbit"

\* Only an order that exists is published.
PublishedExists ==
    /\ \A c \in Callers : pub[c] # "no" => status[c[2]] # "NEW"
    /\ \A o \in accepted : status[o] # "NEW"

\* The broker has a message of o that will be tried again, or its dead letter.  A
\* message just before its Ack does not count: it is about to be gone.
BrokerKeeps(o) ==
    \/ \E m \in Messages : m.order = o /\ queue[m] > 0
    \/ \E w \in Workers :
           /\ job[w].held /\ job[w].msg.order = o
           /\ job[w].stage \in {"processing", "confirming", "failed"}
    \/ \E m \in dlq : m.order = o

AcceptedTaskKept == \A o \in accepted : status[o] = "QUEUED" => BrokerKeeps(o)

\* The retry count of a message is not ahead of the failures of its order.
RetriesAreFailures ==
    /\ \A m \in Messages : queue[m] > 0 => fails[m.order] >= m.retry
    /\ \A w \in Workers :
           /\ job[w].stage # "none" => fails[job[w].msg.order] >= job[w].msg.retry
           /\ job[w].stage = "failed" => fails[job[w].msg.order] > job[w].msg.retry

IInv ==
    /\ TypeOK
    /\ DownIsEmpty
    /\ HeldByRabbit
    /\ PublishedExists
    /\ AcceptedTaskKept
    /\ RetriesAreFailures
    /\ DeadLetterAfterAllRetries

-----------------------------------------------------------------------------
(* Jobs and the queue *)

\* A job that is no NoJob is one of a message.
LEMMA JobTypes ==
  ASSUME TypeOK, NEW w \in Workers
  PROVE  /\ job[w].stage # "none" =>
               job[w] \in [msg : Messages, held : BOOLEAN,
                           stage : {"processing", "confirming", "failed", "done"}]
         /\ job[w].stage = "none" => job[w] = NoJob
         /\ job[w].held => job[w].stage # "none"
         /\ job[w].held \in BOOLEAN
  <1> DEFINE Real == [msg : Messages, held : BOOLEAN,
                      stage : {"processing", "confirming", "failed", "done"}]
  <1>1. job[w] = NoJob \/ job[w] \in Real
    BY DEF TypeOK, Jobs
  <1>2. CASE job[w] = NoJob
    <2>1. job[w].stage = "none" /\ job[w].held = FALSE
      BY <1>2 DEF NoJob
    <2> QED
      BY <1>2, <2>1
  <1>3. CASE job[w] \in Real
    <2>1. job[w].stage \in {"processing", "confirming", "failed", "done"} /\ job[w].held \in BOOLEAN
      BY <1>3
    <2> QED
      BY <1>3, <2>1
  <1> QED
    BY <1>1, <1>2, <1>3

\* What the broker has when it has taken back what was not acknowledged.
LEMMA ReturnedCopies ==
  ASSUME TypeOK
  PROVE  /\ QueueAfterClose \in [Messages -> Nat]
         /\ \A m \in Messages : QueueAfterClose[m] > 0 <=>
                \/ queue[m] > 0
                \/ \E w \in Workers : job[w].held /\ job[w].msg = m
  <1>1. ASSUME NEW m \in Messages
        PROVE  /\ HeldCopies(m) \in Nat
               /\ HeldCopies(m) > 0 <=> \E w \in Workers : job[w].held /\ job[w].msg = m
    <2> DEFINE Holders == {w \in Workers : job[w].held /\ job[w].msg = m}
    <2>1. IsFiniteSet(Holders)
      BY OrderDispatchAssumption, FS_Subset
    <2>2. Cardinality(Holders) \in Nat /\ (Cardinality(Holders) = 0 <=> Holders = {})
      BY <2>1, FS_CardinalityType, FS_EmptySet
    <2> QED
      BY <2>2 DEF HeldCopies
  <1>2. \A m \in Messages : queue[m] \in Nat
    BY DEF TypeOK
  <1> QED
    BY <1>1, <1>2 DEF QueueAfterClose

\* One more copy of a message.
LEMMA AddedCopy ==
  ASSUME TypeOK, NEW m \in Messages
  PROVE  /\ Add(m) \in [Messages -> Nat]
         /\ \A x \in Messages : Add(m)[x] > 0 <=> queue[x] > 0 \/ x = m
  BY DEF TypeOK, Add

LEMMA FaultCounted ==
  ASSUME TypeOK, NEW k, Fault(k)
  PROVE  faults' \in 0..MaxFaults
  BY OrderDispatchAssumption DEF TypeOK, Fault

LEMMA TypeStep ==
  ASSUME TypeOK, [Next]_vars
  PROVE  TypeOK'
  <1> USE OrderDispatchAssumption
  <1>0. CASE UNCHANGED vars
    BY <1>0 DEF vars, TypeOK
  <1>1. ASSUME NEW o \in Orders,
               \/ createOrder(o) \/ CompensateRequeue(o)
               \/ CancelOrder(o) \/ PaymentCallback(o)
        PROVE  TypeOK'
    <2>1. status' \in [Orders -> {"NEW", "QUEUED", "WAIT_PAY", "PAID", "CANCELLED"}]
      BY <1>1 DEF createOrder, CompensateRequeue, CancelOrder, PaymentCallback, TypeOK
    <2>2. pub' \in [Callers -> {"no", "rabbit", "channel"}]
      BY <1>1 DEF createOrder, CompensateRequeue, CancelOrder, PaymentCallback, TypeOK, FirstStage
    <2> QED
      BY <1>1, <2>1, <2>2 DEF createOrder, CompensateRequeue, CancelOrder, PaymentCallback, TypeOK
  <1>2. ASSUME NEW c \in Callers, PublishRabbit(c)
        PROVE  TypeOK'
    <2>1. c[2] \in Orders /\ [order |-> c[2], retry |-> 0] \in Messages
      BY DEF Callers, Messages
    <2>2. queue' \in [Messages -> Nat]
      BY <1>2, <2>1, AddedCopy DEF PublishRabbit
    <2>3. pub' \in [Callers -> {"no", "rabbit", "channel"}]
      BY <1>2 DEF PublishRabbit, TypeOK
    <2> QED
      BY <1>2, <2>1, <2>2, <2>3 DEF PublishRabbit, TypeOK
  <1>c. ASSUME CloseLink
        PROVE  /\ link' \in BOOLEAN /\ queue' \in [Messages -> Nat]
               /\ job' \in [Workers -> Jobs] /\ consumer' \in {"rabbit", "channel", "none"}
    <2>1. ASSUME NEW w \in Workers, job[w].held
          PROVE  [job[w] EXCEPT !.held = FALSE] \in Jobs
      BY <2>1, JobTypes DEF Jobs
    <2>2. job' \in [Workers -> Jobs]
      BY <1>c, <2>1 DEF CloseLink, TypeOK
    <2> QED
      BY <1>c, <2>2, ReturnedCopies DEF CloseLink, TypeOK
  <1>3. ASSUME NEW c \in Callers, PublishLost(c)
        PROVE  TypeOK'
    <2>1. pub' \in [Callers -> {"no", "rabbit", "channel"}] /\ faults' \in 0..MaxFaults
      BY <1>3, FaultCounted DEF PublishLost, TypeOK
    <2> QED
      BY <1>3, <2>1, <1>c DEF PublishLost, TypeOK
  <1>4. ASSUME NEW c \in Callers, PublishFallback(c)
        PROVE  TypeOK'
    <2>1. pub' \in [Callers -> {"no", "rabbit", "channel"}]
      BY <1>4 DEF PublishFallback, TypeOK
    <2>2. faults' \in 0..MaxFaults
      BY <1>4, FaultCounted DEF PublishFallback, TypeOK
    <2> QED
      BY <1>4, <2>1, <2>2 DEF PublishFallback, TypeOK
  <1>5. ASSUME NEW c \in Callers, SendTask(c) \/ SendTimeout(c)
        PROVE  TypeOK'
    <2>1. pub' \in [Callers -> {"no", "rabbit", "channel"}]
      BY <1>5 DEF SendTask, SendTimeout, TypeOK
    <2>2. tasks' \in Seq(Orders) /\ Len(tasks') <= ChanCap
      <3>1. CASE SendTask(c)
        <4>1. c[2] \in Orders
          BY DEF Callers
        <4> QED
          BY <3>1, <4>1 DEF SendTask, TypeOK
      <3>2. CASE SendTimeout(c)
        BY <3>2 DEF SendTimeout, TypeOK
      <3> QED
        BY <1>5, <3>1, <3>2
    <2> QED
      BY <1>5, <2>1, <2>2 DEF SendTask, SendTimeout, TypeOK
  <1>6. ASSUME NEW w \in Workers, NEW m \in Messages, ReceiveDelivery(w, m)
        PROVE  TypeOK'
    <2>1. queue' \in [Messages -> Nat]
      BY <1>6 DEF ReceiveDelivery, TypeOK
    <2>2. job' \in [Workers -> Jobs]
      BY <1>6 DEF ReceiveDelivery, TypeOK, Job, Jobs
    <2> QED
      BY <1>6, <2>1, <2>2 DEF ReceiveDelivery, TypeOK
  <1>7. ASSUME NEW w \in Workers, ReceiveTask(w)
        PROVE  TypeOK'
    <2>1. Head(tasks) \in Orders /\ tasks' \in Seq(Orders) /\ Len(tasks') <= ChanCap
      BY <1>7 DEF ReceiveTask, TypeOK
    <2>2. Job([order |-> Head(tasks), retry |-> 0], FALSE) \in Jobs
      BY <2>1 DEF Job, Jobs, Messages
    <2> QED
      BY <1>7, <2>1, <2>2 DEF ReceiveTask, TypeOK
  <1>a. ASSUME NEW w \in Workers, job[w].stage # "none",
               NEW t \in {"failed", "done"}, AfterProcessing(w, t)
        PROVE  job' \in [Workers -> Jobs]
    <2>1. [job[w] EXCEPT !.stage = t] \in Jobs /\ NoJob \in Jobs
      BY <1>a, JobTypes DEF Jobs
    <2> QED
      BY <1>a, <2>1 DEF AfterProcessing, TypeOK
  <1>r. ASSUME NEW w \in Workers, processOrderCreated_Read(w)
        PROVE  TypeOK'
    <2>1. [job[w] EXCEPT !.stage = "confirming"] \in Jobs
      BY <1>r, JobTypes DEF processOrderCreated_Read, Jobs
    <2>a. job[w].stage # "none"
      BY <1>r DEF processOrderCreated_Read
    <2>b. ASSUME job' = [job EXCEPT ![w].stage = "confirming"]
          PROVE  job' \in [Workers -> Jobs]
      BY <2>1, <2>b DEF TypeOK
    <2>2. job' \in [Workers -> Jobs]
      BY <1>r, <2>a, <2>b, <1>a DEF processOrderCreated_Read
    <2> QED
      BY <1>r, <2>2 DEF processOrderCreated_Read, TypeOK
  <1>8. ASSUME NEW w \in Workers, processOrderCreated_Save(w)
        PROVE  TypeOK'
    <2>1. job[w].msg.order \in Orders
      BY <1>8, JobTypes DEF processOrderCreated_Save, Messages
    <2>2. status' \in [Orders -> {"NEW", "QUEUED", "WAIT_PAY", "PAID", "CANCELLED"}]
      BY <1>8, <2>1 DEF processOrderCreated_Save, TypeOK
    <2>3. job' \in [Workers -> Jobs]
      BY <1>8, <1>a DEF processOrderCreated_Save
    <2> QED
      BY <1>8, <2>2, <2>3 DEF processOrderCreated_Save, TypeOK
  <1>9. ASSUME NEW w \in Workers, processOrderCreatedFails(w)
        PROVE  TypeOK'
    <2>0. job[w].msg.order \in Orders
      BY <1>9, JobTypes DEF processOrderCreatedFails, Messages
    <2>1. fails' \in [Orders -> Nat]
      BY <1>9, <2>0 DEF processOrderCreatedFails, TypeOK
    <2>2. job' \in [Workers -> Jobs] /\ faults' \in 0..MaxFaults
      BY <1>9, <1>a, FaultCounted DEF processOrderCreatedFails
    <2> QED
      BY <1>9, <2>1, <2>2 DEF processOrderCreatedFails, TypeOK
  <1>s. ASSUME NEW w \in Workers, job[w].stage # "none",
               job' = [job EXCEPT ![w].stage = "done"] \/ job' = [job EXCEPT ![w] = NoJob]
        PROVE  job' \in [Workers -> Jobs]
    <2>1. [job[w] EXCEPT !.stage = "done"] \in Jobs /\ NoJob \in Jobs
      BY <1>s, JobTypes DEF Jobs
    <2> QED
      BY <1>s, <2>1 DEF TypeOK
  <1>10. ASSUME NEW w \in Workers, PublishRetry(w)
        PROVE  TypeOK'
    <2>1. [job[w].msg EXCEPT !.retry = @ + 1] \in Messages
      BY <1>10, JobTypes DEF PublishRetry, Messages
    <2>2. queue' \in [Messages -> Nat] /\ job' \in [Workers -> Jobs]
      BY <1>10, <2>1, <1>s, AddedCopy DEF PublishRetry
    <2> QED
      BY <1>10, <2>2 DEF PublishRetry, TypeOK
  <1>11. ASSUME NEW w \in Workers, PublishDeadLetter(w)
        PROVE  TypeOK'
    <2>1. job[w].msg \in Messages /\ job' \in [Workers -> Jobs]
      BY <1>11, <1>s, JobTypes DEF PublishDeadLetter
    <2> QED
      BY <1>11, <2>1 DEF PublishDeadLetter, TypeOK
  <1>12. ASSUME NEW w \in Workers, NackRequeue(w)
        PROVE  TypeOK'
    <2>1. job[w].msg \in Messages /\ job' \in [Workers -> Jobs]
      BY <1>12, <1>s, JobTypes DEF NackRequeue
    <2>2. queue' \in [Messages -> Nat]
      BY <1>12, <2>1, AddedCopy DEF NackRequeue, TypeOK
    <2>3. faults' \in 0..MaxFaults
      BY <1>12, FaultCounted DEF NackRequeue, TypeOK
    <2> QED
      BY <1>12, <2>1, <2>2, <2>3 DEF NackRequeue, TypeOK
  <1>13. ASSUME NEW w \in Workers, Ack(w)
        PROVE  TypeOK'
    <2>1. job' \in [Workers -> Jobs]
      BY <1>13, <1>s DEF Ack
    <2> QED
      BY <1>13, <2>1 DEF Ack, TypeOK
  <1>14. CASE LinkBreaks
    BY <1>14, <1>c, FaultCounted DEF LinkBreaks, TypeOK
  <1>15. CASE ServerStops
    <2>1. job' \in [Workers -> Jobs] /\ queue' \in [Messages -> Nat] /\ faults' \in 0..MaxFaults
      BY <1>15, ReturnedCopies, FaultCounted DEF ServerStops, Jobs
    <2>2. tasks' \in Seq(Orders) /\ Len(tasks') <= ChanCap
      BY <1>15 DEF ServerStops
    <2>3. pub' \in [Callers -> {"no", "rabbit", "channel"}]
      BY <1>15 DEF ServerStops
    <2> QED
      BY <1>15, <2>1, <2>2, <2>3 DEF ServerStops, TypeOK
  <1>16. ASSUME NEW config \in Configs, StartWorkersContext(config)
        PROVE  TypeOK'
    <2>1. faults' \in 0..MaxFaults
      BY <1>16, FaultCounted DEF StartWorkersContext, TypeOK
    <2>2. link' \in BOOLEAN
      BY <1>16, Zenon DEF StartWorkersContext, NewRabbitQueue
    <2> QED
      BY <1>16, <2>1, <2>2 DEF StartWorkersContext, TypeOK
  <1> QED
    BY <1>0, <1>1, <1>2, <1>3, <1>4, <1>5, <1>6, <1>7, <1>r, <1>8, <1>9, <1>10,
       <1>11, <1>12, <1>13, <1>14, <1>15, <1>16 DEF Next

-----------------------------------------------------------------------------
(* Where jobs and publishes come from *)

StateOK == DownIsEmpty /\ HeldByRabbit /\ PublishedExists

LEMMA StateStep ==
  ASSUME TypeOK, StateOK, [Next]_vars
  PROVE  StateOK'
  <1> USE DEF StateOK, DownIsEmpty, HeldByRabbit, PublishedExists
  <1>n. NoJob.held = FALSE
    BY DEF NoJob
  <1>0. CASE UNCHANGED vars
    BY <1>0 DEF vars
  <1>1. ASSUME NEW o \in Orders, createOrder(o) \/ CompensateRequeue(o)
        PROVE  StateOK'
    <2>1. /\ server # "down" /\ UNCHANGED <<server, consumer, job, accepted>>
          /\ status'[o] = "QUEUED" /\ \A x \in Orders : x # o => status'[x] = status[x]
      BY <1>1 DEF createOrder, CompensateRequeue, TypeOK
    <2>2. \A c \in Callers : c[2] \in Orders /\ (c[2] # o => pub'[c] = pub[c])
      BY <1>1 DEF createOrder, CompensateRequeue, TypeOK, Callers
    <2>3. accepted \subseteq Orders
      BY DEF TypeOK
    <2> QED
      BY <2>1, <2>2, <2>3
  <1>2. ASSUME NEW o \in Orders, CancelOrder(o) \/ PaymentCallback(o)
        PROVE  StateOK'
    <2>1. \A x \in Orders : status[x] # "NEW" => status'[x] # "NEW"
      BY <1>2 DEF CancelOrder, PaymentCallback, TypeOK
    <2>2. (\A c \in Callers : c[2] \in Orders) /\ accepted \subseteq Orders
      BY DEF Callers, TypeOK
    <2> QED
      BY <1>2, <2>1, <2>2 DEF CancelOrder, PaymentCallback
  <1>3. ASSUME NEW c \in Callers,
               PublishRabbit(c) \/ PublishFallback(c) \/ SendTask(c) \/ SendTimeout(c)
        PROVE  StateOK'
    <2>1. /\ pub[c] # "no" /\ UNCHANGED <<server, consumer, job, status>>
          /\ accepted' \subseteq accepted \cup {c[2]}
      BY <1>3 DEF PublishRabbit, PublishFallback, SendTask, SendTimeout
    <2>2. \A d \in Callers : d # c => pub'[d] = pub[d]
      BY <1>3 DEF PublishRabbit, PublishFallback, SendTask, SendTimeout, TypeOK
    <2> QED
      BY <2>1, <2>2
  <1>4. ASSUME CloseLink PROVE HeldByRabbit'
    <2>1. ASSUME NEW w \in Workers PROVE ~job'[w].held
      <3>1. CASE job[w].held
        <4>1. [job[w] EXCEPT !.held = FALSE].held = FALSE
          BY <3>1, JobTypes
        <4> QED
          BY <1>4, <3>1, <4>1 DEF CloseLink
      <3>2. CASE ~job[w].held
        BY <1>4, <3>2 DEF CloseLink
      <3> QED
        BY <3>1, <3>2
    <2> QED
      BY <2>1
  <1>5. ASSUME NEW c \in Callers, PublishLost(c)
        PROVE  StateOK'
    <2>1. /\ pub[c] # "no" /\ UNCHANGED <<server, status, accepted>>
          /\ \A d \in Callers : d # c => pub'[d] = pub[d]
      BY <1>5 DEF PublishLost, TypeOK
    <2> QED
      BY <1>5, <2>1, <1>4 DEF PublishLost
  <1>6. CASE LinkBreaks
    BY <1>6, <1>4 DEF LinkBreaks
  <1>7. ASSUME NEW w \in Workers, NEW m \in Messages, ReceiveDelivery(w, m)
        PROVE  StateOK'
    BY <1>7 DEF ReceiveDelivery
  <1>8. ASSUME NEW w \in Workers, UNCHANGED <<server, link, consumer, pub, accepted>>,
               server # "down",
               \A o \in Orders : status[o] # "NEW" => status'[o] # "NEW",
               job'[w].held => job[w].held \/ consumer = "rabbit",
               \A x \in Workers : x # w => job'[x] = job[x]
        PROVE  StateOK'
    <2>1. (\A c \in Callers : c[2] \in Orders) /\ accepted \subseteq Orders
      BY DEF Callers, TypeOK
    <2> QED
      BY <1>8, <2>1
  <1>9. ASSUME NEW w \in Workers, ReceiveTask(w)
        PROVE  StateOK'
    <2>1. Job([order |-> Head(tasks), retry |-> 0], FALSE).held = FALSE
      BY DEF Job
    <2>2. job'[w].held = FALSE /\ \A x \in Workers : x # w => job'[x] = job[x]
      BY <1>9, <2>1 DEF ReceiveTask, TypeOK
    <2> QED
      BY <1>9, <2>2, <1>8 DEF ReceiveTask
  <1>a. ASSUME NEW w \in Workers, job[w].stage # "none", NEW t, AfterProcessing(w, t)
        PROVE  (job'[w].held => job[w].held) /\ \A x \in Workers : x # w => job'[x] = job[x]
    <2>1. [job[w] EXCEPT !.stage = t].held = job[w].held
      BY <1>a, JobTypes
    <2> QED
      BY <1>a, <1>n, <2>1 DEF AfterProcessing, TypeOK
  <1>b. ASSUME NEW w \in Workers, job[w].stage # "none" PROVE server # "down"
    BY <1>b DEF NoJob
  <1>r. ASSUME NEW w \in Workers, processOrderCreated_Read(w)
        PROVE  StateOK'
    <2>1. job[w].stage # "none" /\ UNCHANGED <<server, link, consumer, pub, accepted, status>>
      BY <1>r DEF processOrderCreated_Read
    <2>2. [job[w] EXCEPT !.stage = "confirming"].held = job[w].held
      BY <2>1, JobTypes
    <2>3. (job'[w].held => job[w].held) /\ \A x \in Workers : x # w => job'[x] = job[x]
      BY <1>r, <2>1, <2>2, <1>a DEF processOrderCreated_Read, TypeOK
    <2> QED
      BY <2>1, <2>3, <1>b, <1>8
  <1>10. ASSUME NEW w \in Workers, processOrderCreated_Save(w)
        PROVE  StateOK'
    <2>1. job[w].msg.order \in Orders
      BY <1>10, JobTypes DEF processOrderCreated_Save, Messages
    <2>2. \A o \in Orders : status[o] # "NEW" => status'[o] # "NEW"
      BY <1>10, <2>1 DEF processOrderCreated_Save, TypeOK
    <2>3. job[w].stage # "none" /\ AfterProcessing(w, "done")
          /\ UNCHANGED <<server, link, consumer, pub, accepted>>
      BY <1>10 DEF processOrderCreated_Save
    <2> QED
      BY <2>2, <2>3, <1>a, <1>b, <1>8
  <1>11. ASSUME NEW w \in Workers, processOrderCreatedFails(w)
        PROVE  StateOK'
    <2>1. job[w].stage # "none" /\ AfterProcessing(w, "failed")
          /\ UNCHANGED <<server, link, consumer, pub, accepted, status>>
      BY <1>11 DEF processOrderCreatedFails
    <2> QED
      BY <2>1, <1>a, <1>b, <1>8
  <1>12. ASSUME NEW w \in Workers,
                PublishRetry(w) \/ PublishDeadLetter(w) \/ NackRequeue(w) \/ Ack(w)
        PROVE  StateOK'
    <2>1. /\ job[w].stage # "none" /\ UNCHANGED <<server, link, consumer, pub, accepted, status>>
          /\ \/ job' = [job EXCEPT ![w].stage = "done"]
             \/ job' = [job EXCEPT ![w] = NoJob]
      BY <1>12 DEF PublishRetry, PublishDeadLetter, NackRequeue, Ack
    <2>2. [job[w] EXCEPT !.stage = "done"].held = job[w].held
      BY <2>1, JobTypes
    <2>3. (job'[w].held => job[w].held) /\ \A x \in Workers : x # w => job'[x] = job[x]
      BY <2>1, <2>2, <1>n DEF TypeOK
    <2> QED
      BY <2>1, <2>3, <1>b, <1>8
  <1>13. CASE ServerStops
    BY <1>13, <1>n DEF ServerStops
  <1>14. ASSUME NEW config \in Configs, StartWorkersContext(config)
        PROVE  StateOK'
    BY <1>14, <1>n, OrderDispatchAssumption DEF StartWorkersContext
  <1> QED
    BY <1>0, <1>1, <1>2, <1>3, <1>5, <1>6, <1>7, <1>9, <1>r, <1>10, <1>11, <1>12,
       <1>13, <1>14 DEF Next

-----------------------------------------------------------------------------
(* A task the broker has accepted *)

LEMMA KeptStep ==
  ASSUME TypeOK, StateOK, AcceptedTaskKept, [Next]_vars
  PROVE  AcceptedTaskKept'
  <1> SUFFICES ASSUME NEW o \in accepted', status'[o] = "QUEUED" PROVE BrokerKeeps(o)'
    BY DEF AcceptedTaskKept
  <1> DEFINE Tried(w) == /\ job[w].held /\ job[w].msg.order = o
                         /\ job[w].stage \in {"processing", "confirming", "failed"}
             Was == o \in accepted /\ status[o] = "QUEUED"
  <1>h. Was => BrokerKeeps(o)
    BY DEF AcceptedTaskKept
  <1>m. ASSUME BrokerKeeps(o),
               \A m \in Messages : m.order = o /\ queue[m] > 0 => queue'[m] > 0,
               \A w \in Workers : Tried(w) => Tried(w)', dlq \subseteq dlq'
        PROVE  BrokerKeeps(o)'
    BY <1>m DEF BrokerKeeps
  <1>q. ASSUME NEW m \in Messages, m.order = o, queue'[m] > 0 PROVE BrokerKeeps(o)'
    BY <1>q DEF BrokerKeeps
  <1>u. ASSUME Was, UNCHANGED <<queue, job, dlq>> PROVE BrokerKeeps(o)'
    BY <1>u, <1>h DEF BrokerKeeps
  <1>0. CASE UNCHANGED vars
    BY <1>0, <1>u DEF vars
  <1>1. ASSUME NEW x \in Orders,
               \/ createOrder(x) \/ CompensateRequeue(x)
               \/ CancelOrder(x) \/ PaymentCallback(x)
        PROVE  BrokerKeeps(o)'
    <2>1. o \in accepted /\ status[o] # "NEW" /\ o \in Orders
      BY <1>1 DEF createOrder, CompensateRequeue, CancelOrder, PaymentCallback, StateOK,
                     PublishedExists, TypeOK
    <2>2. status[o] = "QUEUED"
      BY <1>1, <2>1 DEF createOrder, CompensateRequeue, CancelOrder, PaymentCallback, TypeOK
    <2> QED
      BY <1>1, <2>1, <2>2, <1>u DEF createOrder, CompensateRequeue, CancelOrder, PaymentCallback
  <1>2. ASSUME NEW c \in Callers, PublishRabbit(c)
        PROVE  BrokerKeeps(o)'
    <2> DEFINE m == [order |-> c[2], retry |-> 0]
    <2>1. m \in Messages /\ m.order = c[2]
      BY OrderDispatchAssumption DEF Callers, Messages
    <2>2. \A x \in Messages : queue'[x] > 0 <=> queue[x] > 0 \/ x = m
      BY <1>2, <2>1, AddedCopy DEF PublishRabbit
    <2>3. CASE o = c[2]
      BY <2>1, <2>2, <2>3, <1>q
    <2>4. CASE o # c[2]
      <3>1. Was /\ UNCHANGED <<job, dlq>>
        BY <1>2, <2>4 DEF PublishRabbit
      <3> QED
        BY <3>1, <2>2, <1>h, <1>m
    <2> QED
      BY <2>3, <2>4
  <1>c. ASSUME Was, queue' = QueueAfterClose, UNCHANGED dlq PROVE BrokerKeeps(o)'
    <2>1. CASE \E w \in Workers : Tried(w)
      <3>1. PICK w \in Workers : Tried(w)
        BY <2>1
      <3>2. job[w].msg \in Messages
        BY <3>1, JobTypes
      <3> QED
        BY <1>c, <3>1, <3>2, <1>q, ReturnedCopies
    <2>2. CASE ~\E w \in Workers : Tried(w)
      BY <1>c, <2>2, <1>h, <1>m, ReturnedCopies
    <2> QED
      BY <2>1, <2>2
  <1>3. ASSUME NEW c \in Callers, PublishLost(c)
        PROVE  BrokerKeeps(o)'
    BY <1>3, <1>c DEF PublishLost, CloseLink
  <1>4. ASSUME NEW c \in Callers, PublishFallback(c) \/ SendTask(c) \/ SendTimeout(c)
        PROVE  BrokerKeeps(o)'
    BY <1>4, <1>u DEF PublishFallback, SendTask, SendTimeout
  <1>5. CASE LinkBreaks
    BY <1>5, <1>c DEF LinkBreaks, CloseLink
  <1>6. CASE ServerStops
    BY <1>6, <1>c DEF ServerStops
  <1>7. ASSUME NEW config \in Configs, StartWorkersContext(config)
        PROVE  BrokerKeeps(o)'
    BY <1>7, <1>u DEF StartWorkersContext
  <1>8. ASSUME NEW w \in Workers, NEW m \in Messages, ReceiveDelivery(w, m)
        PROVE  BrokerKeeps(o)'
    <2>1. /\ Was /\ dlq' = dlq /\ job[w] = NoJob
          /\ \A x \in Workers : x # w => job'[x] = job[x]
          /\ \A x \in Messages : x # m => queue'[x] = queue[x]
      BY <1>8 DEF ReceiveDelivery, TypeOK
    <2>2. job'[w].held /\ job'[w].msg = m /\ job'[w].stage = "processing"
      BY <1>8 DEF ReceiveDelivery, TypeOK, Job
    <2>3. CASE m.order = o
      BY <2>2, <2>3 DEF BrokerKeeps
    <2>4. CASE m.order # o
      <3>1. ~Tried(w)
        BY <2>1 DEF NoJob
      <3> QED
        BY <2>1, <2>4, <3>1, <1>h, <1>m
    <2> QED
      BY <2>3, <2>4
  <1>9. ASSUME NEW w \in Workers, ReceiveTask(w)
        PROVE  BrokerKeeps(o)'
    <2>1. /\ Was /\ UNCHANGED <<queue, dlq>> /\ ~Tried(w)
          /\ \A x \in Workers : x # w => job'[x] = job[x]
      BY <1>9 DEF ReceiveTask, TypeOK, NoJob
    <2> QED
      BY <2>1, <1>h, <1>m
  <1>w. ASSUME NEW w \in Workers, Was, job[w].msg.order # o \/ ~job[w].held,
               \A m \in Messages : queue[m] > 0 => queue'[m] > 0,
               \A x \in Workers : x # w => job'[x] = job[x], dlq \subseteq dlq'
        PROVE  BrokerKeeps(o)'
    BY <1>w, <1>h, <1>m
  <1>r. ASSUME NEW w \in Workers, processOrderCreated_Read(w)
        PROVE  BrokerKeeps(o)'
    <2>1. /\ Was /\ UNCHANGED <<queue, dlq>>
          /\ \A x \in Workers : x # w => job'[x] = job[x]
      BY <1>r DEF processOrderCreated_Read, AfterProcessing, TypeOK
    <2>2. CASE job[w].msg.order = o
      <3>1. job'[w] = [job[w] EXCEPT !.stage = "confirming"]
        BY <1>r, <2>1, <2>2 DEF processOrderCreated_Read, TypeOK
      <3>2. /\ job'[w].held = job[w].held /\ job'[w].msg = job[w].msg
            /\ job'[w].stage = "confirming"
        BY <1>r, <3>1, JobTypes DEF processOrderCreated_Read
      <3> QED
        BY <2>1, <3>2, <1>h, <1>m
    <2>3. CASE job[w].msg.order # o
      BY <2>1, <2>3, <1>w
    <2> QED
      BY <2>2, <2>3
  <1>10. ASSUME NEW w \in Workers, processOrderCreated_Save(w)
        PROVE  BrokerKeeps(o)'
    <2>1. job[w].msg.order \in Orders /\ o \in Orders /\ o \in accepted
      BY <1>10, JobTypes DEF processOrderCreated_Save, Messages, TypeOK
    <2>2. status[o] = "QUEUED" /\ o # job[w].msg.order
      BY <1>10, <2>1 DEF processOrderCreated_Save, TypeOK
    <2>3. UNCHANGED <<queue, dlq>> /\ \A x \in Workers : x # w => job'[x] = job[x]
      BY <1>10 DEF processOrderCreated_Save, AfterProcessing, TypeOK
    <2> QED
      BY <2>1, <2>2, <2>3, <1>w
  <1>11. ASSUME NEW w \in Workers, processOrderCreatedFails(w)
        PROVE  BrokerKeeps(o)'
    <2>1. /\ Was /\ UNCHANGED <<queue, dlq>>
          /\ \A x \in Workers : x # w => job'[x] = job[x]
      BY <1>11 DEF processOrderCreatedFails, AfterProcessing, TypeOK
    <2>2. CASE job[w].held
      <3>1. consumer # "channel"
        BY <2>2 DEF StateOK, HeldByRabbit
      <3>2. job'[w] = [job[w] EXCEPT !.stage = "failed"]
        BY <1>11, <3>1 DEF processOrderCreatedFails, AfterProcessing, TypeOK
      <3>3. job'[w].held = job[w].held /\ job'[w].msg = job[w].msg /\ job'[w].stage = "failed"
        BY <3>2, <2>2, JobTypes
      <3> QED
        BY <2>1, <3>3, <1>h, <1>m
    <2>3. CASE ~job[w].held
      BY <2>1, <2>3, <1>w
    <2> QED
      BY <2>2, <2>3
  <1>12. ASSUME NEW w \in Workers, PublishRetry(w)
        PROVE  BrokerKeeps(o)'
    <2> DEFINE m == [job[w].msg EXCEPT !.retry = @ + 1]
    <2>1. m \in Messages /\ m.order = job[w].msg.order
      BY <1>12, JobTypes, OrderDispatchAssumption DEF PublishRetry, Messages
    <2>2. \A x \in Messages : queue'[x] > 0 <=> queue[x] > 0 \/ x = m
      BY <1>12, <2>1, AddedCopy DEF PublishRetry
    <2>3. Was /\ dlq' = dlq /\ \A x \in Workers : x # w => job'[x] = job[x]
      BY <1>12 DEF PublishRetry, TypeOK
    <2>4. CASE job[w].msg.order = o
      BY <2>1, <2>2, <2>4, <1>q
    <2>5. CASE job[w].msg.order # o
      BY <2>2, <2>3, <2>5, <1>w
    <2> QED
      BY <2>4, <2>5
  <1>13. ASSUME NEW w \in Workers, PublishDeadLetter(w)
        PROVE  BrokerKeeps(o)'
    <2>1. /\ Was /\ queue' = queue /\ dlq' = dlq \cup {job[w].msg}
          /\ \A x \in Workers : x # w => job'[x] = job[x]
      BY <1>13 DEF PublishDeadLetter, TypeOK
    <2>2. CASE job[w].msg.order = o
      BY <2>1, <2>2 DEF BrokerKeeps
    <2>3. CASE job[w].msg.order # o
      BY <2>1, <2>3, <1>w
    <2> QED
      BY <2>2, <2>3
  <1>14. ASSUME NEW w \in Workers, NackRequeue(w)
        PROVE  BrokerKeeps(o)'
    <2>1. job[w].msg \in Messages
      BY <1>14, JobTypes DEF NackRequeue
    <2>2. \A x \in Messages : queue'[x] > 0 <=> queue[x] > 0 \/ (job[w].held /\ x = job[w].msg)
      BY <1>14, <2>1, AddedCopy DEF NackRequeue
    <2>3. Was /\ dlq' = dlq /\ \A x \in Workers : x # w => job'[x] = job[x]
      BY <1>14 DEF NackRequeue, TypeOK
    <2> QED
      BY <2>1, <2>2, <2>3, <1>q, <1>w
  <1>15. ASSUME NEW w \in Workers, Ack(w)
        PROVE  BrokerKeeps(o)'
    <2>1. /\ Was /\ UNCHANGED <<queue, dlq>> /\ ~Tried(w)
          /\ \A x \in Workers : x # w => job'[x] = job[x]
      BY <1>15 DEF Ack, TypeOK
    <2> QED
      BY <2>1, <1>h, <1>m
  <1> QED
    BY <1>0, <1>1, <1>2, <1>3, <1>4, <1>5, <1>6, <1>7, <1>8, <1>9, <1>r, <1>10,
       <1>11, <1>12, <1>13, <1>14, <1>15 DEF Next

-----------------------------------------------------------------------------
(* Retries and dead letters *)

RetriesOK == RetriesAreFailures /\ DeadLetterAfterAllRetries

LEMMA RetriesStep ==
  ASSUME TypeOK, StateOK, RetriesOK, [Next]_vars
  PROVE  RetriesOK'
  <1> USE OrderDispatchAssumption DEF RetriesOK, RetriesAreFailures, DeadLetterAfterAllRetries
  <1>t. /\ \A m \in Messages : m.order \in Orders /\ m.retry \in Nat
        /\ \A o \in Orders : fails[o] \in Nat
        /\ dlq \subseteq Messages
    BY DEF Messages, TypeOK
  <1>n. NoJob.stage = "none"
    BY DEF NoJob
  <1>u. ASSUME UNCHANGED <<queue, job, dlq, fails>> PROVE RetriesOK'
    BY <1>u
  <1>0. CASE UNCHANGED vars
    BY <1>0, <1>u DEF vars
  <1>1. ASSUME NEW x \in Orders,
               \/ createOrder(x) \/ CompensateRequeue(x)
               \/ CancelOrder(x) \/ PaymentCallback(x)
        PROVE  RetriesOK'
    BY <1>1, <1>u DEF createOrder, CompensateRequeue, CancelOrder, PaymentCallback
  <1>2. ASSUME NEW c \in Callers, PublishRabbit(c)
        PROVE  RetriesOK'
    <2> DEFINE m == [order |-> c[2], retry |-> 0]
    <2>1. m \in Messages /\ m.retry = 0 /\ m.order \in Orders
      BY DEF Callers, Messages
    <2>2. \A x \in Messages : queue'[x] > 0 <=> queue[x] > 0 \/ x = m
      BY <1>2, <2>1, AddedCopy DEF PublishRabbit
    <2> QED
      BY <1>2, <2>1, <2>2, <1>t DEF PublishRabbit
  <1>c. ASSUME queue' = QueueAfterClose, UNCHANGED <<dlq, fails>>,
               \A w \in Workers :
                   \/ job'[w] = NoJob
                   \/ job'[w].stage = job[w].stage /\ job'[w].msg = job[w].msg
        PROVE  RetriesOK'
    <2>1. \A m \in Messages : queue'[m] > 0 => fails[m.order] >= m.retry
      BY <1>c, ReturnedCopies, JobTypes
    <2> QED
      BY <1>c, <1>n, <2>1
  <1>d. ASSUME CloseLink, NEW w \in Workers
        PROVE  job'[w].stage = job[w].stage /\ job'[w].msg = job[w].msg
    <2>1. CASE job[w].held
      <3>1. job'[w] = [job[w] EXCEPT !.held = FALSE]
        BY <1>d, <2>1 DEF CloseLink
      <3> QED
        BY <2>1, <3>1, JobTypes
    <2>2. CASE ~job[w].held
      BY <1>d, <2>2 DEF CloseLink
    <2> QED
      BY <2>1, <2>2
  <1>3. ASSUME NEW c \in Callers, PublishLost(c)
        PROVE  RetriesOK'
    <2>1. CloseLink /\ queue' = QueueAfterClose /\ UNCHANGED <<dlq, fails>>
      BY <1>3 DEF PublishLost, CloseLink
    <2> QED
      BY <2>1, <1>c, <1>d
  <1>4. ASSUME NEW c \in Callers, PublishFallback(c) \/ SendTask(c) \/ SendTimeout(c)
        PROVE  RetriesOK'
    BY <1>4, <1>u DEF PublishFallback, SendTask, SendTimeout
  <1>5. CASE LinkBreaks
    <2>1. CloseLink /\ queue' = QueueAfterClose /\ UNCHANGED <<dlq, fails>>
      BY <1>5 DEF LinkBreaks, CloseLink
    <2> QED
      BY <2>1, <1>c, <1>d
  <1>6. CASE ServerStops
    BY <1>6, <1>c DEF ServerStops
  <1>7. ASSUME NEW config \in Configs, StartWorkersContext(config)
        PROVE  RetriesOK'
    BY <1>7, <1>u DEF StartWorkersContext
  <1>w. ASSUME NEW w \in Workers, UNCHANGED fails,
               \A x \in Workers : x # w => job'[x] = job[x],
               \/ job'[w].stage = "none"
               \/ /\ job'[w].stage # "failed"
                  /\ fails[job'[w].msg.order] >= job'[w].msg.retry
        PROVE  RetriesAreFailures!2'
    BY <1>w
  <1>8. ASSUME NEW w \in Workers, NEW m \in Messages, ReceiveDelivery(w, m)
        PROVE  RetriesOK'
    <2>1. /\ UNCHANGED <<dlq, fails>>
          /\ \A x \in Workers : x # w => job'[x] = job[x]
          /\ queue[m] > 0
          /\ \A x \in Messages : queue'[x] > 0 => queue[x] > 0
      BY <1>8 DEF ReceiveDelivery, TypeOK
    <2>2. job'[w].msg = m /\ job'[w].stage = "processing"
      BY <1>8 DEF ReceiveDelivery, TypeOK, Job
    <2> QED
      BY <2>1, <2>2, <1>w
  <1>9. ASSUME NEW w \in Workers, ReceiveTask(w)
        PROVE  RetriesOK'
    <2>1. UNCHANGED <<queue, dlq, fails>> /\ \A x \in Workers : x # w => job'[x] = job[x]
      BY <1>9 DEF ReceiveTask, TypeOK
    <2>2. Head(tasks) \in Orders
      BY <1>9 DEF ReceiveTask, TypeOK
    <2>3. job'[w].msg = [order |-> Head(tasks), retry |-> 0] /\ job'[w].stage = "processing"
      BY <1>9 DEF ReceiveTask, TypeOK, Job
    <2> QED
      BY <2>1, <2>2, <2>3, <1>t, <1>w
  <1>j. ASSUME NEW w \in Workers, job[w].stage # "none",
               NEW t \in {"confirming", "done"},
               \/ job' = [job EXCEPT ![w].stage = t]
               \/ job' = [job EXCEPT ![w] = NoJob]
               \/ AfterProcessing(w, t),
               UNCHANGED fails
        PROVE  RetriesAreFailures!2'
    <2>1. /\ \A x \in Workers : x # w => job'[x] = job[x]
          /\ job'[w] \in {NoJob, [job[w] EXCEPT !.stage = t]}
      BY <1>j DEF AfterProcessing, TypeOK
    <2>2. /\ [job[w] EXCEPT !.stage = t].stage = t
          /\ [job[w] EXCEPT !.stage = t].msg = job[w].msg
      BY <1>j, JobTypes
    <2> QED
      BY <1>j, <2>1, <2>2, <1>n, <1>w, ZenonT(60)
  <1>r. ASSUME NEW w \in Workers, processOrderCreated_Read(w)
        PROVE  RetriesOK'
    <2>1. UNCHANGED <<queue, dlq, fails>> /\ RetriesAreFailures!2'
      BY <1>r, <1>j DEF processOrderCreated_Read
    <2> QED
      BY <2>1
  <1>10. ASSUME NEW w \in Workers, processOrderCreated_Save(w)
        PROVE  RetriesOK'
    <2>1. UNCHANGED <<queue, dlq, fails>> /\ RetriesAreFailures!2'
      BY <1>10, <1>j DEF processOrderCreated_Save
    <2> QED
      BY <2>1
  <1>11. ASSUME NEW w \in Workers, processOrderCreatedFails(w)
        PROVE  RetriesOK'
    <2>1. job[w].msg \in Messages /\ job[w].msg.order \in Orders
      BY <1>11, JobTypes, <1>t DEF processOrderCreatedFails
    <2>2. /\ UNCHANGED <<queue, dlq>>
          /\ \A x \in Workers : x # w => job'[x] = job[x]
          /\ job'[w] \in {NoJob, [job[w] EXCEPT !.stage = "failed"]}
      BY <1>11 DEF processOrderCreatedFails, AfterProcessing, TypeOK
    <2>3. /\ \A o \in Orders : fails'[o] \in Nat /\ fails'[o] >= fails[o]
          /\ fails'[job[w].msg.order] = fails[job[w].msg.order] + 1
      BY <1>11, <2>1, <1>t DEF processOrderCreatedFails, TypeOK
    <2>4. [job[w] EXCEPT !.stage = "failed"].msg = job[w].msg
      BY <1>11, JobTypes DEF processOrderCreatedFails
    <2>5. fails[job[w].msg.order] >= job[w].msg.retry
      BY <1>11 DEF processOrderCreatedFails
    <2>6. \A m \in Messages : queue'[m] > 0 => fails'[m.order] >= m.retry
      BY <2>2, <2>3, <1>t
    <2>7. \A m \in dlq' : fails'[m.order] > MaxRetries
      BY <2>2, <2>3, <1>t
    <2>8. ASSUME NEW x \in Workers
          PROVE  /\ job'[x].stage # "none" => fails'[job'[x].msg.order] >= job'[x].msg.retry
                 /\ job'[x].stage = "failed" => fails'[job'[x].msg.order] > job'[x].msg.retry
      <3>1. CASE x = w
        <4>1. CASE job'[w] = NoJob
          BY <3>1, <4>1, <1>n
        <4>2. CASE job'[w] = [job[w] EXCEPT !.stage = "failed"]
          <5>1. job'[w].msg = job[w].msg
            BY <4>2, <2>4
          <5>2. /\ job[w].msg.retry \in Nat
                /\ fails[job[w].msg.order] \in Nat
            BY <2>1, <1>t DEF Messages
          <5>3. fails'[job[w].msg.order] > job[w].msg.retry
            BY <5>2, <2>3, <2>5
          <5> HIDE DEF Messages
          <5> QED
            BY <3>1, <5>1, <5>2, <5>3, <2>3, <2>1
        <4> QED
          BY <4>1, <4>2, <2>2
      <3>2. CASE x # w
        <4>1. job'[x] = job[x] /\ (job[x].stage # "none" => job[x].msg \in Messages)
          BY <3>2, <2>2, JobTypes
        <4> QED
          BY <4>1, <2>3, <1>t
      <3> QED
        BY <3>1, <3>2
    <2> QED
      BY <2>6, <2>7, <2>8
  <1>12. ASSUME NEW w \in Workers, PublishRetry(w)
        PROVE  RetriesOK'
    <2> DEFINE m == [job[w].msg EXCEPT !.retry = @ + 1]
    <2>1. /\ m \in Messages /\ m.order = job[w].msg.order /\ m.retry = job[w].msg.retry + 1
          /\ job[w].msg \in Messages
      BY <1>12, JobTypes DEF PublishRetry, Messages
    <2>2. \A x \in Messages : queue'[x] > 0 <=> queue[x] > 0 \/ x = m
      BY <1>12, <2>1, AddedCopy DEF PublishRetry
    <2>3. UNCHANGED <<dlq, fails>> /\ RetriesAreFailures!2'
      BY <1>12, <1>j DEF PublishRetry
    <2>4. fails[job[w].msg.order] > job[w].msg.retry
      BY <1>12 DEF PublishRetry
    <2>5. fails[m.order] >= m.retry
      BY <2>1, <2>4, <1>t
    <2> QED
      BY <2>2, <2>3, <2>5
  <1>13. ASSUME NEW w \in Workers, PublishDeadLetter(w)
        PROVE  RetriesOK'
    <2>1. UNCHANGED <<queue, fails>> /\ dlq' = dlq \cup {job[w].msg} /\ RetriesAreFailures!2'
      BY <1>13, <1>j DEF PublishDeadLetter
    <2>2. job[w].msg \in Messages
      BY <1>13, JobTypes DEF PublishDeadLetter
    <2>3. fails[job[w].msg.order] > MaxRetries
      BY <1>13, <2>2, <1>t DEF PublishDeadLetter
    <2> QED
      BY <2>1, <2>3
  <1>14. ASSUME NEW w \in Workers, NackRequeue(w)
        PROVE  RetriesOK'
    <2>1. job[w].msg \in Messages
      BY <1>14, JobTypes DEF NackRequeue
    <2>2. \A x \in Messages : queue'[x] > 0 => queue[x] > 0 \/ x = job[w].msg
      BY <1>14, <2>1, AddedCopy DEF NackRequeue
    <2>3. UNCHANGED <<dlq, fails>> /\ RetriesAreFailures!2'
      BY <1>14, <1>j DEF NackRequeue
    <2>4. fails[job[w].msg.order] >= job[w].msg.retry
      BY <1>14 DEF NackRequeue
    <2> QED
      BY <2>2, <2>3, <2>4
  <1>15. ASSUME NEW w \in Workers, Ack(w)
        PROVE  RetriesOK'
    <2>1. UNCHANGED <<queue, dlq, fails>> /\ RetriesAreFailures!2'
      BY <1>15, <1>j DEF Ack
    <2> QED
      BY <2>1
  <1> QED
    BY <1>0, <1>1, <1>2, <1>3, <1>4, <1>5, <1>6, <1>7, <1>8, <1>9, <1>r, <1>10,
       <1>11, <1>12, <1>13, <1>14, <1>15 DEF Next

-----------------------------------------------------------------------------
(* Theorems *)

LEMMA InitIInv == Init => IInv
  <1> SUFFICES ASSUME Init PROVE IInv
    OBVIOUS
  <1> USE OrderDispatchAssumption DEF Init
  <1>n. NoJob \in Jobs /\ NoJob.stage = "none" /\ NoJob.held = FALSE
    BY DEF Jobs, NoJob
  <1>1. TypeOK
    <2>1. job \in [Workers -> Jobs] /\ queue \in [Messages -> Nat] /\ tasks \in Seq(Orders)
      BY <1>n
    <2>2. Len(tasks) <= ChanCap
      OBVIOUS
    <2>3. link \in BOOLEAN
      BY Zenon
    <2>4. /\ status \in [Orders -> {"NEW", "QUEUED", "WAIT_PAY", "PAID", "CANCELLED"}]
          /\ pub \in [Callers -> {"no", "rabbit", "channel"}]
          /\ fails \in [Orders -> Nat]
      OBVIOUS
    <2> QED
      BY <2>1, <2>2, <2>3, <2>4 DEF TypeOK
  <1>2. DownIsEmpty /\ HeldByRabbit /\ PublishedExists
    BY <1>n DEF DownIsEmpty, HeldByRabbit, PublishedExists
  <1>3. AcceptedTaskKept /\ RetriesAreFailures /\ DeadLetterAfterAllRetries
    BY <1>n DEF AcceptedTaskKept, RetriesAreFailures, DeadLetterAfterAllRetries
  <1> QED
    BY <1>1, <1>2, <1>3 DEF IInv

LEMMA NextIInv == IInv /\ [Next]_vars => IInv'
  BY TypeStep, StateStep, KeptStep, RetriesStep DEF IInv, StateOK, RetriesOK

\* The inductive invariant holds in every reachable state.
THEOREM IInvHolds == Spec => []IInv
  BY InitIInv, NextIInv, PTL DEF Spec

\* Every variable has its type; the Go channel is never longer than its capacity.
THEOREM TypeCorrect == Spec => []TypeOK
  <1>1. IInv => TypeOK
    BY DEF IInv
  <1> QED
    BY <1>1, IInvHolds, PTL

\* What the broker has accepted it keeps while the order waits for it, whatever
\* crashes, breaks or fails: every Ack comes after the order was moved or its
\* next try or dead letter was published.
THEOREM AcceptedTaskSurvivesHolds == Spec => []AcceptedTaskSurvives
  <1>1. IInv => AcceptedTaskSurvives
    BY DEF IInv, AcceptedTaskKept, AcceptedTaskSurvives, BrokerKeeps, BrokerHas
  <1> QED
    BY <1>1, IInvHolds, PTL

\* handleRabbitOrderFailure gives a message up only after MaxRetries retries have
\* failed as well, though tasks are redelivered and published twice.
THEOREM DeadLetterAfterAllRetriesHolds == Spec => []DeadLetterAfterAllRetries
  <1>1. IInv => DeadLetterAfterAllRetries
    BY DEF IInv
  <1> QED
    BY <1>1, IInvHolds, PTL

-----------------------------------------------------------------------------
(* One connection: no transaction between a worker's read and its save *)

Confirming == {w \in Workers : job[w].stage = "confirming"}

\* Of the workers at most one is inside its transaction, and the order it has read
\* is still QUEUED.
ReadIsCurrent ==
    /\ \A v, w \in Confirming : v = w
    /\ \A w \in Confirming : status[job[w].msg.order] = "QUEUED"

\* With one connection a transaction begins only while no worker is inside its own.
LEMMA Alone ==
  ASSUME MaxOpenConns = 1, ConnFree
  PROVE  Confirming = {}
  <1>1. IsFiniteSet(Confirming)
    BY OrderDispatchAssumption, FS_Subset DEF Confirming
  <1>2. Cardinality(Confirming) \in Nat /\ Cardinality(Confirming) < 1
    BY <1>1, FS_CardinalityType DEF ConnFree, Confirming
  <1> QED
    BY <1>1, <1>2, FS_EmptySet

LEMMA CurrentStep ==
  ASSUME MaxOpenConns = 1, IInv, ReadIsCurrent, [Next]_vars
  PROVE  ReadIsCurrent'
  <1>t. TypeOK
    BY DEF IInv
  <1>n. NoJob.stage = "none"
    BY DEF NoJob
  <1>k. ASSUME Confirming' \subseteq Confirming,
               \A w \in Confirming' : job'[w].msg = job[w].msg,
               \A w \in Confirming' : status'[job[w].msg.order] = status[job[w].msg.order]
        PROVE  ReadIsCurrent'
    BY <1>k DEF ReadIsCurrent
  <1>j. ASSUME NEW w \in Workers, job[w].stage # "none",
               NEW t \in {"processing", "failed", "done"},
               \/ job' = [job EXCEPT ![w].stage = t]
               \/ job' = [job EXCEPT ![w] = NoJob]
               \/ AfterProcessing(w, t)
        PROVE  /\ Confirming' = Confirming \ {w}
               /\ \A x \in Confirming' : job'[x].msg = job[x].msg
    <2>1. /\ \A x \in Workers : x # w => job'[x] = job[x]
          /\ job'[w] \in {NoJob, [job[w] EXCEPT !.stage = t]}
      BY <1>j, <1>t DEF AfterProcessing, TypeOK
    <2>2. [job[w] EXCEPT !.stage = t].stage = t
      BY <1>j, <1>t, JobTypes
    <2>3. job'[w].stage # "confirming"
      BY <1>j, <2>1, <2>2, <1>n
    <2> QED
      BY <2>1, <2>3 DEF Confirming
  <1>0. CASE UNCHANGED vars
    BY <1>0, <1>k DEF vars, Confirming
  <1>1. ASSUME NEW o \in Orders,
               \/ createOrder(o) \/ CompensateRequeue(o)
               \/ CancelOrder(o) \/ PaymentCallback(o)
        PROVE  ReadIsCurrent'
    <2>1. ConnFree /\ job' = job
      BY <1>1 DEF createOrder, CompensateRequeue, CancelOrder, PaymentCallback
    <2> QED
      BY <2>1, Alone DEF ReadIsCurrent, Confirming
  <1>2. ASSUME NEW c \in Callers,
               PublishRabbit(c) \/ PublishFallback(c) \/ SendTask(c) \/ SendTimeout(c)
        PROVE  ReadIsCurrent'
    <2>1. UNCHANGED <<status, job>>
      BY <1>2 DEF PublishRabbit, PublishFallback, SendTask, SendTimeout
    <2> QED
      BY <2>1, <1>k DEF Confirming
  <1>c. ASSUME CloseLink, status' = status
        PROVE  ReadIsCurrent'
    <2>1. ASSUME NEW w \in Workers
          PROVE  job'[w].stage = job[w].stage /\ job'[w].msg = job[w].msg
      <3>1. CASE job[w].held
        <4>1. job'[w] = [job[w] EXCEPT !.held = FALSE]
          BY <1>c, <3>1 DEF CloseLink
        <4> QED
          BY <3>1, <4>1, <1>t, JobTypes
      <3>2. CASE ~job[w].held
        BY <1>c, <3>2 DEF CloseLink
      <3> QED
        BY <3>1, <3>2
    <2>2. Confirming' = Confirming /\ \A w \in Confirming' : job'[w].msg = job[w].msg
      BY <2>1 DEF Confirming
    <2> QED
      BY <1>c, <2>2, <1>k
  <1>3. CASE LinkBreaks \/ \E c \in Callers : PublishLost(c)
    BY <1>3, <1>c DEF LinkBreaks, PublishLost
  <1>4. ASSUME NEW w \in Workers,
               ReceiveTask(w) \/ \E m \in Messages : ReceiveDelivery(w, m)
        PROVE  ReadIsCurrent'
    <2>1. /\ status' = status /\ \A x \in Workers : x # w => job'[x] = job[x]
          /\ job'[w].stage = "processing"
      BY <1>4, <1>t DEF ReceiveTask, ReceiveDelivery, TypeOK, Job
    <2> QED
      BY <2>1, <1>k DEF Confirming
  <1>5. ASSUME NEW w \in Workers, processOrderCreated_Read(w)
        PROVE  ReadIsCurrent'
    <2>1. Confirming = {} /\ status' = status /\ job[w].stage = "processing"
      BY <1>5, Alone DEF processOrderCreated_Read
    <2>2. CASE status[job[w].msg.order] = "QUEUED"
      <3>1. job' = [job EXCEPT ![w].stage = "confirming"]
        BY <1>5, <2>2 DEF processOrderCreated_Read
      <3>2. job'[w].msg = job[w].msg /\ \A x \in Workers : x # w => job'[x] = job[x]
        BY <2>1, <3>1, <1>t, JobTypes DEF TypeOK
      <3> QED
        BY <2>1, <2>2, <3>2 DEF Confirming, ReadIsCurrent
    <2>3. CASE status[job[w].msg.order] # "QUEUED"
      <3>1. AfterProcessing(w, "done")
        BY <1>5, <2>3 DEF processOrderCreated_Read
      <3> QED
        BY <2>1, <3>1, <1>j, <1>k
    <2> QED
      BY <2>2, <2>3
  <1>6. ASSUME NEW w \in Workers, processOrderCreated_Save(w)
        PROVE  ReadIsCurrent'
    <2>1. AfterProcessing(w, "done") /\ w \in Confirming
      BY <1>6 DEF processOrderCreated_Save, Confirming
    <2>2. Confirming' = Confirming \ {w}
      BY <1>6, <2>1, <1>j DEF processOrderCreated_Save
    <2> QED
      BY <2>1, <2>2 DEF ReadIsCurrent
  <1>7. ASSUME NEW w \in Workers,
               \/ processOrderCreatedFails(w) \/ PublishRetry(w) \/ PublishDeadLetter(w)
               \/ NackRequeue(w) \/ Ack(w)
        PROVE  ReadIsCurrent'
    <2>1. /\ job[w].stage # "none" /\ status' = status
          /\ \E t \in {"failed", "done"} :
                 \/ job' = [job EXCEPT ![w].stage = t]
                 \/ job' = [job EXCEPT ![w] = NoJob]
                 \/ AfterProcessing(w, t)
      BY <1>7 DEF processOrderCreatedFails, PublishRetry, PublishDeadLetter, NackRequeue, Ack
    <2> QED
      BY <2>1, <1>j, <1>k
  <1>8. CASE ServerStops
    BY <1>8, <1>n DEF ServerStops, ReadIsCurrent, Confirming
  <1>9. ASSUME NEW config \in Configs, StartWorkersContext(config)
        PROVE  ReadIsCurrent'
    BY <1>9, <1>k DEF StartWorkersContext, Confirming
  <1> QED
    BY <1>0, <1>1, <1>2, <1>3, <1>4, <1>5, <1>6, <1>7, <1>8, <1>9 DEF Next

\* Without a second connection no delivery, however late or repeated, moves an order
\* that was cancelled or paid meanwhile, nor moves any order back: what the worker
\* has read is still so when it saves the whole row.
THEOREM RedeliveryIsHarmlessHolds == MaxOpenConns = 1 => (Spec => RedeliveryIsHarmless)
  <1> DEFINE Harmless ==
        \A o \in Orders :
            /\ status[o] \in {"CANCELLED", "PAID"} => status'[o] = status[o]
            /\ status[o] # "NEW" /\ status'[o] = "QUEUED" => status[o] = "QUEUED"
  <1> SUFFICES ASSUME MaxOpenConns = 1 PROVE Spec => RedeliveryIsHarmless
    OBVIOUS
  <1>1. Init => ReadIsCurrent
    BY DEF Init, ReadIsCurrent, Confirming, NoJob
  <1>2. IInv /\ ReadIsCurrent /\ [Next]_vars => ReadIsCurrent'
    BY CurrentStep
  <1>3. IInv /\ ReadIsCurrent /\ [Next]_vars => [Harmless]_vars
    <2> SUFFICES ASSUME IInv, ReadIsCurrent, Next PROVE Harmless
      OBVIOUS
    <2>t. TypeOK
      BY DEF IInv
    <2>1. ASSUME NEW x \in Orders, createOrder(x) \/ CancelOrder(x) \/ PaymentCallback(x)
          PROVE  Harmless
      BY <2>1, <2>t DEF createOrder, CancelOrder, PaymentCallback, TypeOK
    <2>2. ASSUME NEW w \in Workers, processOrderCreated_Save(w)
          PROVE  Harmless
      <3>1. status[job[w].msg.order] = "QUEUED"
        BY <2>2 DEF processOrderCreated_Save, ReadIsCurrent, Confirming
      <3> QED
        BY <2>2, <3>1, <2>t DEF processOrderCreated_Save, TypeOK
    <2>3. \/ status' = status
          \/ \E x \in Orders : createOrder(x) \/ CancelOrder(x) \/ PaymentCallback(x)
          \/ \E w \in Workers : processOrderCreated_Save(w)
      BY DEF Next, CompensateRequeue, PublishRabbit, PublishLost, PublishFallback, SendTask,
             SendTimeout, ReceiveDelivery, ReceiveTask, processOrderCreated_Read,
             processOrderCreatedFails, PublishRetry, PublishDeadLetter, NackRequeue, Ack,
             LinkBreaks, ServerStops, StartWorkersContext
    <2> QED
      BY <2>1, <2>2, <2>3
  <1> QED
    BY <1>1, <1>2, <1>3, IInvHolds, PTL DEF Spec, RedeliveryIsHarmless
=============================================================================
