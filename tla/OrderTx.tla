------------------------------ MODULE OrderTx ------------------------------
(***************************************************************************)
(* The database transactions of OrderService on the rows of one activity:  *)
(* the activity row, its orders and their payments.                        *)
(*                                                                         *)
(* Every handler of internal/service/order.go that changes these rows is a *)
(* GORM transaction that first reads (First, Count) and then writes (Save, *)
(* Create, UpdateColumn).  It is two steps here: ..._Read takes copies of  *)
(* the rows and evaluates the early returns; ..._Write applies the writes  *)
(* and commits.  Between the two, other requests run.                      *)
(*                                                                         *)
(*  - Reads see the state at the first read of the transaction (a SQLite   *)
(*    transaction is alone; InnoDB REPEATABLE READ reads a snapshot).      *)
(*  - Save writes the whole row from the copy, whatever the row is by now. *)
(*  - A conditional UPDATE and a unique index look at the committed rows   *)
(*    at the time of the write.                                            *)
(*  - MaxOpenConns is SetMaxOpenConns of internal/database: 1 on SQLite,   *)
(*    more on MySQL.  A transaction holds a connection from its first read *)
(*    until it commits or rolls back; a statement outside a transaction    *)
(*    needs one only while it runs.                                        *)
(*                                                                         *)
(* The writes of one transaction and its commit are one step: all handlers *)
(* lock activity, order and payment in this order, so two transactions     *)
(* never wait for each other and commit order is lock order.               *)
(*                                                                         *)
(* A transaction that returns early changes nothing and is no step.  The   *)
(* scans that choose the candidates of ExpireOrders and Compensate are     *)
(* abstracted to "any order": the transaction reads its candidate again.   *)
(***************************************************************************)
EXTENDS Integers, FiniteSets

CONSTANTS
    Procs,           \* requests and worker goroutines in flight
    Users,
    OrderNos,        \* the order numbers newOrderNo draws from
    TransactionNos,  \* transaction numbers of the payment provider
    Stock0,          \* stock the activity was created with
    MaxOpenConns,    \* SetMaxOpenConns of the database pool
    RedisEnabled,    \* s.redisStock # nil: createOrderWithRedis is used
    StatusEdits,     \* statuses an administrator sets on the activity
    None

ActivityStatuses == {"PUBLISHED", "OFFLINE", "ENDED"}

OrderStatuses == {"QUEUED", "WAIT_PAY", "PAID", "CANCELLED", "CLOSED"}

ASSUME OrderTxAssumption ==
    /\ IsFiniteSet(Procs)
    /\ IsFiniteSet(OrderNos)
    /\ Stock0 \in Nat \ {0}
    /\ MaxOpenConns \in Nat \ {0}
    /\ RedisEnabled \in BOOLEAN
    /\ StatusEdits \subseteq ActivityStatuses
    /\ None \notin Users \cup OrderNos \cup TransactionNos

VARIABLES
    activity,   \* the committed activity row: [stock, status]
    ended,      \* whether the clock has passed end_at of the activity
    orders,     \* orders[no] = [user, status], status "NONE" if no such row
    payments,   \* payments[t] = [no, status], status "NONE" if no such row
    tx          \* tx[p] = what p is doing, its arguments and its copies

vars == <<activity, ended, orders, payments, tx>>
rows == <<activity, orders, payments>>

-----------------------------------------------------------------------------
(* Rows, copies and connections *)

ActivityRow == [stock : Int, status : ActivityStatuses \cup {"EMPTY"}]
OrderRow == [user : Users \cup {None}, status : OrderStatuses \cup {"NONE"}]
PaymentRow == [no : OrderNos \cup {None}, status : {"SUCCESS", "FAILED", "NONE"}]

NoActivity == [stock |-> 0, status |-> "EMPTY"]
NoOrder == [user |-> None, status |-> "NONE"]
NoPayment == [no |-> None, status |-> "NONE"]

\* The operations that hold a database connection while they are under way.
Transactions ==
    {"create", "createRedis", "cancel", "expire", "close", "confirm", "pay",
     "end"}

Operations == Transactions \cup {"idle", "reserved", "edit"}

Args == ActivityStatuses \cup {"SUCCESS", "FAILED", "NONE"}

TxState ==
    [op : Operations, user : Users \cup {None}, no : OrderNos \cup {None},
     txn : TransactionNos \cup {None}, arg : Args,
     act : ActivityRow, row : OrderRow]

Idle ==
    [op |-> "idle", user |-> None, no |-> None, txn |-> None, arg |-> "NONE",
     act |-> NoActivity, row |-> NoOrder]

Open == {p \in Procs : tx[p].op \in Transactions}

\* Slip: the pool has one connection more than it should.
ConnFreeOneMore == Cardinality(Open) <= MaxOpenConns

ConnFree == Cardinality(Open) < MaxOpenConns

Free(p) == tx[p].op = "idle" /\ ConnFree

Done(p) == tx' = [tx EXCEPT ![p] = Idle]

Published(act) == act.status \in {"PUBLISHED", "EMPTY"}

ensureActivityOrderable(act) == Published(act) /\ ~ended

Cancellable == {"QUEUED", "WAIT_PAY"}

\* The count query of the create transactions, and what the unique index on
\* activity_order_key sees: cancelled and closed orders keep their key.
HasActivityOrder(u) == \E no \in OrderNos : orders[no].user = u

LiveOrders == {no \in OrderNos : orders[no].status \in {"QUEUED", "WAIT_PAY", "PAID"}}

-----------------------------------------------------------------------------
(* CreateOrder *)

createOrderWithDB_Read(p, u) ==
    /\ ~RedisEnabled
    /\ Free(p)
    /\ ensureActivityOrderable(activity)
    /\ activity.stock > 0
    /\ ~HasActivityOrder(u)
    /\ tx' = [tx EXCEPT ![p] = [Idle EXCEPT !.op = "create", !.user = u,
                                            !.act = activity]]
    /\ UNCHANGED <<rows, ended>>

\* Save(&activity) from the copy, then Create(&order).
createOrderWithDB_Write(p, no) ==
    /\ tx[p].op = "create"
    /\ orders[no] = NoOrder
    /\ ~HasActivityOrder(tx[p].user)
    /\ activity' = [tx[p].act EXCEPT !.stock = @ - 1]
    /\ orders' = [orders EXCEPT ![no] = [user |-> tx[p].user, status |-> "QUEUED"]]
    /\ Done(p)
    /\ UNCHANGED <<payments, ended>>

\* The activity is read outside the transaction; then Redis, which may answer
\* anything here, grants the reservation (RedisGuard models Redis itself).
createOrderWithRedis_Reserve(p, u) ==
    /\ RedisEnabled
    /\ Free(p)
    /\ ensureActivityOrderable(activity)
    /\ tx' = [tx EXCEPT ![p] = [Idle EXCEPT !.op = "reserved", !.user = u]]
    /\ UNCHANGED <<rows, ended>>

\* Count, then updateNow := time.Now(): the clock is read here and compared
\* with end_at in the UPDATE, however late that runs.
createOrderWithRedis_Read(p) ==
    /\ tx[p].op = "reserved"
    /\ ConnFree
    /\ ~HasActivityOrder(tx[p].user)
    /\ ~ended
    /\ tx' = [tx EXCEPT ![p].op = "createRedis"]
    /\ UNCHANGED <<rows, ended>>

\* Slips: one condition of the Redis path's write is dropped.
createOrderWithRedis_WriteIf(p, no, condition) ==
    /\ tx[p].op = "createRedis"
    /\ condition
    /\ orders[no] = NoOrder
    /\ activity' = [activity EXCEPT !.stock = @ - 1]
    /\ orders' = [orders EXCEPT ![no] = [user |-> tx[p].user, status |-> "QUEUED"]]
    /\ Done(p)
    /\ UNCHANGED <<payments, ended>>
createOrderWithRedis_WriteNoKey(p, no) ==
    createOrderWithRedis_WriteIf(p, no,
        activity.stock > 0 /\ Published(activity))
createOrderWithRedis_WriteNoStock(p, no) ==
    createOrderWithRedis_WriteIf(p, no,
        Published(activity) /\ ~HasActivityOrder(tx[p].user))

\* UPDATE activities SET stock = stock - 1 WHERE stock > 0 AND ..., then
\* Create(&order); no row affected or a unique conflict rolls back.
createOrderWithRedis_Write(p, no) ==
    /\ tx[p].op = "createRedis"
    /\ activity.stock > 0
    /\ Published(activity)
    /\ orders[no] = NoOrder
    /\ ~HasActivityOrder(tx[p].user)
    /\ activity' = [activity EXCEPT !.stock = @ - 1]
    /\ orders' = [orders EXCEPT ![no] = [user |-> tx[p].user, status |-> "QUEUED"]]
    /\ Done(p)
    /\ UNCHANGED <<payments, ended>>

-----------------------------------------------------------------------------
(* Giving the stock back *)

\* The copies CancelOrder, ExpireOrders and Compensate work on: the order and,
\* in restoreStock, the activity.
ReadOrderAndActivity(p, op, no) ==
    tx' = [tx EXCEPT ![p] = [Idle EXCEPT !.op = op, !.no = no,
                                         !.act = activity, !.row = orders[no]]]

\* restoreStock saves the activity copy with one more unit.
restoreStock(p) == activity' = [tx[p].act EXCEPT !.stock = @ + 1]

SaveOrder(p, status) ==
    orders' = [orders EXCEPT ![tx[p].no] = [tx[p].row EXCEPT !.status = status]]

CancelOrder_Read(p, u, no) ==
    /\ Free(p)
    /\ orders[no].user = u
    /\ orders[no].status \in Cancellable
    /\ ReadOrderAndActivity(p, "cancel", no)
    /\ UNCHANGED <<rows, ended>>

CancelOrder_Write(p) ==
    /\ tx[p].op = "cancel"
    /\ restoreStock(p)
    /\ SaveOrder(p, "CANCELLED")
    /\ Done(p)
    /\ UNCHANGED <<payments, ended>>

\* Slip: the scan's answer is trusted and the status not read again.
ExpireOrders_ReadStale(p, no) ==
    /\ Free(p)
    /\ orders[no] # NoOrder
    /\ orders[no].status # "PAID"
    /\ ReadOrderAndActivity(p, "expire", no)
    /\ UNCHANGED <<rows, ended>>

ExpireOrders_Read(p, no) ==
    /\ Free(p)
    /\ orders[no].status \in Cancellable
    /\ ReadOrderAndActivity(p, "expire", no)
    /\ UNCHANGED <<rows, ended>>

ExpireOrders_Write(p) ==
    /\ tx[p].op = "expire"
    /\ restoreStock(p)
    /\ SaveOrder(p, "CLOSED")
    /\ Done(p)
    /\ UNCHANGED <<payments, ended>>

\* Slip: every order that is not closed yet is taken for unpaid.
CompensateClose_ReadAny(p, no) ==
    /\ Free(p)
    /\ orders[no].status \in {"WAIT_PAY", "PAID"}
    /\ ReadOrderAndActivity(p, "close", no)
    /\ UNCHANGED <<rows, ended>>

\* The part of Compensate that closes unpaid orders.
CompensateClose_Read(p, no) ==
    /\ Free(p)
    /\ orders[no].status = "WAIT_PAY"
    /\ ReadOrderAndActivity(p, "close", no)
    /\ UNCHANGED <<rows, ended>>

CompensateClose_Write(p) ==
    /\ tx[p].op = "close"
    /\ restoreStock(p)
    /\ SaveOrder(p, "CLOSED")
    /\ Done(p)
    /\ UNCHANGED <<payments, ended>>

-----------------------------------------------------------------------------
(* Confirming and paying *)

processOrderCreated_Read(p, no) ==
    /\ Free(p)
    /\ orders[no].status = "QUEUED"
    /\ tx' = [tx EXCEPT ![p] = [Idle EXCEPT !.op = "confirm", !.no = no,
                                            !.row = orders[no]]]
    /\ UNCHANGED <<rows, ended>>

processOrderCreated_Write(p) ==
    /\ tx[p].op = "confirm"
    /\ SaveOrder(p, "WAIT_PAY")
    /\ Done(p)
    /\ UNCHANGED <<activity, payments, ended>>

\* Slip: a SUCCESS callback is accepted for an order in any status.
PaymentCallback_ReadAny(p, t, no, status) ==
    /\ Free(p)
    /\ payments[t] = NoPayment
    /\ orders[no] # NoOrder
    /\ tx' = [tx EXCEPT ![p] = [Idle EXCEPT !.op = "pay", !.no = no, !.txn = t,
                                            !.arg = status, !.row = orders[no]]]
    /\ UNCHANGED <<rows, ended>>

\* A known transaction number is answered from its payment, without a write.
PaymentCallback_Read(p, t, no, status) ==
    /\ Free(p)
    /\ payments[t] = NoPayment
    /\ orders[no] # NoOrder
    /\ status = "SUCCESS" => orders[no].status = "WAIT_PAY"
    /\ tx' = [tx EXCEPT ![p] = [Idle EXCEPT !.op = "pay", !.no = no, !.txn = t,
                                            !.arg = status, !.row = orders[no]]]
    /\ UNCHANGED <<rows, ended>>

\* Slip: the conflict on transaction_no is ignored and the order saved.
PaymentCallback_WriteIgnore(p) ==
    /\ tx[p].op = "pay"
    /\ IF tx[p].arg = "SUCCESS" THEN SaveOrder(p, "PAID") ELSE UNCHANGED orders
    /\ payments' = [payments EXCEPT ![tx[p].txn] =
                       IF @ = NoPayment
                       THEN [no |-> tx[p].no, status |-> tx[p].arg] ELSE @]
    /\ Done(p)
    /\ UNCHANGED <<activity, ended>>

\* Slip: the payment is an upsert on transaction_no.
PaymentCallback_WriteUpsert(p) ==
    /\ tx[p].op = "pay"
    /\ IF tx[p].arg = "SUCCESS" THEN SaveOrder(p, "PAID") ELSE UNCHANGED orders
    /\ payments' = [payments EXCEPT ![tx[p].txn] =
                       [no |-> tx[p].no, status |-> tx[p].arg]]
    /\ Done(p)
    /\ UNCHANGED <<activity, ended>>

\* Save(&order) on SUCCESS, then Create(&payment): if the unique index on
\* transaction_no rejects the payment, the order is rolled back with it.
PaymentCallback_Write(p) ==
    /\ tx[p].op = "pay"
    /\ payments[tx[p].txn] = NoPayment
    /\ IF tx[p].arg = "SUCCESS" THEN SaveOrder(p, "PAID") ELSE UNCHANGED orders
    /\ payments' = [payments EXCEPT ![tx[p].txn] =
                       [no |-> tx[p].no, status |-> tx[p].arg]]
    /\ Done(p)
    /\ UNCHANGED <<activity, ended>>

-----------------------------------------------------------------------------
(* The activity's status *)

\* The part of Compensate that ends activities past their end_at.
CompensateEnd_Read(p) ==
    /\ Free(p)
    /\ ended
    /\ Published(activity)
    /\ tx' = [tx EXCEPT ![p] = [Idle EXCEPT !.op = "end", !.act = activity]]
    /\ UNCHANGED <<rows, ended>>

\* Slip: the activity gets the status of a closed order.
CompensateEnd_WriteClosed(p) ==
    /\ tx[p].op = "end"
    /\ activity' = [tx[p].act EXCEPT !.status = "CLOSED"]
    /\ Done(p)
    /\ UNCHANGED <<orders, payments, ended>>

CompensateEnd_Write(p) ==
    /\ tx[p].op = "end"
    /\ activity' = [tx[p].act EXCEPT !.status = "ENDED"]
    /\ Done(p)
    /\ UNCHANGED <<orders, payments, ended>>

\* First and Save are two statements outside any transaction: between them
\* the connection is free for others.
UpdateActivityStatus_Read(p, status) ==
    /\ Free(p)
    /\ tx' = [tx EXCEPT ![p] = [Idle EXCEPT !.op = "edit", !.arg = status,
                                            !.act = activity]]
    /\ UNCHANGED <<rows, ended>>

UpdateActivityStatus_Save(p) ==
    /\ tx[p].op = "edit"
    /\ ConnFree
    /\ activity' = [tx[p].act EXCEPT !.status = tx[p].arg]
    /\ Done(p)
    /\ UNCHANGED <<orders, payments, ended>>

-----------------------------------------------------------------------------
(* Failures and time *)

\* A statement fails, the request's context ends, a unique index rejects a
\* row, the conditional UPDATE matches nothing, Redis fails in restoreStock,
\* or the server stops: the transaction rolls back.
Rollback(p) ==
    /\ tx[p].op # "idle"
    /\ Done(p)
    /\ UNCHANGED <<rows, ended>>

\* The clock passes end_at.
EndAtPasses ==
    /\ ~ended
    /\ ended' = TRUE
    /\ UNCHANGED <<rows, tx>>

-----------------------------------------------------------------------------
(* Specification *)

\* CreateActivity sets PUBLISHED; the code also accepts the empty
\* status as published; "EMPTY" stands for it.
Init ==
    /\ \E status \in {"PUBLISHED", "EMPTY"} :
           activity = [stock |-> Stock0, status |-> status]
    /\ ended = FALSE
    /\ orders = [no \in OrderNos |-> NoOrder]
    /\ payments = [t \in TransactionNos |-> NoPayment]
    /\ tx = [p \in Procs |-> Idle]

Next ==
    \/ \E p \in Procs :
        \/ \E u \in Users :
            \/ createOrderWithDB_Read(p, u)
            \/ createOrderWithRedis_Reserve(p, u)
            \/ \E no \in OrderNos : CancelOrder_Read(p, u, no)
        \/ \E no \in OrderNos :
            \/ createOrderWithDB_Write(p, no)
            \/ createOrderWithRedis_Write(p, no)
            \/ ExpireOrders_Read(p, no)
            \/ CompensateClose_Read(p, no)
            \/ processOrderCreated_Read(p, no)
            \/ \E t \in TransactionNos, s \in {"SUCCESS", "FAILED"} :
                   PaymentCallback_Read(p, t, no, s)
        \/ createOrderWithRedis_Read(p)
        \/ CancelOrder_Write(p)
        \/ ExpireOrders_Write(p)
        \/ CompensateClose_Write(p)
        \/ processOrderCreated_Write(p)
        \/ PaymentCallback_Write(p)
        \/ CompensateEnd_Read(p)
        \/ CompensateEnd_Write(p)
        \/ \E status \in StatusEdits : UpdateActivityStatus_Read(p, status)
        \/ UpdateActivityStatus_Save(p)
        \/ Rollback(p)
    \/ EndAtPasses

Spec == Init /\ [][Next]_vars

-----------------------------------------------------------------------------
(* Properties that hold whatever the number of connections *)

\* Every variable and every copy a transaction holds has its type.
TypeOK ==
    /\ activity \in ActivityRow
    /\ ended \in BOOLEAN
    /\ orders \in [OrderNos -> OrderRow]
    /\ payments \in [TransactionNos -> PaymentRow]
    /\ tx \in [Procs -> TxState]

\* A user never holds two orders of the activity, however many create
\* requests of the user run at once: the count query may be stale, the unique
\* index on activity_order_key decides.
OneOrderPerUser ==
    \A m, n \in OrderNos :
        orders[m].user # None /\ orders[m].user = orders[n].user => m = n

\* The stock column never goes below zero, though Save writes stale copies.
StockNonNegative == activity.stock >= 0

\* An order is PAID only with a SUCCESS payment of its own on record: the two
\* writes of PaymentCallback take effect together or not at all.
PaidHasReceipt ==
    \A no \in OrderNos :
        orders[no].status = "PAID" =>
            \E t \in TransactionNos :
                payments[t] = [no |-> no, status |-> "SUCCESS"]

\* A callback that was recorded is never overwritten by a later or concurrent
\* callback with the same transaction number.
ReceiptsAreFinal ==
    [][\A t \in TransactionNos :
           payments[t] # NoPayment => payments'[t] = payments[t]]_vars

-----------------------------------------------------------------------------
(* Properties of a single connection, as SQLite has it; more connections     *)
(* break them, and those about the stock also an edit of the activity        *)

\* The stock column and the live orders always add up to the initial stock:
\* no sale without a unit, no unit returned twice or not at all.
StockConserved == activity.stock = Stock0 - Cardinality(LiveOrders)

\* PAID orders and SUCCESS payments correspond one to one.
PaidOnce ==
    \A no \in OrderNos :
        LET receipts == {t \in TransactionNos :
                            payments[t] = [no |-> no, status |-> "SUCCESS"]}
        IN  IF orders[no].status = "PAID"
            THEN \E t \in receipts : receipts = {t}
            ELSE receipts = {}

\* No more live orders than units, what the stock check of createOrderWithDB
\* is for.
NoOversell == Cardinality(LiveOrders) <= Stock0

\* A paid order is never cancelled or closed.
PaidIsFinal ==
    [][\A no \in OrderNos :
           orders[no].status = "PAID" =>
               orders'[no].status \notin {"CANCELLED", "CLOSED"}]_vars

\* Once the activity is off sale it stays so and sells nothing more, unless an
\* administrator publishes it again: no Save of a copy taken before, by a sale,
\* a cancellation, an expiry or a compensation, puts PUBLISHED back.
OfflineSellsNothing ==
    [][~Published(activity) =>
           /\ ~Published(activity')
           /\ \A no \in OrderNos : orders[no] = NoOrder => orders'[no] = NoOrder]_vars

Contract == INSTANCE Promotion WITH stock <- activity.stock

\* Every committed transaction is one step of the abstract promotion: a sale,
\* a confirmation, a payment, a recorded failure or a returned unit.
ImplementsPromotion == Contract!Spec
=============================================================================
