--------------------------- MODULE OrderTxProofs ---------------------------
(***************************************************************************)
(* Proofs about OrderTx for every number of requests, users, orders,       *)
(* payments and connections.                                               *)
(***************************************************************************)
EXTENDS OrderTx, FiniteSetTheorems, TLAPS

-----------------------------------------------------------------------------
(* Any number of connections *)

\* What a request's copies are worth when others run between its two steps:
\* the buyer of the order it read, that the copied stock is not negative, and
\* that the arguments its second step uses are there.
CopiesOK ==
    \A p \in Procs :
        /\ tx[p].act.stock >= 0
        /\ tx[p].op = "create" => tx[p].act.stock > 0
        /\ tx[p].op \in {"create", "createRedis", "reserved"} => tx[p].user \in Users
        /\ tx[p].op \in {"cancel", "expire", "close", "confirm", "pay"} =>
               /\ tx[p].no \in OrderNos
               /\ tx[p].row.user \in Users
               /\ tx[p].row.user = orders[tx[p].no].user
        /\ tx[p].op = "pay" =>
               tx[p].txn \in TransactionNos /\ tx[p].arg \in {"SUCCESS", "FAILED"}
        /\ tx[p].op = "edit" => tx[p].arg \in ActivityStatuses

\* An order row has a buyer exactly when it exists.
BuyersOK ==
    \A no \in OrderNos : orders[no].status = "NONE" <=> orders[no].user = None

IInv ==
    /\ TypeOK
    /\ CopiesOK
    /\ BuyersOK
    /\ OneOrderPerUser
    /\ StockNonNegative
    /\ PaidHasReceipt

\* The rows and the copies of a request that has not started have their types.
LEMMA EmptyTypes ==
  /\ NoActivity \in ActivityRow
  /\ NoOrder \in OrderRow
  /\ NoPayment \in PaymentRow
  /\ Idle \in TxState
  <1>1. NoActivity \in ActivityRow /\ NoOrder \in OrderRow /\ NoPayment \in PaymentRow
    BY DEF NoActivity, NoOrder, NoPayment, ActivityRow, OrderRow, PaymentRow
  <1>2. Idle \in TxState
    BY <1>1 DEF Idle, TxState, Operations, Args
  <1> QED
    BY <1>1, <1>2

LEMMA InitIInv == Init => IInv
  <1> SUFFICES ASSUME Init PROVE IInv
    OBVIOUS
  <1> USE OrderTxAssumption DEF Init
  <1>1. TypeOK
    <2>1. activity \in ActivityRow
      BY DEF ActivityRow, ActivityStatuses
    <2>2. ended \in BOOLEAN
      BY Zenon
    <2>3. orders \in [OrderNos -> OrderRow] /\ payments \in [TransactionNos -> PaymentRow]
      BY EmptyTypes
    <2>4. tx \in [Procs -> TxState]
      BY EmptyTypes
    <2> QED
      BY <2>1, <2>2, <2>3, <2>4 DEF TypeOK
  <1> USE DEF NoOrder, NoPayment, NoActivity, Idle
  <1>2. CopiesOK
    BY DEF CopiesOK
  <1>3. BuyersOK /\ OneOrderPerUser /\ StockNonNegative /\ PaidHasReceipt
    BY DEF BuyersOK, OneOrderPerUser, StockNonNegative, PaidHasReceipt
  <1> QED
    BY <1>1, <1>2, <1>3 DEF IInv

\* A step that only takes copies keeps the invariant if the copies are good.
LEMMA ReadStep ==
  ASSUME IInv, NEW p \in Procs, NEW t \in TxState,
         tx' = [tx EXCEPT ![p] = t], UNCHANGED rows, ended' \in BOOLEAN,
         t.act.stock >= 0,
         t.op = "create" => t.act.stock > 0,
         t.op \in {"create", "createRedis", "reserved"} => t.user \in Users,
         t.op \in {"cancel", "expire", "close", "confirm", "pay"} =>
             t.no \in OrderNos /\ t.row.user \in Users /\ t.row = orders[t.no],
         t.op = "pay" => t.txn \in TransactionNos /\ t.arg \in {"SUCCESS", "FAILED"},
         t.op = "edit" => t.arg \in ActivityStatuses
  PROVE  IInv'
  <1> USE DEF IInv, rows
  <1>1. TypeOK'
    BY DEF TypeOK
  <1>2. CopiesOK'
    BY DEF CopiesOK, TypeOK
  <1>3. BuyersOK' /\ OneOrderPerUser' /\ StockNonNegative' /\ PaidHasReceipt'
    BY DEF BuyersOK, OneOrderPerUser, StockNonNegative, PaidHasReceipt
  <1> QED
    BY <1>1, <1>2, <1>3
\* A new order: the buyer had none, and nobody's copies are of the new order.
LEMMA CreateStep ==
  ASSUME IInv, NEW p \in Procs, NEW no \in OrderNos,
         tx[p].op \in {"create", "createRedis"},
         orders[no] = NoOrder, ~HasActivityOrder(tx[p].user),
         activity' \in ActivityRow, activity'.stock >= 0,
         orders' = [orders EXCEPT ![no] = [user |-> tx[p].user, status |-> "QUEUED"]],
         Done(p), UNCHANGED <<payments, ended>>
  PROVE  IInv'
  <1> USE OrderTxAssumption DEF IInv, Done
  <1>0. tx[p].user \in Users /\ Idle \in TxState
    BY EmptyTypes DEF CopiesOK
  <1>1. TypeOK'
    BY <1>0 DEF TypeOK, OrderRow, OrderStatuses
  <1>2. CopiesOK'
    <2>1. SUFFICES ASSUME NEW q \in Procs, q # p,
                          tx[q].op \in {"cancel", "expire", "close", "confirm", "pay"}
                   PROVE  tx[q].row.user = orders'[tx[q].no].user
      BY DEF CopiesOK, TypeOK, Idle, NoActivity
    <2> QED
      BY <2>1 DEF CopiesOK, TypeOK, NoOrder
  <1>3. BuyersOK'
    BY <1>0 DEF BuyersOK, TypeOK
  <1>4. OneOrderPerUser'
    BY <1>0 DEF OneOrderPerUser, HasActivityOrder, TypeOK, NoOrder
  <1>5. StockNonNegative' /\ PaidHasReceipt'
    BY DEF StockNonNegative, PaidHasReceipt, TypeOK
  <1> QED
    BY <1>1, <1>2, <1>3, <1>4, <1>5

\* Save(&order) from a copy: the buyer stays, only the status may be stale.
LEMMA SaveStep ==
  ASSUME IInv, NEW p \in Procs, NEW status \in OrderStatuses,
         tx[p].op \in {"cancel", "expire", "close", "confirm", "pay"},
         SaveOrder(p, status),
         activity' \in ActivityRow, activity'.stock >= 0,
         payments' \in [TransactionNos -> PaymentRow],
         \A t \in TransactionNos :
             payments[t] = NoPayment \/ payments'[t] = payments[t],
         status = "PAID" =>
             \E t \in TransactionNos :
                 payments'[t] = [no |-> tx[p].no, status |-> "SUCCESS"],
         Done(p), UNCHANGED ended
  PROVE  IInv'
  <1> USE OrderTxAssumption DEF IInv, Done
  <1> DEFINE no == tx[p].no
  <1>0. /\ no \in OrderNos
        /\ orders' = [orders EXCEPT ![no] = [tx[p].row EXCEPT !.status = status]]
        /\ tx[p].row \in OrderRow
        /\ orders'[no] = [user |-> orders[no].user, status |-> status]
        /\ orders[no].user \in Users
    BY DEF CopiesOK, TypeOK, SaveOrder, TxState, OrderRow
  <1>a. \A m \in OrderNos : orders'[m].user = orders[m].user
    BY <1>0 DEF TypeOK
  <1>1. TypeOK'
    BY <1>0, EmptyTypes DEF TypeOK, OrderRow
  <1>2. CopiesOK'
    BY <1>a DEF CopiesOK, TypeOK, Idle, NoActivity
  <1>3. BuyersOK'
    BY <1>0 DEF BuyersOK, TypeOK, OrderStatuses
  <1>4. OneOrderPerUser'
    BY <1>a DEF OneOrderPerUser
  <1>5. StockNonNegative'
    BY DEF StockNonNegative
  <1>6. PaidHasReceipt'
    <2> SUFFICES ASSUME NEW m \in OrderNos, orders'[m].status = "PAID"
                 PROVE  \E t \in TransactionNos :
                            payments'[t] = [no |-> m, status |-> "SUCCESS"]
      BY DEF PaidHasReceipt
    <2>1. CASE m = no
      BY <2>1, <1>0
    <2>2. CASE m # no
      <3>1. orders[m].status = "PAID"
        BY <2>2, <1>0 DEF TypeOK
      <3> QED
        BY <3>1 DEF PaidHasReceipt, NoPayment
    <2> QED
      BY <2>1, <2>2
  <1> QED
    BY <1>1, <1>2, <1>3, <1>4, <1>5, <1>6

\* A step that changes the activity row alone.
LEMMA ActivityStep ==
  ASSUME IInv, NEW p \in Procs,
         activity' \in ActivityRow, activity'.stock >= 0,
         Done(p), UNCHANGED <<orders, payments, ended>>
  PROVE  IInv'
  <1> USE DEF IInv, Done
  <1>1. TypeOK'
    BY EmptyTypes DEF TypeOK
  <1>2. CopiesOK'
    BY DEF CopiesOK, TypeOK, Idle, NoActivity
  <1>3. BuyersOK' /\ OneOrderPerUser' /\ StockNonNegative' /\ PaidHasReceipt'
    BY DEF BuyersOK, OneOrderPerUser, StockNonNegative, PaidHasReceipt
  <1> QED
    BY <1>1, <1>2, <1>3

\* The copies that CancelOrder, ExpireOrders and Compensate take are good.
LEMMA ReadOrderStep ==
  ASSUME IInv, NEW p \in Procs, NEW no \in OrderNos,
         NEW op \in {"cancel", "expire", "close"},
         orders[no].status \in Cancellable,
         ReadOrderAndActivity(p, op, no), UNCHANGED <<rows, ended>>
  PROVE  IInv'
  <1> DEFINE t == [Idle EXCEPT !.op = op, !.no = no, !.act = activity,
                               !.row = orders[no]]
  <1>1. /\ t \in TxState /\ t.op = op /\ t.no = no
        /\ t.act = activity /\ t.row = orders[no]
    BY DEF IInv, TypeOK, Idle, TxState, Operations, Transactions, Args
  <1>2. orders[no].user \in Users /\ activity.stock >= 0
    BY DEF IInv, BuyersOK, TypeOK, OrderRow, Cancellable, StockNonNegative
  <1>3. tx' = [tx EXCEPT ![p] = t]
    BY DEF ReadOrderAndActivity
  <1>4. ended' \in BOOLEAN
    BY DEF IInv, TypeOK
  <1> HIDE DEF t
  <1> QED
    BY <1>1, <1>2, <1>3, <1>4, ReadStep

LEMMA NextIInv == IInv /\ [Next]_vars => IInv'
  <1> SUFFICES ASSUME IInv, [Next]_vars PROVE IInv'
    OBVIOUS
  <1> USE OrderTxAssumption
  <1>t. /\ activity \in ActivityRow /\ activity.stock \in Int /\ activity.stock >= 0
        /\ orders \in [OrderNos -> OrderRow]
        /\ ended \in BOOLEAN
        /\ tx \in [Procs -> TxState]
        /\ NoActivity.stock = 0
        /\ Idle \in TxState
    BY EmptyTypes DEF IInv, TypeOK, StockNonNegative, ActivityRow, NoActivity
  <1>0. CASE UNCHANGED vars
    BY <1>0 DEF vars, IInv, TypeOK, CopiesOK, BuyersOK, OneOrderPerUser,
                StockNonNegative, PaidHasReceipt
  <1>1. ASSUME NEW p \in Procs, NEW u \in Users, createOrderWithDB_Read(p, u)
        PROVE  IInv'
    <2> DEFINE t == [Idle EXCEPT !.op = "create", !.user = u, !.act = activity]
    <2>1. t \in TxState /\ t.op = "create" /\ t.act = activity /\ t.user = u
      BY <1>t DEF Idle, TxState, Operations, Transactions
    <2>2. tx' = [tx EXCEPT ![p] = t] /\ UNCHANGED rows /\ ended' \in BOOLEAN
      BY <1>1, <1>t DEF createOrderWithDB_Read
    <2>3. activity.stock > 0
      BY <1>1 DEF createOrderWithDB_Read
    <2> HIDE DEF t
    <2> QED
      BY <2>1, <2>2, <2>3, <1>t, ReadStep
  <1>2. ASSUME NEW p \in Procs, NEW no \in OrderNos, createOrderWithDB_Write(p, no)
        PROVE  IInv'
    <2>1. tx[p].act \in ActivityRow /\ tx[p].act.stock > 0
      BY <1>2, <1>t DEF createOrderWithDB_Write, IInv, CopiesOK, TxState
    <2>2. activity' \in ActivityRow /\ activity'.stock >= 0
      BY <1>2, <2>1 DEF createOrderWithDB_Write, ActivityRow
    <2> QED
      BY <1>2, <2>2, CreateStep DEF createOrderWithDB_Write
  <1>3. ASSUME NEW p \in Procs, NEW u \in Users, createOrderWithRedis_Reserve(p, u)
        PROVE  IInv'
    <2> DEFINE t == [Idle EXCEPT !.op = "reserved", !.user = u]
    <2>1. t \in TxState /\ t.op = "reserved" /\ t.act = NoActivity /\ t.user = u
      BY <1>t DEF Idle, TxState, Operations
    <2>2. tx' = [tx EXCEPT ![p] = t] /\ UNCHANGED rows /\ ended' \in BOOLEAN
      BY <1>3, <1>t DEF createOrderWithRedis_Reserve
    <2>4. t.act.stock >= 0
      BY <2>1, <1>t
    <2> HIDE DEF t
    <2> QED
      BY <2>1, <2>2, <2>4, ReadStep
  <1>4. ASSUME NEW p \in Procs, createOrderWithRedis_Read(p)
        PROVE  IInv'
    <2> DEFINE t == [tx[p] EXCEPT !.op = "createRedis"]
    <2>1. /\ t \in TxState /\ t.op = "createRedis" /\ t.user \in Users
          /\ t.act.stock >= 0
      BY <1>4, <1>t DEF createOrderWithRedis_Read, IInv, CopiesOK, TxState,
                        Operations, Transactions
    <2>2. tx' = [tx EXCEPT ![p] = t] /\ UNCHANGED rows /\ ended' \in BOOLEAN
      BY <1>4, <1>t DEF createOrderWithRedis_Read
    <2> HIDE DEF t
    <2> QED
      BY <2>1, <2>2, ReadStep
  <1>5. ASSUME NEW p \in Procs, NEW no \in OrderNos, createOrderWithRedis_Write(p, no)
        PROVE  IInv'
    <2>1. activity' \in ActivityRow /\ activity'.stock >= 0
      BY <1>5, <1>t DEF createOrderWithRedis_Write, ActivityRow
    <2> QED
      BY <1>5, <2>1, CreateStep DEF createOrderWithRedis_Write
  <1>6. ASSUME NEW p \in Procs, NEW u \in Users, NEW no \in OrderNos,
               CancelOrder_Read(p, u, no)
        PROVE  IInv'
    BY <1>6, ReadOrderStep DEF CancelOrder_Read
  <1>7. ASSUME NEW p \in Procs, NEW no \in OrderNos, ExpireOrders_Read(p, no)
        PROVE  IInv'
    BY <1>7, ReadOrderStep DEF ExpireOrders_Read
  <1>8. ASSUME NEW p \in Procs, NEW no \in OrderNos, CompensateClose_Read(p, no)
        PROVE  IInv'
    BY <1>8, ReadOrderStep DEF CompensateClose_Read, Cancellable
  <1>9. ASSUME NEW p \in Procs,
               CancelOrder_Write(p) \/ ExpireOrders_Write(p) \/ CompensateClose_Write(p)
        PROVE  IInv'
    <2>1. /\ tx[p].op \in {"cancel", "expire", "close"}
          /\ restoreStock(p) /\ Done(p) /\ UNCHANGED <<payments, ended>>
          /\ SaveOrder(p, "CANCELLED") \/ SaveOrder(p, "CLOSED")
      BY <1>9 DEF CancelOrder_Write, ExpireOrders_Write, CompensateClose_Write
    <2>2. activity' \in ActivityRow /\ activity'.stock >= 0
      BY <2>1, <1>t DEF restoreStock, IInv, CopiesOK, TxState, ActivityRow
    <2>3. payments' \in [TransactionNos -> PaymentRow] /\ payments' = payments
      BY <2>1 DEF IInv, TypeOK
    <2> QED
      BY <2>1, <2>2, <2>3, SaveStep DEF OrderStatuses
  <1>10. ASSUME NEW p \in Procs, NEW no \in OrderNos, processOrderCreated_Read(p, no)
         PROVE  IInv'
    <2> DEFINE t == [Idle EXCEPT !.op = "confirm", !.no = no, !.row = orders[no]]
    <2>1. /\ t \in TxState /\ t.op = "confirm" /\ t.no = no
          /\ t.act = NoActivity /\ t.row = orders[no]
      BY <1>t DEF Idle, TxState, Operations, Transactions
    <2>2. tx' = [tx EXCEPT ![p] = t] /\ UNCHANGED rows /\ ended' \in BOOLEAN
      BY <1>10, <1>t DEF processOrderCreated_Read
    <2>3. orders[no].user \in Users
      BY <1>10, <1>t DEF processOrderCreated_Read, IInv, BuyersOK, OrderRow
    <2>4. t.act.stock >= 0
      BY <2>1, <1>t
    <2> HIDE DEF t
    <2> QED
      BY <2>1, <2>2, <2>3, <2>4, ReadStep
  <1>11. ASSUME NEW p \in Procs, processOrderCreated_Write(p)
         PROVE  IInv'
    <2>1. payments' \in [TransactionNos -> PaymentRow] /\ payments' = payments
      BY <1>11 DEF processOrderCreated_Write, IInv, TypeOK
    <2> QED
      BY <1>11, <1>t, <2>1, SaveStep DEF processOrderCreated_Write, OrderStatuses
  <1>12. ASSUME NEW p \in Procs, NEW t \in TransactionNos, NEW no \in OrderNos,
                NEW s \in {"SUCCESS", "FAILED"}, PaymentCallback_Read(p, t, no, s)
         PROVE  IInv'
    <2> DEFINE x == [Idle EXCEPT !.op = "pay", !.no = no, !.txn = t,
                                 !.arg = s, !.row = orders[no]]
    <2>1. /\ x \in TxState /\ x.op = "pay" /\ x.no = no /\ x.txn = t /\ x.arg = s
          /\ x.act = NoActivity /\ x.row = orders[no]
      BY <1>t DEF Idle, TxState, Operations, Transactions, Args
    <2>2. tx' = [tx EXCEPT ![p] = x] /\ UNCHANGED rows /\ ended' \in BOOLEAN
      BY <1>12, <1>t DEF PaymentCallback_Read
    <2>3. orders[no].user \in Users
      BY <1>12, <1>t DEF PaymentCallback_Read, IInv, BuyersOK, OrderRow, NoOrder
    <2>4. x.act.stock >= 0
      BY <2>1, <1>t
    <2> HIDE DEF x
    <2> QED
      BY <2>1, <2>2, <2>3, <2>4, ReadStep
  <1>13. ASSUME NEW p \in Procs, PaymentCallback_Write(p)
         PROVE  IInv'
    <2> DEFINE t == tx[p].txn
               no == tx[p].no
    <2>1. /\ t \in TransactionNos /\ no \in OrderNos
          /\ tx[p].op = "pay" /\ tx[p].arg \in {"SUCCESS", "FAILED"}
          /\ payments[t] = NoPayment
          /\ payments' = [payments EXCEPT ![t] = [no |-> no, status |-> tx[p].arg]]
          /\ Done(p) /\ UNCHANGED <<activity, ended>>
      BY <1>13 DEF PaymentCallback_Write, IInv, CopiesOK
    <2>2. /\ payments' \in [TransactionNos -> PaymentRow]
          /\ payments'[t] = [no |-> no, status |-> tx[p].arg]
          /\ \A r \in TransactionNos :
                 payments[r] = NoPayment \/ payments'[r] = payments[r]
      BY <2>1 DEF IInv, TypeOK, PaymentRow
    <2>3. CASE tx[p].arg = "SUCCESS"
      <3>1. SaveOrder(p, "PAID")
        BY <1>13, <2>3 DEF PaymentCallback_Write
      <3>2. activity' \in ActivityRow /\ activity'.stock >= 0
        BY <2>1, <1>t
      <3> QED
        BY <2>1, <2>2, <2>3, <3>1, <3>2, SaveStep DEF OrderStatuses
    <2>4. CASE tx[p].arg = "FAILED"
      <3>1. UNCHANGED <<orders, activity, ended>>
        BY <1>13, <2>4 DEF PaymentCallback_Write
      <3>2. TypeOK'
        BY <3>1, <2>1, <2>2, <1>t DEF IInv, TypeOK, Done
      <3>3. CopiesOK'
        BY <3>1, <2>1, <1>t DEF IInv, CopiesOK, Done, Idle
      <3>4. BuyersOK' /\ OneOrderPerUser' /\ StockNonNegative'
        BY <3>1 DEF IInv, BuyersOK, OneOrderPerUser, StockNonNegative
      <3>5. PaidHasReceipt'
        <4> SUFFICES ASSUME NEW m \in OrderNos, orders[m].status = "PAID"
                     PROVE  \E r \in TransactionNos :
                                payments'[r] = [no |-> m, status |-> "SUCCESS"]
          BY <3>1 DEF PaidHasReceipt
        <4>1. PICK r \in TransactionNos : payments[r] = [no |-> m, status |-> "SUCCESS"]
          BY DEF IInv, PaidHasReceipt
        <4>2. payments'[r] = payments[r]
          BY <4>1, <2>2 DEF NoPayment
        <4> QED
          BY <4>1, <4>2
      <3> QED
        BY <3>2, <3>3, <3>4, <3>5 DEF IInv
    <2> QED
      BY <2>1, <2>3, <2>4
  <1>14. ASSUME NEW p \in Procs, CompensateEnd_Read(p)
         PROVE  IInv'
    <2> DEFINE t == [Idle EXCEPT !.op = "end", !.act = activity]
    <2>1. t \in TxState /\ t.op = "end" /\ t.act = activity
      BY <1>t DEF Idle, TxState, Operations, Transactions
    <2>2. tx' = [tx EXCEPT ![p] = t] /\ UNCHANGED rows /\ ended' \in BOOLEAN
      BY <1>14, <1>t DEF CompensateEnd_Read
    <2> HIDE DEF t
    <2> QED
      BY <2>1, <2>2, <1>t, ReadStep
  <1>15. ASSUME NEW p \in Procs, CompensateEnd_Write(p)
         PROVE  IInv'
    <2>1. activity' \in ActivityRow /\ activity'.stock >= 0
      BY <1>15, <1>t DEF CompensateEnd_Write, IInv, CopiesOK, TxState,
                         ActivityRow, ActivityStatuses
    <2> QED
      BY <1>15, <2>1, ActivityStep DEF CompensateEnd_Write
  <1>16. ASSUME NEW p \in Procs, NEW status \in StatusEdits,
                UpdateActivityStatus_Read(p, status)
         PROVE  IInv'
    <2> DEFINE t == [Idle EXCEPT !.op = "edit", !.arg = status, !.act = activity]
    <2>1. /\ t \in TxState /\ t.op = "edit" /\ t.act = activity
          /\ t.arg \in ActivityStatuses
      BY <1>t DEF Idle, TxState, Operations, Args
    <2>2. tx' = [tx EXCEPT ![p] = t] /\ UNCHANGED rows /\ ended' \in BOOLEAN
      BY <1>16, <1>t DEF UpdateActivityStatus_Read
    <2> HIDE DEF t
    <2> QED
      BY <2>1, <2>2, <1>t, ReadStep
  <1>17. ASSUME NEW p \in Procs, UpdateActivityStatus_Save(p)
         PROVE  IInv'
    <2>1. activity' \in ActivityRow /\ activity'.stock >= 0
      BY <1>17, <1>t DEF UpdateActivityStatus_Save, IInv, CopiesOK, TxState, ActivityRow
    <2> QED
      BY <1>17, <2>1, ActivityStep DEF UpdateActivityStatus_Save
  <1>18. ASSUME NEW p \in Procs, Rollback(p)
         PROVE  IInv'
    <2>1. Idle.op = "idle" /\ Idle.act.stock >= 0
      BY <1>t DEF Idle
    <2>2. tx' = [tx EXCEPT ![p] = Idle] /\ UNCHANGED rows /\ ended' \in BOOLEAN
      BY <1>18, <1>t DEF Rollback, Done
    <2> QED
      BY <2>1, <2>2, <1>t, ReadStep
  <1>19. CASE EndAtPasses
    BY <1>19 DEF EndAtPasses, rows, IInv, TypeOK, CopiesOK, BuyersOK,
                 OneOrderPerUser, StockNonNegative, PaidHasReceipt
  <1> QED
    BY <1>0, <1>1, <1>2, <1>3, <1>4, <1>5, <1>6, <1>7, <1>8, <1>9, <1>10, <1>11,
       <1>12, <1>13, <1>14, <1>15, <1>16, <1>17, <1>18, <1>19 DEF Next

\* IInv is an inductive invariant of the transactions.
THEOREM IInvHolds == Spec => []IInv
  BY InitIInv, NextIInv, PTL DEF Spec

\* Type correctness of the rows and of every copy a request holds.
THEOREM TypeCorrect == Spec => []TypeOK
  BY IInvHolds, PTL DEF IInv

\* However many create requests of one user run at once, with a stale count
\* query each, the user ends up with at most one order of the activity.
THEOREM OneOrderPerUserHolds == Spec => []OneOrderPerUser
  BY IInvHolds, PTL DEF IInv

\* Neither stale copies nor concurrent decrements drive the stock below zero.
THEOREM StockNonNegativeHolds == Spec => []StockNonNegative
  BY IInvHolds, PTL DEF IInv

\* PaymentCallback never leaves a PAID order without its SUCCESS payment.
THEOREM PaidHasReceiptHolds == Spec => []PaidHasReceipt
  BY IInvHolds, PTL DEF IInv

\* No step of any handler rewrites a recorded payment.
THEOREM ReceiptsAreFinalHolds == Spec => ReceiptsAreFinal
  <1>1. IInv /\ [Next]_vars =>
            [\A t \in TransactionNos :
                 payments[t] # NoPayment => payments'[t] = payments[t]]_vars
    <2> SUFFICES ASSUME IInv, Next,
                        NEW t \in TransactionNos, payments[t] # NoPayment
                 PROVE  payments'[t] = payments[t]
      OBVIOUS
    <2>1. ASSUME NEW p \in Procs, PaymentCallback_Write(p)
          PROVE  payments'[t] = payments[t]
      BY <2>1 DEF PaymentCallback_Write, IInv, CopiesOK, TypeOK
    <2>2. UNCHANGED payments \/ \E p \in Procs : PaymentCallback_Write(p)
      BY ZenonT(60) DEF Next, rows, createOrderWithDB_Read, createOrderWithRedis_Reserve,
             CancelOrder_Read, createOrderWithDB_Write, createOrderWithRedis_Write,
             ExpireOrders_Read, CompensateClose_Read, processOrderCreated_Read,
             PaymentCallback_Read, createOrderWithRedis_Read, CancelOrder_Write,
             ExpireOrders_Write, CompensateClose_Write, processOrderCreated_Write,
             CompensateEnd_Read, CompensateEnd_Write, UpdateActivityStatus_Read,
             UpdateActivityStatus_Save, Rollback, EndAtPasses
    <2> QED
      BY <2>1, <2>2
  <1> QED
    BY <1>1, IInvHolds, PTL DEF Spec, ReceiptsAreFinal

-----------------------------------------------------------------------------
(* One connection and no administrator's edits *)

\* At most one transaction is open, and what it read is still what is there.
FreshCopies ==
    /\ \A p \in Procs : tx[p].op # "edit"
    /\ \A p, q \in Open : p = q
    /\ \A p \in Open :
        /\ tx[p].op \in {"create", "cancel", "expire", "close", "end"} =>
               tx[p].act = activity
        /\ tx[p].op \in {"cancel", "expire", "close", "confirm", "pay"} =>
               tx[p].row = orders[tx[p].no]
        /\ tx[p].op \in {"cancel", "expire"} => tx[p].row.status \in Cancellable
        /\ tx[p].op = "close" => tx[p].row.status = "WAIT_PAY"
        /\ tx[p].op = "confirm" => tx[p].row.status = "QUEUED"
        /\ tx[p].op = "pay" /\ tx[p].arg = "SUCCESS" => tx[p].row.status = "WAIT_PAY"

\* With one connection, a free connection means that no transaction is open.
LEMMA FreeMeansNoneOpen ==
  ASSUME MaxOpenConns = 1, ConnFree
  PROVE  Open = {}
  <1>1. IsFiniteSet(Open)
    BY OrderTxAssumption, FS_Subset DEF Open
  <1>2. Cardinality(Open) = 0
    BY <1>1, FS_CardinalityType DEF ConnFree
  <1> QED
    BY <1>1, <1>2, FS_EmptySet

\* The transaction that starts on the free connection has fresh copies.
LEMMA FreshRead ==
  ASSUME MaxOpenConns = 1, IInv, FreshCopies, ConnFree,
         NEW p \in Procs, NEW t,
         tx' = [tx EXCEPT ![p] = t], UNCHANGED rows,
         t.op # "edit",
         t.op \in {"create", "cancel", "expire", "close", "end"} => t.act = activity,
         t.op \in {"cancel", "expire", "close", "confirm", "pay"} =>
             t.row = orders[t.no],
         t.op \in {"cancel", "expire"} => t.row.status \in Cancellable,
         t.op = "close" => t.row.status = "WAIT_PAY",
         t.op = "confirm" => t.row.status = "QUEUED",
         t.op = "pay" /\ t.arg = "SUCCESS" => t.row.status = "WAIT_PAY"
  PROVE  FreshCopies'
  <1>1. Open = {}
    BY FreeMeansNoneOpen
  <1>2. \A q \in Procs : tx'[q] = IF q = p THEN t ELSE tx[q]
    BY DEF IInv, TypeOK
  <1>3. Open' \subseteq {p}
    BY <1>1, <1>2 DEF Open
  <1>4. \A q \in Procs : tx'[q].op # "edit"
    BY <1>2 DEF FreshCopies
  <1>5. activity' = activity /\ orders' = orders
    BY DEF rows
  <1> QED
    BY <1>2, <1>3, <1>4, <1>5 DEF FreshCopies

\* After a commit or a rollback of the open transaction none is open.
LEMMA FreshDone ==
  ASSUME IInv, FreshCopies, NEW p \in Procs, Done(p),
         tx[p].op \in Transactions \/ UNCHANGED rows
  PROVE  FreshCopies'
  <1>1. \A q \in Procs : tx'[q] = IF q = p THEN Idle ELSE tx[q]
    BY DEF Done, IInv, TypeOK
  <1>2. Idle.op = "idle"
    BY DEF Idle
  <1>3. Open' = Open \ {p}
    BY <1>1, <1>2 DEF Open, Transactions
  <1>4. \A q \in Procs : tx'[q].op # "edit"
    BY <1>1, <1>2 DEF FreshCopies
  <1>5. CASE tx[p].op \in Transactions
    <2>1. Open' = {}
      BY <1>3, <1>5 DEF FreshCopies, Open
    <2> QED
      BY <2>1, <1>4 DEF FreshCopies
  <1>6. CASE UNCHANGED rows
    <2>1. activity' = activity /\ orders' = orders
      BY <1>6 DEF rows
    <2>2. \A q \in Open' : q \in Open /\ tx'[q] = tx[q]
      BY <1>1, <1>3 DEF Open
    <2> QED
      BY <2>1, <2>2, <1>4 DEF FreshCopies
  <1> QED
    BY <1>5, <1>6

\* Giving up an order whose copies are fresh is one step of the contract.
LEMMA GiveUpStep ==
  ASSUME IInv, FreshCopies, NEW p \in Procs,
         tx[p].op \in {"cancel", "expire", "close"},
         restoreStock(p), SaveOrder(p, "CANCELLED") \/ SaveOrder(p, "CLOSED"),
         UNCHANGED payments
  PROVE  Contract!Next
  <1> DEFINE no == tx[p].no
  <1>1. /\ no \in OrderNos
        /\ tx[p].act = activity /\ tx[p].row = orders[no]
        /\ orders[no].status \in {"QUEUED", "WAIT_PAY"}
    BY DEF FreshCopies, Open, Transactions, IInv, CopiesOK, Cancellable
  <1>2. activity'.stock = activity.stock + 1
    BY <1>1 DEF restoreStock, IInv, TypeOK, ActivityRow
  <1>3. \E s \in {"CANCELLED", "CLOSED"} : orders' = [orders EXCEPT ![no].status = s]
    BY <1>1 DEF SaveOrder, IInv, TypeOK, OrderRow
  <1>4. Contract!GiveUp(no)
    BY <1>1, <1>2, <1>3 DEF Contract!GiveUp
  <1> QED
    BY <1>1, <1>4 DEF Contract!Next

\* A committed create is a sale.
LEMMA BuyStep ==
  ASSUME IInv, FreshCopies, NEW p \in Procs, NEW no \in OrderNos,
         createOrderWithDB_Write(p, no) \/ createOrderWithRedis_Write(p, no)
  PROVE  Contract!Next
  <1> DEFINE u == tx[p].user
  <1>1. /\ u \in Users
        /\ orders[no] = NoOrder /\ ~HasActivityOrder(u)
        /\ orders' = [orders EXCEPT ![no] = [user |-> u, status |-> "QUEUED"]]
        /\ UNCHANGED payments
    BY DEF createOrderWithDB_Write, createOrderWithRedis_Write, IInv, CopiesOK
  <1>2. activity.stock > 0 /\ activity'.stock = activity.stock - 1
    <2>1. CASE createOrderWithDB_Write(p, no)
      <3>1. tx[p].act = activity /\ tx[p].act.stock > 0
        BY <2>1 DEF createOrderWithDB_Write, FreshCopies, Open, Transactions,
                    IInv, CopiesOK
      <3> QED
        BY <2>1, <3>1 DEF createOrderWithDB_Write, IInv, TypeOK, ActivityRow
    <2>2. CASE createOrderWithRedis_Write(p, no)
      BY <2>2 DEF createOrderWithRedis_Write, IInv, TypeOK, ActivityRow
    <2> QED
      BY <2>1, <2>2
  <1>3. Contract!Buy(u, no)
    BY <1>1, <1>2 DEF Contract!Buy, HasActivityOrder, NoOrder
  <1> QED
    BY <1>1, <1>3 DEF Contract!Next

\* One connection keeps copies fresh, and every step is a step of the contract.
LEMMA SingleStep ==
  ASSUME MaxOpenConns = 1, StatusEdits = {}, IInv, FreshCopies, [Next]_vars
  PROVE  FreshCopies' /\ [Contract!Next]_(Contract!vars)
  <1> USE DEF Contract!vars
  <1>t. /\ activity \in ActivityRow /\ activity.stock \in Int
        /\ orders \in [OrderNos -> OrderRow]
        /\ tx \in [Procs -> TxState]
    BY DEF IInv, TypeOK, ActivityRow
  <1>0. CASE UNCHANGED vars
    BY <1>0 DEF vars, FreshCopies, Open
  <1>1. ASSUME NEW p \in Procs, NEW u \in Users, createOrderWithDB_Read(p, u)
        PROVE  FreshCopies' /\ UNCHANGED rows
    <2> DEFINE t == [Idle EXCEPT !.op = "create", !.user = u, !.act = activity]
    <2>1. t.op = "create" /\ t.act = activity
      BY DEF Idle
    <2>2. tx' = [tx EXCEPT ![p] = t] /\ UNCHANGED rows /\ ConnFree
      BY <1>1 DEF createOrderWithDB_Read, Free
    <2> HIDE DEF t
    <2> QED
      BY <2>1, <2>2, FreshRead
  <1>2. ASSUME NEW p \in Procs, NEW no \in OrderNos,
               createOrderWithDB_Write(p, no) \/ createOrderWithRedis_Write(p, no)
        PROVE  FreshCopies' /\ Contract!Next
    <2>1. Done(p) /\ tx[p].op \in Transactions
      BY <1>2 DEF createOrderWithDB_Write, createOrderWithRedis_Write, Transactions
    <2> QED
      BY <1>2, <2>1, FreshDone, BuyStep
  <1>3. ASSUME NEW p \in Procs, NEW u \in Users, createOrderWithRedis_Reserve(p, u)
        PROVE  FreshCopies' /\ UNCHANGED rows
    <2> DEFINE t == [Idle EXCEPT !.op = "reserved", !.user = u]
    <2>1. t.op = "reserved"
      BY DEF Idle
    <2>2. tx' = [tx EXCEPT ![p] = t] /\ UNCHANGED rows /\ ConnFree
      BY <1>3 DEF createOrderWithRedis_Reserve, Free
    <2> HIDE DEF t
    <2> QED
      BY <2>1, <2>2, FreshRead
  <1>4. ASSUME NEW p \in Procs, createOrderWithRedis_Read(p)
        PROVE  FreshCopies' /\ UNCHANGED rows
    <2> DEFINE t == [tx[p] EXCEPT !.op = "createRedis"]
    <2>1. t.op = "createRedis"
      BY <1>t DEF TxState
    <2>2. tx' = [tx EXCEPT ![p] = t] /\ UNCHANGED rows /\ ConnFree
      BY <1>4 DEF createOrderWithRedis_Read
    <2> HIDE DEF t
    <2> QED
      BY <2>1, <2>2, FreshRead
  <1>5. ASSUME NEW p \in Procs, NEW no \in OrderNos,
               \/ \E u \in Users : CancelOrder_Read(p, u, no)
               \/ ExpireOrders_Read(p, no)
               \/ CompensateClose_Read(p, no)
        PROVE  FreshCopies' /\ UNCHANGED rows
    <2>1. PICK op \in {"cancel", "expire", "close"} :
              /\ ReadOrderAndActivity(p, op, no)
              /\ orders[no].status \in Cancellable
              /\ op = "close" => orders[no].status = "WAIT_PAY"
      BY <1>5 DEF CancelOrder_Read, ExpireOrders_Read, CompensateClose_Read, Cancellable
    <2> DEFINE t == [Idle EXCEPT !.op = op, !.no = no, !.act = activity,
                                 !.row = orders[no]]
    <2>2. t.op = op /\ t.act = activity /\ t.no = no /\ t.row = orders[no]
      BY DEF Idle
    <2>3. tx' = [tx EXCEPT ![p] = t] /\ UNCHANGED rows /\ ConnFree
      BY <1>5, <2>1 DEF CancelOrder_Read, ExpireOrders_Read, CompensateClose_Read,
                        ReadOrderAndActivity, Free
    <2> HIDE DEF t
    <2> QED
      BY <2>1, <2>2, <2>3, FreshRead
  <1>6. ASSUME NEW p \in Procs,
               CancelOrder_Write(p) \/ ExpireOrders_Write(p) \/ CompensateClose_Write(p)
        PROVE  FreshCopies' /\ Contract!Next
    <2>1. /\ tx[p].op \in {"cancel", "expire", "close"}
          /\ restoreStock(p) /\ Done(p) /\ UNCHANGED payments
          /\ SaveOrder(p, "CANCELLED") \/ SaveOrder(p, "CLOSED")
      BY <1>6 DEF CancelOrder_Write, ExpireOrders_Write, CompensateClose_Write
    <2>2. tx[p].op \in Transactions
      BY <2>1 DEF Transactions
    <2> QED
      BY <2>1, <2>2, FreshDone, GiveUpStep
  <1>7. ASSUME NEW p \in Procs, NEW no \in OrderNos, processOrderCreated_Read(p, no)
        PROVE  FreshCopies' /\ UNCHANGED rows
    <2> DEFINE t == [Idle EXCEPT !.op = "confirm", !.no = no, !.row = orders[no]]
    <2>1. t.op = "confirm" /\ t.no = no /\ t.row = orders[no]
      BY DEF Idle
    <2>2. /\ tx' = [tx EXCEPT ![p] = t] /\ UNCHANGED rows /\ ConnFree
          /\ orders[no].status = "QUEUED"
      BY <1>7 DEF processOrderCreated_Read, Free
    <2> HIDE DEF t
    <2> QED
      BY <2>1, <2>2, FreshRead
  <1>8. ASSUME NEW p \in Procs, processOrderCreated_Write(p)
        PROVE  FreshCopies' /\ Contract!Next
    <2> DEFINE no == tx[p].no
    <2>1. tx[p].op = "confirm" /\ Done(p) /\ tx[p].op \in Transactions
      BY <1>8 DEF processOrderCreated_Write, Transactions
    <2>2. /\ no \in OrderNos /\ tx[p].row = orders[no]
          /\ orders[no].status = "QUEUED"
      BY <2>1 DEF FreshCopies, Open, IInv, CopiesOK
    <2>3. orders' = [orders EXCEPT ![no].status = "WAIT_PAY"]
      BY <1>8, <2>2, <1>t DEF processOrderCreated_Write, SaveOrder, OrderRow
    <2>4. Contract!Confirm(no)
      BY <1>8, <2>2, <2>3 DEF processOrderCreated_Write, Contract!Confirm
    <2> QED
      BY <2>1, <2>2, <2>4, FreshDone DEF Contract!Next
  <1>9. ASSUME NEW p \in Procs, NEW r \in TransactionNos, NEW no \in OrderNos,
               NEW s \in {"SUCCESS", "FAILED"}, PaymentCallback_Read(p, r, no, s)
        PROVE  FreshCopies' /\ UNCHANGED rows
    <2> DEFINE t == [Idle EXCEPT !.op = "pay", !.no = no, !.txn = r,
                                 !.arg = s, !.row = orders[no]]
    <2>1. t.op = "pay" /\ t.no = no /\ t.arg = s /\ t.row = orders[no]
      BY DEF Idle
    <2>2. /\ tx' = [tx EXCEPT ![p] = t] /\ UNCHANGED rows /\ ConnFree
          /\ s = "SUCCESS" => orders[no].status = "WAIT_PAY"
      BY <1>9 DEF PaymentCallback_Read, Free
    <2> HIDE DEF t
    <2> QED
      BY <2>1, <2>2, FreshRead
  <1>10. ASSUME NEW p \in Procs, PaymentCallback_Write(p)
         PROVE  FreshCopies' /\ Contract!Next
    <2> DEFINE no == tx[p].no
               r == tx[p].txn
    <2>1. tx[p].op = "pay" /\ Done(p) /\ tx[p].op \in Transactions
      BY <1>10 DEF PaymentCallback_Write, Transactions
    <2>2. /\ no \in OrderNos /\ r \in TransactionNos
          /\ tx[p].arg \in {"SUCCESS", "FAILED"}
          /\ tx[p].row = orders[no] /\ orders[no].user \in Users
          /\ tx[p].arg = "SUCCESS" => orders[no].status = "WAIT_PAY"
      BY <2>1 DEF FreshCopies, Open, IInv, CopiesOK
    <2>3. orders[no].status # "NONE"
      BY <2>2, OrderTxAssumption DEF IInv, BuyersOK
    <2>4. payments[r].status = "NONE"
      BY <1>10 DEF PaymentCallback_Write, NoPayment
    <2>5. CASE tx[p].arg = "SUCCESS"
      <3>1. orders' = [orders EXCEPT ![no].status = "PAID"]
        BY <1>10, <2>2, <2>5, <1>t DEF PaymentCallback_Write, SaveOrder, OrderRow
      <3>2. Contract!Pay(no, r)
        BY <1>10, <2>2, <2>4, <2>5, <3>1 DEF PaymentCallback_Write, Contract!Pay
      <3> QED
        BY <2>1, <2>2, <3>2, FreshDone DEF Contract!Next
    <2>6. CASE tx[p].arg = "FAILED"
      <3>1. Contract!RecordFailure(no, r)
        BY <1>10, <2>3, <2>4, <2>6 DEF PaymentCallback_Write, Contract!RecordFailure
      <3> QED
        BY <2>1, <2>2, <3>1, FreshDone DEF Contract!Next
    <2> QED
      BY <2>2, <2>5, <2>6
  <1>11. ASSUME NEW p \in Procs, CompensateEnd_Read(p)
         PROVE  FreshCopies' /\ UNCHANGED rows
    <2> DEFINE t == [Idle EXCEPT !.op = "end", !.act = activity]
    <2>1. t.op = "end" /\ t.act = activity
      BY DEF Idle
    <2>2. tx' = [tx EXCEPT ![p] = t] /\ UNCHANGED rows /\ ConnFree
      BY <1>11 DEF CompensateEnd_Read, Free
    <2> HIDE DEF t
    <2> QED
      BY <2>1, <2>2, FreshRead
  <1>12. ASSUME NEW p \in Procs, CompensateEnd_Write(p)
         PROVE  FreshCopies' /\ UNCHANGED <<activity.stock, orders, payments>>
    <2>1. tx[p].op = "end" /\ Done(p) /\ tx[p].op \in Transactions
      BY <1>12 DEF CompensateEnd_Write, Transactions
    <2>2. tx[p].act = activity
      BY <2>1 DEF FreshCopies, Open
    <2>3. activity'.stock = activity.stock /\ UNCHANGED <<orders, payments>>
      BY <1>12, <2>2, <1>t DEF CompensateEnd_Write, ActivityRow
    <2> QED
      BY <2>1, <2>3, FreshDone
  <1>13. ASSUME NEW p \in Procs, UpdateActivityStatus_Save(p)
         PROVE  FALSE
    BY <1>13 DEF UpdateActivityStatus_Save, FreshCopies
  <1>14. ASSUME NEW p \in Procs, Rollback(p)
         PROVE  FreshCopies' /\ UNCHANGED rows
    BY <1>14, FreshDone DEF Rollback
  <1>15. ASSUME EndAtPasses
         PROVE  FreshCopies' /\ UNCHANGED rows
    BY <1>15 DEF EndAtPasses, rows, FreshCopies, Open
  <1>16. ASSUME UNCHANGED rows
         PROVE  UNCHANGED <<activity.stock, orders, payments>>
    BY <1>16 DEF rows
  <1>17. CASE Next
    <2>1. FreshCopies' /\ (Contract!Next \/ UNCHANGED <<activity.stock, orders, payments>>)
      BY <1>1, <1>2, <1>3, <1>4, <1>5, <1>6, <1>7, <1>8, <1>9, <1>10, <1>11, <1>12,
         <1>13, <1>14, <1>15, <1>16, <1>17 DEF Next
    <2> QED
      BY <2>1
  <1> QED
    BY <1>0, <1>17

LEMMA InitSingle ==
  Init => FreshCopies /\ StockConserved /\ PaidOnce /\ Contract!Init
  <1> SUFFICES ASSUME Init
               PROVE  FreshCopies /\ StockConserved /\ PaidOnce /\ Contract!Init
    OBVIOUS
  <1> USE OrderTxAssumption DEF Init
  <1>1. FreshCopies
    BY DEF FreshCopies, Open, Idle, Transactions
  <1>2. StockConserved
    <2>1. LiveOrders = {}
      BY DEF LiveOrders, NoOrder
    <2>2. activity.stock = Stock0
      OBVIOUS
    <2> QED
      BY <2>1, <2>2, FS_EmptySet DEF StockConserved
  <1>3. PaidOnce
    BY DEF PaidOnce, NoOrder, NoPayment
  <1>4. Contract!Init
    BY DEF Contract!Init, NoOrder, NoPayment
  <1> QED
    BY <1>1, <1>2, <1>3, <1>4

\* A step of the contract takes a unit exactly when an order becomes live and
\* returns it exactly when a live order is given up.
LEMMA ConservedStep ==
  ASSUME IInv, IInv', StockConserved, [Contract!Next]_(Contract!vars)
  PROVE  StockConserved'
  <1> USE DEF Contract!vars
  <1>t. /\ orders \in [OrderNos -> OrderRow] /\ activity.stock \in Int
        /\ Stock0 \in Nat
    BY OrderTxAssumption DEF IInv, TypeOK, ActivityRow
  <1>f. IsFiniteSet(LiveOrders) /\ Cardinality(LiveOrders) \in Nat
    BY OrderTxAssumption, FS_Subset, FS_CardinalityType DEF LiveOrders
  <1>0. ASSUME activity'.stock = activity.stock, LiveOrders' = LiveOrders
        PROVE  StockConserved'
    BY <1>0 DEF StockConserved
  <1>1. CASE UNCHANGED <<activity.stock, orders, payments>>
    BY <1>1, <1>0 DEF LiveOrders
  <1>2. ASSUME NEW no \in OrderNos, NEW u \in Users, Contract!Buy(u, no)
        PROVE  StockConserved'
    <2>1. no \notin LiveOrders /\ LiveOrders' = LiveOrders \cup {no}
      BY <1>2, <1>t DEF Contract!Buy, LiveOrders
    <2>2. Cardinality(LiveOrders') = Cardinality(LiveOrders) + 1
      BY <2>1, <1>f, FS_AddElement
    <2> QED
      BY <1>2, <2>2, <1>f, <1>t DEF Contract!Buy, StockConserved
  <1>3. ASSUME NEW no \in OrderNos, Contract!GiveUp(no)
        PROVE  StockConserved'
    <2>1. no \in LiveOrders /\ LiveOrders' = LiveOrders \ {no}
      BY <1>3, <1>t DEF Contract!GiveUp, LiveOrders
    <2>2. Cardinality(LiveOrders') = Cardinality(LiveOrders) - 1
      BY <2>1, <1>f, FS_RemoveElement
    <2> QED
      BY <1>3, <2>2, <1>f, <1>t DEF Contract!GiveUp, StockConserved
  <1>4. ASSUME NEW no \in OrderNos, NEW t \in TransactionNos,
               Contract!Pay(no, t) \/ Contract!RecordFailure(no, t)
        PROVE  StockConserved'
    <2>1. activity'.stock = activity.stock
      BY <1>4 DEF Contract!Pay, Contract!RecordFailure
    <2>2. CASE Contract!Pay(no, t)
      <3>1. LiveOrders' = LiveOrders
        BY <2>2, <1>t DEF Contract!Pay, LiveOrders
      <3> QED
        BY <2>1, <3>1, <1>0
    <2>3. CASE Contract!RecordFailure(no, t)
      BY <2>1, <2>3, <1>0 DEF Contract!RecordFailure, LiveOrders
    <2> QED
      BY <1>4, <2>2, <2>3
  <1>5. ASSUME NEW no \in OrderNos, Contract!Confirm(no)
        PROVE  StockConserved'
    BY <1>5, <1>0, <1>t DEF Contract!Confirm, LiveOrders
  <1> QED
    BY <1>1, <1>2, <1>3, <1>4, <1>5 DEF Contract!Next

\* The receipts of one order, as PaidOnce counts them.
Receipts(no) ==
    {t \in TransactionNos : payments[t] = [no |-> no, status |-> "SUCCESS"]}

\* A step of the contract pays an order once, and what is paid stays paid.
LEMMA PaidOnceStep ==
  ASSUME IInv, PaidOnce, [Contract!Next]_(Contract!vars)
  PROVE  PaidOnce'
  <1> USE DEF Contract!vars
  <1>t. /\ orders \in [OrderNos -> OrderRow]
        /\ payments \in [TransactionNos -> PaymentRow]
    BY DEF IInv, TypeOK
  <1>p. \A m \in OrderNos :
            /\ orders[m].status = "PAID" => \E t \in Receipts(m) : Receipts(m) = {t}
            /\ orders[m].status # "PAID" => Receipts(m) = {}
    BY DEF PaidOnce, Receipts
  <1> SUFFICES ASSUME NEW m \in OrderNos
               PROVE  /\ orders'[m].status = "PAID" =>
                             \E t \in Receipts(m)' : Receipts(m)' = {t}
                      /\ orders'[m].status # "PAID" => Receipts(m)' = {}
    BY DEF PaidOnce, Receipts
  <1> DEFINE Goal == /\ orders'[m].status = "PAID" =>
                            \E t \in Receipts(m)' : Receipts(m)' = {t}
                     /\ orders'[m].status # "PAID" => Receipts(m)' = {}
  <1>0. ASSUME Receipts(m)' = Receipts(m),
               orders'[m].status = "PAID" <=> orders[m].status = "PAID"
        PROVE  Goal
    BY <1>0, <1>p
  <1>1. CASE UNCHANGED <<activity.stock, orders, payments>>
    BY <1>1, <1>0 DEF Receipts
  <1>2. ASSUME NEW no \in OrderNos, NEW u \in Users, Contract!Buy(u, no)
        PROVE  Goal
    BY <1>2, <1>0, <1>t DEF Contract!Buy, Receipts
  <1>3. ASSUME NEW no \in OrderNos, Contract!GiveUp(no)
        PROVE  Goal
    BY <1>3, <1>0, <1>t DEF Contract!GiveUp, Receipts
  <1>4. ASSUME NEW no \in OrderNos, Contract!Confirm(no)
        PROVE  Goal
    BY <1>4, <1>0, <1>t DEF Contract!Confirm, Receipts
  <1>5. ASSUME NEW no \in OrderNos, NEW t \in TransactionNos,
               Contract!RecordFailure(no, t)
        PROVE  Goal
    <2>1. Receipts(m)' = Receipts(m)
      BY <1>5, <1>t DEF Contract!RecordFailure, Receipts, PaymentRow
    <2> QED
      BY <1>5, <2>1, <1>0 DEF Contract!RecordFailure
  <1>6. ASSUME NEW no \in OrderNos, NEW t \in TransactionNos, Contract!Pay(no, t)
        PROVE  Goal
    <2>1. CASE m = no
      <3>1. Receipts(m) = {}
        BY <1>6, <2>1, <1>p DEF Contract!Pay
      <3>2. Receipts(m)' = {t}
        BY <1>6, <2>1, <3>1, <1>t DEF Contract!Pay, Receipts
      <3>3. orders'[m].status = "PAID"
        BY <1>6, <2>1, <1>t DEF Contract!Pay, OrderRow
      <3> QED
        BY <3>2, <3>3
    <2>2. CASE m # no
      <3>1. Receipts(m)' = Receipts(m)
        BY <1>6, <2>2, <1>t DEF Contract!Pay, Receipts, PaymentRow
      <3> QED
        BY <1>6, <2>2, <3>1, <1>0, <1>t DEF Contract!Pay
    <2> QED
      BY <2>1, <2>2
  <1> QED
    BY <1>1, <1>2, <1>3, <1>4, <1>5, <1>6 DEF Contract!Next

\* On one connection (SQLite), without edits by an administrator, the stock
\* column and the live orders always add up to the initial stock.
THEOREM StockConservedHolds ==
  ASSUME MaxOpenConns = 1, StatusEdits = {}
  PROVE  Spec => []StockConserved
  <1>1. /\ IInv /\ IInv' /\ FreshCopies /\ StockConserved /\ [Next]_vars
        => FreshCopies' /\ StockConserved'
    BY SingleStep, ConservedStep
  <1> QED
    BY <1>1, InitSingle, IInvHolds, PTL DEF Spec

\* On one connection, without edits, an order is PAID by exactly one SUCCESS
\* callback, and no other order has one.
THEOREM PaidOnceHolds ==
  ASSUME MaxOpenConns = 1, StatusEdits = {}
  PROVE  Spec => []PaidOnce
  <1>1. IInv /\ FreshCopies /\ PaidOnce /\ [Next]_vars => FreshCopies' /\ PaidOnce'
    BY SingleStep, PaidOnceStep
  <1> QED
    BY <1>1, InitSingle, IInvHolds, PTL DEF Spec

\* On one connection, without edits, the service implements the abstract
\* promotion: every committed transaction is one of its steps.
THEOREM ImplementsPromotionHolds ==
  ASSUME MaxOpenConns = 1, StatusEdits = {}
  PROVE  Spec => ImplementsPromotion
  <1>1. IInv /\ FreshCopies /\ [Next]_vars
        => FreshCopies' /\ [Contract!Next]_(Contract!vars)
    BY SingleStep
  <1> QED
    BY <1>1, InitSingle, IInvHolds, PTL DEF Spec, ImplementsPromotion, Contract!Spec

-----------------------------------------------------------------------------
(* One connection, the activity only taken off sale *)

\* At most one transaction is open; the activity it will save is still what is
\* there, and a sale under way was admitted while the activity was on sale.
FreshActivity ==
    /\ \A p \in Procs : tx[p].op = "edit" => tx[p].arg \in {"OFFLINE", "ENDED"}
    /\ \A p, q \in Open : p = q
    /\ \A p \in Open :
        /\ tx[p].op \in {"create", "cancel", "expire", "close"} => tx[p].act = activity
        /\ tx[p].op = "create" => Published(activity)

\* What a request takes when it starts on the free connection.
LEMMA StartStep ==
  ASSUME MaxOpenConns = 1, IInv, FreshActivity, ConnFree,
         NEW p \in Procs, NEW t, tx' = [tx EXCEPT ![p] = t], UNCHANGED rows,
         t.op = "edit" => t.arg \in {"OFFLINE", "ENDED"},
         t.op \in {"create", "cancel", "expire", "close"} => t.act = activity,
         t.op = "create" => Published(activity)
  PROVE  FreshActivity'
  <1>1. Open = {}
    BY FreeMeansNoneOpen
  <1>2. \A q \in Procs : tx'[q] = IF q = p THEN t ELSE tx[q]
    BY DEF IInv, TypeOK
  <1>3. Open' \subseteq {p} /\ activity' = activity
    BY <1>1, <1>2 DEF Open, rows
  <1> QED
    BY <1>2, <1>3 DEF FreshActivity, Published

\* After a commit or a rollback no transaction is open.
LEMMA EndStep ==
  ASSUME IInv, FreshActivity, NEW p \in Procs, Done(p),
         \/ tx[p].op \in Transactions
         \/ Open = {}
         \/ UNCHANGED rows
  PROVE  FreshActivity'
  <1>1. \A q \in Procs : tx'[q] = IF q = p THEN Idle ELSE tx[q]
    BY DEF Done, IInv, TypeOK
  <1>2. Idle.op = "idle"
    BY DEF Idle
  <1>3. Open' = Open \ {p}
    BY <1>1, <1>2 DEF Open, Transactions
  <1>4. \A q \in Procs : tx'[q].op = "edit" => tx'[q].arg \in {"OFFLINE", "ENDED"}
    BY <1>1, <1>2 DEF FreshActivity
  <1>5. CASE tx[p].op \in Transactions \/ Open = {}
    <2>1. Open' = {}
      BY <1>3, <1>5 DEF FreshActivity, Open
    <2> QED
      BY <2>1, <1>4 DEF FreshActivity
  <1>6. CASE UNCHANGED rows
    <2>1. activity' = activity /\ \A q \in Open' : q \in Open /\ tx'[q] = tx[q]
      BY <1>1, <1>3, <1>6 DEF Open, rows
    <2> QED
      BY <2>1, <1>4 DEF FreshActivity, Published
  <1> QED
    BY <1>5, <1>6

\* Off sale, what a step may do.
StaysOff ==
    ~Published(activity) =>
        /\ ~Published(activity')
        /\ \A no \in OrderNos : orders[no] = NoOrder => orders'[no] = NoOrder

LEMMA OfflineStep ==
  ASSUME MaxOpenConns = 1, StatusEdits \subseteq {"OFFLINE", "ENDED"},
         IInv, FreshActivity, [Next]_vars
  PROVE  FreshActivity' /\ StaysOff
  <1>t. activity \in ActivityRow /\ tx \in [Procs -> TxState]
    BY DEF IInv, TypeOK
  <1>r. ASSUME UNCHANGED rows PROVE StaysOff
    BY <1>r DEF rows, StaysOff
  <1>0. CASE UNCHANGED vars
    BY <1>0, <1>r DEF vars, rows, FreshActivity, Open, Published
  <1>1. ASSUME NEW p \in Procs, NEW u \in Users, createOrderWithDB_Read(p, u)
        PROVE  FreshActivity' /\ StaysOff
    <2> DEFINE t == [Idle EXCEPT !.op = "create", !.user = u, !.act = activity]
    <2>1. t.op = "create" /\ t.act = activity
      BY DEF Idle
    <2>2. /\ tx' = [tx EXCEPT ![p] = t] /\ UNCHANGED rows /\ ConnFree
          /\ Published(activity)
      BY <1>1 DEF createOrderWithDB_Read, Free, ensureActivityOrderable
    <2> HIDE DEF t
    <2> QED
      BY <2>1, <2>2, <1>r, StartStep
  <1>2. ASSUME NEW p \in Procs, NEW no \in OrderNos,
               createOrderWithDB_Write(p, no) \/ createOrderWithRedis_Write(p, no)
        PROVE  FreshActivity' /\ StaysOff
    <2>1. Done(p) /\ tx[p].op \in Transactions
      BY <1>2 DEF createOrderWithDB_Write, createOrderWithRedis_Write, Transactions
    <2>2. Published(activity)
      BY <1>2, <2>1 DEF createOrderWithDB_Write, createOrderWithRedis_Write, FreshActivity, Open
    <2> QED
      BY <2>1, <2>2, EndStep DEF StaysOff
  <1>3. ASSUME NEW p \in Procs, NEW u \in Users, createOrderWithRedis_Reserve(p, u)
        PROVE  FreshActivity' /\ StaysOff
    <2> DEFINE t == [Idle EXCEPT !.op = "reserved", !.user = u]
    <2>1. t.op = "reserved"
      BY DEF Idle
    <2>2. tx' = [tx EXCEPT ![p] = t] /\ UNCHANGED rows /\ ConnFree
      BY <1>3 DEF createOrderWithRedis_Reserve, Free
    <2> HIDE DEF t
    <2> QED
      BY <2>1, <2>2, <1>r, StartStep
  <1>4. ASSUME NEW p \in Procs, createOrderWithRedis_Read(p)
        PROVE  FreshActivity' /\ StaysOff
    <2> DEFINE t == [tx[p] EXCEPT !.op = "createRedis"]
    <2>1. t.op = "createRedis"
      BY <1>t DEF TxState
    <2>2. tx' = [tx EXCEPT ![p] = t] /\ UNCHANGED rows /\ ConnFree
      BY <1>4 DEF createOrderWithRedis_Read
    <2> HIDE DEF t
    <2> QED
      BY <2>1, <2>2, <1>r, StartStep
  <1>5. ASSUME NEW p \in Procs, NEW no \in OrderNos,
               \/ \E u \in Users : CancelOrder_Read(p, u, no)
               \/ ExpireOrders_Read(p, no)
               \/ CompensateClose_Read(p, no)
        PROVE  FreshActivity' /\ StaysOff
    <2>1. PICK op \in {"cancel", "expire", "close"} : ReadOrderAndActivity(p, op, no)
      BY <1>5 DEF CancelOrder_Read, ExpireOrders_Read, CompensateClose_Read
    <2> DEFINE t == [Idle EXCEPT !.op = op, !.no = no, !.act = activity,
                                 !.row = orders[no]]
    <2>2. t.op = op /\ t.act = activity
      BY DEF Idle
    <2>3. tx' = [tx EXCEPT ![p] = t] /\ UNCHANGED rows /\ ConnFree
      BY <1>5, <2>1 DEF CancelOrder_Read, ExpireOrders_Read, CompensateClose_Read,
                        ReadOrderAndActivity, Free
    <2> HIDE DEF t
    <2> QED
      BY <2>2, <2>3, <1>r, StartStep
  <1>6. ASSUME NEW p \in Procs, NEW no \in OrderNos, processOrderCreated_Read(p, no)
        PROVE  FreshActivity' /\ StaysOff
    <2> DEFINE t == [Idle EXCEPT !.op = "confirm", !.no = no, !.row = orders[no]]
    <2>1. t.op = "confirm"
      BY DEF Idle
    <2>2. tx' = [tx EXCEPT ![p] = t] /\ UNCHANGED rows /\ ConnFree
      BY <1>6 DEF processOrderCreated_Read, Free
    <2> HIDE DEF t
    <2> QED
      BY <2>1, <2>2, <1>r, StartStep
  <1>7. ASSUME NEW p \in Procs, NEW r \in TransactionNos, NEW no \in OrderNos,
               NEW s \in {"SUCCESS", "FAILED"}, PaymentCallback_Read(p, r, no, s)
        PROVE  FreshActivity' /\ StaysOff
    <2> DEFINE t == [Idle EXCEPT !.op = "pay", !.no = no, !.txn = r,
                                 !.arg = s, !.row = orders[no]]
    <2>1. t.op = "pay"
      BY DEF Idle
    <2>2. tx' = [tx EXCEPT ![p] = t] /\ UNCHANGED rows /\ ConnFree
      BY <1>7 DEF PaymentCallback_Read, Free
    <2> HIDE DEF t
    <2> QED
      BY <2>1, <2>2, <1>r, StartStep
  <1>8. ASSUME NEW p \in Procs, CompensateEnd_Read(p)
        PROVE  FreshActivity' /\ StaysOff
    <2> DEFINE t == [Idle EXCEPT !.op = "end", !.act = activity]
    <2>1. t.op = "end"
      BY DEF Idle
    <2>2. tx' = [tx EXCEPT ![p] = t] /\ UNCHANGED rows /\ ConnFree
      BY <1>8 DEF CompensateEnd_Read, Free
    <2> HIDE DEF t
    <2> QED
      BY <2>1, <2>2, <1>r, StartStep
  <1>9. ASSUME NEW p \in Procs, NEW status \in StatusEdits,
               UpdateActivityStatus_Read(p, status)
        PROVE  FreshActivity' /\ StaysOff
    <2> DEFINE t == [Idle EXCEPT !.op = "edit", !.arg = status, !.act = activity]
    <2>1. t.op = "edit" /\ t.arg = status
      BY DEF Idle
    <2>2. tx' = [tx EXCEPT ![p] = t] /\ UNCHANGED rows /\ ConnFree
      BY <1>9 DEF UpdateActivityStatus_Read, Free
    <2> HIDE DEF t
    <2> QED
      BY <2>1, <2>2, <1>r, StartStep
  <1>s. ASSUME NEW p \in Procs, NEW status, SaveOrder(p, status),
               tx[p].op \in {"cancel", "expire", "close", "confirm", "pay"}
        PROVE  \A no \in OrderNos : orders[no] = NoOrder => orders'[no] = NoOrder
    <2>1. tx[p].no \in OrderNos /\ orders[tx[p].no].user \in Users
      BY <1>s DEF IInv, CopiesOK
    <2>2. \A no \in OrderNos : orders[no] = NoOrder => no # tx[p].no
      BY <2>1, OrderTxAssumption DEF NoOrder
    <2> QED
      BY <1>s, <2>1, <2>2 DEF SaveOrder, IInv, TypeOK
  <1>10. ASSUME NEW p \in Procs,
                CancelOrder_Write(p) \/ ExpireOrders_Write(p) \/ CompensateClose_Write(p)
         PROVE  FreshActivity' /\ StaysOff
    <2>1. /\ tx[p].op \in {"cancel", "expire", "close"} /\ restoreStock(p) /\ Done(p)
          /\ SaveOrder(p, "CANCELLED") \/ SaveOrder(p, "CLOSED")
      BY <1>10 DEF CancelOrder_Write, ExpireOrders_Write, CompensateClose_Write
    <2>2. tx[p].op \in Transactions /\ tx[p].act = activity
      BY <2>1 DEF Transactions, FreshActivity, Open
    <2>3. activity'.status = activity.status
      BY <2>1, <2>2, <1>t DEF restoreStock, ActivityRow
    <2> QED
      BY <2>1, <2>2, <2>3, <1>s, EndStep DEF StaysOff, Published
  <1>11. ASSUME NEW p \in Procs, processOrderCreated_Write(p) \/ PaymentCallback_Write(p)
         PROVE  FreshActivity' /\ StaysOff
    <2>1. /\ tx[p].op \in {"confirm", "pay"} /\ Done(p) /\ activity' = activity
          /\ orders' = orders \/ SaveOrder(p, "WAIT_PAY") \/ SaveOrder(p, "PAID")
      BY <1>11 DEF processOrderCreated_Write, PaymentCallback_Write
    <2>2. tx[p].op \in Transactions
      BY <2>1 DEF Transactions
    <2> QED
      BY <2>1, <2>2, <1>s, EndStep DEF StaysOff
  <1>12. ASSUME NEW p \in Procs, CompensateEnd_Write(p)
         PROVE  FreshActivity' /\ StaysOff
    <2>1. /\ Done(p) /\ tx[p].op \in Transactions /\ orders' = orders
          /\ activity' = [tx[p].act EXCEPT !.status = "ENDED"]
      BY <1>12 DEF CompensateEnd_Write, Transactions
    <2>2. activity'.status = "ENDED"
      BY <2>1, <1>t DEF TxState, ActivityRow
    <2> QED
      BY <2>1, <2>2, EndStep DEF StaysOff, Published
  <1>13. ASSUME NEW p \in Procs, UpdateActivityStatus_Save(p)
         PROVE  FreshActivity' /\ StaysOff
    <2>1. /\ Done(p) /\ Open = {} /\ orders' = orders
          /\ activity' = [tx[p].act EXCEPT !.status = tx[p].arg]
          /\ tx[p].arg \in {"OFFLINE", "ENDED"}
      BY <1>13, FreeMeansNoneOpen DEF UpdateActivityStatus_Save, FreshActivity
    <2>2. activity'.status = tx[p].arg
      BY <2>1, <1>t DEF TxState, ActivityRow
    <2> QED
      BY <2>1, <2>2, EndStep DEF StaysOff, Published
  <1>14. ASSUME NEW p \in Procs, Rollback(p)
         PROVE  FreshActivity' /\ StaysOff
    BY <1>14, <1>r, EndStep DEF Rollback
  <1>15. CASE EndAtPasses
    BY <1>15, <1>r DEF EndAtPasses, rows, FreshActivity, Open, Published
  <1> QED
    BY <1>0, <1>1, <1>2, <1>3, <1>4, <1>5, <1>6, <1>7, <1>8, <1>9, <1>10, <1>11,
       <1>12, <1>13, <1>14, <1>15 DEF Next

\* On one connection an activity that administrators only take off sale stays off
\* sale and sells nothing more: with Redis and without, no sale, cancellation,
\* expiry or compensation saves an older copy over it.
THEOREM OfflineSellsNothingHolds ==
  ASSUME MaxOpenConns = 1, StatusEdits \subseteq {"OFFLINE", "ENDED"}
  PROVE  Spec => OfflineSellsNothing
  <1>1. Init => FreshActivity
    BY DEF Init, FreshActivity, Open, Idle, Transactions
  <1>2. IInv /\ FreshActivity /\ [Next]_vars => FreshActivity' /\ [StaysOff]_vars
    BY OfflineStep
  <1> QED
    BY <1>1, <1>2, IInvHolds, PTL DEF Spec, OfflineSellsNothing, StaysOff
=============================================================================
