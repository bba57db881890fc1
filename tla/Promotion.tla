----------------------------- MODULE Promotion -----------------------------
(***************************************************************************)
(* What one limited-stock activity promises its buyers, independent of how *)
(* the service stores it: every sale takes one unit and a user buys at     *)
(* most once, an abandoned order gives its unit back exactly once, and a   *)
(* successful payment is accepted exactly once and only for an order that  *)
(* waits for it.  OrderTx, the transactions the service runs against its   *)
(* database, is shown to implement this specification.                     *)
(***************************************************************************)
EXTENDS Integers

CONSTANTS Users, OrderNos, TransactionNos, Stock0, None

VARIABLES
    stock,      \* units left, the stock column of the activity row
    orders,     \* orders[no] = [user, status]; status "NONE" before creation
    payments    \* payments[t] = [no, status]; status "NONE" before a callback

vars == <<stock, orders, payments>>

Init ==
    /\ stock = Stock0
    /\ orders = [no \in OrderNos |-> [user |-> None, status |-> "NONE"]]
    /\ payments = [t \in TransactionNos |-> [no |-> None, status |-> "NONE"]]

Buy(u, no) ==
    /\ stock > 0
    /\ orders[no].status = "NONE"
    /\ \A other \in OrderNos : orders[other].user # u
    /\ stock' = stock - 1
    /\ orders' = [orders EXCEPT ![no] = [user |-> u, status |-> "QUEUED"]]
    /\ UNCHANGED payments

\* The asynchronous worker confirms the order.
Confirm(no) ==
    /\ orders[no].status = "QUEUED"
    /\ orders' = [orders EXCEPT ![no].status = "WAIT_PAY"]
    /\ UNCHANGED <<stock, payments>>

Pay(no, t) ==
    /\ orders[no].status = "WAIT_PAY"
    /\ payments[t].status = "NONE"
    /\ orders' = [orders EXCEPT ![no].status = "PAID"]
    /\ payments' = [payments EXCEPT ![t] = [no |-> no, status |-> "SUCCESS"]]
    /\ UNCHANGED stock

\* A non-success callback is recorded and changes no order.
RecordFailure(no, t) ==
    /\ orders[no].status # "NONE"
    /\ payments[t].status = "NONE"
    /\ payments' = [payments EXCEPT ![t] = [no |-> no, status |-> "FAILED"]]
    /\ UNCHANGED <<stock, orders>>

\* Cancelled by its user or closed by a timeout: the unit goes back.
GiveUp(no) ==
    /\ orders[no].status \in {"QUEUED", "WAIT_PAY"}
    /\ \E s \in {"CANCELLED", "CLOSED"} :
           orders' = [orders EXCEPT ![no].status = s]
    /\ stock' = stock + 1
    /\ UNCHANGED payments

Next ==
    \E no \in OrderNos :
        \/ \E u \in Users : Buy(u, no)
        \/ Confirm(no)
        \/ \E t \in TransactionNos : Pay(no, t) \/ RecordFailure(no, t)
        \/ GiveUp(no)

Spec == Init /\ [][Next]_vars
=============================================================================
