---------------------------- MODULE CartCheckout ----------------------------
(***************************************************************************)
(* Carts, product stock and coupons: CartService, CouponService.Claim,     *)
(* OrderService.CheckoutCart with applyCoupon, and what cancelling, timing *)
(* out and paying a cart order do.                                         *)
(*                                                                         *)
(* As in OrderTx a transaction is a ..._Read step, which takes copies and  *)
(* evaluates the early returns, and a ..._Write step, which saves whole    *)
(* rows from the copies and commits; MaxOpenConns is 1 on SQLite.  The     *)
(* calls of CartService that run two statements without a transaction give *)
(* their connection back in between.                                       *)
(*                                                                         *)
(* There is one coupon, all prices are 1, and addresses are left out.      *)
(* applyCoupon stores EXPIRED in a transaction that then returns an error: *)
(* it rolls back, the status is never stored, and there is no step for it. *)
(* A payment also records a receipt; OrderTx has that part.                *)
(***************************************************************************)
EXTENDS Integers, FiniteSetsExt

CONSTANTS
    Procs,          \* requests in flight
    Users,
    Products,
    OrderNos,
    Stock0,         \* initial stock of each product
    CouponStock0,   \* initial stock of the coupon
    Threshold,      \* amount from which the coupon may be used
    Requested,      \* quantities that AddItem and UpdateQuantity are asked for
    MaxQuantity,    \* bound: quantity of one cart row
    MaxOpenConns,   \* SetMaxOpenConns of the database pool
    None

ASSUME CartCheckoutAssumption ==
    /\ IsFiniteSet(Procs) /\ IsFiniteSet(Users)
    /\ IsFiniteSet(Products) /\ IsFiniteSet(OrderNos)
    /\ Stock0 \in Nat \ {0} /\ CouponStock0 \in Nat \ {0}
    /\ Threshold \in Nat
    /\ Requested \subseteq 1..MaxQuantity
    /\ MaxQuantity \in Nat \ {0} /\ MaxOpenConns \in Nat \ {0}
    /\ None \notin Users \cup OrderNos \cup Products

VARIABLES
    stock,       \* stock[prod] of the product row
    cart,        \* cart[u][prod]: quantity of the cart row, 0 if there is none
    couponLeft,  \* stock of the coupon row
    couponEnded, \* the clock has passed end_at of the coupon
    userCoupon,  \* userCoupon[u]: status of the user's coupon, "NONE" if not claimed
    orders,      \* orders[no] = [user, items, coupon, status]
    tx           \* tx[p]: what p is doing, its arguments and its copies

vars == <<stock, cart, couponLeft, couponEnded, userCoupon, orders, tx>>
rows == <<stock, cart, couponLeft, userCoupon, orders>>

-----------------------------------------------------------------------------
(* Rows, copies and connections *)

ProductStocks == [Products -> Int]
UserCouponStatuses == {"NONE", "UNUSED", "USED"}
Quantities == [Products -> 0..MaxQuantity]
Nothing == [prod \in Products |-> 0]

\* coupon: UserCouponID, 0 without a coupon.
OrderRow ==
    [user : Users \cup {None}, items : Quantities, coupon : {0, 1},
     status : {"NONE", "WAIT_PAY", "PAID", "CANCELLED", "CLOSED"}]

NoOrder == [user |-> None, items |-> Nothing, coupon |-> 0, status |-> "NONE"]

\* The operations that hold a connection while they are under way.
Transactions == {"add", "checkout", "claim", "giveUp", "pay"}

Idle ==
    [op |-> "idle", user |-> None, no |-> None, prod |-> None, arg |-> 0,
     status |-> "NONE", coupon |-> 0, items |-> Nothing, stock |-> Nothing,
     copy |-> 0]

TxState ==
    [op : Transactions \cup {"idle", "added", "update"}, user : Users \cup {None},
     no : OrderNos \cup {None}, prod : Products \cup {None}, arg : 0..MaxQuantity,
     status : {"NONE", "CANCELLED", "CLOSED"}, coupon : {0, 1}, items : Quantities,
     stock : ProductStocks, copy : Int]

Open == {p \in Procs : tx[p].op \in Transactions}

ConnFree == Cardinality(Open) < MaxOpenConns

Free(p) == tx[p].op = "idle" /\ ConnFree

Done(p) == tx' = [tx EXCEPT ![p] = Idle]

Amount(items) == MapThenSumSet(LAMBDA prod : items[prod], Products)

-----------------------------------------------------------------------------
(* CartService *)

\* The product is read, and its stock compared, before the transaction.
AddItem_Check(p, u, prod, quantity) ==
    /\ Free(p)
    /\ stock[prod] >= quantity
    /\ tx' = [tx EXCEPT ![p] = [Idle EXCEPT !.op = "added", !.user = u,
                                            !.prod = prod, !.arg = quantity]]
    /\ UNCHANGED <<rows, couponEnded>>

AddItem_Read(p) ==
    /\ tx[p].op = "added"
    /\ ConnFree
    /\ tx' = [tx EXCEPT ![p] = [tx[p] EXCEPT !.op = "add",
                                             !.copy = cart[tx[p].user][tx[p].prod]]]
    /\ UNCHANGED <<rows, couponEnded>>

SaveCartItem(p, quantity) ==
    cart' = [cart EXCEPT ![tx[p].user][tx[p].prod] = quantity]

\* Save of the row that was found, or Create, which the unique index on user
\* and product rejects if there is a row by now.
AddItem_Write(p) ==
    /\ tx[p].op = "add"
    /\ tx[p].copy = 0 => cart[tx[p].user][tx[p].prod] = 0
    /\ tx[p].copy + tx[p].arg <= MaxQuantity
    /\ SaveCartItem(p, tx[p].copy + tx[p].arg)
    /\ Done(p)
    /\ UNCHANGED <<stock, couponLeft, userCoupon, orders, couponEnded>>

\* Two statements without a transaction.
UpdateQuantity_Read(p, u, prod, quantity) ==
    /\ Free(p)
    /\ cart[u][prod] > 0
    /\ tx' = [tx EXCEPT ![p] = [Idle EXCEPT !.op = "update", !.user = u,
                                            !.prod = prod, !.arg = quantity]]
    /\ UNCHANGED <<rows, couponEnded>>

\* Save inserts the row again if it is gone.  (If it was added again meanwhile,
\* MySQL overwrites it; SQLite rejects the insert, see Rollback.)
UpdateQuantity_Save(p) ==
    /\ tx[p].op = "update"
    /\ ConnFree
    /\ SaveCartItem(p, tx[p].arg)
    /\ Done(p)
    /\ UNCHANGED <<stock, couponLeft, userCoupon, orders, couponEnded>>

DeleteItem(u, prod) ==
    /\ ConnFree
    /\ cart[u][prod] > 0
    /\ cart' = [cart EXCEPT ![u][prod] = 0]
    /\ UNCHANGED <<stock, couponLeft, userCoupon, orders, couponEnded, tx>>

-----------------------------------------------------------------------------
(* CouponService.Claim *)

Claim_Read(p, u) ==
    /\ Free(p)
    /\ ~couponEnded
    /\ couponLeft > 0
    /\ userCoupon[u] = "NONE"
    /\ tx' = [tx EXCEPT ![p] = [Idle EXCEPT !.op = "claim", !.user = u,
                                            !.copy = couponLeft]]
    /\ UNCHANGED <<rows, couponEnded>>

\* Slip: the coupon is created, its stock not saved.
Claim_WriteNoStock(p) ==
    /\ tx[p].op = "claim"
    /\ userCoupon[tx[p].user] = "NONE"
    /\ userCoupon' = [userCoupon EXCEPT ![tx[p].user] = "UNUSED"]
    /\ Done(p)
    /\ UNCHANGED <<stock, cart, couponLeft, orders, couponEnded>>

\* The unique index on user and coupon rejects a second claim.
Claim_Write(p) ==
    /\ tx[p].op = "claim"
    /\ userCoupon[tx[p].user] = "NONE"
    /\ couponLeft' = tx[p].copy - 1
    /\ userCoupon' = [userCoupon EXCEPT ![tx[p].user] = "UNUSED"]
    /\ Done(p)
    /\ UNCHANGED <<stock, cart, orders, couponEnded>>

-----------------------------------------------------------------------------
(* CheckoutCart *)

\* Slip: a coupon that was used already is accepted again.
applyCouponAnyStatus(u, items) ==
    /\ userCoupon[u] # "NONE"
    /\ ~couponEnded
    /\ Amount(items) >= Threshold

\* The coupon's checks; that it is saved as USED is part of CheckoutCart_Write.
applyCoupon(u, items) ==
    /\ userCoupon[u] = "UNUSED"
    /\ ~couponEnded
    /\ Amount(items) >= Threshold

\* Every early return rolls back what the loop over the items has saved.
CheckoutCart_Read(p, u, coupon) ==
    /\ Free(p)
    /\ cart[u] # Nothing
    /\ \A prod \in Products : stock[prod] >= cart[u][prod]
    /\ coupon # 0 => applyCoupon(u, cart[u])
    /\ tx' = [tx EXCEPT ![p] = [Idle EXCEPT !.op = "checkout", !.user = u,
                  !.coupon = coupon, !.items = cart[u], !.stock = stock]]
    /\ UNCHANGED <<rows, couponEnded>>

\* Save of each product in the copied cart.
SaveProducts(p, items, sign) ==
    stock' = [prod \in Products |->
                 IF items[prod] = 0 THEN stock[prod]
                 ELSE tx[p].stock[prod] + sign * items[prod]]

\* Slip: the order is QUEUED like an activity order, but has no task.
CheckoutCart_WriteQueued(p, no) ==
    /\ tx[p].op = "checkout"
    /\ orders[no] = NoOrder
    /\ SaveProducts(p, tx[p].items, -1)
    /\ userCoupon' = IF tx[p].coupon # 0
                     THEN [userCoupon EXCEPT ![tx[p].user] = "USED"] ELSE userCoupon
    /\ orders' = [orders EXCEPT ![no] = [user |-> tx[p].user, items |-> tx[p].items,
                                         coupon |-> tx[p].coupon, status |-> "QUEUED"]]
    /\ cart' = [cart EXCEPT ![tx[p].user] = Nothing]
    /\ Done(p)
    /\ UNCHANGED <<couponLeft, couponEnded>>

\* The products and the coupon are saved from the copies, the order and its
\* items created, and all cart rows the user has now are deleted.
CheckoutCart_Write(p, no) ==
    /\ tx[p].op = "checkout"
    /\ orders[no] = NoOrder
    /\ SaveProducts(p, tx[p].items, -1)
    /\ userCoupon' = IF tx[p].coupon # 0
                     THEN [userCoupon EXCEPT ![tx[p].user] = "USED"] ELSE userCoupon
    /\ orders' = [orders EXCEPT ![no] = [user |-> tx[p].user, items |-> tx[p].items,
                                         coupon |-> tx[p].coupon, status |-> "WAIT_PAY"]]
    /\ cart' = [cart EXCEPT ![tx[p].user] = Nothing]
    /\ Done(p)
    /\ UNCHANGED <<couponLeft, couponEnded>>

-----------------------------------------------------------------------------
(* Cancelling, timing out and paying a cart order *)

\* Slip: a cancelled order may be cancelled or closed again.
GiveUp_ReadAny(p, no, status) ==
    /\ Free(p)
    /\ orders[no].status \in {"WAIT_PAY", "CANCELLED"}
    /\ tx' = [tx EXCEPT ![p] = [Idle EXCEPT !.op = "giveUp",
                  !.no = no, !.status = status, !.stock = stock]]
    /\ UNCHANGED <<rows, couponEnded>>

\* CancelOrder stores CANCELLED, ExpireOrders and Compensate store CLOSED.
GiveUp_Read(p, no, status) ==
    /\ Free(p)
    /\ orders[no].status = "WAIT_PAY"
    /\ tx' = [tx EXCEPT ![p] = [Idle EXCEPT !.op = "giveUp",
                  !.no = no, !.status = status, !.stock = stock]]
    /\ UNCHANGED <<rows, couponEnded>>

\* restoreStock returns the items to the products; a coupon stays used.
GiveUp_Write(p) ==
    /\ tx[p].op = "giveUp"
    /\ SaveProducts(p, orders[tx[p].no].items, 1)
    /\ orders' = [orders EXCEPT ![tx[p].no].status = tx[p].status]
    /\ Done(p)
    /\ UNCHANGED <<cart, couponLeft, userCoupon, couponEnded>>

PaymentCallback_Read(p, no) ==
    /\ Free(p)
    /\ orders[no].status = "WAIT_PAY"
    /\ tx' = [tx EXCEPT ![p] = [Idle EXCEPT !.op = "pay", !.no = no]]
    /\ UNCHANGED <<rows, couponEnded>>

PaymentCallback_Write(p) ==
    /\ tx[p].op = "pay"
    /\ orders' = [orders EXCEPT ![tx[p].no].status = "PAID"]
    /\ Done(p)
    /\ UNCHANGED <<stock, cart, couponLeft, userCoupon, couponEnded>>

-----------------------------------------------------------------------------
(* Failures and time *)

\* A statement fails, a unique index rejects a row, the request's context ends
\* or the server stops.
Rollback(p) ==
    /\ tx[p].op # "idle"
    /\ Done(p)
    /\ UNCHANGED <<rows, couponEnded>>

CouponEnds ==
    /\ ~couponEnded
    /\ couponEnded' = TRUE
    /\ UNCHANGED <<rows, tx>>

-----------------------------------------------------------------------------
(* Specification *)

Init ==
    /\ stock = [prod \in Products |-> Stock0]
    /\ cart = [u \in Users |-> Nothing]
    /\ couponLeft = CouponStock0
    /\ couponEnded = FALSE
    /\ userCoupon = [u \in Users |-> "NONE"]
    /\ orders = [no \in OrderNos |-> NoOrder]
    /\ tx = [p \in Procs |-> Idle]

Next ==
    \/ \E p \in Procs :
        \/ \E u \in Users :
            \/ Claim_Read(p, u)
            \/ \E coupon \in {0, 1} : CheckoutCart_Read(p, u, coupon)
            \/ \E prod \in Products, quantity \in Requested :
                   \/ AddItem_Check(p, u, prod, quantity)
                   \/ UpdateQuantity_Read(p, u, prod, quantity)
        \/ AddItem_Read(p) \/ AddItem_Write(p) \/ UpdateQuantity_Save(p)
        \/ Claim_Write(p)
        \/ \E no \in OrderNos :
            \/ CheckoutCart_Write(p, no)
            \/ \E status \in {"CANCELLED", "CLOSED"} : GiveUp_Read(p, no, status)
            \/ PaymentCallback_Read(p, no)
        \/ GiveUp_Write(p)
        \/ PaymentCallback_Write(p)
        \/ Rollback(p)
    \/ \E u \in Users, prod \in Products : DeleteItem(u, prod)
    \/ CouponEnds

Spec == Init /\ [][Next]_vars

-----------------------------------------------------------------------------
(* Properties *)

\* Every variable and every copy has its type.
TypeOK ==
    /\ stock \in ProductStocks
    /\ cart \in [Users -> Quantities]
    /\ couponLeft \in Int
    /\ couponEnded \in BOOLEAN
    /\ userCoupon \in [Users -> UserCouponStatuses]
    /\ orders \in [OrderNos -> OrderRow]
    /\ tx \in [Procs -> TxState]

LiveOrders == {no \in OrderNos : orders[no].status \in {"WAIT_PAY", "PAID"}}

\* How much of a product each order is for.
Ordered(prod) == [no \in OrderNos |-> orders[no].items[prod]]

\* Of every product, what is in stock and what live orders hold is what there
\* was at first: checkout takes every item, cancelling and timeouts return
\* every item, once.
ProductConserved ==
    \A prod \in Products :
        stock[prod] = Stock0 - SumFunctionOnSet(Ordered(prod), LiveOrders)

\* Every coupon handed out was taken from the coupon's stock, one per user.
CouponConserved ==
    couponLeft = CouponStock0 - Cardinality({u \in Users : userCoupon[u] # "NONE"})

\* A user's coupon is USED exactly if one order of the user took its discount,
\* and never two: not by a repeated checkout and not after a cancellation.
CouponSpentOnce ==
    \A u \in Users :
        Cardinality({no \in OrderNos : orders[no].user = u /\ orders[no].coupon # 0})
            = (IF userCoupon[u] = "USED" THEN 1 ELSE 0)

(* With overlapping transactions the three above break; what remains is this, *)
(* see CartCheckoutProofs.                                                     *)

\* No stock, of a product or of the coupon, goes below zero, though the sales,
\* claims and returns save stale copies over each other.
StocksNonNegative == couponLeft >= 0 /\ \A prod \in Products : stock[prod] >= 0

\* Overlapping claims may lose a decrement, but no coupon is lost: what is left is
\* never less than the first stock without the coupons users have.
CouponsNeverLost ==
    couponLeft >= CouponStock0 - Cardinality({u \in Users : userCoupon[u] # "NONE"})
=============================================================================
