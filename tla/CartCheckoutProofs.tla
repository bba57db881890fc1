------------------------- MODULE CartCheckoutProofs -------------------------
(***************************************************************************)
(* Proofs about CartCheckout for every number of requests, users, products *)
(* and orders, every stock and every requested quantity.                   *)
(*                                                                         *)
(* The types, the rows' consistency and the lower bounds of the stocks     *)
(* hold on any number of connections, however stale the copies are.        *)
(* Conservation needs one connection: then nobody writes between the two   *)
(* steps of a transaction, its copies are fresh, and every committed       *)
(* transaction is one step of the shop below.                              *)
(***************************************************************************)
EXTENDS CartCheckout, FiniteSums

-----------------------------------------------------------------------------
(* Any number of connections *)

\* The arguments that the second step of a call uses are there.
ArgumentsOK ==
    \A p \in Procs :
        /\ tx[p].op \in {"added", "add", "update", "claim", "checkout"} =>
               tx[p].user \in Users
        /\ tx[p].op \in {"added", "add", "update"} => tx[p].prod \in Products
        /\ tx[p].op = "add" => tx[p].copy >= 0
        /\ tx[p].op \in {"giveUp", "pay"} =>
               tx[p].no \in OrderNos /\ orders[tx[p].no].status # "NONE"
        /\ tx[p].op = "giveUp" => tx[p].status \in {"CANCELLED", "CLOSED"}

\* An order that was created has a user; the others are as before.
BuyersOK ==
    \A no \in OrderNos :
        IF orders[no].status = "NONE" THEN orders[no] = NoOrder
        ELSE orders[no].user \in Users

IInv ==
    /\ TypeOK
    /\ ArgumentsOK
    /\ BuyersOK

LEMMA EmptyTypes ==
  /\ Nothing \in Quantities /\ Nothing \in ProductStocks
  /\ NoOrder \in OrderRow /\ NoOrder.status = "NONE" /\ NoOrder.user = None
  /\ NoOrder.coupon = 0 /\ NoOrder.items = Nothing
  /\ Idle \in TxState /\ Idle.op = "idle"
  <1> USE CartCheckoutAssumption
  <1>1. Nothing \in Quantities /\ Nothing \in ProductStocks
    BY DEF Nothing, Quantities, ProductStocks
  <1>2. /\ NoOrder \in OrderRow /\ NoOrder.status = "NONE" /\ NoOrder.user = None
        /\ NoOrder.coupon = 0 /\ NoOrder.items = Nothing
    BY <1>1 DEF NoOrder, OrderRow
  <1>3. Idle \in TxState /\ Idle.op = "idle"
    BY <1>1 DEF Idle, TxState, Transactions
  <1> QED
    BY <1>1, <1>2, <1>3

LEMMA InitIInv == Init => IInv
  <1> SUFFICES ASSUME Init PROVE IInv
    OBVIOUS
  <1> USE CartCheckoutAssumption, EmptyTypes DEF Init
  <1>1. TypeOK
    <2>1. couponEnded \in BOOLEAN
      BY Zenon
    <2>2. stock \in ProductStocks
      BY DEF ProductStocks
    <2>3. userCoupon \in [Users -> UserCouponStatuses]
      BY DEF UserCouponStatuses
    <2> QED
      BY <2>1, <2>2, <2>3 DEF TypeOK
  <1>2. ArgumentsOK /\ BuyersOK
    BY DEF ArgumentsOK, BuyersOK
  <1> QED
    BY <1>1, <1>2 DEF IInv

\* A step that only takes copies keeps the invariant if the copies are good.
LEMMA ReadStep ==
  ASSUME IInv, NEW p \in Procs, NEW t \in TxState,
         tx' = [tx EXCEPT ![p] = t], UNCHANGED <<rows, couponEnded>>,
         t.op \in {"added", "add", "update", "claim", "checkout"} => t.user \in Users,
         t.op \in {"added", "add", "update"} => t.prod \in Products,
         t.op = "add" => t.copy >= 0,
         t.op \in {"giveUp", "pay"} => t.no \in OrderNos /\ orders[t.no].status # "NONE",
         t.op = "giveUp" => t.status \in {"CANCELLED", "CLOSED"}
  PROVE  IInv'
  <1> USE DEF IInv, rows
  <1>1. TypeOK'
    BY DEF TypeOK
  <1>2. ArgumentsOK'
    BY DEF ArgumentsOK, TypeOK
  <1>3. BuyersOK'
    BY DEF BuyersOK
  <1> QED
    BY <1>1, <1>2, <1>3

\* A step that saves rows and ends the call: no order is forgotten.
LEMMA WriteStep ==
  ASSUME IInv, NEW p \in Procs, Done(p), UNCHANGED couponEnded,
         stock' \in ProductStocks, cart' \in [Users -> Quantities],
         couponLeft' \in Int, userCoupon' \in [Users -> UserCouponStatuses],
         orders' \in [OrderNos -> OrderRow],
         \A no \in OrderNos :
             \/ orders'[no] = orders[no]
             \/ orders'[no].status # "NONE" /\ orders'[no].user \in Users
  PROVE  IInv'
  <1> USE EmptyTypes DEF IInv, Done
  <1>1. TypeOK'
    BY DEF TypeOK
  <1>2. ArgumentsOK'
    BY DEF ArgumentsOK, TypeOK
  <1>3. BuyersOK'
    BY DEF BuyersOK
  <1> QED
    BY <1>1, <1>2, <1>3

\* The products are saved with their type.
LEMMA SavedProducts ==
  ASSUME IInv, NEW p \in Procs, NEW items \in Quantities,
         SaveProducts(p, items, 1) \/ SaveProducts(p, items, -1)
  PROVE  stock' \in ProductStocks
  <1>1. stock \in ProductStocks /\ tx[p].stock \in ProductStocks
    BY DEF IInv, TypeOK, TxState
  <1>2. \A prod \in Products : stock[prod] \in Int /\ tx[p].stock[prod] \in Int
                                 /\ items[prod] \in Int
    BY <1>1, CartCheckoutAssumption DEF ProductStocks, Quantities
  <1> QED
    BY <1>2 DEF SaveProducts, ProductStocks

\* Save of one cart row.
LEMMA SavedCart ==
  ASSUME IInv, NEW u \in Users, NEW prod \in Products, NEW q \in 0..MaxQuantity
  PROVE  [cart EXCEPT ![u][prod] = q] \in [Users -> Quantities]
  BY DEF IInv, TypeOK, Quantities

\* The copies that the ..._Read steps take have their types.
LEMMA AddCopy ==
  ASSUME NEW t \in TxState, NEW c \in Int
  PROVE  /\ [t EXCEPT !.op = "add", !.copy = c] \in TxState
         /\ [t EXCEPT !.op = "add", !.copy = c].op = "add"
         /\ [t EXCEPT !.op = "add", !.copy = c].copy = c
         /\ [t EXCEPT !.op = "add", !.copy = c].user = t.user
         /\ [t EXCEPT !.op = "add", !.copy = c].prod = t.prod
  <1>1. "add" \in Transactions
    BY DEF Transactions
  <1> QED
    BY <1>1 DEF TxState

LEMMA ClaimCopy ==
  ASSUME IInv, NEW u \in Users
  PROVE  LET t == [Idle EXCEPT !.op = "claim", !.user = u, !.copy = couponLeft]
         IN  t \in TxState /\ t.op = "claim" /\ t.user = u /\ t.copy = couponLeft
  <1>1. Idle \in TxState /\ couponLeft \in Int
    BY EmptyTypes DEF IInv, TypeOK
  <1> QED
    BY <1>1 DEF TxState, Transactions

LEMMA CheckoutCopy ==
  ASSUME IInv, NEW u \in Users, NEW c \in {0, 1}
  PROVE  LET t == [Idle EXCEPT !.op = "checkout", !.user = u,
                       !.coupon = c, !.items = cart[u], !.stock = stock]
         IN  /\ t \in TxState /\ t.op = "checkout" /\ t.user = u
             /\ t.coupon = c /\ t.items = cart[u] /\ t.stock = stock
  <1>1. Idle \in TxState /\ cart[u] \in Quantities /\ stock \in ProductStocks
    BY EmptyTypes DEF IInv, TypeOK
  <1> QED
    BY <1>1 DEF TxState, Transactions

LEMMA PayCopy ==
  ASSUME NEW no \in OrderNos
  PROVE  LET t == [Idle EXCEPT !.op = "pay", !.no = no]
         IN  t \in TxState /\ t.op = "pay" /\ t.no = no
  <1>1. Idle \in TxState
    BY EmptyTypes
  <1> QED
    BY <1>1 DEF TxState, Transactions

LEMMA NextIInv == IInv /\ [Next]_vars => IInv'
  <1> SUFFICES ASSUME IInv, [Next]_vars PROVE IInv'
    OBVIOUS
  <1> USE CartCheckoutAssumption
  <1>t. /\ stock \in ProductStocks /\ cart \in [Users -> Quantities]
        /\ couponLeft \in Int /\ userCoupon \in [Users -> UserCouponStatuses]
        /\ orders \in [OrderNos -> OrderRow] /\ tx \in [Procs -> TxState]
    BY DEF IInv, TypeOK
  <1>0. CASE UNCHANGED vars
    BY <1>0 DEF vars, IInv, TypeOK, ArgumentsOK, BuyersOK
  <1>1. ASSUME NEW p \in Procs, NEW u \in Users, Claim_Read(p, u)
        PROVE  IInv'
    <2> DEFINE t == [Idle EXCEPT !.op = "claim", !.user = u, !.copy = couponLeft]
    <2>1. t \in TxState /\ t.op = "claim" /\ t.user = u
      BY ClaimCopy
    <2>2. tx' = [tx EXCEPT ![p] = t] /\ UNCHANGED <<rows, couponEnded>>
      BY <1>1 DEF Claim_Read
    <2> HIDE DEF t
    <2> QED
      BY <2>1, <2>2, ReadStep
  <1>2. ASSUME NEW p \in Procs, NEW u \in Users, NEW c \in {0, 1},
               CheckoutCart_Read(p, u, c)
        PROVE  IInv'
    <2> DEFINE t == [Idle EXCEPT !.op = "checkout", !.user = u,
                         !.coupon = c, !.items = cart[u], !.stock = stock]
    <2>1. t \in TxState /\ t.op = "checkout" /\ t.user = u
      BY CheckoutCopy, ZenonT(60)
    <2>2. tx' = [tx EXCEPT ![p] = t] /\ UNCHANGED <<rows, couponEnded>>
      BY <1>2 DEF CheckoutCart_Read
    <2> HIDE DEF t
    <2> QED
      BY <2>1, <2>2, ReadStep
  <1>3. ASSUME NEW p \in Procs, NEW u \in Users, NEW prod \in Products,
               NEW q \in Requested,
               AddItem_Check(p, u, prod, q) \/ UpdateQuantity_Read(p, u, prod, q)
        PROVE  IInv'
    <2>1. PICK op \in {"added", "update"} :
              /\ tx' = [tx EXCEPT ![p] = [Idle EXCEPT !.op = op, !.user = u,
                                                   !.prod = prod, !.arg = q]]
              /\ UNCHANGED <<rows, couponEnded>>
      BY <1>3 DEF AddItem_Check, UpdateQuantity_Read
    <2> DEFINE t == [Idle EXCEPT !.op = op, !.user = u, !.prod = prod, !.arg = q]
    <2>2. t \in TxState /\ t.op = op /\ t.user = u /\ t.prod = prod
      <3>1. q \in 0..MaxQuantity
        OBVIOUS
      <3> QED
        BY <3>1, EmptyTypes DEF TxState, Transactions
    <2> HIDE DEF t
    <2>3. tx' = [tx EXCEPT ![p] = t] /\ UNCHANGED <<rows, couponEnded>>
      BY <2>1 DEF t
    <2> QED
      BY <2>2, <2>3, ReadStep
  <1>4. ASSUME NEW p \in Procs, AddItem_Read(p)
        PROVE  IInv'
    <2>1. tx[p].user \in Users /\ tx[p].prod \in Products /\ tx[p] \in TxState
      BY <1>4, <1>t DEF AddItem_Read, IInv, ArgumentsOK
    <2>2. cart[tx[p].user][tx[p].prod] \in 0..MaxQuantity
      BY <2>1, <1>t DEF Quantities
    <2>3. PICK c \in Int : c = cart[tx[p].user][tx[p].prod] /\ c >= 0
      BY <2>2
    <2> DEFINE t == [tx[p] EXCEPT !.op = "add", !.copy = c]
    <2>4. /\ t \in TxState /\ t.op = "add" /\ t.user = tx[p].user
          /\ t.prod = tx[p].prod /\ t.copy = c
      BY <2>1, AddCopy
    <2>5. tx' = [tx EXCEPT ![p] = t] /\ UNCHANGED <<rows, couponEnded>>
      BY <1>4, <2>3 DEF AddItem_Read
    <2> HIDE DEF t
    <2> QED
      BY <2>1, <2>3, <2>4, <2>5, ReadStep
  <1>5. ASSUME NEW p \in Procs, AddItem_Write(p)
        PROVE  IInv'
    <2>1. tx[p].user \in Users /\ tx[p].prod \in Products /\ tx[p].copy >= 0
      BY <1>5 DEF AddItem_Write, IInv, ArgumentsOK
    <2>2. tx[p].copy + tx[p].arg \in 0..MaxQuantity
      BY <1>5, <2>1, <1>t DEF AddItem_Write, TxState
    <2>3. cart' \in [Users -> Quantities]
      BY <1>5, <2>1, <2>2, SavedCart DEF AddItem_Write, SaveCartItem
    <2> QED
      BY <1>5, <1>t, <2>3, WriteStep DEF AddItem_Write
  <1>6. ASSUME NEW p \in Procs, UpdateQuantity_Save(p)
        PROVE  IInv'
    <2>1. tx[p].user \in Users /\ tx[p].prod \in Products /\ tx[p].arg \in 0..MaxQuantity
      BY <1>6, <1>t DEF UpdateQuantity_Save, IInv, ArgumentsOK, TxState
    <2>2. cart' \in [Users -> Quantities]
      BY <1>6, <2>1, SavedCart DEF UpdateQuantity_Save, SaveCartItem
    <2> QED
      BY <1>6, <1>t, <2>2, WriteStep DEF UpdateQuantity_Save
  <1>7. ASSUME NEW p \in Procs, Claim_Write(p)
        PROVE  IInv'
    <2>1. tx[p].user \in Users /\ tx[p].copy \in Int
      BY <1>7, <1>t DEF Claim_Write, IInv, ArgumentsOK, TxState
    <2>2. couponLeft' \in Int /\ userCoupon' \in [Users -> UserCouponStatuses]
      BY <1>7, <2>1, <1>t DEF Claim_Write, UserCouponStatuses
    <2> QED
      BY <1>7, <1>t, <2>2, WriteStep DEF Claim_Write
  <1>8. ASSUME NEW p \in Procs, NEW no \in OrderNos, CheckoutCart_Write(p, no)
        PROVE  IInv'
    <2> DEFINE row == [user |-> tx[p].user, items |-> tx[p].items,
                       coupon |-> tx[p].coupon, status |-> "WAIT_PAY"]
    <2>1. tx[p].user \in Users /\ tx[p].items \in Quantities /\ tx[p].coupon \in {0, 1}
      BY <1>8, <1>t DEF CheckoutCart_Write, IInv, ArgumentsOK, TxState
    <2>2. row \in OrderRow /\ row.status # "NONE" /\ row.user \in Users
      BY <2>1 DEF OrderRow
    <2>3. orders' = [orders EXCEPT ![no] = row]
      BY <1>8 DEF CheckoutCart_Write
    <2> HIDE DEF row
    <2>4. /\ orders' \in [OrderNos -> OrderRow]
          /\ \A m \in OrderNos : \/ orders'[m] = orders[m]
                                 \/ orders'[m].status # "NONE" /\ orders'[m].user \in Users
      BY <2>2, <2>3, <1>t
    <2>5. stock' \in ProductStocks
      BY <1>8, <2>1, SavedProducts DEF CheckoutCart_Write
    <2>6. userCoupon' \in [Users -> UserCouponStatuses]
      BY <1>8, <2>1, <1>t DEF CheckoutCart_Write, UserCouponStatuses
    <2>7. cart' \in [Users -> Quantities]
      BY <1>8, <2>1, <1>t, EmptyTypes DEF CheckoutCart_Write
    <2> QED
      BY <1>8, <1>t, <2>4, <2>5, <2>6, <2>7, WriteStep DEF CheckoutCart_Write
  <1>9. ASSUME NEW p \in Procs, NEW no \in OrderNos, NEW s \in {"CANCELLED", "CLOSED"},
               GiveUp_Read(p, no, s)
        PROVE  IInv'
    <2> DEFINE t == [Idle EXCEPT !.op = "giveUp",
                         !.no = no, !.status = s, !.stock = stock]
    <2>1. t \in TxState /\ t.op = "giveUp" /\ t.no = no /\ t.status = s
      BY <1>t, EmptyTypes, ZenonT(60) DEF TxState, Transactions
    <2>2. /\ tx' = [tx EXCEPT ![p] = t] /\ UNCHANGED <<rows, couponEnded>>
          /\ orders[no].status # "NONE"
      BY <1>9 DEF GiveUp_Read
    <2> HIDE DEF t
    <2> QED
      BY <2>1, <2>2, ReadStep
  <1>10. ASSUME NEW p \in Procs, NEW no \in OrderNos, PaymentCallback_Read(p, no)
         PROVE  IInv'
    <2> DEFINE t == [Idle EXCEPT !.op = "pay", !.no = no]
    <2>1. t \in TxState /\ t.op = "pay" /\ t.no = no
      BY PayCopy
    <2>2. /\ tx' = [tx EXCEPT ![p] = t] /\ UNCHANGED <<rows, couponEnded>>
          /\ orders[no].status # "NONE"
      BY <1>10 DEF PaymentCallback_Read
    <2> HIDE DEF t
    <2> QED
      BY <2>1, <2>2, ReadStep
  <1>11. ASSUME NEW p \in Procs, GiveUp_Write(p)
         PROVE  IInv'
    <2> DEFINE no == tx[p].no
    <2>1. /\ no \in OrderNos /\ orders[no].status # "NONE"
          /\ tx[p].status \in {"CANCELLED", "CLOSED"} /\ orders[no] \in OrderRow
      BY <1>11, <1>t DEF GiveUp_Write, IInv, ArgumentsOK
    <2>2. orders[no].user \in Users /\ orders[no].items \in Quantities
      BY <2>1 DEF IInv, BuyersOK, OrderRow
    <2>3. /\ [orders[no] EXCEPT !.status = tx[p].status] \in OrderRow
          /\ [orders[no] EXCEPT !.status = tx[p].status].status # "NONE"
          /\ [orders[no] EXCEPT !.status = tx[p].status].user \in Users
      BY <2>1, <2>2 DEF OrderRow
    <2>4. /\ orders' \in [OrderNos -> OrderRow]
          /\ \A m \in OrderNos : \/ orders'[m] = orders[m]
                                 \/ orders'[m].status # "NONE" /\ orders'[m].user \in Users
      BY <1>11, <2>1, <2>3, <1>t DEF GiveUp_Write
    <2>5. stock' \in ProductStocks
      BY <1>11, <2>2, SavedProducts DEF GiveUp_Write
    <2> QED
      BY <1>11, <1>t, <2>4, <2>5, WriteStep DEF GiveUp_Write
  <1>12. ASSUME NEW p \in Procs, PaymentCallback_Write(p)
         PROVE  IInv'
    <2> DEFINE no == tx[p].no
    <2>1. no \in OrderNos /\ orders[no].status # "NONE" /\ orders[no] \in OrderRow
      BY <1>12, <1>t DEF PaymentCallback_Write, IInv, ArgumentsOK
    <2>2. orders[no].user \in Users
      BY <2>1 DEF IInv, BuyersOK
    <2>3. /\ [orders[no] EXCEPT !.status = "PAID"] \in OrderRow
          /\ [orders[no] EXCEPT !.status = "PAID"].status # "NONE"
          /\ [orders[no] EXCEPT !.status = "PAID"].user \in Users
      BY <2>1, <2>2 DEF OrderRow
    <2>4. /\ orders' \in [OrderNos -> OrderRow]
          /\ \A m \in OrderNos : \/ orders'[m] = orders[m]
                                 \/ orders'[m].status # "NONE" /\ orders'[m].user \in Users
      BY <1>12, <2>1, <2>3, <1>t DEF PaymentCallback_Write
    <2> QED
      BY <1>12, <1>t, <2>4, WriteStep DEF PaymentCallback_Write
  <1>13. ASSUME NEW p \in Procs, Rollback(p)
         PROVE  IInv'
    BY <1>13, <1>t, WriteStep DEF Rollback, rows
  <1>14. ASSUME NEW u \in Users, NEW prod \in Products, DeleteItem(u, prod)
         PROVE  IInv'
    <2>1. cart' \in [Users -> Quantities]
      BY <1>14, SavedCart DEF DeleteItem
    <2> QED
      BY <1>14, <2>1 DEF DeleteItem, IInv, TypeOK, ArgumentsOK, BuyersOK
  <1>15. CASE CouponEnds
    <2>1. couponEnded' \in BOOLEAN
      BY <1>15, Zenon DEF CouponEnds
    <2> QED
      BY <1>15, <2>1 DEF CouponEnds, rows, IInv, TypeOK, ArgumentsOK, BuyersOK
  <1> QED
    BY <1>0, <1>1, <1>2, <1>3, <1>4, <1>5, <1>6, <1>7, <1>8, <1>9, <1>10, <1>11,
       <1>12, <1>13, <1>14, <1>15 DEF Next

\* The inductive invariant holds in every reachable state.
THEOREM IInvHolds == Spec => []IInv
  BY InitIInv, NextIInv, PTL DEF Spec

\* Every variable and every copy has its type, on any number of connections.
THEOREM TypeCorrect == Spec => []TypeOK
  <1>1. IInv => TypeOK
    BY DEF IInv
  <1> QED
    BY <1>1, IInvHolds, PTL

-----------------------------------------------------------------------------
(* Stale copies, on any number of connections *)

Claimed == {u \in Users : userCoupon[u] # "NONE"}

\* What a stale copy is still good for: a checkout's covers its items, a claim's has
\* a coupon left and counts every coupon claimed since as its own.
CopiesCover ==
    \A p \in Procs :
        /\ tx[p].op = "checkout" =>
               \A prod \in Products : tx[p].stock[prod] >= tx[p].items[prod]
        /\ tx[p].op = "giveUp" => \A prod \in Products : tx[p].stock[prod] >= 0
        /\ tx[p].op = "claim" =>
               tx[p].copy > 0 /\ tx[p].copy >= CouponStock0 - Cardinality(Claimed)

OverlapOK == CopiesCover /\ StocksNonNegative /\ CouponsNeverLost

\* Coupons are only ever added, and they can be counted.
LEMMA MoreClaimed ==
  ASSUME Claimed \subseteq Claimed'
  PROVE  /\ Cardinality(Claimed) \in Nat /\ Cardinality(Claimed') \in Nat
         /\ Cardinality(Claimed) <= Cardinality(Claimed')
  <1>1. IsFiniteSet(Claimed) /\ IsFiniteSet(Claimed')
    BY CartCheckoutAssumption, FS_Subset DEF Claimed
  <1> QED
    BY <1>1, FS_Subset, FS_CardinalityType

LEMMA OverlapRead ==
  ASSUME IInv, OverlapOK, NEW p \in Procs, NEW t,
         tx' = [tx EXCEPT ![p] = t], UNCHANGED <<rows, couponEnded>>,
         t.op = "checkout" => \A prod \in Products : t.stock[prod] >= t.items[prod],
         t.op = "giveUp" => \A prod \in Products : t.stock[prod] >= 0,
         t.op = "claim" => t.copy > 0 /\ t.copy >= CouponStock0 - Cardinality(Claimed)
  PROVE  OverlapOK'
  <1>1. \A q \in Procs : tx'[q] = IF q = p THEN t ELSE tx[q]
    BY DEF IInv, TypeOK
  <1>2. UNCHANGED <<stock, couponLeft, userCoupon>> /\ Claimed' = Claimed
    BY DEF rows, Claimed
  <1> QED
    BY <1>1, <1>2 DEF OverlapOK, CopiesCover, StocksNonNegative, CouponsNeverLost

LEMMA OverlapWrite ==
  ASSUME IInv, OverlapOK, NEW p \in Procs, Done(p), Claimed \subseteq Claimed',
         couponLeft' \in Int, couponLeft' >= 0,
         couponLeft' >= CouponStock0 - Cardinality(Claimed'),
         \A prod \in Products : stock'[prod] >= 0
  PROVE  OverlapOK'
  <1>1. \A q \in Procs : tx'[q] = IF q = p THEN Idle ELSE tx[q]
    BY DEF Done, IInv, TypeOK
  <1>2. \A q \in Procs : tx[q].copy \in Int
    BY DEF IInv, TypeOK, TxState
  <1>3. CopiesCover'
    <2> SUFFICES ASSUME NEW q \in Procs
                 PROVE  /\ tx'[q].op = "checkout" =>
                               \A prod \in Products : tx'[q].stock[prod] >= tx'[q].items[prod]
                        /\ tx'[q].op = "giveUp" =>
                               \A prod \in Products : tx'[q].stock[prod] >= 0
                        /\ tx'[q].op = "claim" =>
                               /\ tx'[q].copy > 0
                               /\ tx'[q].copy >= CouponStock0 - Cardinality(Claimed')
      BY DEF CopiesCover
    <2>1. CASE q = p
      BY <1>1, <2>1, EmptyTypes
    <2>2. CASE q # p
      BY <1>1, <1>2, <2>2, MoreClaimed, CartCheckoutAssumption DEF OverlapOK, CopiesCover
    <2> QED
      BY <2>1, <2>2
  <1> QED
    BY <1>3 DEF OverlapOK, StocksNonNegative, CouponsNeverLost, Claimed

\* A product is saved from a copy that covers what is taken from it.
LEMMA SavedStocks ==
  ASSUME IInv, OverlapOK, NEW p \in Procs, NEW items \in Quantities,
         \/ SaveProducts(p, items, 1) /\ \A prod \in Products : tx[p].stock[prod] >= 0
         \/ /\ SaveProducts(p, items, -1)
            /\ \A prod \in Products : tx[p].stock[prod] >= items[prod]
  PROVE  \A prod \in Products : stock'[prod] >= 0
  <1>1. stock \in ProductStocks /\ tx[p].stock \in ProductStocks
    BY DEF IInv, TypeOK, TxState
  <1>2. ASSUME NEW prod \in Products
        PROVE  /\ stock[prod] \in Int /\ tx[p].stock[prod] \in Int
               /\ items[prod] \in Int /\ items[prod] >= 0 /\ stock[prod] >= 0
    BY <1>1, CartCheckoutAssumption DEF ProductStocks, Quantities, OverlapOK, StocksNonNegative
  <1> QED
    BY <1>2 DEF SaveProducts

LEMMA OverlapStep ==
  ASSUME IInv, OverlapOK, [Next]_vars
  PROVE  OverlapOK'
  <1> USE CartCheckoutAssumption
  <1>t. /\ stock \in ProductStocks /\ cart \in [Users -> Quantities] /\ couponLeft \in Int
        /\ userCoupon \in [Users -> UserCouponStatuses] /\ tx \in [Procs -> TxState]
        /\ orders \in [OrderNos -> OrderRow]
    BY DEF IInv, TypeOK
  <1>i. \A prod \in Products : stock[prod] \in Int /\ stock[prod] >= 0
    BY <1>t DEF ProductStocks, OverlapOK, StocksNonNegative
  <1>c. couponLeft >= 0 /\ couponLeft >= CouponStock0 - Cardinality(Claimed)
    BY DEF OverlapOK, StocksNonNegative, CouponsNeverLost, Claimed
  <1>r. ASSUME UNCHANGED <<stock, couponLeft, userCoupon, tx>> PROVE OverlapOK'
    BY <1>r DEF OverlapOK, CopiesCover, StocksNonNegative, CouponsNeverLost, Claimed
  <1>w. ASSUME NEW p \in Procs, Done(p), UNCHANGED <<couponLeft, userCoupon>>,
               \A prod \in Products : stock'[prod] >= 0
        PROVE  OverlapOK'
    <2>1. Claimed' = Claimed
      BY <1>w DEF Claimed
    <2> QED
      BY <1>w, <2>1, <1>c, <1>t, OverlapWrite
  <1>0. CASE UNCHANGED vars
    BY <1>0, <1>r DEF vars
  <1>1. ASSUME NEW p \in Procs, NEW u \in Users, Claim_Read(p, u)
        PROVE  OverlapOK'
    <2> DEFINE t == [Idle EXCEPT !.op = "claim", !.user = u, !.copy = couponLeft]
    <2>1. t.op = "claim" /\ t.copy = couponLeft
      BY ClaimCopy
    <2>2. tx' = [tx EXCEPT ![p] = t] /\ UNCHANGED <<rows, couponEnded>> /\ couponLeft > 0
      BY <1>1 DEF Claim_Read
    <2> HIDE DEF t
    <2> QED
      BY <2>1, <2>2, <1>c, OverlapRead
  <1>2. ASSUME NEW p \in Procs, NEW u \in Users, NEW c \in {0, 1},
               CheckoutCart_Read(p, u, c)
        PROVE  OverlapOK'
    <2> DEFINE t == [Idle EXCEPT !.op = "checkout", !.user = u,
                         !.coupon = c, !.items = cart[u], !.stock = stock]
    <2>1. t.op = "checkout" /\ t.items = cart[u] /\ t.stock = stock
      BY CheckoutCopy, ZenonT(60)
    <2>2. /\ tx' = [tx EXCEPT ![p] = t] /\ UNCHANGED <<rows, couponEnded>>
          /\ \A prod \in Products : stock[prod] >= cart[u][prod]
      BY <1>2 DEF CheckoutCart_Read
    <2> HIDE DEF t
    <2> QED
      BY <2>1, <2>2, OverlapRead
  <1>3. ASSUME NEW p \in Procs, NEW u \in Users, NEW prod \in Products,
               NEW q \in Requested,
               AddItem_Check(p, u, prod, q) \/ UpdateQuantity_Read(p, u, prod, q)
        PROVE  OverlapOK'
    <2>1. PICK op \in {"added", "update"} :
              /\ tx' = [tx EXCEPT ![p] = [Idle EXCEPT !.op = op, !.user = u,
                                                   !.prod = prod, !.arg = q]]
              /\ UNCHANGED <<rows, couponEnded>>
      BY <1>3 DEF AddItem_Check, UpdateQuantity_Read
    <2> DEFINE t == [Idle EXCEPT !.op = op, !.user = u, !.prod = prod, !.arg = q]
    <2>2. t.op = op
      BY DEF Idle
    <2>3. tx' = [tx EXCEPT ![p] = t] /\ UNCHANGED <<rows, couponEnded>>
      BY <2>1
    <2> HIDE DEF t
    <2> QED
      BY <2>2, <2>3, OverlapRead
  <1>4. ASSUME NEW p \in Procs, AddItem_Read(p)
        PROVE  OverlapOK'
    <2> DEFINE t == [tx[p] EXCEPT !.op = "add", !.copy = cart[tx[p].user][tx[p].prod]]
    <2>1. t.op = "add"
      BY <1>t DEF TxState
    <2>2. tx' = [tx EXCEPT ![p] = t] /\ UNCHANGED <<rows, couponEnded>>
      BY <1>4 DEF AddItem_Read
    <2> HIDE DEF t
    <2> QED
      BY <2>1, <2>2, OverlapRead
  <1>5. ASSUME NEW p \in Procs, AddItem_Write(p) \/ UpdateQuantity_Save(p)
        PROVE  OverlapOK'
    BY <1>5, <1>i, <1>w DEF AddItem_Write, UpdateQuantity_Save
  <1>6. ASSUME NEW p \in Procs, Claim_Write(p)
        PROVE  OverlapOK'
    <2> DEFINE u == tx[p].user
    <2>1. /\ u \in Users /\ tx[p].copy \in Int /\ userCoupon[u] = "NONE" /\ Done(p)
          /\ tx[p].copy > 0 /\ tx[p].copy >= CouponStock0 - Cardinality(Claimed)
      BY <1>6, <1>t DEF Claim_Write, IInv, ArgumentsOK, TxState, OverlapOK, CopiesCover
    <2>2. Claimed' = Claimed \cup {u} /\ u \notin Claimed
      BY <1>6, <2>1, <1>t DEF Claim_Write, Claimed
    <2>3. IsFiniteSet(Claimed) /\ Cardinality(Claimed) \in Nat
      BY FS_Subset, FS_CardinalityType DEF Claimed
    <2>4. Cardinality(Claimed') = Cardinality(Claimed) + 1
      BY <2>2, <2>3, FS_AddElement
    <2>5. couponLeft' = tx[p].copy - 1 /\ stock' = stock
      BY <1>6 DEF Claim_Write
    <2>6. /\ couponLeft' \in Int /\ couponLeft' >= 0
          /\ couponLeft' >= CouponStock0 - Cardinality(Claimed')
      BY <2>1, <2>3, <2>4, <2>5
    <2>7. Claimed \subseteq Claimed'
      BY <2>2
    <2>8. \A prod \in Products : stock'[prod] >= 0
      BY <2>5, <1>i
    <2> QED
      BY <2>1, <2>6, <2>7, <2>8, OverlapWrite
  <1>7. ASSUME NEW p \in Procs, NEW no \in OrderNos, CheckoutCart_Write(p, no)
        PROVE  OverlapOK'
    <2>1. /\ tx[p].user \in Users /\ tx[p].items \in Quantities /\ Done(p)
          /\ SaveProducts(p, tx[p].items, -1) /\ couponLeft' = couponLeft
          /\ \A prod \in Products : tx[p].stock[prod] >= tx[p].items[prod]
      BY <1>7, <1>t DEF CheckoutCart_Write, IInv, ArgumentsOK, TxState, OverlapOK, CopiesCover
    <2>2. \A prod \in Products : stock'[prod] >= 0
      BY <2>1, SavedStocks
    <2>3. Claimed \subseteq Claimed'
      BY <1>7, <1>t DEF CheckoutCart_Write, Claimed
    <2>4. couponLeft >= CouponStock0 - Cardinality(Claimed')
      BY <2>3, <1>c, <1>t, MoreClaimed
    <2> QED
      BY <2>1, <2>2, <2>3, <2>4, <1>c, <1>t, OverlapWrite
  <1>8. ASSUME NEW p \in Procs, NEW no \in OrderNos, NEW s \in {"CANCELLED", "CLOSED"},
               GiveUp_Read(p, no, s)
        PROVE  OverlapOK'
    <2> DEFINE t == [Idle EXCEPT !.op = "giveUp",
                         !.no = no, !.status = s, !.stock = stock]
    <2>1. t.op = "giveUp" /\ t.stock = stock
      BY DEF Idle
    <2>2. tx' = [tx EXCEPT ![p] = t] /\ UNCHANGED <<rows, couponEnded>>
      BY <1>8 DEF GiveUp_Read
    <2> HIDE DEF t
    <2> QED
      BY <2>1, <2>2, <1>i, OverlapRead
  <1>9. ASSUME NEW p \in Procs, NEW no \in OrderNos, PaymentCallback_Read(p, no)
        PROVE  OverlapOK'
    <2> DEFINE t == [Idle EXCEPT !.op = "pay", !.no = no]
    <2>1. t.op = "pay"
      BY DEF Idle
    <2>2. tx' = [tx EXCEPT ![p] = t] /\ UNCHANGED <<rows, couponEnded>>
      BY <1>9 DEF PaymentCallback_Read
    <2> HIDE DEF t
    <2> QED
      BY <2>1, <2>2, OverlapRead
  <1>10. ASSUME NEW p \in Procs, GiveUp_Write(p)
         PROVE  OverlapOK'
    <2>1. /\ tx[p].no \in OrderNos /\ orders[tx[p].no] \in OrderRow /\ Done(p)
          /\ SaveProducts(p, orders[tx[p].no].items, 1)
          /\ UNCHANGED <<couponLeft, userCoupon>>
          /\ \A prod \in Products : tx[p].stock[prod] >= 0
      BY <1>10, <1>t DEF GiveUp_Write, IInv, ArgumentsOK, OverlapOK, CopiesCover
    <2>2. orders[tx[p].no].items \in Quantities
      BY <2>1 DEF OrderRow
    <2>3. \A prod \in Products : stock'[prod] >= 0
      BY <2>1, <2>2, SavedStocks
    <2> QED
      BY <2>1, <2>3, <1>w
  <1>11. ASSUME NEW p \in Procs, PaymentCallback_Write(p) \/ Rollback(p)
         PROVE  OverlapOK'
    BY <1>11, <1>i, <1>w DEF PaymentCallback_Write, Rollback, rows
  <1>12. ASSUME NEW u \in Users, NEW prod \in Products, DeleteItem(u, prod)
         PROVE  OverlapOK'
    BY <1>12, <1>r DEF DeleteItem
  <1>13. CASE CouponEnds
    BY <1>13, <1>r DEF CouponEnds, rows
  <1> QED
    BY <1>0, <1>1, <1>2, <1>3, <1>4, <1>5, <1>6, <1>7, <1>8, <1>9, <1>10, <1>11,
       <1>12, <1>13 DEF Next

LEMMA InitOverlap == Init => OverlapOK
  <1> SUFFICES ASSUME Init PROVE OverlapOK
    OBVIOUS
  <1> USE CartCheckoutAssumption, EmptyTypes DEF Init
  <1>1. Claimed = {}
    BY DEF Claimed
  <1>2. Cardinality(Claimed) = 0
    BY <1>1, FS_EmptySet
  <1>3. CopiesCover
    BY DEF CopiesCover
  <1>4. StocksNonNegative
    BY DEF StocksNonNegative
  <1>5. CouponsNeverLost
    BY <1>2 DEF CouponsNeverLost, Claimed
  <1> QED
    BY <1>3, <1>4, <1>5 DEF OverlapOK

\* On any number of connections no stock goes below zero: each transaction writes
\* what its own copy covers, however stale that is.
THEOREM StocksNonNegativeHolds == Spec => []StocksNonNegative
  <1>1. IInv /\ OverlapOK /\ [Next]_vars => OverlapOK'
    BY OverlapStep
  <1>2. OverlapOK => StocksNonNegative
    BY DEF OverlapOK
  <1> QED
    BY <1>1, <1>2, InitOverlap, IInvHolds, PTL DEF Spec

\* On any number of connections overlapping claims never write the coupon's stock
\* below what the coupons that users have leave of it.
THEOREM CouponsNeverLostHolds == Spec => []CouponsNeverLost
  <1>1. IInv /\ OverlapOK /\ [Next]_vars => OverlapOK'
    BY OverlapStep
  <1>2. OverlapOK => CouponsNeverLost
    BY DEF OverlapOK
  <1> QED
    BY <1>1, <1>2, InitOverlap, IInvHolds, PTL DEF Spec

-----------------------------------------------------------------------------
(* One connection *)

\* At most one transaction is open, and what it read is still what is there.
FreshCopies ==
    /\ \A p, q \in Open : p = q
    /\ \A p \in Open :
        /\ tx[p].op = "claim" => tx[p].copy = couponLeft
        /\ tx[p].op = "checkout" =>
               /\ tx[p].stock = stock /\ tx[p].items = cart[tx[p].user]
               /\ tx[p].coupon # 0 => userCoupon[tx[p].user] = "UNUSED"
        /\ tx[p].op = "giveUp" => tx[p].stock = stock
        /\ tx[p].op \in {"giveUp", "pay"} => orders[tx[p].no].status = "WAIT_PAY"

\* The shop: what claiming a coupon, checking out, giving an order up and
\* paying do to the rows when each is one step.
Claim(u) ==
    /\ userCoupon[u] = "NONE"
    /\ couponLeft' = couponLeft - 1
    /\ userCoupon' = [userCoupon EXCEPT ![u] = "UNUSED"]
    /\ UNCHANGED <<stock, cart, orders>>

CheckOut(no, u, coupon) ==
    /\ orders[no] = NoOrder
    /\ coupon # 0 => userCoupon[u] = "UNUSED"
    /\ stock' = [prod \in Products |-> stock[prod] - cart[u][prod]]
    /\ userCoupon' = IF coupon # 0 THEN [userCoupon EXCEPT ![u] = "USED"] ELSE userCoupon
    /\ orders' = [orders EXCEPT ![no] = [user |-> u, items |-> cart[u],
                                         coupon |-> coupon, status |-> "WAIT_PAY"]]
    /\ cart' = [cart EXCEPT ![u] = Nothing]
    /\ UNCHANGED couponLeft

GiveUp(no, status) ==
    /\ orders[no].status = "WAIT_PAY"
    /\ stock' = [prod \in Products |-> stock[prod] + orders[no].items[prod]]
    /\ orders' = [orders EXCEPT ![no].status = status]
    /\ UNCHANGED <<cart, couponLeft, userCoupon>>

Pay(no) ==
    /\ orders[no].status = "WAIT_PAY"
    /\ orders' = [orders EXCEPT ![no].status = "PAID"]
    /\ UNCHANGED <<stock, cart, couponLeft, userCoupon>>

EditCart == UNCHANGED <<stock, couponLeft, userCoupon, orders>>

ShopStep ==
    \/ EditCart
    \/ \E u \in Users : Claim(u)
    \/ \E no \in OrderNos :
        \/ \E u \in Users, coupon \in {0, 1} : CheckOut(no, u, coupon)
        \/ \E status \in {"CANCELLED", "CLOSED"} : GiveUp(no, status)
        \/ Pay(no)

\* With one connection, a free connection means that no transaction is open.
LEMMA FreeMeansNoneOpen ==
  ASSUME MaxOpenConns = 1, ConnFree
  PROVE  Open = {}
  <1>1. IsFiniteSet(Open)
    BY CartCheckoutAssumption, FS_Subset DEF Open
  <1>2. Cardinality(Open) = 0
    BY <1>1, FS_CardinalityType DEF ConnFree
  <1> QED
    BY <1>1, <1>2, FS_EmptySet

\* The transaction that starts on the free connection has fresh copies.
LEMMA FreshRead ==
  ASSUME MaxOpenConns = 1, IInv, FreshCopies, ConnFree,
         NEW p \in Procs, NEW t,
         tx' = [tx EXCEPT ![p] = t], UNCHANGED <<rows, couponEnded>>,
         t.op = "claim" => t.copy = couponLeft,
         t.op = "checkout" => /\ t.stock = stock /\ t.items = cart[t.user]
                              /\ t.coupon # 0 => userCoupon[t.user] = "UNUSED",
         t.op = "giveUp" => t.stock = stock,
         t.op \in {"giveUp", "pay"} => orders[t.no].status = "WAIT_PAY"
  PROVE  FreshCopies' /\ EditCart
  <1>1. Open = {}
    BY FreeMeansNoneOpen
  <1>2. \A q \in Procs : tx'[q] = IF q = p THEN t ELSE tx[q]
    BY DEF IInv, TypeOK
  <1>3. Open' \subseteq {p}
    BY <1>1, <1>2 DEF Open
  <1>4. UNCHANGED <<stock, cart, couponLeft, userCoupon, orders>>
    BY DEF rows
  <1> QED
    BY <1>2, <1>3, <1>4 DEF FreshCopies, EditCart

\* After a commit or a rollback of the open transaction none is open.
LEMMA FreshDone ==
  ASSUME IInv, FreshCopies, NEW p \in Procs, Done(p),
         p \in Open \/ Open = {} \/ UNCHANGED rows
  PROVE  FreshCopies'
  <1>1. \A q \in Procs : tx'[q] = IF q = p THEN Idle ELSE tx[q]
    BY DEF Done, IInv, TypeOK
  <1>2. Open' = Open \ {p}
    BY <1>1, EmptyTypes DEF Open, Transactions
  <1>3. CASE p \in Open \/ Open = {}
    <2>1. Open' = {}
      BY <1>2, <1>3 DEF FreshCopies
    <2> QED
      BY <2>1 DEF FreshCopies
  <1>4. CASE UNCHANGED rows
    <2>1. UNCHANGED <<stock, cart, couponLeft, userCoupon, orders>>
      BY <1>4 DEF rows
    <2>2. \A q \in Open' : q \in Open /\ tx'[q] = tx[q]
      BY <1>1, <1>2 DEF Open
    <2> QED
      BY <2>1, <2>2 DEF FreshCopies
  <1> QED
    BY <1>3, <1>4

\* One connection keeps copies fresh, and every step is a step of the shop.
LEMMA SingleStep ==
  ASSUME MaxOpenConns = 1, IInv, FreshCopies, [Next]_vars
  PROVE  FreshCopies' /\ ShopStep
  <1> USE CartCheckoutAssumption
  <1>t. /\ stock \in ProductStocks /\ cart \in [Users -> Quantities]
        /\ orders \in [OrderNos -> OrderRow] /\ tx \in [Procs -> TxState]
        /\ Idle \in TxState
    BY EmptyTypes DEF IInv, TypeOK
  <1>i. \A prod \in Products :
            /\ stock[prod] \in Int
            /\ \A u \in Users : cart[u][prod] \in Int
            /\ \A no \in OrderNos : orders[no].items[prod] \in Int
    BY <1>t DEF ProductStocks, Quantities, OrderRow
  <1>0. CASE UNCHANGED vars
    BY <1>0 DEF vars, FreshCopies, Open, ShopStep, EditCart
  <1>1. ASSUME NEW p \in Procs, NEW u \in Users, Claim_Read(p, u)
        PROVE  FreshCopies' /\ EditCart
    <2> DEFINE t == [Idle EXCEPT !.op = "claim", !.user = u, !.copy = couponLeft]
    <2>1. t.op = "claim" /\ t.copy = couponLeft
      BY ClaimCopy
    <2>2. tx' = [tx EXCEPT ![p] = t] /\ UNCHANGED <<rows, couponEnded>> /\ ConnFree
      BY <1>1 DEF Claim_Read, Free
    <2> HIDE DEF t
    <2> QED
      BY <2>1, <2>2, FreshRead
  <1>2. ASSUME NEW p \in Procs, NEW u \in Users, NEW c \in {0, 1},
               CheckoutCart_Read(p, u, c)
        PROVE  FreshCopies' /\ EditCart
    <2> DEFINE t == [Idle EXCEPT !.op = "checkout", !.user = u,
                         !.coupon = c, !.items = cart[u], !.stock = stock]
    <2>1. /\ t.op = "checkout" /\ t.user = u /\ t.coupon = c
          /\ t.items = cart[u] /\ t.stock = stock
      BY <1>t DEF TxState
    <2>2. /\ tx' = [tx EXCEPT ![p] = t] /\ UNCHANGED <<rows, couponEnded>> /\ ConnFree
          /\ c # 0 => userCoupon[u] = "UNUSED"
      BY <1>2 DEF CheckoutCart_Read, Free, applyCoupon
    <2> HIDE DEF t
    <2> QED
      BY <2>1, <2>2, FreshRead
  <1>3. ASSUME NEW p \in Procs, NEW u \in Users, NEW prod \in Products,
               NEW q \in Requested,
               AddItem_Check(p, u, prod, q) \/ UpdateQuantity_Read(p, u, prod, q)
        PROVE  FreshCopies' /\ EditCart
    <2>1. PICK op \in {"added", "update"} :
              /\ tx' = [tx EXCEPT ![p] = [Idle EXCEPT !.op = op, !.user = u,
                                                   !.prod = prod, !.arg = q]]
              /\ UNCHANGED <<rows, couponEnded>> /\ ConnFree
      BY <1>3 DEF AddItem_Check, UpdateQuantity_Read, Free
    <2> DEFINE t == [Idle EXCEPT !.op = op, !.user = u, !.prod = prod, !.arg = q]
    <2>2. t.op = op
      BY <1>t DEF TxState
    <2> HIDE DEF t
    <2>3. tx' = [tx EXCEPT ![p] = t]
      BY <2>1 DEF t
    <2> QED
      BY <2>1, <2>2, <2>3, FreshRead
  <1>4. ASSUME NEW p \in Procs, AddItem_Read(p)
        PROVE  FreshCopies' /\ EditCart
    <2>1. tx[p].user \in Users /\ tx[p].prod \in Products /\ tx[p] \in TxState
      BY <1>4, <1>t DEF AddItem_Read, IInv, ArgumentsOK
    <2>2. PICK c \in Int : c = cart[tx[p].user][tx[p].prod]
      <3>1. cart[tx[p].user][tx[p].prod] \in Int
        BY <2>1, <1>i
      <3> QED
        BY <3>1
    <2> DEFINE t == [tx[p] EXCEPT !.op = "add", !.copy = c]
    <2>3. t.op = "add"
      BY <2>1, AddCopy
    <2>4. tx' = [tx EXCEPT ![p] = t] /\ UNCHANGED <<rows, couponEnded>> /\ ConnFree
      BY <1>4, <2>2 DEF AddItem_Read
    <2> HIDE DEF t
    <2> QED
      BY <2>3, <2>4, FreshRead
  <1>5. ASSUME NEW p \in Procs, AddItem_Write(p)
        PROVE  FreshCopies' /\ EditCart
    <2>1. p \in Open /\ Done(p)
      BY <1>5 DEF AddItem_Write, Open, Transactions
    <2> QED
      BY <1>5, <2>1, FreshDone DEF AddItem_Write, EditCart
  <1>6. ASSUME NEW p \in Procs, UpdateQuantity_Save(p)
        PROVE  FreshCopies' /\ EditCart
    <2>1. Open = {} /\ Done(p)
      BY <1>6, FreeMeansNoneOpen DEF UpdateQuantity_Save
    <2> QED
      BY <1>6, <2>1, FreshDone DEF UpdateQuantity_Save, EditCart
  <1>7. ASSUME NEW p \in Procs, Claim_Write(p)
        PROVE  FreshCopies' /\ \E u \in Users : Claim(u)
    <2>1. p \in Open /\ Done(p) /\ tx[p].user \in Users
      BY <1>7 DEF Claim_Write, Open, Transactions, IInv, ArgumentsOK
    <2>2. tx[p].copy = couponLeft
      BY <1>7, <2>1 DEF Claim_Write, FreshCopies
    <2>3. Claim(tx[p].user)
      BY <1>7, <2>2 DEF Claim_Write, Claim
    <2> QED
      BY <2>1, <2>3, FreshDone
  <1>8. ASSUME NEW p \in Procs, NEW no \in OrderNos, CheckoutCart_Write(p, no)
        PROVE  /\ FreshCopies'
               /\ \E u \in Users, coupon \in {0, 1} : CheckOut(no, u, coupon)
    <2> DEFINE u == tx[p].user
    <2>1. p \in Open /\ Done(p) /\ u \in Users /\ tx[p].coupon \in {0, 1}
      BY <1>8, <1>t DEF CheckoutCart_Write, Open, Transactions, IInv, ArgumentsOK, TxState
    <2>2. /\ tx[p].stock = stock /\ tx[p].items = cart[u]
          /\ tx[p].coupon # 0 => userCoupon[u] = "UNUSED"
      BY <1>8, <2>1 DEF CheckoutCart_Write, FreshCopies
    <2>3. stock' = [prod \in Products |-> stock[prod] - cart[u][prod]]
      BY <1>8, <2>1, <2>2, <1>i DEF CheckoutCart_Write, SaveProducts
    <2>4. CheckOut(no, u, tx[p].coupon)
      BY <1>8, <2>2, <2>3 DEF CheckoutCart_Write, CheckOut
    <2> QED
      BY <2>1, <2>4, FreshDone
  <1>9. ASSUME NEW p \in Procs, NEW no \in OrderNos, NEW s \in {"CANCELLED", "CLOSED"},
               GiveUp_Read(p, no, s)
        PROVE  FreshCopies' /\ EditCart
    <2> DEFINE t == [Idle EXCEPT !.op = "giveUp",
                         !.no = no, !.status = s, !.stock = stock]
    <2>1. t.op = "giveUp" /\ t.no = no /\ t.stock = stock
      BY <1>t DEF TxState
    <2>2. /\ tx' = [tx EXCEPT ![p] = t] /\ UNCHANGED <<rows, couponEnded>> /\ ConnFree
          /\ orders[no].status = "WAIT_PAY"
      BY <1>9 DEF GiveUp_Read, Free
    <2> HIDE DEF t
    <2> QED
      BY <2>1, <2>2, FreshRead
  <1>10. ASSUME NEW p \in Procs, NEW no \in OrderNos, PaymentCallback_Read(p, no)
         PROVE  FreshCopies' /\ EditCart
    <2> DEFINE t == [Idle EXCEPT !.op = "pay", !.no = no]
    <2>1. t.op = "pay" /\ t.no = no
      BY PayCopy
    <2>2. /\ tx' = [tx EXCEPT ![p] = t] /\ UNCHANGED <<rows, couponEnded>> /\ ConnFree
          /\ orders[no].status = "WAIT_PAY"
      BY <1>10 DEF PaymentCallback_Read, Free
    <2> HIDE DEF t
    <2> QED
      BY <2>1, <2>2, FreshRead
  <1>11. ASSUME NEW p \in Procs, GiveUp_Write(p)
         PROVE  /\ FreshCopies'
                /\ \E no \in OrderNos, s \in {"CANCELLED", "CLOSED"} : GiveUp(no, s)
    <2> DEFINE no == tx[p].no
    <2>1. /\ p \in Open /\ Done(p) /\ no \in OrderNos
          /\ tx[p].status \in {"CANCELLED", "CLOSED"}
      BY <1>11 DEF GiveUp_Write, Open, Transactions, IInv, ArgumentsOK
    <2>2. tx[p].stock = stock /\ orders[no].status = "WAIT_PAY"
      BY <1>11, <2>1 DEF GiveUp_Write, FreshCopies
    <2>3. stock' = [prod \in Products |-> stock[prod] + orders[no].items[prod]]
      BY <1>11, <2>1, <2>2, <1>i DEF GiveUp_Write, SaveProducts
    <2>4. GiveUp(no, tx[p].status)
      BY <1>11, <2>2, <2>3 DEF GiveUp_Write, GiveUp
    <2> QED
      BY <2>1, <2>4, FreshDone
  <1>12. ASSUME NEW p \in Procs, PaymentCallback_Write(p)
         PROVE  FreshCopies' /\ \E no \in OrderNos : Pay(no)
    <2> DEFINE no == tx[p].no
    <2>1. p \in Open /\ Done(p) /\ no \in OrderNos
      BY <1>12 DEF PaymentCallback_Write, Open, Transactions, IInv, ArgumentsOK
    <2>2. orders[no].status = "WAIT_PAY"
      BY <1>12, <2>1 DEF PaymentCallback_Write, FreshCopies
    <2>3. Pay(no)
      BY <1>12, <2>2 DEF PaymentCallback_Write, Pay
    <2> QED
      BY <2>1, <2>3, FreshDone
  <1>13. ASSUME NEW p \in Procs, Rollback(p)
         PROVE  FreshCopies' /\ EditCart
    <2>1. Done(p) /\ UNCHANGED rows
      BY <1>13 DEF Rollback
    <2> QED
      BY <2>1, FreshDone DEF EditCart, rows
  <1>14. ASSUME NEW u \in Users, NEW prod \in Products, DeleteItem(u, prod)
         PROVE  FreshCopies' /\ EditCart
    <2>1. Open = {} /\ Open' = Open
      BY <1>14, FreeMeansNoneOpen DEF DeleteItem, Open
    <2> QED
      BY <1>14, <2>1 DEF DeleteItem, FreshCopies, EditCart
  <1>15. CASE CouponEnds
    BY <1>15 DEF CouponEnds, rows, FreshCopies, Open, ShopStep, EditCart
  <1> QED
    BY <1>0, <1>1, <1>2, <1>3, <1>4, <1>5, <1>6, <1>7, <1>8, <1>9, <1>10, <1>11,
       <1>12, <1>13, <1>14, <1>15 DEF Next, ShopStep

\* Every coupon that is handed out is taken from the stock.
LEMMA CouponStep ==
  ASSUME IInv, CouponConserved, ShopStep
  PROVE  CouponConserved'
  <1> DEFINE Holders == {u \in Users : userCoupon[u] # "NONE"}
  <1>t. /\ userCoupon \in [Users -> UserCouponStatuses] /\ couponLeft \in Int
        /\ CouponStock0 \in Int
        /\ IsFiniteSet(Holders) /\ Cardinality(Holders) \in Nat
    BY CartCheckoutAssumption, FS_Subset, FS_CardinalityType DEF IInv, TypeOK
  <1>0. CASE Holders' = Holders /\ couponLeft' = couponLeft
    BY <1>0 DEF CouponConserved
  <1>1. ASSUME NEW u \in Users, Claim(u)
        PROVE  CouponConserved'
    <2>1. u \notin Holders /\ Holders' = Holders \cup {u}
      BY <1>1, <1>t DEF Claim
    <2> HIDE DEF Holders
    <2>2. Cardinality(Holders') = Cardinality(Holders) + 1
      BY <2>1, <1>t, FS_AddElement
    <2>3. couponLeft' = CouponStock0 - Cardinality(Holders')
      BY <1>1, <2>2, <1>t DEF Claim, CouponConserved, Holders
    <2> QED
      BY <2>3 DEF CouponConserved, Holders
  <1>2. ASSUME NEW no \in OrderNos, NEW u \in Users, NEW c \in {0, 1}, CheckOut(no, u, c)
        PROVE  CouponConserved'
    <2>1. \A v \in Users : userCoupon'[v] # "NONE" <=> userCoupon[v] # "NONE"
      BY <1>2, <1>t DEF CheckOut
    <2> QED
      BY <1>2, <2>1, <1>0 DEF CheckOut
  <1> QED
    BY <1>0, <1>1, <1>2 DEF ShopStep, EditCart, GiveUp, Pay

\* The orders that took the discount of u's coupon.
Discounted(u) == {no \in OrderNos : orders[no].user = u /\ orders[no].coupon # 0}

\* A coupon is spent by one checkout, which only an UNUSED one allows.
LEMMA SpentStep ==
  ASSUME IInv, CouponSpentOnce, ShopStep
  PROVE  CouponSpentOnce'
  <1> DEFINE Spent(u) == Cardinality(Discounted(u)) = IF userCoupon[u] = "USED" THEN 1 ELSE 0
  <1>t. /\ userCoupon \in [Users -> UserCouponStatuses]
        /\ orders \in [OrderNos -> OrderRow]
        /\ \A u \in Users : IsFiniteSet(Discounted(u))
    BY CartCheckoutAssumption, FS_Subset DEF IInv, TypeOK, Discounted
  <1>s. \A u \in Users : Spent(u)
    BY DEF CouponSpentOnce, Discounted
  <1> SUFFICES ASSUME NEW v \in Users PROVE Spent(v)'
    BY DEF CouponSpentOnce, Discounted
  <1>0. CASE /\ \A no \in OrderNos : /\ orders'[no].user = orders[no].user
                                     /\ orders'[no].coupon = orders[no].coupon
             /\ userCoupon'[v] = "USED" <=> userCoupon[v] = "USED"
    <2>1. Discounted(v)' = Discounted(v)
      BY <1>0 DEF Discounted
    <2> QED
      BY <1>0, <1>s, <2>1
  <1>1. ASSUME NEW u \in Users, Claim(u)
        PROVE  Spent(v)'
    <2>1. userCoupon'[v] = "USED" <=> userCoupon[v] = "USED"
      BY <1>1, <1>t DEF Claim
    <2> QED
      BY <1>0, <1>1, <2>1 DEF Claim
  <1>2. ASSUME NEW no \in OrderNos, NEW u \in Users, NEW c \in {0, 1}, CheckOut(no, u, c)
        PROVE  Spent(v)'
    <2> DEFINE row == [user |-> u, items |-> cart[u], coupon |-> c, status |-> "WAIT_PAY"]
    <2>1. row.user = u /\ row.coupon = c
      OBVIOUS
    <2>2. orders' = [orders EXCEPT ![no] = row]
      BY <1>2 DEF CheckOut
    <2> HIDE DEF row
    <2>3. orders[no].user # v /\ orders[no].coupon = 0
      BY <1>2, EmptyTypes, CartCheckoutAssumption DEF CheckOut
    <2>4. CASE u = v /\ c # 0
      <3>1. no \notin Discounted(v) /\ Discounted(v)' = Discounted(v) \cup {no}
        BY <2>1, <2>2, <2>3, <2>4, <1>t DEF Discounted
      <3>2. userCoupon[v] = "UNUSED" /\ userCoupon'[v] = "USED"
        BY <1>2, <2>4, <1>t DEF CheckOut
      <3>3. Cardinality(Discounted(v)) = 0
        BY <3>2, <1>s
      <3>4. Cardinality(Discounted(v)') = Cardinality(Discounted(v)) + 1
        BY <3>1, <1>t, FS_AddElement
      <3> QED
        BY <3>2, <3>3, <3>4
    <2>5. CASE ~ (u = v /\ c # 0)
      <3>1. Discounted(v)' = Discounted(v)
        BY <2>1, <2>2, <2>3, <2>5, <1>t DEF Discounted
      <3>2. userCoupon'[v] = userCoupon[v]
        BY <1>2, <2>5, <1>t DEF CheckOut
      <3> QED
        BY <3>1, <3>2, <1>s
    <2> QED
      BY <2>4, <2>5
  <1>3. ASSUME NEW no \in OrderNos, NEW s \in {"CANCELLED", "CLOSED", "PAID"},
               orders' = [orders EXCEPT ![no].status = s], UNCHANGED userCoupon
        PROVE  Spent(v)'
    <2>1. \A m \in OrderNos : /\ orders'[m].user = orders[m].user
                              /\ orders'[m].coupon = orders[m].coupon
      BY <1>3, <1>t DEF OrderRow
    <2> QED
      BY <1>0, <1>3, <2>1
  <1>4. CASE EditCart
    BY <1>4, <1>0 DEF EditCart
  <1> QED
    BY <1>1, <1>2, <1>3, <1>4 DEF ShopStep, GiveUp, Pay

\* What a checkout takes from the stock, and what is returned, the live orders
\* gain and lose.
LEMMA ProductStep ==
  ASSUME IInv, ProductConserved, ShopStep
  PROVE  ProductConserved'
  <1> USE CartCheckoutAssumption
  <1>t. orders \in [OrderNos -> OrderRow] /\ stock \in ProductStocks
    BY DEF IInv, TypeOK
  <1>f. IsFiniteSet(LiveOrders)
    BY FS_Subset DEF LiveOrders
  <1> SUFFICES ASSUME NEW prod \in Products
               PROVE  stock'[prod] = Stock0 - SumFunctionOnSet(Ordered(prod)', LiveOrders')
    BY DEF ProductConserved
  <1> DEFINE Sum == SumFunctionOnSet(Ordered(prod), LiveOrders)
  <1>i. /\ stock[prod] \in Int /\ Stock0 \in Int
        /\ \A u \in Users : cart[u][prod] \in Int
        /\ \A no \in OrderNos :
               Ordered(prod)[no] = orders[no].items[prod] /\ Ordered(prod)[no] \in Int
    BY <1>t DEF ProductStocks, Quantities, OrderRow, Ordered, IInv, TypeOK
  <1>l. LiveOrders \subseteq OrderNos
    BY DEF LiveOrders
  <1>s. stock[prod] = Stock0 - Sum /\ Sum \in Int
    BY <1>f, <1>i, <1>l, SumType DEF ProductConserved
  <1>1. CASE UNCHANGED <<stock, orders>>
    BY <1>1, <1>s DEF Ordered, LiveOrders
  <1>2. ASSUME NEW no \in OrderNos, NEW u \in Users, NEW c \in {0, 1}, CheckOut(no, u, c)
        PROVE  stock'[prod] = Stock0 - SumFunctionOnSet(Ordered(prod)', LiveOrders')
    <2> DEFINE row == [user |-> u, items |-> cart[u], coupon |-> c, status |-> "WAIT_PAY"]
    <2>1. row.items = cart[u] /\ row.status = "WAIT_PAY"
      OBVIOUS
    <2>2. orders' = [orders EXCEPT ![no] = row]
      BY <1>2 DEF CheckOut
    <2> HIDE DEF row
    <2>3. no \notin LiveOrders /\ LiveOrders' = LiveOrders \cup {no}
      BY <1>2, <2>1, <2>2, <1>t, EmptyTypes DEF CheckOut, LiveOrders
    <2>4. /\ Ordered(prod)'[no] = cart[u][prod]
          /\ \A m \in OrderNos : m # no => Ordered(prod)'[m] = Ordered(prod)[m]
      BY <2>1, <2>2, <1>t DEF Ordered
    <2>5. /\ \A x \in LiveOrders : /\ Ordered(prod)[x] \in Int
                                   /\ Ordered(prod)'[x] = Ordered(prod)[x]
          /\ Ordered(prod)'[no] \in Int
      BY <2>3, <2>4, <1>i, <1>l
    <2>6. SumFunctionOnSet(Ordered(prod)', LiveOrders \cup {no}) = Sum + Ordered(prod)'[no]
      BY <1>f, <2>3, <2>5, SumJoin
    <2>7. stock'[prod] = stock[prod] - cart[u][prod]
      BY <1>2 DEF CheckOut
    <2> HIDE DEF Sum
    <2> QED
      BY <1>s, <1>i, <2>3, <2>4, <2>6, <2>7
  <1>3. ASSUME NEW no \in OrderNos, NEW s, s \notin {"WAIT_PAY", "PAID"}, GiveUp(no, s)
        PROVE  stock'[prod] = Stock0 - SumFunctionOnSet(Ordered(prod)', LiveOrders')
    <2>1. /\ \A m \in OrderNos : /\ orders'[m].items = orders[m].items
                                 /\ m # no => orders'[m].status = orders[m].status
          /\ orders'[no].status = s
      BY <1>3, <1>t DEF GiveUp, OrderRow
    <2>2. no \in LiveOrders /\ LiveOrders' = LiveOrders \ {no}
      BY <1>3, <2>1 DEF GiveUp, LiveOrders
    <2>3. \A m \in OrderNos : Ordered(prod)'[m] = Ordered(prod)[m]
      BY <2>1 DEF Ordered
    <2>4. \A x \in LiveOrders : /\ Ordered(prod)[x] \in Int
                                /\ Ordered(prod)'[x] = Ordered(prod)[x]
      BY <2>3, <1>i, <1>l
    <2>5. SumFunctionOnSet(Ordered(prod)', LiveOrders \ {no}) = Sum - Ordered(prod)[no]
      <3>1. no \in LiveOrders /\ Ordered(prod)[no] \in Int /\ Sum \in Int
        BY <1>s, <2>2, <2>4
      <3> QED
        BY <1>f, <2>4, <3>1, SumLeave
    <2>6. stock'[prod] = stock[prod] + orders[no].items[prod]
      BY <1>3 DEF GiveUp
    <2> HIDE DEF Sum
    <2> QED
      BY <1>s, <1>i, <2>2, <2>5, <2>6
  <1>4. ASSUME NEW no \in OrderNos, Pay(no)
        PROVE  stock'[prod] = Stock0 - SumFunctionOnSet(Ordered(prod)', LiveOrders')
    <2>1. /\ \A m \in OrderNos : /\ orders'[m].items = orders[m].items
                                 /\ m # no => orders'[m].status = orders[m].status
          /\ orders'[no].status = "PAID"
      BY <1>4, <1>t DEF Pay, OrderRow
    <2>2. LiveOrders' = LiveOrders
      BY <1>4, <2>1 DEF Pay, LiveOrders
    <2>3. \A x \in LiveOrders : Ordered(prod)[x] = Ordered(prod)'[x]
      BY <2>1, <1>l DEF Ordered
    <2>4. SumFunctionOnSet(Ordered(prod)', LiveOrders) = Sum
      BY <1>f, <2>3, SumEqual
    <2> QED
      BY <1>4, <1>s, <2>2, <2>4 DEF Pay
  <1> QED
    BY <1>1, <1>2, <1>3, <1>4 DEF ShopStep, EditCart, Claim

LEMMA InitSingle ==
  Init => FreshCopies /\ ProductConserved /\ CouponConserved /\ CouponSpentOnce
  <1> SUFFICES ASSUME Init
               PROVE  FreshCopies /\ ProductConserved /\ CouponConserved /\ CouponSpentOnce
    OBVIOUS
  <1> USE CartCheckoutAssumption, EmptyTypes DEF Init
  <1>1. FreshCopies
    <2>1. Open = {}
      BY DEF Open, Transactions
    <2> QED
      BY <2>1 DEF FreshCopies
  <1>2. ProductConserved
    <2>1. LiveOrders = {}
      BY DEF LiveOrders
    <2> QED
      BY <2>1, SumEmpty DEF ProductConserved
  <1>3. CouponConserved
    <2>1. {u \in Users : userCoupon[u] # "NONE"} = {}
      OBVIOUS
    <2> QED
      BY <2>1, FS_EmptySet DEF CouponConserved
  <1>4. CouponSpentOnce
    <2>1. \A u \in Users : {no \in OrderNos : orders[no].user = u /\ orders[no].coupon # 0} = {}
      OBVIOUS
    <2> QED
      BY <2>1, FS_EmptySet DEF CouponSpentOnce
  <1> QED
    BY <1>1, <1>2, <1>3, <1>4

\* On one connection (SQLite), of every product, the stock and what live orders
\* hold always add up to the initial stock.
THEOREM ProductConservedHolds ==
  ASSUME MaxOpenConns = 1
  PROVE  Spec => []ProductConserved
  <1>1. IInv /\ FreshCopies /\ ProductConserved /\ [Next]_vars
        => FreshCopies' /\ ProductConserved'
    BY SingleStep, ProductStep
  <1> QED
    BY <1>1, InitSingle, IInvHolds, PTL DEF Spec

\* On one connection, every coupon handed out was taken from the coupon's stock.
THEOREM CouponConservedHolds ==
  ASSUME MaxOpenConns = 1
  PROVE  Spec => []CouponConserved
  <1>1. IInv /\ FreshCopies /\ CouponConserved /\ [Next]_vars
        => FreshCopies' /\ CouponConserved'
    BY SingleStep, CouponStep
  <1> QED
    BY <1>1, InitSingle, IInvHolds, PTL DEF Spec

\* On one connection, a user's coupon gives its discount to exactly one order if
\* it is USED, and to none before.
THEOREM CouponSpentOnceHolds ==
  ASSUME MaxOpenConns = 1
  PROVE  Spec => []CouponSpentOnce
  <1>1. IInv /\ FreshCopies /\ CouponSpentOnce /\ [Next]_vars
        => FreshCopies' /\ CouponSpentOnce'
    BY SingleStep, SpentStep
  <1> QED
    BY <1>1, InitSingle, IInvHolds, PTL DEF Spec

\* On one connection, the database changes only as if every transaction ran
\* alone: the requests in flight cannot be told from a serial execution.
THEOREM SerialHolds ==
  ASSUME MaxOpenConns = 1
  PROVE  Spec => [][ShopStep]_rows
  <1>1. IInv /\ FreshCopies /\ [Next]_vars => FreshCopies' /\ [ShopStep]_rows
    BY SingleStep
  <1> QED
    BY <1>1, InitSingle, IInvHolds, PTL DEF Spec
=============================================================================
