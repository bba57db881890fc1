-------------------------- MODULE RedisGuardProofs --------------------------
(***************************************************************************)
(* Proofs about RedisGuard for every number of requests, users, units and  *)
(* mishaps, on both databases.                                             *)
(***************************************************************************)
EXTENDS RedisGuard, FiniteSetTheorems, TLAPS

-----------------------------------------------------------------------------
(* The inductive invariant, in parts *)

\* A request that holds or gives back a reservation of u.
Holds(p, u) == req[p].user = u /\ req[p].stage \in {"create", "release"}

\* A cancellation of u's order that has released in Redis and not committed.
Committing(p, u) == req[p].user = u /\ req[p].stage = "commit"

\* A request of a user has him as its argument, and a cancellation, a worker or a
\* payment is about an order that exists.
ArgumentsOK ==
    \A p \in Procs :
        /\ req[p].stage \in {"reserve", "create", "release", "cancel", "commit", "move"} =>
               req[p].user \in Users
        /\ req[p].stage \in {"cancel", "commit", "move"} =>
               order[req[p].user] \in {"LIVE", "GONE"}

\* A transaction that has read an order.
Open == {"cancel", "commit", "move"}

\* On one connection at most one transaction is open, and the order it has read is
\* still live; unless an edit wrote a stock back, so is the stock it has read.
FreshCancel ==
    Serial =>
        /\ \A p, q \in Procs : req[p].stage \in Open /\ req[q].stage \in Open => p = q
        /\ \A p \in Procs : req[p].stage \in Open => order[req[p].user] = "LIVE"
        /\ Without({"edit"}) =>
               /\ dbStock >= 0
               /\ \A p \in Procs :
                      req[p].stage \in {"cancel", "commit"} => req[p].copy = dbStock

\* Before the first call of a script there is no order and no reservation, and
\* whoever has read the activity has read its initial stock; afterwards the key
\* stays, unless it is lost.
Untouched ==
    Without({"evict"}) /\ stockKey = Missing =>
        /\ dbStock = Stock0
        /\ usersKey = {}
        /\ \A u \in Users : order[u] = "NONE"
        /\ \A p \in Procs :
               /\ req[p].stage \notin {"create", "release", "cancel", "commit", "move"}
               /\ req[p].stage \in {"reserve", "edit"} => req[p].copy = Stock0

\* The scripts never take the key below zero.
KeyNonNegative ==
    Without({"evict", "repair"}) /\ stockKey # Missing => stockKey >= 0

\* A reservation is held by one request, and its user is marked until he has his
\* order; a request that holds a reservation of a user with a live order that was
\* never given back has got it while that order is being cancelled.
HoldersOK ==
    Without({"evict", "crash", "commit", "rollback"}) =>
        \A u \in Users \ revived, p \in Procs : Holds(p, u) =>
            /\ order[u] = "NONE" =>
                   u \in usersKey /\ \A q \in Procs : Holds(q, u) => p = q
            /\ order[u] = "LIVE" => \E q \in Procs : Committing(q, u)

\* Nobody is marked without reason: he has a live order that is not being
\* cancelled, or a request still holds his reservation.
MarksOK ==
    Without({"evict", "crash", "commit", "rollback", "reply"}) =>
        \A u \in usersKey :
            \/ order[u] = "LIVE" /\ \A q \in Procs : ~Committing(q, u)
            \/ \E p \in Procs : Holds(p, u)

IInv ==
    /\ TypeOK
    /\ ArgumentsOK
    /\ FreshCancel
    /\ DatabaseConserved
    /\ Untouched
    /\ KeyNonNegative
    /\ GuardBalanced
    /\ BuyersAreMarked
    /\ HoldersOK
    /\ MarksOK
    /\ NoOversell
    /\ GivenBackIsFinal

-----------------------------------------------------------------------------
(* Types, arguments and counters *)

\* What is kept of a request.
Requests == [stage : Stages, user : Users \cup {None}, copy : Int]

\* A request that is done.
LEMMA FinishStep ==
  ASSUME TypeOK, NEW p \in Procs, Finish(p)
  PROVE  /\ req' \in [Procs -> Requests]
         /\ req'[p] = Idle /\ Idle.stage = "idle"
         /\ \A q \in Procs : q # p => req'[q] = req[q]
  BY DEF TypeOK, Finish, Idle, Requests, Stages

\* A request that goes on keeps its user and its copy.
LEMMA GotoStep ==
  ASSUME TypeOK, NEW p \in Procs, NEW t \in Stages, Goto(p, t)
  PROVE  /\ req' \in [Procs -> Requests]
         /\ req'[p].stage = t /\ req'[p].user = req[p].user /\ req'[p].copy = req[p].copy
         /\ \A q \in Procs : q # p => req'[q] = req[q]
  BY DEF TypeOK, Goto, Requests

\* A request that begins reads the stock.
LEMMA BeginStep ==
  ASSUME TypeOK, NEW p \in Procs, NEW t \in Stages, NEW u \in Users \cup {None},
         req' = [req EXCEPT ![p] = [stage |-> t, user |-> u, copy |-> dbStock]]
  PROVE  /\ req' \in [Procs -> Requests]
         /\ req'[p].stage = t /\ req'[p].user = u /\ req'[p].copy = dbStock
         /\ \A q \in Procs : q # p => req'[q] = req[q]
  BY DEF TypeOK, Requests

\* A worker or a payment that has read an order.
LEMMA MoveStep ==
  ASSUME TypeOK, NEW p \in Procs, NEW u \in Users, processOrderCreated_Read(p, u)
  PROVE  /\ req' \in [Procs -> Requests]
         /\ req[p].stage = "idle"
         /\ req'[p].stage = "move" /\ req'[p].user = u /\ order[u] = "LIVE"
         /\ \A q \in Procs : q # p => req'[q] = req[q]
  BY DEF TypeOK, processOrderCreated_Read, Requests, Stages, Idle

\* A worker or a payment that saves: the order is live afterwards, and if it was
\* not before then it counts as revived.
LEMMA SaveStep ==
  ASSUME TypeOK, ArgumentsOK, NEW p \in Procs, processOrderCreated_Save(p)
  PROVE  /\ req[p].stage = "move" /\ req[p].user \in Users
         /\ order[req[p].user] \in {"LIVE", "GONE"}
         /\ order' \in [Users -> {"NONE", "LIVE", "GONE"}]
         /\ \A u \in Users : order'[u] = IF u = req[p].user THEN "LIVE" ELSE order[u]
         /\ order[req[p].user] = "LIVE" => revived' = revived /\ order' = order
         /\ order[req[p].user] # "LIVE" => revived' = revived \cup {req[p].user}
         /\ revived' \subseteq Users
         /\ req'[p].stage = "idle"
         /\ \A q \in Procs : q # p => req'[q] = req[q]
         /\ UNCHANGED <<engine, dbStock, redis, mishaps>>
  <1>1. req[p].stage = "move" /\ req[p].user \in Users
        /\ order[req[p].user] \in {"LIVE", "GONE"}
    BY DEF processOrderCreated_Save, ArgumentsOK
  <1>2. /\ order' \in [Users -> {"NONE", "LIVE", "GONE"}]
        /\ \A u \in Users : order'[u] = IF u = req[p].user THEN "LIVE" ELSE order[u]
        /\ order[req[p].user] = "LIVE" => order' = order
    BY <1>1 DEF processOrderCreated_Save, TypeOK
  <1>3. /\ order[req[p].user] = "LIVE" => revived' = revived
        /\ order[req[p].user] # "LIVE" => revived' = revived \cup {req[p].user}
    BY <1>1 DEF processOrderCreated_Save, Revive
  <1>4. /\ req'[p].stage = "idle"
        /\ \A q \in Procs : q # p => req'[q] = req[q]
    BY FinishStep DEF processOrderCreated_Save
  <1> QED
    BY <1>1, <1>2, <1>3, <1>4 DEF processOrderCreated_Save, TypeOK

\* A mishap is counted, and counters never go back.
LEMMA MishapStep ==
  ASSUME TypeOK, NEW k \in MishapKinds, Mishap(k)
  PROVE  /\ mishaps' \in [MishapKinds -> 0..MaxMishaps]
         /\ mishaps'[k] # 0
         /\ \A j \in MishapKinds : mishaps'[j] = 0 => mishaps[j] = 0
  <1> USE RedisGuardAssumption DEF TypeOK, Mishap, MishapCount, MishapKinds
  <1>1. mishaps[k] + 1 \in 0..MaxMishaps
    OBVIOUS
  <1>2. mishaps' \in [MishapKinds -> 0..MaxMishaps]
    BY <1>1
  <1> QED
    BY <1>2

LEMMA TypeStep ==
  ASSUME TypeOK, ArgumentsOK, [Next]_vars
  PROVE  TypeOK'
  <1> USE RedisGuardAssumption, FinishStep, GotoStep, BeginStep
      DEF db, redis, Stages
  <1>t. req' \in [Procs -> Requests] /\ mishaps' \in [MishapKinds -> 0..MaxMishaps]
        /\ UNCHANGED <<db, redis>> => TypeOK'
    BY DEF TypeOK, Requests
  <1>0. CASE UNCHANGED vars
    BY <1>0 DEF vars, TypeOK
  <1>1. ASSUME NEW p \in Procs, NEW u \in Users, ReadActivity(p, u) \/ CancelRead(p, u)
        PROVE  TypeOK'
    BY <1>1, <1>t DEF ReadActivity, CancelRead, TypeOK
  <1>2. ASSUME NEW p \in Procs, Reserve(p) \/ ReserveReplyLost(p)
        PROVE  TypeOK'
    <2>1. req[p].user \in Users /\ req[p].copy \in Int
      BY <1>2 DEF Reserve, ReserveReplyLost, ArgumentsOK, TypeOK
    <2>2. usersKey' \subseteq Users /\ stockKey' \in Int
      BY <1>2, <2>1 DEF Reserve, ReserveReplyLost, reserveStockScript, ReserveCode,
                        InitialisedKey, TypeOK
    <2>3. req' \in [Procs -> Requests]
      BY <1>2 DEF Reserve, ReserveReplyLost
    <2>4. mishaps' \in [MishapKinds -> 0..MaxMishaps]
      BY <1>2, MishapStep DEF Reserve, ReserveReplyLost, MishapKinds, TypeOK
    <2> QED
      BY <1>2, <2>2, <2>3, <2>4 DEF Reserve, ReserveReplyLost, TypeOK, Requests
  <1>3. ASSUME NEW p \in Procs, CreateOrder(p)
        PROVE  TypeOK'
    <2>1. req' \in [Procs -> Requests]
      BY <1>3 DEF CreateOrder
    <2>2. mishaps' \in [MishapKinds -> 0..MaxMishaps]
      BY <1>3, MishapStep DEF CreateOrder, MishapKinds, TypeOK
    <2>u. req[p].user \in Users
      BY <1>3 DEF CreateOrder, ArgumentsOK
    <2>3. order' \in [Users -> {"NONE", "LIVE", "GONE"}] /\ dbStock' \in Int
      BY <1>3, <2>u DEF CreateOrder, TypeOK
    <2>4. UNCHANGED <<engine, redis, revived>>
      BY <1>3 DEF CreateOrder
    <2> QED
      BY <2>1, <2>2, <2>3, <2>4 DEF TypeOK, Requests
  <1>4. ASSUME NEW p \in Procs, CreateOrderFails(p)
        PROVE  TypeOK'
    <2>1. mishaps' \in [MishapKinds -> 0..MaxMishaps]
      BY <1>4, MishapStep DEF CreateOrderFails, MishapKinds, TypeOK
    <2> QED
      BY <1>4, <2>1, <1>t DEF CreateOrderFails
  <1>5. ASSUME NEW p \in Procs, Release(p) \/ restoreStock(p)
        PROVE  TypeOK'
    <2>1. req' \in [Procs -> Requests]
      BY <1>5 DEF Release, restoreStock
    <2>2. usersKey' \subseteq Users /\ stockKey' \in Int \cup {Missing}
      BY <1>5 DEF Release, restoreStock, releaseStockScript, Value, TypeOK
    <2> QED
      BY <1>5, <2>1, <2>2 DEF Release, restoreStock, TypeOK, Requests
  <1>6. ASSUME NEW p \in Procs, CancelCommit(p)
        PROVE  TypeOK'
    <2>1. req' \in [Procs -> Requests]
      BY <1>6 DEF CancelCommit
    <2>u. req[p].user \in Users /\ req[p].copy \in Int
      BY <1>6 DEF CancelCommit, ArgumentsOK, TypeOK
    <2>2. order' \in [Users -> {"NONE", "LIVE", "GONE"}] /\ dbStock' \in Int
      BY <1>6, <2>u DEF CancelCommit, TypeOK
    <2>3. UNCHANGED <<engine, redis, mishaps, revived>>
      BY <1>6 DEF CancelCommit
    <2> QED
      BY <2>1, <2>2, <2>3 DEF TypeOK, Requests
  <1>7. ASSUME NEW p \in Procs, CancelRollback(p) \/ Crash(p)
        PROVE  TypeOK'
    <2>1. mishaps' \in [MishapKinds -> 0..MaxMishaps]
      BY <1>7, MishapStep DEF CancelRollback, Crash, MishapKinds
    <2> QED
      BY <1>7, <2>1, <1>t DEF CancelRollback, Crash
  <1>8. ASSUME NEW p \in Procs, ReconcileRead(p) \/ GetStock(p)
        PROVE  TypeOK'
    BY <1>8, <1>t DEF ReconcileRead, GetStock, TypeOK
  <1>9. ASSUME NEW p \in Procs, SetStock(p)
        PROVE  TypeOK'
    <2>1. mishaps' \in [MishapKinds -> 0..MaxMishaps] /\ req' \in [Procs -> Requests]
      BY <1>9, MishapStep DEF SetStock, MishapKinds
    <2> QED
      BY <1>9, <2>1 DEF SetStock, TypeOK, Requests
  <1>10. CASE KeysLost
    <2>1. mishaps' \in [MishapKinds -> 0..MaxMishaps]
      BY <1>10, MishapStep DEF KeysLost, MishapKinds
    <2> QED
      BY <1>10, <2>1 DEF KeysLost, TypeOK
  <1>11. ASSUME NEW p \in Procs, NEW u \in Users, processOrderCreated_Read(p, u)
         PROVE  TypeOK'
    <2>1. req' \in [Procs -> Requests]
      BY <1>11, MoveStep
    <2> QED
      BY <1>11, <2>1, <1>t DEF processOrderCreated_Read, TypeOK
  <1>12. ASSUME NEW p \in Procs, processOrderCreated_Save(p)
         PROVE  TypeOK'
    <2>1. req' \in [Procs -> Requests]
      BY <1>12 DEF processOrderCreated_Save
    <2> QED
      BY <1>12, <2>1, SaveStep DEF TypeOK, Requests
  <1>13. ASSUME NEW p \in Procs, UpdateActivityStatus_Read(p)
         PROVE  TypeOK'
    BY <1>13, <1>t DEF UpdateActivityStatus_Read, TypeOK
  <1>14. ASSUME NEW p \in Procs, UpdateActivityStatus_Save(p)
         PROVE  TypeOK'
    <2>1. mishaps' \in [MishapKinds -> 0..MaxMishaps] /\ req' \in [Procs -> Requests]
      BY <1>14, MishapStep DEF UpdateActivityStatus_Save, MishapKinds
    <2> QED
      BY <1>14, <2>1 DEF UpdateActivityStatus_Save, TypeOK, Requests
  <1> QED
    BY <1>0, <1>1, <1>2, <1>3, <1>4, <1>5, <1>6, <1>7, <1>8, <1>9, <1>10, <1>11, <1>12,
       <1>13, <1>14 DEF Next

\* Counters never go back, so what has not happened after a step had not before.
LEMMA CountersStep ==
  ASSUME TypeOK, [Next]_vars
  PROVE  \A k \in MishapKinds : mishaps'[k] = 0 => mishaps[k] = 0
  <1> SUFFICES UNCHANGED mishaps \/ \E k \in MishapKinds : Mishap(k)
    BY MishapStep
  <1> QED
    BY DEF Next, vars, MishapKinds, ReadActivity, CancelRead, Reserve, ReserveReplyLost,
           CreateOrder, CreateOrderFails, Release, restoreStock, CancelCommit,
           CancelRollback, ReconcileRead, GetStock, SetStock, Crash, KeysLost,
           processOrderCreated_Read, processOrderCreated_Save,
           UpdateActivityStatus_Read, UpdateActivityStatus_Save

LEMMA ArgumentsStep ==
  ASSUME TypeOK, ArgumentsOK, [Next]_vars
  PROVE  ArgumentsOK'
  <1> USE FinishStep, GotoStep, BeginStep DEF ArgumentsOK, db, Stages
  <1>0. CASE UNCHANGED vars
    BY <1>0 DEF vars
  <1>1. ASSUME NEW p \in Procs, NEW u \in Users, ReadActivity(p, u) \/ CancelRead(p, u)
        PROVE  ArgumentsOK'
    BY <1>1 DEF ReadActivity, CancelRead
  <1>2. ASSUME NEW p \in Procs, Reserve(p) \/ ReserveReplyLost(p)
        PROVE  ArgumentsOK'
    BY <1>2 DEF Reserve, ReserveReplyLost
  <1>3. ASSUME NEW p \in Procs, CreateOrder(p)
        PROVE  ArgumentsOK'
    <2>1. \A u \in Users : order[u] \in {"LIVE", "GONE"} => order'[u] = order[u]
      BY <1>3 DEF CreateOrder, TypeOK
    <2>2. /\ req'[p].stage \in {"idle", "release"}
          /\ req'[p].stage = "release" => req'[p].user = req[p].user
          /\ \A q \in Procs : q # p => req'[q] = req[q]
      BY <1>3 DEF CreateOrder
    <2> QED
      BY <1>3, <2>1, <2>2 DEF CreateOrder
  <1>4. ASSUME NEW p \in Procs, CreateOrderFails(p)
        PROVE  ArgumentsOK'
    BY <1>4 DEF CreateOrderFails
  <1>5. ASSUME NEW p \in Procs, Release(p) \/ restoreStock(p)
        PROVE  ArgumentsOK'
    BY <1>5 DEF Release, restoreStock
  <1>6. ASSUME NEW p \in Procs, CancelCommit(p)
        PROVE  ArgumentsOK'
    <2>1. \A u \in Users : order'[u] \in {order[u], "GONE"}
      BY <1>6 DEF CancelCommit, TypeOK
    <2>2. req'[p].stage = "idle" /\ \A q \in Procs : q # p => req'[q] = req[q]
      BY <1>6 DEF CancelCommit
    <2> QED
      BY <2>1, <2>2
  <1>7. ASSUME NEW p \in Procs, CancelRollback(p) \/ Crash(p)
        PROVE  ArgumentsOK'
    BY <1>7 DEF CancelRollback, Crash
  <1>8. ASSUME NEW p \in Procs, ReconcileRead(p) \/ GetStock(p)
        PROVE  ArgumentsOK'
    BY <1>8 DEF ReconcileRead, GetStock
  <1>9. ASSUME NEW p \in Procs, SetStock(p)
        PROVE  ArgumentsOK'
    BY <1>9 DEF SetStock
  <1>10. CASE KeysLost
    BY <1>10 DEF KeysLost
  <1>11. ASSUME NEW p \in Procs, NEW u \in Users, processOrderCreated_Read(p, u)
         PROVE  ArgumentsOK'
    BY <1>11, MoveStep DEF processOrderCreated_Read
  <1>12. ASSUME NEW p \in Procs, processOrderCreated_Save(p)
         PROVE  ArgumentsOK'
    <2>1. /\ req'[p].stage = "idle" /\ \A q \in Procs : q # p => req'[q] = req[q]
          /\ \A u \in Users : order'[u] \in {order[u], "LIVE"}
      BY <1>12, SaveStep
    <2> QED
      BY <2>1
  <1>13. ASSUME NEW p \in Procs, UpdateActivityStatus_Read(p) \/ UpdateActivityStatus_Save(p)
         PROVE  ArgumentsOK'
    BY <1>13 DEF UpdateActivityStatus_Read, UpdateActivityStatus_Save
  <1> QED
    BY <1>0, <1>1, <1>2, <1>3, <1>4, <1>5, <1>6, <1>7, <1>8, <1>9, <1>10, <1>11, <1>12,
       <1>13 DEF Next

-----------------------------------------------------------------------------
(* The database *)

LiveFinite ==
    IsFiniteSet(Live) /\ Cardinality(Live) \in Nat

LEMMA LiveIsFinite == LiveFinite
  BY RedisGuardAssumption, FS_Subset, FS_CardinalityType DEF Live, LiveFinite

\* A new order adds one live order.
LEMMA OneMoreLive ==
  ASSUME TypeOK, NEW u \in Users, order[u] = "NONE",
         order' = [order EXCEPT ![u] = "LIVE"]
  PROVE  Live' = Live \cup {u} /\ Cardinality(Live') = Cardinality(Live) + 1
  <1>1. Live' = Live \cup {u} /\ u \notin Live
    BY DEF Live, TypeOK
  <1> QED
    BY <1>1, LiveIsFinite, FS_AddElement DEF LiveFinite

\* A cancellation removes one, unless the order was cancelled meanwhile.
LEMMA OneLessLive ==
  ASSUME TypeOK, NEW u \in Users, order' = [order EXCEPT ![u] = "GONE"]
  PROVE  /\ Live' = Live \ {u}
         /\ Cardinality(Live') =
                IF order[u] = "LIVE" THEN Cardinality(Live) - 1 ELSE Cardinality(Live)
  <1>1. Live' = Live \ {u} /\ (u \in Live <=> order[u] = "LIVE")
    BY DEF Live, TypeOK
  <1> QED
    BY <1>1, LiveIsFinite, FS_RemoveElement DEF LiveFinite

\* On one connection a transaction finds the row and the orders in agreement
\* and leaves them so.
LEMMA DatabaseStep ==
  ASSUME TypeOK, ArgumentsOK, FreshCancel, DatabaseConserved, [Next]_vars
  PROVE  FreshCancel' /\ DatabaseConserved'
  <1> USE FinishStep, GotoStep, BeginStep DEF Serial, db, Stages, Open
  <1>w. Without({"edit"})' => Without({"edit"})
    BY CountersStep DEF Without, MishapKinds
  <1>c. UNCHANGED <<engine, dbStock, order>> => DatabaseConserved'
    BY <1>w DEF DatabaseConserved, Live
  <1>0. CASE UNCHANGED vars
    BY <1>0, <1>c, <1>w DEF vars, FreshCancel
  <1>1. ASSUME NEW p \in Procs, NEW u \in Users, ReadActivity(p, u) \/ CancelRead(p, u)
        PROVE  FreshCancel' /\ DatabaseConserved'
    BY <1>1, <1>c, <1>w DEF ReadActivity, CancelRead, FreshCancel, Locked
  <1>2. ASSUME NEW p \in Procs, Reserve(p) \/ ReserveReplyLost(p)
        PROVE  FreshCancel' /\ DatabaseConserved'
    BY <1>2, <1>c, <1>w DEF Reserve, ReserveReplyLost, FreshCancel
  <1>3. ASSUME NEW p \in Procs, CreateOrder(p)
        PROVE  FreshCancel' /\ DatabaseConserved'
    <2>1. /\ req'[p].stage \in {"idle", "release"}
          /\ \A q \in Procs : q # p => req'[q] = req[q]
      BY <1>3 DEF CreateOrder
    <2>2. FreshCancel'
      BY <1>3, <2>1, <1>w DEF CreateOrder, FreshCancel, Locked, TypeOK
    <2>3. Cardinality(Live') = Cardinality(Live) + 1
      BY <1>3, OneMoreLive DEF CreateOrder, ArgumentsOK
    <2> QED
      BY <1>3, <2>2, <2>3, <1>w, LiveIsFinite, RedisGuardAssumption
      DEF CreateOrder, DatabaseConserved, LiveFinite
  <1>4. ASSUME NEW p \in Procs, CreateOrderFails(p)
        PROVE  FreshCancel' /\ DatabaseConserved'
    BY <1>4, <1>c, <1>w DEF CreateOrderFails, FreshCancel
  <1>5. ASSUME NEW p \in Procs, Release(p) \/ restoreStock(p)
        PROVE  FreshCancel' /\ DatabaseConserved'
    BY <1>5, <1>c, <1>w DEF Release, restoreStock, FreshCancel
  <1>6. ASSUME NEW p \in Procs, CancelCommit(p)
        PROVE  FreshCancel' /\ DatabaseConserved'
    <2>1. req'[p].stage = "idle" /\ \A q \in Procs : q # p => req'[q] = req[q]
      BY <1>6 DEF CancelCommit
    <2>2. FreshCancel'
      BY <1>6, <2>1, <1>w DEF CancelCommit, FreshCancel, TypeOK
    <2>3. Serial => Cardinality(Live') = Cardinality(Live) - 1
      BY <1>6, OneLessLive, ZenonT(60) DEF CancelCommit, ArgumentsOK, FreshCancel
    <2> QED
      BY <1>6, <2>2, <2>3, <1>w, LiveIsFinite, RedisGuardAssumption
      DEF CancelCommit, DatabaseConserved, FreshCancel, LiveFinite
  <1>7. ASSUME NEW p \in Procs, CancelRollback(p) \/ Crash(p)
        PROVE  FreshCancel' /\ DatabaseConserved'
    BY <1>7, <1>c, <1>w DEF CancelRollback, Crash, FreshCancel
  <1>8. ASSUME NEW p \in Procs, ReconcileRead(p) \/ GetStock(p)
        PROVE  FreshCancel' /\ DatabaseConserved'
    BY <1>8, <1>c, <1>w DEF ReconcileRead, GetStock, FreshCancel
  <1>9. ASSUME NEW p \in Procs, SetStock(p)
        PROVE  FreshCancel' /\ DatabaseConserved'
    BY <1>9, <1>c, <1>w DEF SetStock, FreshCancel
  <1>10. CASE KeysLost
    BY <1>10, <1>c, <1>w DEF KeysLost, FreshCancel
  <1>11. ASSUME NEW p \in Procs, NEW u \in Users, processOrderCreated_Read(p, u)
         PROVE  FreshCancel' /\ DatabaseConserved'
    <2>1. /\ req'[p].stage = "move" /\ req'[p].user = u /\ order[u] = "LIVE"
          /\ \A q \in Procs : q # p => req'[q] = req[q]
      BY <1>11, MoveStep
    <2> QED
      BY <1>11, <2>1, <1>c, <1>w DEF processOrderCreated_Read, FreshCancel, Locked
  <1>12. ASSUME NEW p \in Procs, processOrderCreated_Save(p)
         PROVE  FreshCancel' /\ DatabaseConserved'
    <2>1. /\ req[p].stage = "move" /\ req'[p].stage = "idle"
          /\ \A q \in Procs : q # p => req'[q] = req[q]
          /\ order[req[p].user] = "LIVE" => order' = order
          /\ UNCHANGED <<engine, dbStock, mishaps>>
      BY <1>12, SaveStep
    <2>2. Serial => order' = order
      BY <2>1 DEF FreshCancel
    <2> QED
      BY <2>1, <2>2, <1>c, <1>w DEF FreshCancel, DatabaseConserved
  <1>13. ASSUME NEW p \in Procs, UpdateActivityStatus_Read(p)
         PROVE  FreshCancel' /\ DatabaseConserved'
    BY <1>13, <1>c, <1>w DEF UpdateActivityStatus_Read, FreshCancel
  <1>14. ASSUME NEW p \in Procs, UpdateActivityStatus_Save(p)
         PROVE  FreshCancel' /\ DatabaseConserved'
    <2>1. mishaps'["edit"] # 0
      BY <1>14, MishapStep DEF UpdateActivityStatus_Save, MishapKinds
    <2> QED
      BY <1>14, <2>1 DEF UpdateActivityStatus_Save, FreshCancel, DatabaseConserved, Without
  <1> QED
    BY <1>0, <1>1, <1>2, <1>3, <1>4, <1>5, <1>6, <1>7, <1>8, <1>9, <1>10, <1>11, <1>12,
       <1>13, <1>14 DEF Next

-----------------------------------------------------------------------------
(* The stock key and the set of reservations *)

\* What the two scripts do to the marks, counted.
LEMMA MarksCounted ==
  ASSUME TypeOK
  PROVE  /\ IsFiniteSet(usersKey) /\ Cardinality(usersKey) \in Nat
         /\ \A u \in Users :
                /\ u \notin usersKey =>
                       Cardinality(usersKey \cup {u}) = Cardinality(usersKey) + 1
                /\ u \in usersKey =>
                       Cardinality(usersKey \ {u}) = Cardinality(usersKey) - 1
  <1>1. IsFiniteSet(usersKey) /\ Cardinality(usersKey) \in Nat
    BY RedisGuardAssumption, FS_Subset, FS_CardinalityType DEF TypeOK
  <1> QED
    BY <1>1, FS_AddElement, FS_RemoveElement

GuardOK == Untouched /\ KeyNonNegative /\ GuardBalanced

\* reserveStockScript keeps the balance, and it is called with the initial stock
\* whenever there is no key.
LEMMA ReserveBalanced ==
  ASSUME TypeOK, ArgumentsOK, GuardOK, NEW p \in Procs,
         req[p].stage = "reserve", reserveStockScript(req[p].user, req[p].copy),
         \A k \in MishapKinds : mishaps'[k] = 0 => mishaps[k] = 0
  PROVE  stockKey' # Missing /\ KeyNonNegative' /\ GuardBalanced'
  <1> DEFINE u == req[p].user
             start == InitialisedKey(req[p].copy)
  <1>t. /\ u \in Users /\ req[p].copy \in Int /\ start \in Int
        /\ Stock0 \in Nat \ {0} /\ Missing \notin Int
    BY RedisGuardAssumption DEF ArgumentsOK, TypeOK, InitialisedKey
  <1>1. stockKey' \in Int
    BY <1>t DEF reserveStockScript, ReserveCode
  <1>2. SUFFICES ASSUME Without({"evict", "repair"})'
                 PROVE  stockKey' >= 0 /\ stockKey' + Cardinality(usersKey') = Stock0
    BY <1>1, <1>t DEF KeyNonNegative, GuardBalanced
  <1>3. Without({"evict", "repair"}) /\ Without({"evict"})
    BY <1>2 DEF Without, MishapKinds
  <1>4. start >= 0 /\ start + Cardinality(usersKey) = Stock0
    <2>1. CASE stockKey = Missing
      <3>1. usersKey = {} /\ req[p].copy = Stock0
        BY <2>1, <1>3 DEF GuardOK, Untouched
      <3>2. start = Stock0 /\ Cardinality(usersKey) = 0
        BY <2>1, <3>1, FS_EmptySet DEF InitialisedKey
      <3> QED
        BY <3>2, <1>t
    <2>2. CASE stockKey # Missing
      BY <2>2, <1>3, <1>t DEF GuardOK, KeyNonNegative, GuardBalanced, InitialisedKey
    <2> QED
      BY <2>1, <2>2
  <1>5. CASE ReserveCode(u, req[p].copy) = 0
    <2>1. u \notin usersKey /\ start > 0
      BY <1>5, <1>t DEF ReserveCode
    <2>2. stockKey' = start - 1 /\ usersKey' = usersKey \cup {u}
      BY <1>5 DEF reserveStockScript
    <2> QED
      BY <2>1, <2>2, <1>4, <1>t, MarksCounted
  <1>6. CASE ReserveCode(u, req[p].copy) # 0
    BY <1>6, <1>4 DEF reserveStockScript
  <1> QED
    BY <1>5, <1>6

\* releaseStockScript keeps the balance.
LEMMA ReleaseBalanced ==
  ASSUME TypeOK, ArgumentsOK, GuardOK, NEW u \in Users,
         releaseStockScript(u), UNCHANGED mishaps
  PROVE  /\ Without({"evict"}) /\ stockKey # Missing => stockKey' # Missing
         /\ KeyNonNegative' /\ GuardBalanced'
  <1>t. Stock0 \in Nat \ {0} /\ Missing \notin Int
    BY RedisGuardAssumption
  <1>w. Without({"evict", "repair"})' => Without({"evict", "repair"}) /\ Without({"evict"})
    BY DEF Without
  <1>1. CASE u \notin usersKey
    BY <1>1, <1>w DEF releaseStockScript, redis, GuardOK, KeyNonNegative, GuardBalanced
  <1>2. CASE u \in usersKey
    <2>1. usersKey' = usersKey \ {u} /\ stockKey' = Value(stockKey) + 1
      BY <1>2 DEF releaseStockScript
    <2>2. Value(stockKey) \in Int
      BY <1>t DEF Value, TypeOK
    <2>3. Cardinality(usersKey') = Cardinality(usersKey) - 1
      BY <1>2, <2>1, MarksCounted
    <2>4. ASSUME Without({"evict", "repair"})
          PROVE  /\ stockKey # Missing /\ stockKey >= 0 /\ Value(stockKey) = stockKey
                 /\ stockKey + Cardinality(usersKey) = Stock0
      BY <1>2, <2>4 DEF GuardOK, Untouched, KeyNonNegative, GuardBalanced, Without, Value
    <2> QED
      BY <2>1, <2>2, <2>3, <2>4, <1>t, <1>w, MarksCounted
      DEF KeyNonNegative, GuardBalanced, TypeOK
  <1> QED
    BY <1>1, <1>2

LEMMA GuardStep ==
  ASSUME TypeOK, ArgumentsOK, GuardOK, [Next]_vars
  PROVE  GuardOK'
  <1> USE FinishStep, GotoStep, BeginStep DEF db, redis, Stages
  <1>m. \A k \in MishapKinds : mishaps'[k] = 0 => mishaps[k] = 0
    BY CountersStep
  <1>w. /\ Without({"evict", "repair"})' => Without({"evict", "repair"})
        /\ Without({"evict"})' => Without({"evict"})
    BY <1>m DEF Without, MishapKinds
  <1>k. UNCHANGED redis => KeyNonNegative' /\ GuardBalanced'
    BY <1>w DEF GuardOK, KeyNonNegative, GuardBalanced
  <1>u. stockKey' # Missing => Untouched'
    BY DEF Untouched
  <1>0. CASE UNCHANGED vars
    BY <1>0, <1>k, <1>w DEF vars, GuardOK, Untouched
  <1>1. ASSUME NEW p \in Procs, NEW u \in Users, ReadActivity(p, u) \/ CancelRead(p, u)
        PROVE  GuardOK'
    BY <1>1, <1>k, <1>w DEF ReadActivity, CancelRead, GuardOK, Untouched
  <1>2. ASSUME NEW p \in Procs, Reserve(p) \/ ReserveReplyLost(p)
        PROVE  GuardOK'
    BY <1>2, <1>m, <1>u, ReserveBalanced DEF Reserve, ReserveReplyLost, GuardOK
  <1>3. ASSUME NEW p \in Procs, CreateOrder(p) \/ CreateOrderFails(p)
        PROVE  GuardOK'
    BY <1>3, <1>k, <1>w DEF CreateOrder, CreateOrderFails, GuardOK, Untouched
  <1>4. ASSUME NEW p \in Procs, Release(p) \/ restoreStock(p)
        PROVE  GuardOK'
    <2>1. req[p].user \in Users /\ releaseStockScript(req[p].user) /\ UNCHANGED mishaps
      BY <1>4 DEF Release, restoreStock, ArgumentsOK
    <2>2. Without({"evict"}) => stockKey # Missing
      BY <1>4 DEF Release, restoreStock, GuardOK, Untouched
    <2> QED
      BY <2>1, <2>2, <1>w, ReleaseBalanced DEF GuardOK, Untouched
  <1>5. ASSUME NEW p \in Procs, CancelCommit(p) \/ CancelRollback(p)
        PROVE  GuardOK'
    BY <1>5, <1>k, <1>w DEF CancelCommit, CancelRollback, GuardOK, Untouched
  <1>6. ASSUME NEW p \in Procs, Crash(p) \/ ReconcileRead(p) \/ GetStock(p)
        PROVE  GuardOK'
    BY <1>6, <1>k, <1>w DEF Crash, ReconcileRead, GetStock, GuardOK, Untouched
  <1>7. ASSUME NEW p \in Procs, SetStock(p)
        PROVE  GuardOK'
    <2>1. mishaps'["repair"] # 0
      BY <1>7, MishapStep DEF SetStock, MishapKinds
    <2>2. stockKey' # Missing
      BY <1>7, RedisGuardAssumption DEF SetStock, TypeOK
    <2> QED
      BY <2>1, <2>2, <1>u DEF GuardOK, KeyNonNegative, GuardBalanced, Without
  <1>8. CASE KeysLost
    <2>1. mishaps'["evict"] # 0
      BY <1>8, MishapStep DEF KeysLost, MishapKinds
    <2> QED
      BY <2>1 DEF GuardOK, Untouched, KeyNonNegative, GuardBalanced, Without
  <1>9. ASSUME NEW p \in Procs, NEW u \in Users, processOrderCreated_Read(p, u)
        PROVE  GuardOK'
    <2>1. req'[p].stage = "move" /\ \A q \in Procs : q # p => req'[q] = req[q]
      BY <1>9, MoveStep
    <2> QED
      BY <1>9, <2>1, <1>k, <1>w DEF processOrderCreated_Read, GuardOK, Untouched
  <1>10. ASSUME NEW p \in Procs, processOrderCreated_Save(p)
         PROVE  GuardOK'
    BY <1>10, <1>k, <1>w DEF processOrderCreated_Save, GuardOK, Untouched
  <1>11. ASSUME NEW p \in Procs, UpdateActivityStatus_Read(p) \/ UpdateActivityStatus_Save(p)
         PROVE  GuardOK'
    BY <1>11, <1>k, <1>w DEF UpdateActivityStatus_Read, UpdateActivityStatus_Save, GuardOK,
                             Untouched
  <1> QED
    BY <1>0, <1>1, <1>2, <1>3, <1>4, <1>5, <1>6, <1>7, <1>8, <1>9, <1>10, <1>11 DEF Next

-----------------------------------------------------------------------------
(* Marks, reservations and orders *)

MarkedOK == BuyersAreMarked /\ HoldersOK

\* Why a user's mark outlives every step but a release, and a release is never
\* of a unit that an order holds.
LEMMA MarkedStep ==
  ASSUME TypeOK, ArgumentsOK, MarkedOK, [Next]_vars
  PROVE  MarkedOK'
  <1> DEFINE W == Without({"evict", "crash", "commit", "rollback"})
  <1> USE FinishStep, GotoStep, BeginStep
      DEF db, redis, Stages, Holds, Committing, Live
  <1>m. \A k \in MishapKinds : mishaps'[k] = 0 => mishaps[k] = 0
    BY CountersStep
  <1>w. W' => W
    BY <1>m DEF Without, MishapKinds
  <1> SUFFICES ASSUME W' PROVE MarkedOK'
    BY DEF MarkedOK, BuyersAreMarked, HoldersOK
  <1>b. \A u \in Users \ revived : order[u] = "LIVE" =>
            u \in usersKey \/ \E p \in Procs : Committing(p, u)
    BY <1>w DEF MarkedOK, BuyersAreMarked
  <1>h. \A u \in Users \ revived, p \in Procs : Holds(p, u) =>
            /\ order[u] = "NONE" =>
                   u \in usersKey /\ \A q \in Procs : Holds(q, u) => p = q
            /\ order[u] = "LIVE" => \E q \in Procs : Committing(q, u)
    BY <1>w DEF MarkedOK, HoldersOK
  <1> DEFINE B == \A u \in Users \ revived' : order'[u] = "LIVE" =>
                      u \in usersKey' \/ \E p \in Procs : Committing(p, u)'
             H == \A u \in Users \ revived', p \in Procs : Holds(p, u)' =>
                      /\ order'[u] = "NONE" =>
                            u \in usersKey' /\ \A q \in Procs : Holds(q, u)' => p = q
                      /\ order'[u] = "LIVE" => \E q \in Procs : Committing(q, u)'
  <1>g. SUFFICES B /\ H
    BY DEF MarkedOK, BuyersAreMarked, HoldersOK
  <1>0. CASE UNCHANGED vars
    BY <1>0, <1>b, <1>h DEF vars
  <1>q. ASSUME NEW p \in Procs, UNCHANGED <<order, usersKey, revived>>,
               req[p].stage \notin {"create", "release", "commit"},
               req'[p].stage \notin {"create", "release", "commit"},
               \A q \in Procs : q # p => req'[q] = req[q]
        PROVE  B /\ H
    BY <1>q, <1>b, <1>h
  <1>1. ASSUME NEW p \in Procs, NEW u \in Users, ReadActivity(p, u) \/ CancelRead(p, u)
        PROVE  B /\ H
    BY <1>1, <1>q DEF ReadActivity, CancelRead, Idle
  <1>2. ASSUME NEW p \in Procs, Reserve(p) \/ ReserveReplyLost(p)
        PROVE  B /\ H
    <2> DEFINE u == req[p].user
    <2>1. /\ req[p].stage = "reserve" /\ u \in Users /\ UNCHANGED <<order, revived>>
          /\ \A q \in Procs : q # p => req'[q] = req[q]
      BY <1>2 DEF Reserve, ReserveReplyLost, ArgumentsOK
    <2>2. CASE u \notin usersKey /\ usersKey' = usersKey \cup {u}
               /\ req'[p].stage = "create" /\ req'[p].user = u
      BY <2>1, <2>2, <1>b, <1>h
    <2>3. CASE usersKey \subseteq usersKey' /\ req'[p].stage = "idle"
      BY <2>1, <2>3, <1>b, <1>h
    <2> QED
      BY <1>2, <2>2, <2>3 DEF Reserve, ReserveReplyLost, reserveStockScript, ReserveCode
  <1>3. ASSUME NEW p \in Procs, CreateOrder(p)
        PROVE  B /\ H
    <2> DEFINE u == req[p].user
    <2>1. ~Mishap("commit")
      BY MishapStep DEF Without, MishapKinds
    <2>2. /\ req[p].stage = "create" /\ u \in Users /\ order[u] = "NONE"
          /\ UNCHANGED <<usersKey, revived>> /\ req'[p].stage = "idle"
          /\ \A q \in Procs : q # p => req'[q] = req[q]
      BY <1>3, <2>1 DEF CreateOrder, ArgumentsOK
    <2>3. \A v \in Users : order'[v] = IF v = u THEN "LIVE" ELSE order[v]
      BY <1>3 DEF CreateOrder, TypeOK
    <2> QED
      BY <2>2, <2>3, <1>b, <1>h
  <1>4. ASSUME NEW p \in Procs, CreateOrderFails(p)
        PROVE  B /\ H
    <2>1. /\ req[p].stage = "create" /\ UNCHANGED <<order, usersKey, revived>>
          /\ req'[p].stage = "release" /\ req'[p].user = req[p].user
          /\ \A q \in Procs : q # p => req'[q] = req[q]
      BY <1>4 DEF CreateOrderFails
    <2> QED
      BY <2>1, <1>b, <1>h
  <1>5. ASSUME NEW p \in Procs, Release(p)
        PROVE  B /\ H
    <2> DEFINE u == req[p].user
    <2>1. /\ req[p].stage = "release" /\ u \in Users /\ UNCHANGED <<order, revived>>
          /\ usersKey' = usersKey \ {u} /\ req'[p].stage = "idle"
          /\ \A q \in Procs : q # p => req'[q] = req[q]
      BY <1>5 DEF Release, ArgumentsOK, releaseStockScript
    <2> QED
      BY <2>1, <1>b, <1>h
  <1>6. ASSUME NEW p \in Procs, restoreStock(p)
        PROVE  B /\ H
    <2> DEFINE u == req[p].user
    <2>1. /\ req[p].stage = "cancel" /\ u \in Users /\ order[u] # "NONE" /\ UNCHANGED <<order, revived>>
          /\ usersKey' = usersKey \ {u}
          /\ req'[p].stage = "commit" /\ req'[p].user = u
          /\ \A q \in Procs : q # p => req'[q] = req[q]
      BY <1>6 DEF restoreStock, ArgumentsOK, releaseStockScript
    <2> QED
      BY <2>1, <1>b, <1>h
  <1>7. ASSUME NEW p \in Procs, CancelCommit(p)
        PROVE  B /\ H
    <2> DEFINE u == req[p].user
    <2>1. /\ req[p].stage = "commit" /\ u \in Users /\ order[u] # "NONE"
          /\ UNCHANGED <<usersKey, revived>> /\ req'[p].stage = "idle"
          /\ \A q \in Procs : q # p => req'[q] = req[q]
      BY <1>7 DEF CancelCommit, ArgumentsOK
    <2>2. \A v \in Users : order'[v] = IF v = u THEN "GONE" ELSE order[v]
      BY <1>7 DEF CancelCommit, TypeOK
    <2> QED
      BY <2>1, <2>2, <1>b, <1>h
  <1>8. ASSUME NEW p \in Procs, CancelRollback(p) \/ Crash(p)
        PROVE  B /\ H
    BY <1>8, MishapStep DEF CancelRollback, Crash, Without, MishapKinds
  <1>9. ASSUME NEW p \in Procs, ReconcileRead(p) \/ GetStock(p) \/ SetStock(p)
        PROVE  B /\ H
    BY <1>9, <1>q DEF ReconcileRead, GetStock, SetStock, Idle
  <1>10. CASE KeysLost
    BY <1>10, MishapStep DEF KeysLost, Without, MishapKinds
  <1>11. ASSUME NEW p \in Procs, NEW u \in Users, processOrderCreated_Read(p, u)
         PROVE  B /\ H
    <2>1. /\ req[p].stage = "idle" /\ req'[p].stage = "move"
          /\ \A q \in Procs : q # p => req'[q] = req[q]
      BY <1>11, MoveStep
    <2> QED
      BY <1>11, <2>1, <1>q DEF processOrderCreated_Read
  <1>12. ASSUME NEW p \in Procs, processOrderCreated_Save(p)
         PROVE  B /\ H
    <2>1. /\ req[p].stage = "move" /\ req'[p].stage = "idle" /\ usersKey' = usersKey
          /\ \A q \in Procs : q # p => req'[q] = req[q]
          /\ revived \subseteq revived'
          /\ \A u \in Users \ revived' : order'[u] = order[u]
      BY <1>12, SaveStep
    <2> QED
      BY <2>1, <1>b, <1>h
  <1>13. ASSUME NEW p \in Procs, UpdateActivityStatus_Read(p) \/ UpdateActivityStatus_Save(p)
         PROVE  B /\ H
    BY <1>13, <1>q DEF UpdateActivityStatus_Read, UpdateActivityStatus_Save, Idle
  <1> QED
    BY <1>0, <1>1, <1>2, <1>3, <1>4, <1>5, <1>6, <1>7, <1>8, <1>9, <1>10, <1>11, <1>12,
       <1>13 DEF Next

\* Why no mark is left behind.
LEMMA MarksStep ==
  ASSUME TypeOK, ArgumentsOK, MarksOK, [Next]_vars
  PROVE  MarksOK'
  <1> DEFINE W == Without({"evict", "crash", "commit", "rollback", "reply"})
  <1> USE FinishStep, GotoStep, BeginStep
      DEF db, redis, Stages, Holds, Committing
  <1>m. \A k \in MishapKinds : mishaps'[k] = 0 => mishaps[k] = 0
    BY CountersStep
  <1>w. W' => W
    BY <1>m DEF Without, MishapKinds
  <1> SUFFICES ASSUME W' PROVE MarksOK'
    BY DEF MarksOK
  <1>b. \A u \in usersKey :
            \/ order[u] = "LIVE" /\ \A q \in Procs : ~Committing(q, u)
            \/ \E p \in Procs : Holds(p, u)
    BY <1>w DEF MarksOK
  <1> DEFINE M == \A u \in usersKey' :
                      \/ order'[u] = "LIVE" /\ \A q \in Procs : ~Committing(q, u)'
                      \/ \E p \in Procs : Holds(p, u)'
  <1>g. SUFFICES M
    BY DEF MarksOK
  <1>0. CASE UNCHANGED vars
    BY <1>0, <1>b DEF vars
  <1>q. ASSUME NEW p \in Procs, UNCHANGED <<order, usersKey>>,
               req[p].stage \notin {"create", "release", "commit"},
               req'[p].stage \notin {"create", "release", "commit"},
               \A q \in Procs : q # p => req'[q] = req[q]
        PROVE  M
    BY <1>q, <1>b
  <1>1. ASSUME NEW p \in Procs, NEW u \in Users, ReadActivity(p, u) \/ CancelRead(p, u)
        PROVE  M
    BY <1>1, <1>q DEF ReadActivity, CancelRead, Idle
  <1>2. ASSUME NEW p \in Procs, Reserve(p)
        PROVE  M
    <2> DEFINE u == req[p].user
    <2>1. /\ req[p].stage = "reserve" /\ order' = order
          /\ \A q \in Procs : q # p => req'[q] = req[q]
      BY <1>2 DEF Reserve
    <2>2. CASE usersKey' = usersKey \cup {u}
               /\ req'[p].stage = "create" /\ req'[p].user = u
      BY <2>1, <2>2, <1>b
    <2>3. CASE usersKey' = usersKey /\ req'[p].stage = "idle"
      BY <2>1, <2>3, <1>b
    <2> QED
      BY <1>2, <2>2, <2>3 DEF Reserve, reserveStockScript
  <1>3. ASSUME NEW p \in Procs, CreateOrder(p)
        PROVE  M
    <2> DEFINE u == req[p].user
    <2>1. ~Mishap("commit")
      BY MishapStep DEF Without, MishapKinds
    <2>2. /\ req[p].stage = "create" /\ u \in Users /\ order[u] = "NONE"
          /\ usersKey' = usersKey /\ req'[p].stage = "idle"
          /\ \A q \in Procs : q # p => req'[q] = req[q]
      BY <1>3, <2>1 DEF CreateOrder, ArgumentsOK
    <2>3. \A v \in Users : order'[v] = IF v = u THEN "LIVE" ELSE order[v]
      BY <1>3 DEF CreateOrder, TypeOK
    <2>4. \A q \in Procs : req[q].stage # "commit"
      BY <1>3 DEF CreateOrder, Locked
    <2>5. usersKey \subseteq Users
      BY DEF TypeOK
    <2> QED
      BY <2>2, <2>3, <2>4, <2>5, <1>b
  <1>4. ASSUME NEW p \in Procs, CreateOrderFails(p)
        PROVE  M
    <2>1. /\ req[p].stage = "create" /\ UNCHANGED <<order, usersKey>>
          /\ req'[p].stage = "release" /\ req'[p].user = req[p].user
          /\ \A q \in Procs : q # p => req'[q] = req[q]
      BY <1>4 DEF CreateOrderFails
    <2> QED
      BY <2>1, <1>b
  <1>5. ASSUME NEW p \in Procs, Release(p)
        PROVE  M
    <2>1. /\ req[p].stage = "release" /\ order' = order
          /\ usersKey' = usersKey \ {req[p].user} /\ req'[p].stage = "idle"
          /\ \A q \in Procs : q # p => req'[q] = req[q]
      BY <1>5 DEF Release, releaseStockScript
    <2> QED
      BY <2>1, <1>b
  <1>6. ASSUME NEW p \in Procs, restoreStock(p)
        PROVE  M
    <2>1. /\ req[p].stage = "cancel" /\ order' = order
          /\ usersKey' = usersKey \ {req[p].user}
          /\ req'[p].stage = "commit" /\ req'[p].user = req[p].user
          /\ \A q \in Procs : q # p => req'[q] = req[q]
      BY <1>6 DEF restoreStock, releaseStockScript
    <2> QED
      BY <2>1, <1>b
  <1>7. ASSUME NEW p \in Procs, CancelCommit(p)
        PROVE  M
    <2> DEFINE u == req[p].user
    <2>1. /\ req[p].stage = "commit" /\ u \in Users
          /\ usersKey' = usersKey /\ req'[p].stage = "idle"
          /\ \A q \in Procs : q # p => req'[q] = req[q]
      BY <1>7 DEF CancelCommit, ArgumentsOK
    <2>2. \A v \in Users : order'[v] = IF v = u THEN "GONE" ELSE order[v]
      BY <1>7 DEF CancelCommit, TypeOK
    <2>3. usersKey \subseteq Users
      BY DEF TypeOK
    <2> QED
      BY <2>1, <2>2, <2>3, <1>b
  <1>8. ASSUME NEW p \in Procs, ReserveReplyLost(p) \/ CancelRollback(p) \/ Crash(p)
        PROVE  M
    BY <1>8, MishapStep DEF ReserveReplyLost, CancelRollback, Crash, Without, MishapKinds
  <1>9. ASSUME NEW p \in Procs, ReconcileRead(p) \/ GetStock(p) \/ SetStock(p)
        PROVE  M
    BY <1>9, <1>q DEF ReconcileRead, GetStock, SetStock, Idle
  <1>10. CASE KeysLost
    BY <1>10, MishapStep DEF KeysLost, Without, MishapKinds
  <1>11. ASSUME NEW p \in Procs, NEW u \in Users, processOrderCreated_Read(p, u)
         PROVE  M
    <2>1. /\ req[p].stage = "idle" /\ req'[p].stage = "move"
          /\ \A q \in Procs : q # p => req'[q] = req[q]
      BY <1>11, MoveStep
    <2> QED
      BY <1>11, <2>1, <1>q DEF processOrderCreated_Read
  <1>12. ASSUME NEW p \in Procs, processOrderCreated_Save(p)
         PROVE  M
    <2>1. /\ req[p].stage = "move" /\ req'[p].stage = "idle" /\ usersKey' = usersKey
          /\ \A q \in Procs : q # p => req'[q] = req[q]
          /\ \A u \in Users : order[u] = "LIVE" => order'[u] = "LIVE"
      BY <1>12, SaveStep
    <2>2. usersKey \subseteq Users
      BY DEF TypeOK
    <2> QED
      BY <2>1, <2>2, <1>b
  <1>13. ASSUME NEW p \in Procs, UpdateActivityStatus_Read(p) \/ UpdateActivityStatus_Save(p)
         PROVE  M
    BY <1>13, <1>q DEF UpdateActivityStatus_Read, UpdateActivityStatus_Save, Idle
  <1> QED
    BY <1>0, <1>1, <1>2, <1>3, <1>4, <1>5, <1>6, <1>7, <1>8, <1>9, <1>10, <1>11, <1>12,
       <1>13 DEF Next

\* On one connection a save finds the order as it was read.
LEMMA RevivedStep ==
  ASSUME TypeOK, ArgumentsOK, FreshCancel, GivenBackIsFinal, [Next]_vars
  PROVE  GivenBackIsFinal'
  <1>1. ASSUME NEW p \in Procs, processOrderCreated_Save(p)
        PROVE  GivenBackIsFinal'
    <2>1. /\ req[p].stage = "move" /\ UNCHANGED engine
          /\ order[req[p].user] = "LIVE" => revived' = revived
      BY <1>1, SaveStep
    <2> QED
      BY <2>1 DEF GivenBackIsFinal, FreshCancel, Open, Serial
  <1>2. CASE UNCHANGED <<engine, revived>>
    BY <1>2 DEF GivenBackIsFinal, Serial
  <1>3. UNCHANGED <<engine, revived>> \/ \E p \in Procs : processOrderCreated_Save(p)
    BY DEF Next, vars, db, ReadActivity, CancelRead, Reserve, ReserveReplyLost, CreateOrder,
           CreateOrderFails, Release, restoreStock, CancelCommit, CancelRollback,
           ReconcileRead, GetStock, SetStock, Crash, KeysLost, processOrderCreated_Read,
           UpdateActivityStatus_Read, UpdateActivityStatus_Save
  <1> QED
    BY <1>1, <1>2, <1>3

\* Live orders other than the revived ones.
Regular == Live \ revived

LEMMA RegularIsFinite ==
  /\ IsFiniteSet(Regular) /\ Cardinality(Regular) \in Nat
  /\ IsFiniteSet(Regular') /\ Cardinality(Regular') \in Nat
  <1>1. IsFiniteSet(Regular) /\ IsFiniteSet(Regular')
    BY RedisGuardAssumption, FS_Subset DEF Regular, Live
  <1> QED
    BY <1>1, FS_CardinalityType

\* The number of regular live orders grows only when an order is created, and then
\* every one's buyer is marked: nobody is committing a cancellation.
LEMMA OversellStep ==
  ASSUME IInv, [Next]_vars, FreshCancel', DatabaseConserved'
  PROVE  NoOversell'
  <1>t. TypeOK /\ ArgumentsOK /\ Stock0 \in Nat \ {0} /\ Missing \notin Int
    BY RedisGuardAssumption DEF IInv
  <1>m. \A k \in MishapKinds : mishaps'[k] = 0 => mishaps[k] = 0
    BY <1>t, CountersStep
  <1>1. ASSUME Serial', Without({"edit"})' PROVE Cardinality(Live') <= Stock0
    <2>1. dbStock' >= 0 /\ dbStock' = Stock0 - Cardinality(Live')
      BY <1>1 DEF FreshCancel, DatabaseConserved
    <2>2. Cardinality(Live') \in Nat
      BY RedisGuardAssumption, FS_Subset, FS_CardinalityType DEF Live
    <2> QED
      BY <2>1, <2>2, <1>t
  <1>2. ASSUME Without({"evict", "crash", "commit", "rollback", "repair"})'
        PROVE  Cardinality(Regular') <= Stock0
    <2>w. /\ Without({"evict", "crash", "commit", "rollback", "repair"})
          /\ Without({"evict", "crash", "commit", "rollback"})
          /\ Without({"evict", "repair"}) /\ Without({"evict"})
      BY <1>2, <1>m DEF Without, MishapKinds
    <2>0. ASSUME Regular' \subseteq Regular
          PROVE  Cardinality(Regular') <= Stock0
      <3>1. Cardinality(Regular') <= Cardinality(Regular)
        BY <2>0, RegularIsFinite, FS_Subset
      <3> QED
        BY <3>1, <2>w, RegularIsFinite, <1>t DEF IInv, NoOversell, Regular
    <2>1. ASSUME NEW p \in Procs, CreateOrder(p)
          PROVE  Cardinality(Regular') <= Stock0
      <3> DEFINE u == req[p].user
      <3>1. u \in Users /\ order[u] = "NONE" /\ Holds(p, u) /\ revived' = revived
        BY <2>1, <1>t DEF CreateOrder, ArgumentsOK, Holds
      <3>2. \A q \in Procs : req[q].stage # "commit"
        BY <2>1 DEF CreateOrder, Locked
      <3>3. Regular' \subseteq usersKey
        <4>1. Live' = Live \cup {u}
          BY <2>1, <3>1, <1>t, OneMoreLive DEF CreateOrder
        <4>2. u \notin revived => u \in usersKey
          BY <3>1, <2>w DEF IInv, HoldersOK
        <4>3. Regular \subseteq usersKey
          BY <3>2, <2>w DEF IInv, BuyersAreMarked, Regular
        <4> QED
          BY <4>1, <4>2, <4>3, <3>1 DEF Regular
      <3>4. Cardinality(Regular') <= Cardinality(usersKey)
        BY <3>3, <1>t, MarksCounted, FS_Subset
      <3>5. stockKey # Missing
        BY <3>1, <2>w DEF IInv, Untouched, Holds
      <3>6. stockKey >= 0 /\ stockKey + Cardinality(usersKey) = Stock0 /\ stockKey \in Int
        BY <3>5, <2>w, <1>t DEF IInv, KeyNonNegative, GuardBalanced, TypeOK
      <3> QED
        BY <3>4, <3>6, <1>t, MarksCounted, RegularIsFinite
    <2>2. ASSUME NEW p \in Procs, CancelCommit(p)
          PROVE  Regular' \subseteq Regular
      <3>1. Live' = Live \ {req[p].user}
        BY <2>2, <1>t, OneLessLive DEF CancelCommit, ArgumentsOK
      <3> QED
        BY <2>2, <3>1 DEF CancelCommit, Regular
    <2>3. ASSUME NEW p \in Procs, processOrderCreated_Save(p)
          PROVE  Regular' \subseteq Regular
      BY <2>3, <1>t, SaveStep DEF Regular, Live
    <2>4. CASE UNCHANGED <<order, revived>>
      <3>1. Regular' = Regular
        BY <2>4 DEF Regular, Live
      <3> QED
        BY <3>1, <2>0
    <2>5. \/ UNCHANGED <<order, revived>>
          \/ \E p \in Procs :
                 CreateOrder(p) \/ CancelCommit(p) \/ processOrderCreated_Save(p)
      BY DEF Next, vars, db, ReadActivity, CancelRead, Reserve, ReserveReplyLost,
             CreateOrderFails, Release, restoreStock, CancelRollback, ReconcileRead,
             GetStock, SetStock, Crash, KeysLost, processOrderCreated_Read,
             UpdateActivityStatus_Read, UpdateActivityStatus_Save
    <2> QED
      BY <2>0, <2>1, <2>2, <2>3, <2>4, <2>5
  <1> QED
    BY <1>1, <1>2 DEF NoOversell, Regular

-----------------------------------------------------------------------------
(* Theorems *)

LEMMA InitIInv == Init => IInv
  <1> SUFFICES ASSUME Init PROVE IInv
    OBVIOUS
  <1> USE RedisGuardAssumption DEF Init
  <1>i. Idle \in Requests /\ Idle.stage = "idle"
    BY DEF Idle, Requests, Stages
  <1>1. TypeOK
    BY <1>i DEF TypeOK, Requests
  <1>2. Live = {} /\ Cardinality(Live) = 0 /\ Cardinality(usersKey) = 0
    BY FS_EmptySet DEF Live
  <1>3. ArgumentsOK /\ FreshCancel /\ Untouched /\ KeyNonNegative
    BY <1>i DEF ArgumentsOK, FreshCancel, Open, Untouched, KeyNonNegative
  <1>4. DatabaseConserved /\ GuardBalanced /\ GivenBackIsFinal
    BY <1>2 DEF DatabaseConserved, GuardBalanced, GivenBackIsFinal
  <1>6. NoOversell
    <2>1. Live \ revived = {} /\ Cardinality(Live \ revived) = 0
      BY <1>2, FS_EmptySet
    <2> QED
      BY <1>2, <2>1 DEF NoOversell
  <1>5. BuyersAreMarked /\ HoldersOK /\ MarksOK
    BY <1>i, <1>2 DEF BuyersAreMarked, HoldersOK, MarksOK, Holds
  <1> QED
    BY <1>1, <1>3, <1>4, <1>5, <1>6 DEF IInv

LEMMA NextIInv == IInv /\ [Next]_vars => IInv'
  <1> SUFFICES ASSUME IInv, [Next]_vars PROVE IInv'
    OBVIOUS
  <1>1. TypeOK' /\ ArgumentsOK'
    BY TypeStep, ArgumentsStep DEF IInv
  <1>2. FreshCancel' /\ DatabaseConserved'
    BY DatabaseStep DEF IInv
  <1>3. GuardOK'
    BY GuardStep DEF IInv, GuardOK
  <1>4. MarkedOK' /\ MarksOK'
    BY MarkedStep, MarksStep DEF IInv, MarkedOK
  <1>5. NoOversell' /\ GivenBackIsFinal'
    BY <1>2, OversellStep, RevivedStep DEF IInv
  <1> QED
    BY <1>1, <1>2, <1>3, <1>4, <1>5 DEF IInv, GuardOK, MarkedOK

\* The inductive invariant holds in every reachable state.
THEOREM IInvHolds == Spec => []IInv
  BY InitIInv, NextIInv, PTL DEF Spec

\* Every variable has its type, whatever fails.
THEOREM TypeCorrect == Spec => []TypeOK
  <1>1. IInv => TypeOK
    BY DEF IInv
  <1> QED
    BY <1>1, IInvHolds, PTL

\* On one connection the activity's row and the live orders add up, whatever
\* Redis does and whichever call of createOrderWithRedis, CancelOrder or
\* ReconcileStock fails, as long as UpdateActivityStatus writes no stock back.
THEOREM DatabaseConservedHolds == Spec => []DatabaseConserved
  <1>1. IInv => DatabaseConserved
    BY DEF IInv
  <1> QED
    BY <1>1, IInvHolds, PTL

\* The two Lua scripts keep stock key and reservations in balance.
THEOREM GuardBalancedHolds == Spec => []GuardBalanced
  <1>1. IInv => GuardBalanced
    BY DEF IInv
  <1> QED
    BY <1>1, IInvHolds, PTL

\* The mark of a user with a live order that was never given back is not released
\* before a cancellation of that order releases it.
THEOREM BuyersAreMarkedHolds == Spec => []BuyersAreMarked
  <1>1. IInv => BuyersAreMarked
    BY DEF IInv
  <1> QED
    BY <1>1, IInvHolds, PTL

\* Never more live orders than units: on one connection because the row is right;
\* on several, and after an edit, because the scripts hand out no more than there
\* is, but for the orders that processOrderCreated or PaymentCallback revives.
THEOREM NoOversellHolds == Spec => []NoOversell
  <1>1. IInv => NoOversell
    BY DEF IInv
  <1> QED
    BY <1>1, IInvHolds, PTL

\* An order that was given back stays so on one connection, where the worker and
\* the payment save the order they have read in the same transaction.
THEOREM GivenBackIsFinalHolds == Spec => []GivenBackIsFinal
  <1>1. IInv => GivenBackIsFinal
    BY DEF IInv
  <1> QED
    BY <1>1, IInvHolds, PTL

\* With no request in flight, the cached stock is the stock in the database:
\* the marked users are then exactly those with a live order.
THEOREM AgreeWhenQuietHolds == Spec => []AgreeWhenQuiet
  <1>1. ASSUME IInv PROVE AgreeWhenQuiet
    <2> SUFFICES ASSUME Serial, Quiet, Without(MishapKinds \ {"database"}),
                        stockKey # Missing
                 PROVE  stockKey = dbStock
      BY DEF AgreeWhenQuiet
    <2>w. /\ Without({"evict", "crash", "commit", "rollback", "reply"})
          /\ Without({"evict", "crash", "commit", "rollback"})
          /\ Without({"evict", "repair"}) /\ Without({"edit"})
      BY DEF Without, MishapKinds
    <2>q. \A p \in Procs : req[p].stage = "idle"
      BY DEF Quiet, Idle
    <2>1. Live \subseteq usersKey
      BY <1>1, <2>w, <2>q DEF IInv, BuyersAreMarked, GivenBackIsFinal
    <2>2. usersKey \subseteq Live
      BY <1>1, <2>w, <2>q DEF IInv, MarksOK, Holds, Live, TypeOK
    <2>3. stockKey + Cardinality(usersKey) = Stock0 /\ stockKey \in Int
      BY <1>1, <2>w DEF IInv, GuardBalanced, TypeOK
    <2>4. dbStock = Stock0 - Cardinality(Live)
      BY <1>1, <2>w DEF IInv, DatabaseConserved
    <2>5. Cardinality(Live) \in Nat /\ Stock0 \in Nat /\ usersKey = Live
      BY <2>1, <2>2, LiveIsFinite, RedisGuardAssumption DEF LiveFinite
    <2> QED
      BY <2>3, <2>4, <2>5
  <1> QED
    BY <1>1, IInvHolds, PTL
=============================================================================
