----------------------------- MODULE RedisGuard -----------------------------
(***************************************************************************)
(* The Redis stock guard of one activity beside its MySQL row: the stock   *)
(* key, the set of users who hold a reservation, the two Lua scripts, and  *)
(* the calls of OrderService that touch both stores: createOrderWithRedis, *)
(* CancelOrder (with restoreStock, also used by the timeouts) and          *)
(* ReconcileStock.  Redis is not part of the database transaction, so      *)
(* every call to it is a step of its own and may fail on its own.          *)
(*                                                                         *)
(* A Lua script is atomic.  The create transaction is one step: its        *)
(* conditional UPDATE and its unique index read the committed rows.  The   *)
(* cancel transaction is three: it reads, it saves the activity (which     *)
(* locks the row) and releases in Redis, it commits.                       *)
(*                                                                         *)
(* Two more of the server's calls write the same rows from a copy: the     *)
(* worker and the payment callback save an order as they have read it but  *)
(* for its status, and UpdateActivityStatus an activity.                   *)
(***************************************************************************)
EXTENDS Integers, FiniteSets

CONSTANTS
    Procs,      \* requests in flight
    Users,
    Stock0,     \* stock the activity was created with
    Engines,    \* the databases it may run on: "sqlite", with one connection, so
                \* that transactions never overlap, or "mysql"
    Mishaps,    \* the kinds of mishaps that may happen
    MaxMishaps, \* bound: how many mishaps happen in one behaviour
    MaxRevived, \* bound: how many orders are revived in one, each of them once
    None,
    Missing     \* what a key that does not exist holds

\* Faults, the repairs of ReconcileStock and the edits of an administrator.
MishapKinds ==
    {"crash", "reply", "database", "commit", "rollback", "evict", "repair", "edit"}

ASSUME RedisGuardAssumption ==
    /\ IsFiniteSet(Procs) /\ IsFiniteSet(Users)
    /\ Stock0 \in Nat \ {0}
    /\ Engines \subseteq {"sqlite", "mysql"}
    /\ Mishaps \subseteq MishapKinds
    /\ MaxMishaps \in Nat
    /\ MaxRevived \in Nat
    /\ None \notin Users
    /\ Missing \notin Int

VARIABLES
    engine,      \* DB_DRIVER
    dbStock,     \* activities.stock
    order,       \* order[u]: "NONE", "LIVE" or "GONE" (cancelled or closed)
    stockKey,    \* order:activity:<id>:stock, Missing if there is no key
    usersKey,    \* order:activity:<id>:users
    req,         \* req[p]: the stage of request p, its user, the stock it read
    mishaps,     \* mishaps[k]: mishaps of kind k so far
    revived      \* history: users whose given back order a save from a copy
                 \* has made a live one again

vars == <<engine, dbStock, order, stockKey, usersKey, req, mishaps, revived>>
db == <<engine, dbStock, order, revived>>
redis == <<stockKey, usersKey>>

Stages == {"idle", "reserve", "create", "release", "cancel", "commit",
           "move", "compare", "repair", "edit"}

Idle == [stage |-> "idle", user |-> None, copy |-> 0]

Goto(p, stage) == req' = [req EXCEPT ![p].stage = stage]
Finish(p) == req' = [req EXCEPT ![p] = Idle]

MishapCount ==
    mishaps["crash"] + mishaps["reply"] + mishaps["database"] + mishaps["commit"]
    + mishaps["rollback"] + mishaps["evict"] + mishaps["repair"] + mishaps["edit"]

Mishap(kind) ==
    /\ kind \in Mishaps
    /\ MishapCount < MaxMishaps
    /\ mishaps' = [mishaps EXCEPT ![kind] = @ + 1]

\* None of the given kinds has happened.
Without(kinds) == \A k \in kinds : mishaps[k] = 0

\* One connection: a transaction begins when no other is open.
Serial == engine = "sqlite"

\* Live orders hold a unit of stock.
Live == {u \in Users : order[u] = "LIVE"}

\* A transaction in between its Save of the activity row and its end holds
\* the row lock; with one connection it keeps all others out from the start.
Locked ==
    \E p \in Procs : req[p].stage \in
        (IF Serial THEN {"cancel", "commit", "move"} ELSE {"commit"})

-----------------------------------------------------------------------------
(* The Lua scripts *)

\* INCR and DECR take a missing key for 0.
Value(key) == IF key = Missing THEN 0 ELSE key

\* The stock key after the script's first lines.
InitialisedKey(initial) == IF stockKey = Missing THEN initial ELSE stockKey

\* Slip: the script does not look whether the user has bought already.
ReserveCodeNoUser(u, initial) == IF InitialisedKey(initial) <= 0 THEN -2 ELSE 0

\* What the script answers: -1 already bought, -2 sold out, 0 reserved.
ReserveCode(u, initial) ==
    IF u \in usersKey THEN -1
    ELSE IF InitialisedKey(initial) <= 0 THEN -2 ELSE 0

reserveStockScript(u, initial) ==
    IF ReserveCode(u, initial) = 0
    THEN /\ stockKey' = InitialisedKey(initial) - 1
         /\ usersKey' = usersKey \cup {u}
    ELSE /\ stockKey' = InitialisedKey(initial)
         /\ UNCHANGED usersKey

\* Slip: INCR whether or not SREM removed the user.
releaseStockScriptAlways(u) ==
    /\ usersKey' = usersKey \ {u}
    /\ stockKey' = Value(stockKey) + 1

releaseStockScript(u) ==
    IF u \in usersKey
    THEN /\ usersKey' = usersKey \ {u}
         /\ stockKey' = Value(stockKey) + 1
    ELSE UNCHANGED redis

-----------------------------------------------------------------------------
(* createOrderWithRedis *)

\* First(&activity): the stock it holds is the script's initialStock.
ReadActivity(p, u) ==
    /\ req[p] = Idle
    /\ Serial => ~Locked
    /\ req' = [req EXCEPT ![p] = [stage |-> "reserve", user |-> u, copy |-> dbStock]]
    /\ UNCHANGED <<db, redis, mishaps>>

Reserve(p) ==
    /\ req[p].stage = "reserve"
    /\ reserveStockScript(req[p].user, req[p].copy)
    /\ IF ReserveCode(req[p].user, req[p].copy) = 0
       THEN Goto(p, "create")
       ELSE Finish(p)
    /\ UNCHANGED <<db, mishaps>>

\* The script has run but its reply is lost or late: the request is rejected
\* and nothing is released.
ReserveReplyLost(p) ==
    /\ req[p].stage = "reserve"
    /\ Mishap("reply")
    /\ reserveStockScript(req[p].user, req[p].copy)
    /\ Finish(p)
    /\ UNCHANGED db

\* Slip: the stock is not looked at again when the order is created.
CreateOrderAnyStock(p) ==
    /\ req[p].stage = "create"
    /\ ~Locked
    /\ order[req[p].user] = "NONE"
    /\ dbStock' = dbStock - 1
    /\ order' = [order EXCEPT ![req[p].user] = "LIVE"]
    /\ \/ Finish(p) /\ UNCHANGED mishaps
       \/ Goto(p, "release") /\ Mishap("commit")
    /\ UNCHANGED <<engine, redis, revived>>

\* The transaction commits.  If the connection breaks before the answer to the
\* commit, the request takes the order for failed and releases its unit.
CreateOrder(p) ==
    /\ req[p].stage = "create"
    /\ ~Locked
    /\ order[req[p].user] = "NONE"
    /\ dbStock > 0
    /\ dbStock' = dbStock - 1
    /\ order' = [order EXCEPT ![req[p].user] = "LIVE"]
    /\ \/ Finish(p) /\ UNCHANGED mishaps
       \/ Goto(p, "release") /\ Mishap("commit")
    /\ UNCHANGED <<engine, redis, revived>>

\* Slip: a rejected order does not release its reservation.
CreateOrderFailsNoRelease(p) ==
    /\ req[p].stage = "create"
    /\ \/ /\ ~Locked
          /\ order[req[p].user] # "NONE" \/ dbStock <= 0
          /\ UNCHANGED mishaps
       \/ Mishap("database")
    /\ Finish(p)
    /\ UNCHANGED <<db, redis>>

\* The transaction rolls back: the user has an order already, the stock is
\* used up, or the database fails.
CreateOrderFails(p) ==
    /\ req[p].stage = "create"
    /\ \/ /\ ~Locked
          /\ order[req[p].user] # "NONE" \/ dbStock <= 0
          /\ UNCHANGED mishaps
       \/ Mishap("database")
    /\ Goto(p, "release")
    /\ UNCHANGED <<db, redis>>

Release(p) ==
    /\ req[p].stage = "release"
    /\ releaseStockScript(req[p].user)
    /\ Finish(p)
    /\ UNCHANGED <<db, mishaps>>

-----------------------------------------------------------------------------
(* CancelOrder, ExpireOrders and Compensate with restoreStock *)

\* Slip: an order may be cancelled again.
CancelReadAny(p, u) ==
    /\ req[p] = Idle
    /\ Serial => ~Locked
    /\ order[u] # "NONE"
    /\ req' = [req EXCEPT ![p] = [stage |-> "cancel", user |-> u, copy |-> dbStock]]
    /\ UNCHANGED <<db, redis, mishaps>>

CancelRead(p, u) ==
    /\ req[p] = Idle
    /\ Serial => ~Locked
    /\ order[u] = "LIVE"
    /\ req' = [req EXCEPT ![p] = [stage |-> "cancel", user |-> u, copy |-> dbStock]]
    /\ UNCHANGED <<db, redis, mishaps>>

\* Save(&activity), not visible before the commit, then Release.
restoreStock(p) ==
    /\ req[p].stage = "cancel"
    /\ \A q \in Procs : req[q].stage # "commit"
    /\ releaseStockScript(req[p].user)
    /\ Goto(p, "commit")
    /\ UNCHANGED <<db, mishaps>>

\* Slip: a status the model does not know is stored.
CancelCommitBadStatus(p) ==
    /\ req[p].stage = "commit"
    /\ dbStock' = req[p].copy + 1
    /\ order' = [order EXCEPT ![req[p].user] = "RETURNED"]
    /\ Finish(p)
    /\ UNCHANGED <<engine, redis, mishaps, revived>>

CancelCommit(p) ==
    /\ req[p].stage = "commit"
    /\ dbStock' = req[p].copy + 1
    /\ order' = [order EXCEPT ![req[p].user] = "GONE"]
    /\ Finish(p)
    /\ UNCHANGED <<engine, redis, mishaps, revived>>

\* The reply of Release is lost, or Save(&order) or the commit fails: MySQL
\* rolls back, Redis does not.
CancelRollback(p) ==
    /\ req[p].stage = "commit"
    /\ Mishap("rollback")
    /\ Finish(p)
    /\ UNCHANGED <<db, redis>>

-----------------------------------------------------------------------------
(* processOrderCreated and PaymentCallback *)

\* Slip: the transaction gives the connection back between First and Save, and
\* so others may run in between even where there is one connection.
processOrderCreated_ReadAlone(p, u) ==
    /\ req[p] = Idle
    /\ order[u] = "LIVE"
    /\ req' = [req EXCEPT ![p] = [stage |-> "move", user |-> u, copy |-> 0]]
    /\ UNCHANGED <<db, redis, mishaps>>

\* First(&order) in a transaction: the status allows the transition.
processOrderCreated_Read(p, u) ==
    /\ req[p] = Idle
    /\ Serial => ~Locked
    /\ order[u] = "LIVE"
    /\ req' = [req EXCEPT ![p] = [stage |-> "move", user |-> u, copy |-> 0]]
    /\ UNCHANGED <<db, redis, mishaps>>

\* An order that is live no more becomes so again.
Revive(u) ==
    /\ order[u] = "GONE"
    /\ u \notin revived
    /\ Cardinality(revived) < MaxRevived
    /\ revived' = revived \cup {u}

\* Save(&order) and the commit: WAIT_PAY or PAID is written over whatever the row
\* holds by now.
processOrderCreated_Save(p) ==
    /\ req[p].stage = "move"
    /\ \/ order[req[p].user] = "LIVE" /\ UNCHANGED revived
       \/ Revive(req[p].user)
    /\ order' = [order EXCEPT ![req[p].user] = "LIVE"]
    /\ Finish(p)
    /\ UNCHANGED <<engine, dbStock, redis, mishaps>>

-----------------------------------------------------------------------------
(* UpdateActivityStatus *)

\* First(&activity), a statement of its own.
UpdateActivityStatus_Read(p) ==
    /\ "edit" \in Mishaps
    /\ req[p] = Idle
    /\ Serial => ~Locked
    /\ req' = [req EXCEPT ![p] = [stage |-> "edit", user |-> None, copy |-> dbStock]]
    /\ UNCHANGED <<db, redis, mishaps>>

\* Save(&activity), another: with the new status it writes the stock back.
UpdateActivityStatus_Save(p) ==
    /\ req[p].stage = "edit"
    /\ ~Locked
    /\ Mishap("edit")
    /\ dbStock' = req[p].copy
    /\ Finish(p)
    /\ UNCHANGED <<engine, order, redis, revived>>

-----------------------------------------------------------------------------
(* ReconcileStock with repair *)

ReconcileRead(p) ==
    /\ "repair" \in Mishaps
    /\ req[p] = Idle
    /\ Serial => ~Locked
    /\ req' = [req EXCEPT ![p] = [stage |-> "compare", user |-> None, copy |-> dbStock]]
    /\ UNCHANGED <<db, redis, mishaps>>

GetStock(p) ==
    /\ req[p].stage = "compare"
    /\ IF stockKey # req[p].copy THEN Goto(p, "repair") ELSE Finish(p)
    /\ UNCHANGED <<db, redis, mishaps>>

SetStock(p) ==
    /\ req[p].stage = "repair"
    /\ Mishap("repair")
    /\ stockKey' = req[p].copy
    /\ Finish(p)
    /\ UNCHANGED <<db, usersKey>>

-----------------------------------------------------------------------------
(* Failures *)

\* The server dies, or the next call of the request fails without effect,
\* between two steps.
Crash(p) ==
    /\ req[p] # Idle
    /\ Mishap("crash")
    /\ Finish(p)
    /\ UNCHANGED <<db, redis>>

\* Keys expire, are evicted, or are lost when Redis restarts.
KeysLost ==
    /\ Mishap("evict")
    /\ stockKey' \in {stockKey, Missing}
    /\ usersKey' \in {usersKey, {}}
    /\ UNCHANGED <<db, req>>

-----------------------------------------------------------------------------
(* Specification *)

\* CreateActivity prewarms the stock key; if that fails the activity is on
\* sale without a key.
Init ==
    /\ engine \in Engines
    /\ dbStock = Stock0
    /\ order = [u \in Users |-> "NONE"]
    /\ stockKey \in {Stock0, Missing}
    /\ usersKey = {}
    /\ req = [p \in Procs |-> Idle]
    /\ mishaps = [k \in MishapKinds |-> 0]
    /\ revived = {}

Next ==
    \/ \E p \in Procs :
        \/ \E u \in Users :
            ReadActivity(p, u) \/ CancelRead(p, u) \/ processOrderCreated_Read(p, u)
        \/ Reserve(p) \/ ReserveReplyLost(p)
        \/ CreateOrder(p) \/ CreateOrderFails(p) \/ Release(p)
        \/ restoreStock(p) \/ CancelCommit(p) \/ CancelRollback(p)
        \/ processOrderCreated_Save(p)
        \/ UpdateActivityStatus_Read(p) \/ UpdateActivityStatus_Save(p)
        \/ ReconcileRead(p) \/ GetStock(p) \/ SetStock(p)
        \/ Crash(p)
    \/ KeysLost

Spec == Init /\ [][Next]_vars

-----------------------------------------------------------------------------
(* Properties *)

\* Every variable has its type.
TypeOK ==
    /\ engine \in Engines
    /\ dbStock \in Int
    /\ order \in [Users -> {"NONE", "LIVE", "GONE"}]
    /\ stockKey \in Int \cup {Missing}
    /\ usersKey \subseteq Users
    /\ req \in [Procs -> [stage : Stages, user : Users \cup {None}, copy : Int]]
    /\ mishaps \in [MishapKinds -> 0..MaxMishaps]
    /\ revived \subseteq Users

\* Whatever Redis answers, forgets or over-grants, and whichever call fails,
\* a database with one connection keeps its row and the live orders adding up to
\* the initial stock, as long as no edit writes an older stock back.
DatabaseConserved ==
    Serial /\ Without({"edit"}) => dbStock = Stock0 - Cardinality(Live)

\* Stock key and reservations add up to the initial stock as long as no key was
\* lost and no repair was made: neither script, and no request that crashes,
\* loses a reply or rolls back, creates or destroys a unit in Redis.
GuardBalanced ==
    Without({"evict", "repair"}) /\ stockKey # Missing =>
        stockKey + Cardinality(usersKey) = Stock0

\* Whoever holds a live order is marked in Redis, unless his cancellation is
\* under way, as long as no key was lost, no answer to a create's commit was lost
\* and no cancellation rolled back after its Release: the guard gives a user's
\* unit to nobody else.  The exception in the code is an order that was given back
\* and that the worker or the payment saved as live again.
BuyersAreMarked ==
    Without({"evict", "crash", "commit", "rollback"}) =>
        \A u \in Live \ revived :
            u \in usersKey
            \/ \E p \in Procs : req[p].user = u /\ req[p].stage = "commit"

\* Never more live orders than units: on one connection as long as no edit writes
\* a stock back.  Where overlapping transactions or edits let the stock column
\* drift, the script is what stops overselling: as long as Redis kept its keys and
\* its units were neither overwritten nor given back too early, every live order
\* beyond the stock is one that a save from a copy has revived.
NoOversell ==
    /\ Serial /\ Without({"edit"}) => Cardinality(Live) <= Stock0
    /\ Without({"evict", "crash", "commit", "rollback", "repair"}) =>
           Cardinality(Live \ revived) <= Stock0

\* What the README promises of the guard together with the conditional UPDATE: the
\* orders accepted never exceed the stock, whatever overlaps.
SoldWithinStock == Cardinality(Live) <= Stock0

\* No order that was given back becomes a live one again: on one connection the
\* worker and the payment still find what they have read when they save.
GivenBackIsFinal == Serial => revived = {}

Quiet == \A p \in Procs : req[p] = Idle

\* When no request is in flight on one connection, the cached stock is the stock
\* in MySQL, or there is no key yet: every reservation became an order or was
\* released.
AgreeWhenQuiet ==
    Serial /\ Quiet /\ Without(MishapKinds \ {"database"}) => stockKey \in {dbStock, Missing}

\* A repair does not spoil the agreement it is there to restore.
AgreeAfterRepair ==
    Serial /\ Quiet /\ Without(MishapKinds \ {"repair"}) => stockKey \in {dbStock, Missing}
=============================================================================
