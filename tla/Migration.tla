----------------------------- MODULE Migration -----------------------------
(***************************************************************************)
(* What database.Open does to the tables, statement by statement: every    *)
(* statement is committed by itself, the process may die after each, and   *)
(* the next start runs them all again.                                     *)
(*                                                                         *)
(* An earlier version of the program kept a user from ordering an activity *)
(* twice with the unique index idx_user_activity on the two columns, which *)
(* also kept him from a second cart order (activity 0).  Now the column    *)
(* activity_order_key has a unique index; it is null for a cart order.     *)
(***************************************************************************)
EXTENDS Integers, FiniteSets

CONSTANTS
    Buyers,
    MaxOrders    \* bound: order rows

VARIABLES
    rows,        \* order rows: id, user, activity (0 for a cart order), key
    keyIndex,    \* activity_order_key and its unique index exist
    oldIndex,    \* idx_user_activity exists
    blank        \* some activity has the empty status of the earlier version

tableVars == <<rows, keyIndex, oldIndex, blank>>

NoKey == <<>>
NewActivityOrderKey(u, a) == <<u, a>>

Row(id, u, a, key) == [id |-> id, user |-> u, activity |-> a, key |-> key]

Unkeyed == {r \in rows : r.activity > 0 /\ r.key = NoKey}

\* Slip: the index is created without a look whether it is there.
AutoMigrateTwice ==
    /\ ~keyIndex
    /\ keyIndex' = TRUE
    /\ UNCHANGED <<rows, oldIndex, blank>>

\* The tables and indexes that are missing.  No key is set before the index
\* exists, so it can always be created.
AutoMigrate ==
    /\ keyIndex' = TRUE
    /\ UNCHANGED <<rows, oldIndex, blank>>

\* The unique index would reject this key.
KeyTaken(key) == \E r \in rows : r.key = key

\* One pass of the loop: the first of the rows without a key.
backfillActivityOrderKeys ==
    /\ \E r \in Unkeyed :
           LET key == NewActivityOrderKey(r.user, r.activity)
           IN  /\ \A s \in Unkeyed : r.id <= s.id
               /\ ~KeyTaken(key)
               /\ rows' = (rows \ {r}) \cup {[r EXCEPT !.key = key]}
    /\ UNCHANGED <<keyIndex, oldIndex, blank>>

\* Slip: one pass is enough.
BackfillDoneEarly == TRUE

BackfillDone == Unkeyed = {}

PublishBlankActivities ==
    /\ blank' = FALSE
    /\ UNCHANGED <<rows, keyIndex, oldIndex>>

DropIndex ==
    /\ oldIndex' = FALSE
    /\ UNCHANGED <<rows, keyIndex, blank>>

-----------------------------------------------------------------------------
(* The inserts that rely on the indexes *)

\* Slip: a cart order gets a key as well.
InsertKeyAlways(u, a) ==
    /\ Cardinality(rows) < MaxOrders
    /\ oldIndex => \A r \in rows : <<r.user, r.activity>> # <<u, a>>
    /\ ~KeyTaken(NewActivityOrderKey(u, a))
    /\ rows' = rows \cup {Row(Cardinality(rows) + 1, u, a, NewActivityOrderKey(u, a))}
    /\ UNCHANGED <<keyIndex, oldIndex, blank>>

\* An order row; a cart order (a = 0) has no key.
Insert(u, a) ==
    /\ Cardinality(rows) < MaxOrders
    /\ oldIndex => \A r \in rows : <<r.user, r.activity>> # <<u, a>>
    /\ a > 0 => ~KeyTaken(NewActivityOrderKey(u, a))
    /\ rows' = rows \cup {Row(Cardinality(rows) + 1, u, a,
                               IF a > 0 THEN NewActivityOrderKey(u, a) ELSE NoKey)}
    /\ UNCHANGED <<keyIndex, oldIndex, blank>>

\* A new database, or one the earlier version leaves behind.
TablesInit ==
    /\ \/ rows = {} /\ oldIndex = FALSE /\ blank = FALSE
       \/ \E u \in Buyers :
              /\ rows = {Row(1, u, 1, NoKey), Row(2, u, 0, NoKey), Row(3, u, 2, NoKey)}
              /\ oldIndex = TRUE /\ blank = TRUE
    /\ keyIndex = FALSE

-----------------------------------------------------------------------------
(* Properties *)

\* Every variable has its type; a key is that of its row, and a cart order has none.
TablesTypeOK ==
    /\ rows \subseteq [id : 1..MaxOrders, user : Buyers, activity : 0..2,
                        key : {NoKey} \cup (Buyers \X (1..2))]
    /\ \A r \in rows :
           r.key # NoKey => r.activity > 0 /\ r.key = NewActivityOrderKey(r.user, r.activity)
    /\ {keyIndex, oldIndex, blank} \subseteq BOOLEAN

\* A user has at most one order of an activity, from the earlier version's
\* database through every interrupted and repeated migration to the orders
\* taken afterwards, though a request's own look for an earlier order may be
\* out of date when it inserts.
UniqueActivityOrder ==
    \A r, s \in rows :
        r.user = s.user /\ r.activity = s.activity /\ r.activity > 0 => r = s
=============================================================================
