----------------------------- MODULE AddressBook -----------------------------
(***************************************************************************)
(* The addresses of one user: AddressService.Create and SetDefault, each a *)
(* database transaction of several statements, run by requests that        *)
(* overlap.                                                                *)
(*                                                                         *)
(* On SQLite there is one connection, so transactions do not overlap.  On  *)
(* MySQL (InnoDB, REPEATABLE READ) the UPDATE of all addresses of a user   *)
(* locks them and the gap around them until the end of the transaction; if *)
(* there are none it locks only the gap, which several transactions may do *)
(* at once but into which none of them can then insert.                    *)
(***************************************************************************)
EXTENDS Integers, FiniteSets

CONSTANTS
    Procs,          \* goroutines that serve requests
    Engines,        \* the databases it may run on: "sqlite", "mysql"
    MaxAddresses    \* bound: addresses of the user

VARIABLES
    engine,      \* ORDER_DB_DRIVER
    addresses,   \* the address rows are 1..addresses
    defaults,    \* those with is_default set
    txn          \* txn[p]: the address transaction p is in

addressVars == <<engine, addresses, defaults, txn>>

\* row: the address to make the default, 0 for a new one; lock: what the UPDATE
\* has locked; cleared: the rows it has reset, visible to others with the commit.
NoTxn == [at |-> "none", row |-> 0, isDefault |-> FALSE, lock |-> "none",
          cleared |-> {}]

TxnState ==
    [at : {"none", "clear", "insert", "save"}, row : 0..MaxAddresses, isDefault : BOOLEAN,
     lock : {"none", "gap", "rows"}, cleared : SUBSET (1..MaxAddresses)]

\* Somebody else holds one of these locks.
LockedFor(p, locks) == \E q \in Procs \ {p} : txn[q].lock \in locks

Begin(p, row, isDefault) ==
    /\ txn[p] = NoTxn
    /\ engine = "sqlite" => \A q \in Procs : txn[q] = NoTxn
    /\ txn' = [txn EXCEPT ![p] = [NoTxn EXCEPT
                  !.at = IF isDefault THEN "clear" ELSE "insert",
                  !.row = row, !.isDefault = isDefault]]
    /\ UNCHANGED <<engine, addresses, defaults>>

\* Create begins; a default address resets the others first.
CreateAddress(p, isDefault) ==
    /\ addresses + Cardinality(Procs) <= MaxAddresses
    /\ Begin(p, 0, isDefault)

\* SetDefault finds the address.
SetDefault(p, row) ==
    /\ row \in 1..addresses
    /\ Begin(p, row, TRUE)

\* Slip: the reset is committed by itself and locks nothing.
ClearDefaultsCommitted(p) ==
    /\ txn[p].at = "clear"
    /\ defaults' = {}
    /\ txn' = [txn EXCEPT ![p].at = IF txn[p].row = 0 THEN "insert" ELSE "save"]
    /\ UNCHANGED <<engine, addresses>>

\* Update("is_default", false)
ClearDefaults(p) ==
    /\ txn[p].at = "clear"
    /\ ~LockedFor(p, {"rows"})
    /\ txn' = [txn EXCEPT ![p] = [txn[p] EXCEPT
                  !.at = IF txn[p].row = 0 THEN "insert" ELSE "save",
                  !.lock = IF addresses = 0 THEN "gap" ELSE "rows",
                  !.cleared = 1..addresses]]
    /\ UNCHANGED <<engine, addresses, defaults>>

\* tx.Create and the commit.
InsertAddress(p) ==
    /\ txn[p].at = "insert"
    /\ ~LockedFor(p, {"gap", "rows"})
    /\ addresses' = addresses + 1
    /\ defaults' = IF txn[p].isDefault
                   THEN (defaults \ txn[p].cleared) \cup {addresses + 1}
                   ELSE defaults
    /\ txn' = [txn EXCEPT ![p] = NoTxn]
    /\ UNCHANGED engine

\* tx.Save and the commit.
SaveDefault(p) ==
    /\ txn[p].at = "save"
    /\ defaults' = (defaults \ txn[p].cleared) \cup {txn[p].row}
    /\ txn' = [txn EXCEPT ![p] = NoTxn]
    /\ UNCHANGED <<engine, addresses>>

\* Two transactions have locked the same gap and want to insert: InnoDB rolls
\* one of them back, and its request is answered with the error.
DeadlockVictim(p) ==
    /\ txn[p].at = "insert" /\ txn[p].lock = "gap"
    /\ LockedFor(p, {"gap"})
    /\ txn' = [txn EXCEPT ![p] = NoTxn]
    /\ UNCHANGED <<engine, addresses, defaults>>

AddressStep(p) ==
    ClearDefaults(p) \/ InsertAddress(p) \/ SaveDefault(p) \/ DeadlockVictim(p)

\* A transaction that is not committed leaves nothing behind.
RollbackAll ==
    /\ txn' = [p \in Procs |-> NoTxn]
    /\ UNCHANGED <<engine, addresses, defaults>>

\* The user has no address, or some of which at most one is the default.
AddressInit ==
    /\ engine \in Engines
    /\ \/ addresses = 0 /\ defaults = {}
       \/ addresses = 2 /\ defaults \in {{}, {1}}
    /\ txn = [p \in Procs |-> NoTxn]

-----------------------------------------------------------------------------
(* Properties *)

\* Every variable has its type; a default address is one of the user's.
AddressTypeOK ==
    /\ engine \in Engines
    /\ addresses \in 0..MaxAddresses
    /\ defaults \subseteq 1..addresses
    /\ txn \in [Procs -> TxnState]

\* However Create and SetDefault overlap, fail or are cut off by a crash, the
\* user never gets a second default address, and once he has chosen one he is
\* never left without.
OneDefaultAddress ==
    [][/\ Cardinality(defaults') <= 1
       /\ defaults # {} => defaults' # {}]_addressVars
=============================================================================
