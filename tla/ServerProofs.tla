---------------------------- MODULE ServerProofs ----------------------------
(***************************************************************************)
(* Proofs about Server: its invariants hold for any number of requests,    *)
(* buyers, accounts and settings, and whatever is interrupted.             *)
(*                                                                         *)
(* The database has three parts that share no variable, and the process    *)
(* ties them together through its phase.  Each part has its own invariant  *)
(* and its own lemma on what a step of the server does to it.              *)
(***************************************************************************)
EXTENDS Server, FiniteSetTheorems, TLAPS

-----------------------------------------------------------------------------
(* The addresses *)

\* The transactions that are going to insert an address.
Creating == {p \in Procs : txn[p].at \in {"clear", "insert"} /\ txn[p].row = 0}

\* What a transaction t knows of the n address rows stays true until it ends: no
\* address is inserted under its lock, and every default has been reset before
\* a new one is set.
TxnOK(t, n) ==
    /\ t.row <= n
    /\ t.lock = "gap" => n = 0
    /\ t.lock = "rows" => 1..n \subseteq t.cleared
    /\ t.at = "save" => t.lock = "rows" /\ t.row > 0
    /\ t.at = "insert" => t.row = 0 /\ (t.isDefault => t.lock # "none")

AddressInv ==
    /\ AddressTypeOK
    /\ \A p \in Procs : TxnOK(txn[p], addresses)
    /\ \A c, d \in defaults : c = d
    /\ addresses + Cardinality(Creating) <= MaxAddresses

AddressNext ==
    \/ \E p \in Procs, d \in BOOLEAN : CreateAddress(p, d)
    \/ \E p \in Procs, row \in 1..addresses : SetDefault(p, row)
    \/ \E p \in Procs : AddressStep(p)
    \/ RollbackAll
    \/ UNCHANGED addressVars

\* A step of the server does to the addresses what a request or a rollback does.
LEMMA AddressPart == [Next]_vars => AddressNext
BY DEF Next, vars, dbVars, addressVars, AddressNext, Main, Start, Migrate, MigrateRoles,
    Connect, PrepareAdmin, StartWorkers, Shutdown, StopWorkers, CloseDatabase, Exit,
    DropIndexFails, Accept, HandleAuth, HandleOrder, HandleAddress, ContinueTxn,
    HandleOther, TakeWork, FinishWork, StopWork, Become, Signal, TimeoutExpires, Crash

\* A transaction that has not begun fits any state of the addresses.
LEMMA NoTxnOK ==
    ASSUME addresses \in Nat
    PROVE  NoTxn \in TxnState /\ TxnOK(NoTxn, addresses) /\ NoTxn.at = "none"
BY ServerAssumption DEF NoTxn, TxnState, TxnOK

\* A transaction begins: it holds no lock yet.
LEMMA BeginKeeps ==
    ASSUME AddressInv, NEW p \in Procs, NEW row \in 0..addresses, NEW d \in BOOLEAN,
           row # 0 => d,
           row = 0 => addresses + Cardinality(Procs) <= MaxAddresses,
           Begin(p, row, d)
    PROVE  AddressInv'
<1> DEFINE t == [NoTxn EXCEPT !.at = IF d THEN "clear" ELSE "insert",
                              !.row = row, !.isDefault = d]
<1>1. addresses \in Nat /\ MaxAddresses \in Nat /\ addresses <= MaxAddresses
      /\ addresses' = addresses /\ defaults' = defaults /\ engine' = engine
      /\ txn \in [Procs -> TxnState] /\ txn' = [txn EXCEPT ![p] = t]
  BY ServerAssumption DEF AddressInv, AddressTypeOK, Begin
<1>2. NoTxn \in TxnState /\ NoTxn.lock = "none"
  BY <1>1, NoTxnOK DEF NoTxn
<1>a. t \in TxnState
  <2>1. row \in 0..MaxAddresses
    BY <1>1
  <2> QED
    BY <1>2, <2>1 DEF TxnState
<1>b. t.at = IF d THEN "clear" ELSE "insert"
  BY <1>2 DEF TxnState
<1>c. t.row = row /\ t.lock = "none"
  BY <1>2 DEF TxnState
<1>d. t.isDefault = d
  BY <1>2 DEF TxnState
<1>3. /\ t \in TxnState
      /\ t.at = IF d THEN "clear" ELSE "insert"
      /\ t.row = row /\ (t.isDefault <=> d) /\ t.lock = "none"
  BY <1>a, <1>b, <1>c, <1>d
<1> HIDE DEF t
<1>4. txn' \in [Procs -> TxnState] /\ \A q \in Procs : txn'[q] = IF q = p THEN t ELSE txn[q]
  BY <1>1, <1>3
<1>5. TxnOK(t, addresses')
  BY <1>1, <1>3 DEF TxnOK
<1>6. \A q \in Procs : TxnOK(txn'[q], addresses')
  BY <1>1, <1>4, <1>5 DEF AddressInv, TxnOK
<1>7. addresses' + Cardinality(Creating') <= MaxAddresses
  <2>1. CASE row = 0
    <3>1. Creating' \subseteq Procs
      BY DEF Creating
    <3>2. Cardinality(Creating') <= Cardinality(Procs) /\ Cardinality(Creating') \in Nat
          /\ Cardinality(Procs) \in Nat
      BY <3>1, ServerAssumption, FS_Subset, FS_CardinalityType
    <3> QED
      BY <1>1, <2>1, <3>2
  <2>2. CASE row # 0
    <3>1. Creating' \subseteq Creating
      BY <1>3, <1>4, <2>2 DEF Creating
    <3>2. Creating \subseteq Procs
      BY DEF Creating
    <3>3. Cardinality(Creating') <= Cardinality(Creating) /\ Cardinality(Creating') \in Nat
          /\ Cardinality(Creating) \in Nat
      BY <3>1, <3>2, ServerAssumption, FS_Subset, FS_CardinalityType
    <3> QED
      BY <1>1, <3>3 DEF AddressInv
  <2> QED
    BY <2>1, <2>2
<1> QED
  BY <1>1, <1>4, <1>6, <1>7 DEF AddressInv, AddressTypeOK

\* A transaction ends, and the locks of the others allow what it has done.
LEMMA EndKeeps ==
    ASSUME AddressInv, NEW p \in Procs,
           txn' = [txn EXCEPT ![p] = NoTxn],
           engine' = engine,
           addresses' \in Nat,
           addresses' \in {addresses, addresses + 1},
           addresses' # addresses =>
               /\ p \in Creating
               /\ \A q \in Procs \ {p} : txn[q].lock = "none",
           defaults' \subseteq 1..addresses',
           \A c, d \in defaults' : c = d
    PROVE  AddressInv'
<1>1. addresses \in Nat /\ MaxAddresses \in Nat /\ addresses <= MaxAddresses
      /\ txn \in [Procs -> TxnState] /\ engine' \in Engines
  BY ServerAssumption DEF AddressInv, AddressTypeOK
<1>2. NoTxn \in TxnState /\ TxnOK(NoTxn, addresses') /\ NoTxn.at = "none"
  BY <1>1 DEF NoTxn, TxnState, TxnOK
<1>3. txn' \in [Procs -> TxnState] /\ \A q \in Procs : txn'[q] = IF q = p THEN NoTxn ELSE txn[q]
  BY <1>1, <1>2
<1>4. ASSUME NEW q \in Procs PROVE TxnOK(txn'[q], addresses')
  <2>1. CASE q = p
    BY <1>2, <1>3, <2>1
  <2>2. CASE q # p
    <3>1. txn'[q] = txn[q] /\ txn[q] \in TxnState /\ TxnOK(txn[q], addresses)
      BY <1>1, <1>3, <2>2 DEF AddressInv
    <3>2. txn[q].row \in Nat
      BY <3>1, <1>1 DEF TxnState
    <3>3. addresses' # addresses => txn[q].lock = "none"
      BY <2>2
    <3> QED
      BY <1>1, <3>1, <3>2, <3>3 DEF TxnOK
  <2> QED
    BY <2>1, <2>2
<1>5. Creating' = Creating \ {p}
  BY <1>2, <1>3 DEF Creating
<1>6. IsFiniteSet(Creating) /\ Cardinality(Creating) \in Nat
  BY ServerAssumption, FS_Subset, FS_CardinalityType DEF Creating
<1>7. addresses' + Cardinality(Creating') <= MaxAddresses
  <2>1. Cardinality(Creating') = IF p \in Creating THEN Cardinality(Creating) - 1
                                 ELSE Cardinality(Creating)
    BY <1>5, <1>6, FS_RemoveElement
  <2> QED
    BY <1>1, <1>6, <2>1 DEF AddressInv
<1>8. Cardinality(Creating') \in Nat
  BY <1>5, <1>6, FS_RemoveElement, FS_CardinalityType
<1>9. addresses' <= MaxAddresses
  BY <1>1, <1>7, <1>8
<1> QED
  BY <1>1, <1>3, <1>4, <1>7, <1>9 DEF AddressInv, AddressTypeOK

\* The reset locks what is there; it is not visible yet.
LEMMA ClearKeeps ==
    ASSUME AddressInv, NEW p \in Procs, ClearDefaults(p)
    PROVE  AddressInv'
<1> DEFINE t == [txn[p] EXCEPT !.at = IF txn[p].row = 0 THEN "insert" ELSE "save",
                               !.lock = IF addresses = 0 THEN "gap" ELSE "rows",
                               !.cleared = 1..addresses]
<1>1. addresses \in Nat /\ MaxAddresses \in Nat /\ addresses <= MaxAddresses
      /\ addresses' = addresses /\ defaults' = defaults /\ engine' = engine
      /\ txn \in [Procs -> TxnState] /\ txn' = [txn EXCEPT ![p] = t]
      /\ txn[p].at = "clear"
  BY ServerAssumption DEF AddressInv, AddressTypeOK, ClearDefaults
<1>2. txn[p] \in TxnState /\ txn[p].row \in Nat /\ txn[p].row <= addresses
  BY <1>1 DEF AddressInv, TxnOK, TxnState
<1>a. 1..addresses \in SUBSET (1..MaxAddresses)
  BY <1>1
<1>b. t \in TxnState
  BY <1>2, <1>a DEF TxnState
<1>3. /\ t.at = IF txn[p].row = 0 THEN "insert" ELSE "save"
      /\ t.row = txn[p].row
      /\ t.lock = IF addresses = 0 THEN "gap" ELSE "rows"
      /\ t.cleared = 1..addresses
  BY <1>2 DEF TxnState
<1> HIDE DEF t
<1>4. txn' \in [Procs -> TxnState] /\ \A q \in Procs : txn'[q] = IF q = p THEN t ELSE txn[q]
  BY <1>1, <1>b
<1>5. TxnOK(t, addresses')
  <2>1. t.row \in Nat /\ t.row <= addresses'
    BY <1>1, <1>2, <1>3
  <2>2. t.lock = "rows" => 1..addresses' \subseteq t.cleared
    BY <1>1, <1>3
  <2>3. t.lock = "gap" => addresses' = 0
    BY <1>1, <1>3
  <2>4. t.at = "save" => t.lock = "rows" /\ t.row > 0
    BY <1>1, <1>2, <1>3
  <2>5. t.at = "insert" => t.row = 0 /\ t.lock # "none"
    BY <1>3
  <2> QED
    BY <2>1, <2>2, <2>3, <2>4, <2>5 DEF TxnOK
<1>6. ASSUME NEW q \in Procs PROVE TxnOK(txn'[q], addresses')
  <2>1. CASE q = p
    BY <1>4, <1>5, <2>1
  <2>2. CASE q # p
    <3>1. txn'[q] = txn[q] /\ TxnOK(txn[q], addresses) /\ addresses' = addresses
      BY <1>1, <1>4, <2>2 DEF AddressInv
    <3> QED
      BY <3>1 DEF TxnOK
  <2> QED
    BY <2>1, <2>2
<1>7. Creating' = Creating
  BY <1>1, <1>2, <1>3, <1>4 DEF Creating
<1> QED
  BY <1>1, <1>4, <1>6, <1>7 DEF AddressInv, AddressTypeOK

\* A default address is set when every other one has been reset under a lock.
LEMMA InsertKeeps ==
    ASSUME AddressInv, NEW p \in Procs, InsertAddress(p)
    PROVE  AddressInv' /\ (defaults # {} => defaults' # {})
<1>1. /\ addresses \in Nat /\ addresses' = addresses + 1 /\ engine' = engine
      /\ txn \in [Procs -> TxnState] /\ txn' = [txn EXCEPT ![p] = NoTxn]
      /\ txn[p].at = "insert" /\ defaults \subseteq 1..addresses
      /\ TxnOK(txn[p], addresses)
  BY DEF AddressInv, AddressTypeOK, InsertAddress
<1>2. p \in Creating
  BY <1>1 DEF Creating, TxnOK
<1>3. \A q \in Procs \ {p} : txn[q].lock = "none"
  BY <1>1 DEF InsertAddress, LockedFor, TxnState
<1>4. /\ txn[p].isDefault => defaults' = {addresses + 1}
      /\ ~txn[p].isDefault => defaults' = defaults
  <2>1. CASE txn[p].isDefault
    <3>1. txn[p].lock \in {"gap", "rows"}
      BY <1>1, <2>1 DEF TxnOK, TxnState
    <3>2. /\ txn[p].lock = "gap" => addresses = 0
          /\ txn[p].lock = "rows" => 1..addresses \subseteq txn[p].cleared
      BY <1>1 DEF TxnOK
    <3>3. \A x \in defaults : x \in 1..addresses /\ 1 <= x /\ x <= addresses
      BY <1>1
    <3>4. ASSUME txn[p].lock = "gap" PROVE defaults = {}
      BY <1>1, <3>2, <3>3, <3>4
    <3>5. ASSUME txn[p].lock = "rows" PROVE \A x \in defaults : x \in txn[p].cleared
      BY <3>2, <3>3, <3>5
    <3>6. defaults \ txn[p].cleared = {}
      BY <3>1, <3>4, <3>5
    <3> QED
      BY <2>1, <3>6 DEF InsertAddress
  <2>2. CASE ~txn[p].isDefault
    BY <2>2 DEF InsertAddress
  <2> QED
    BY <2>1, <2>2
<1>5. defaults' \subseteq 1..addresses' /\ (defaults # {} => defaults' # {})
      /\ \A c, d \in defaults' : c = d
  <2>1. 1..addresses \subseteq 1..addresses' /\ addresses + 1 \in 1..addresses'
    BY <1>1
  <2>2. \A c, d \in defaults : c = d
    BY DEF AddressInv
  <2>3. CASE txn[p].isDefault
    BY <1>4, <2>1, <2>3
  <2>4. CASE ~txn[p].isDefault
    BY <1>1, <1>4, <2>1, <2>2, <2>4
  <2> QED
    BY <2>3, <2>4
<1>6. addresses' \in Nat /\ addresses' \in {addresses, addresses + 1}
  BY <1>1
<1> QED
  BY <1>1, <1>2, <1>3, <1>5, <1>6, EndKeeps

LEMMA SaveKeeps ==
    ASSUME AddressInv, NEW p \in Procs, SaveDefault(p)
    PROVE  AddressInv' /\ (defaults # {} => defaults' # {})
<1>1. /\ addresses \in Nat /\ addresses' = addresses /\ engine' = engine
      /\ txn \in [Procs -> TxnState] /\ txn' = [txn EXCEPT ![p] = NoTxn]
      /\ txn[p].at = "save" /\ defaults \subseteq 1..addresses
      /\ TxnOK(txn[p], addresses) /\ txn[p].row \in Int
  BY ServerAssumption DEF AddressInv, AddressTypeOK, SaveDefault, TxnState
<1>2. txn[p].row \in 1..addresses /\ 1..addresses \subseteq txn[p].cleared
  BY <1>1 DEF TxnOK
<1>3. defaults' = {txn[p].row}
  BY <1>1, <1>2 DEF SaveDefault
<1> QED
  BY <1>1, <1>2, <1>3, EndKeeps

\* Every transaction is rolled back.
LEMMA RollbackKeeps ==
    ASSUME AddressInv, RollbackAll
    PROVE  AddressInv'
<1>1. addresses \in Nat /\ MaxAddresses \in Nat /\ addresses <= MaxAddresses
      /\ addresses' = addresses /\ defaults' = defaults /\ engine' = engine
      /\ txn' = [q \in Procs |-> NoTxn]
  BY ServerAssumption DEF AddressInv, AddressTypeOK, RollbackAll
<1>2. NoTxn \in TxnState /\ TxnOK(NoTxn, addresses') /\ NoTxn.at = "none"
  BY <1>1, ServerAssumption DEF NoTxn, TxnState, TxnOK
<1>3. txn' \in [Procs -> TxnState] /\ \A q \in Procs : txn'[q] = NoTxn
  BY <1>1, <1>2
<1>4. Creating' = {}
  BY <1>2, <1>3 DEF Creating
<1>5. Cardinality(Creating') = 0
  BY <1>4, FS_EmptySet
<1> QED
  BY <1>1, <1>2, <1>3, <1>5 DEF AddressInv, AddressTypeOK

\* Whatever a step of the server does to the addresses keeps their invariant,
\* and a default address that was chosen.
LEMMA AddressSafe ==
    ASSUME AddressInv, AddressNext
    PROVE  AddressInv' /\ (defaults # {} => defaults' # {})
<1>1. ASSUME NEW p \in Procs, NEW d \in BOOLEAN, CreateAddress(p, d)
      PROVE  AddressInv' /\ defaults' = defaults
  <2>1. 0 \in 0..addresses
    BY ServerAssumption DEF AddressInv, AddressTypeOK
  <2> QED
    BY <1>1, <2>1, BeginKeeps DEF CreateAddress, Begin
<1>2. ASSUME NEW p \in Procs, NEW row \in 1..addresses, SetDefault(p, row)
      PROVE  AddressInv' /\ defaults' = defaults
  <2>1. row \in 0..addresses /\ row # 0 /\ TRUE \in BOOLEAN
    BY ServerAssumption DEF AddressInv, AddressTypeOK
  <2> QED
    BY <1>2, <2>1, BeginKeeps DEF SetDefault, Begin
<1>3. ASSUME NEW p \in Procs, AddressStep(p)
      PROVE  AddressInv' /\ (defaults # {} => defaults' # {})
  <2>1. CASE ClearDefaults(p)
    BY <2>1, ClearKeeps DEF ClearDefaults
  <2>2. CASE InsertAddress(p)
    BY <2>2, InsertKeeps
  <2>3. CASE SaveDefault(p)
    BY <2>3, SaveKeeps
  <2>4. CASE DeadlockVictim(p)
    <3>1. txn' = [txn EXCEPT ![p] = NoTxn] /\ engine' = engine /\ addresses' = addresses
          /\ defaults' = defaults /\ addresses \in Nat
      BY <2>4, ServerAssumption DEF DeadlockVictim, AddressInv, AddressTypeOK
    <3>2. defaults' \subseteq 1..addresses' /\ \A c, d \in defaults' : c = d
      BY <3>1 DEF AddressInv, AddressTypeOK
    <3> QED
      BY <3>1, <3>2, EndKeeps
  <2> QED
    BY <1>3, <2>1, <2>2, <2>3, <2>4 DEF AddressStep
<1>4. CASE RollbackAll
  BY <1>4, RollbackKeeps DEF RollbackAll
<1>5. CASE UNCHANGED addressVars
  BY <1>5 DEF addressVars, AddressInv, AddressTypeOK, TxnOK, Creating
<1> QED
  BY <1>1, <1>2, <1>3, <1>4, <1>5 DEF AddressNext

-----------------------------------------------------------------------------
(* The process *)

\* Requests run only while the server listens; workers are cancelled when the
\* requests have drained, and the database is closed when the workers are done,
\* unless the time is used up.
ProcessInv ==
    /\ phase \in Startup \cup {"down", "serving", "draining", "stopping", "closing"}
    /\ handler \in [Procs -> {"none", "active", "txn"}]
    /\ background \in [Background -> {"none", "idle", "busy", "stopped"}]
    /\ ~Listened => Drained
    /\ cancelled => phase \in {"stopping", "closing"}
    /\ ~expired /\ phase \in {"stopping", "closing"} => Drained
    /\ ~expired /\ phase = "closing" => WorkersDone

Flags == {cancelled, signalled, expired, stopped, dropFailed} \subseteq BOOLEAN

\* Main goes on to another phase, and nothing else of the process changes.
LEMMA GotoKeeps ==
    ASSUME ProcessInv, NEW to, Goto(to),
           \/ phase \notin {"down", "serving", "draining", "stopping", "closing"}
              /\ to \in Startup
           \/ phase = "serving" /\ to = "draining"
           \/ phase = "stopping" /\ to = "closing" /\ (WorkersDone \/ expired)
    PROVE  ProcessInv'
BY DEF ProcessInv, Goto, Listened, Drained, WorkersDone, Startup

LEMMA ProcessSafe ==
    ASSUME ProcessInv, [Next]_vars
    PROVE  ProcessInv'
<1>1. ASSUME NEW c \in AdminConfigs, Start(c) PROVE ProcessInv'
  BY <1>1 DEF ProcessInv, Start, Listened, Drained, WorkersDone, Startup
<1>2. CASE Migrate \/ MigrateRoles \/ Connect \/ PrepareAdmin
  <2>1. PICK to \in Startup : Goto(to)
    BY <1>2 DEF Migrate, MigrateRoles, Connect, PrepareAdmin, Startup
  <2>2. phase \notin {"down", "serving", "draining", "stopping", "closing"}
    BY <1>2 DEF Migrate, MigrateRoles, Connect, PrepareAdmin
  <2> QED
    BY <2>1, <2>2, GotoKeeps
<1>3. CASE DropIndexFails
  BY <1>3 DEF ProcessInv, DropIndexFails, Listened, Drained, WorkersDone, Startup
<1>4. CASE StartWorkers
  BY <1>4 DEF ProcessInv, StartWorkers, Listened, Drained, WorkersDone, Startup
<1>5. ASSUME NEW p \in Procs, Accept(p) PROVE ProcessInv'
  BY <1>5 DEF ProcessInv, Accept, Listened, Drained, WorkersDone
<1>6. ASSUME NEW p \in Procs, NEW h \in {"none", "txn"}, handler[p] # "none", Handle(p, h)
      PROVE  ProcessInv'
  <2>1. Listened /\ ~Drained
    BY <1>6 DEF ProcessInv, Drained
  <2> QED
    BY <1>6, <2>1 DEF ProcessInv, Handle, Listened, WorkersDone, Drained
<1>7. ASSUME NEW p \in Procs,
             HandleAuth(p) \/ HandleOrder(p) \/ HandleAddress(p) \/ ContinueTxn(p)
             \/ HandleOther(p)
      PROVE  ProcessInv'
  <2>1. handler[p] # "none" /\ \E h \in {"none", "txn"} : Handle(p, h)
    BY <1>7 DEF HandleAuth, HandleOrder, HandleAddress, ContinueTxn, HandleOther, Query
  <2> QED
    BY <1>6, <2>1
<1>8. ASSUME NEW b \in Background, TakeWork(b) \/ FinishWork(b) \/ StopWork(b)
      PROVE  ProcessInv'
  BY <1>8 DEF ProcessInv, TakeWork, FinishWork, StopWork, Become, Listened, Drained,
      WorkersDone
<1>9. CASE Signal
  BY <1>9 DEF ProcessInv, Signal, Listened, Drained, WorkersDone
<1>10. CASE Shutdown
  BY <1>10, GotoKeeps DEF Shutdown
<1>11. CASE StopWorkers
  BY <1>11 DEF ProcessInv, StopWorkers, Listened, Drained, WorkersDone
<1>12. CASE CloseDatabase
  BY <1>12, GotoKeeps DEF CloseDatabase
<1>13. CASE TimeoutExpires
  BY <1>13 DEF ProcessInv, TimeoutExpires, Listened, Drained, WorkersDone
<1>14. CASE Exit \/ Crash
  BY <1>14 DEF ProcessInv, Exit, Crash, NoProcess, Listened, Drained, WorkersDone
<1>15. CASE UNCHANGED vars
  BY <1>15 DEF ProcessInv, vars, processVars, Listened, Drained, WorkersDone
<1> QED
  BY <1>1, <1>2, <1>3, <1>4, <1>5, <1>7, <1>8, <1>9, <1>10, <1>11, <1>12, <1>13, <1>14,
     <1>15 DEF Next, Main

LEMMA FlagsSafe ==
    ASSUME Flags, [Next]_vars
    PROVE  Flags'
BY DEF Flags, Next, vars, processVars, Main, Start, Migrate, MigrateRoles, Connect,
    PrepareAdmin, StartWorkers, Shutdown, StopWorkers, CloseDatabase, Exit,
    DropIndexFails, Accept, HandleAuth, HandleOrder, HandleAddress, ContinueTxn,
    HandleOther, Handle, Goto, NoProcess, TakeWork, FinishWork, StopWork, Become, Signal,
    TimeoutExpires, Crash

-----------------------------------------------------------------------------
(* The tables and the accounts *)

\* The phases in which a statement of the start has not been executed yet.
BeforeIndex == {"down", "open"}
BeforeKeys == BeforeIndex \cup {"backfill"}
BeforeStatuses == BeforeKeys \cup {"statuses"}
BeforeRoles == BeforeStatuses \cup {"roles"}
BeforeDrop == BeforeRoles \cup {"drop"}
BeforeAdmin == BeforeDrop \cup {"redis", "rabbit", "admin"}

\* What a process has done to the tables is still true as long as it runs.
TablesInv ==
    /\ TablesTypeOK
    /\ IsFiniteSet(rows)
    /\ UniqueActivityOrder
    /\ phase \notin BeforeIndex => keyIndex
    /\ phase \notin BeforeKeys => Unkeyed = {}
    /\ phase \notin BeforeStatuses => ~blank
    /\ phase \notin BeforeDrop => (oldIndex => dropFailed)

AccountsInv ==
    /\ AccountsTypeOK
    /\ AdminsWereConfigured
    /\ phase # "down" => config.name \in configured
    /\ phase \notin BeforeRoles => \A n \in Names : account[n].role # ""
    /\ phase \notin BeforeAdmin =>
           account[config.name] = Account(config.password, "ADMIN")

\* The rows stay as they are, and no statement of the start is undone.
LEMMA RowsKept ==
    ASSUME TablesInv, UNCHANGED rows,
           keyIndex' \in BOOLEAN, oldIndex' \in BOOLEAN, blank' \in BOOLEAN
    PROVE  TablesTypeOK' /\ IsFiniteSet(rows') /\ UniqueActivityOrder' /\ Unkeyed' = Unkeyed
BY DEF TablesInv, TablesTypeOK, UniqueActivityOrder, Unkeyed

\* The next key is set.  A row that has the same key already would be another
\* order of the same user and activity.
LEMMA BackfillKeeps ==
    ASSUME TablesInv, backfillActivityOrderKeys
    PROVE  TablesTypeOK' /\ IsFiniteSet(rows') /\ UniqueActivityOrder'
<1>1. PICK r \in Unkeyed :
          rows' = (rows \ {r}) \cup {[r EXCEPT !.key = NewActivityOrderKey(r.user, r.activity)]}
  BY DEF backfillActivityOrderKeys
<1> DEFINE t == [r EXCEPT !.key = NewActivityOrderKey(r.user, r.activity)]
           R == [id : 1..MaxOrders, user : Buyers, activity : 0..2,
                 key : {NoKey} \cup (Buyers \X (1..2))]
<1>2. r \in rows /\ r.activity > 0 /\ r \in R /\ rows \subseteq R
  BY <1>1 DEF Unkeyed, TablesInv, TablesTypeOK
<1>3. r.user \in Buyers /\ r.activity \in 1..2
  BY <1>2
<1>4. NewActivityOrderKey(r.user, r.activity) \in Buyers \X (1..2)
  BY <1>3 DEF NewActivityOrderKey
<1>5. t \in R /\ t.user = r.user /\ t.activity = r.activity
      /\ t.key = NewActivityOrderKey(r.user, r.activity)
  BY <1>2, <1>4
<1> HIDE DEF t, R
<1>6. rows' = (rows \ {r}) \cup {t}
  BY <1>1 DEF t
<1>7. rows' \subseteq R
  BY <1>2, <1>5, <1>6
<1>8. IsFiniteSet(rows')
  BY <1>6, FS_RemoveElement, FS_AddElement DEF TablesInv
<1>9. ASSUME NEW x \in rows', x.key # NoKey
      PROVE  x.activity > 0 /\ x.key = NewActivityOrderKey(x.user, x.activity)
  BY <1>2, <1>5, <1>6, <1>9 DEF TablesInv, TablesTypeOK
<1>10. ASSUME NEW x \in rows', NEW y \in rows', x.user = y.user, x.activity = y.activity,
              x.activity > 0
       PROVE  x = y
  BY <1>2, <1>5, <1>6, <1>10 DEF TablesInv, UniqueActivityOrder
<1> QED
  BY <1>7, <1>8, <1>9, <1>10 DEF TablesInv, TablesTypeOK, UniqueActivityOrder, R,
     backfillActivityOrderKeys

\* An order is inserted while every order of an activity has its key: the key of
\* the new one is not taken.
LEMMA InsertOrderKeeps ==
    ASSUME TablesInv, Unkeyed = {}, NEW u \in Buyers, NEW a \in 0..2, Insert(u, a)
    PROVE  TablesTypeOK' /\ IsFiniteSet(rows') /\ UniqueActivityOrder' /\ Unkeyed' = {}
<1> DEFINE k == IF a > 0 THEN NewActivityOrderKey(u, a) ELSE NoKey
           t == Row(Cardinality(rows) + 1, u, a, k)
           R == [id : 1..MaxOrders, user : Buyers, activity : 0..2,
                 key : {NoKey} \cup (Buyers \X (1..2))]
<1>1. Cardinality(rows) + 1 \in 1..MaxOrders
  BY FS_CardinalityType, ServerAssumption DEF Insert, TablesInv
<1>2. k \in {NoKey} \cup (Buyers \X (1..2))
  BY DEF NewActivityOrderKey
<1>3. a > 0 => k # NoKey
  BY DEF NewActivityOrderKey, NoKey
<1>4. t \in R /\ t.user = u /\ t.activity = a /\ t.key = k
  BY <1>1, <1>2 DEF Row
<1>5. rows' = rows \cup {t} /\ rows \subseteq R
  BY DEF Insert, TablesInv, TablesTypeOK
<1>6. k # NoKey => a > 0 /\ k = NewActivityOrderKey(u, a)
  OBVIOUS
<1>7. a > 0 => \A r \in rows : r.key # NewActivityOrderKey(u, a)
  BY DEF Insert, KeyTaken
<1> HIDE DEF t, R, k
<1>8. \A r \in rows : r.activity > 0 => r.key = NewActivityOrderKey(r.user, r.activity)
  BY DEF TablesInv, TablesTypeOK, Unkeyed
<1>9. rows' \subseteq R
  BY <1>4, <1>5
<1>10. IsFiniteSet(rows')
  BY <1>5, FS_AddElement DEF TablesInv
<1>11. ASSUME NEW x \in rows', x.key # NoKey
       PROVE  x.activity > 0 /\ x.key = NewActivityOrderKey(x.user, x.activity)
  BY <1>4, <1>5, <1>6, <1>11 DEF TablesInv, TablesTypeOK
<1>12. ASSUME NEW x \in rows', NEW y \in rows', x.user = y.user, x.activity = y.activity,
              x.activity > 0
       PROVE  x = y
  <2>1. ASSUME NEW r \in rows PROVE ~(r.user = u /\ r.activity = a /\ a > 0)
    BY <1>7, <1>8
  <2> QED
    BY <1>4, <1>5, <1>12, <2>1 DEF TablesInv, UniqueActivityOrder
<1>13. Unkeyed' = {}
  BY <1>3, <1>4, <1>5 DEF Unkeyed
<1> QED
  BY <1>9, <1>10, <1>11, <1>12, <1>13 DEF TablesInv, TablesTypeOK, UniqueActivityOrder, R,
     Insert

\* The tables are not touched, and main does not pass over a statement.
LEMMA TablesUntouched ==
    ASSUME TablesInv, UNCHANGED tableVars,
           phase \in BeforeIndex => phase' \in BeforeIndex,
           phase \in BeforeKeys => phase' \in BeforeKeys,
           phase \in BeforeStatuses => phase' \in BeforeStatuses,
           phase \in BeforeDrop => phase' \in BeforeDrop \/ dropFailed',
           dropFailed => phase' \in BeforeDrop \/ dropFailed'
    PROVE  TablesInv'
<1>1. rows' = rows /\ keyIndex' = keyIndex /\ oldIndex' = oldIndex /\ blank' = blank
  BY DEF tableVars
<1>2. TablesTypeOK' /\ IsFiniteSet(rows') /\ UniqueActivityOrder' /\ Unkeyed' = Unkeyed
  BY <1>1, RowsKept DEF TablesInv, TablesTypeOK
<1> QED
  BY <1>1, <1>2 DEF TablesInv

LEMMA TablesSafe ==
    ASSUME ProcessInv, TablesInv, [Next]_vars
    PROVE  TablesInv'
<1> USE DEF BeforeIndex, BeforeKeys, BeforeStatuses, BeforeRoles, BeforeDrop
<1>1. ASSUME NEW c \in AdminConfigs, Start(c) PROVE TablesInv'
  BY <1>1, TablesUntouched DEF Start
<1>2. CASE Migrate
  <2>0. dropFailed' = dropFailed
    BY <1>2 DEF Migrate, Goto
  <2>1. CASE phase = "open" /\ AutoMigrate /\ Goto("backfill")
    <3>1. TablesTypeOK' /\ IsFiniteSet(rows') /\ UniqueActivityOrder'
      BY <2>1, RowsKept DEF AutoMigrate, TablesInv, TablesTypeOK
    <3> QED
      BY <2>1, <3>1 DEF AutoMigrate, Goto, TablesInv
  <2>2. CASE phase = "backfill" /\ ~BackfillDone /\ backfillActivityOrderKeys /\ Goto("backfill")
    <3>1. TablesTypeOK' /\ IsFiniteSet(rows') /\ UniqueActivityOrder'
      BY <2>2, BackfillKeeps
    <3> QED
      BY <2>2, <3>1 DEF backfillActivityOrderKeys, Goto, TablesInv
  <2>3. CASE phase = "backfill" /\ BackfillDone /\ UNCHANGED tableVars /\ Goto("statuses")
    <3>1. rows' = rows /\ keyIndex' = keyIndex /\ oldIndex' = oldIndex /\ blank' = blank
      BY <2>3 DEF tableVars
    <3>2. TablesTypeOK' /\ IsFiniteSet(rows') /\ UniqueActivityOrder' /\ Unkeyed' = Unkeyed
      BY <3>1, RowsKept DEF TablesInv, TablesTypeOK
    <3> QED
      BY <2>3, <3>1, <3>2 DEF BackfillDone, Goto, TablesInv
  <2>4. CASE phase = "statuses" /\ PublishBlankActivities /\ Goto("roles")
    <3>1. TablesTypeOK' /\ IsFiniteSet(rows') /\ UniqueActivityOrder' /\ Unkeyed' = Unkeyed
      BY <2>4, RowsKept DEF PublishBlankActivities, TablesInv, TablesTypeOK
    <3> QED
      BY <2>4, <3>1 DEF PublishBlankActivities, Goto, TablesInv
  <2>5. CASE phase = "drop" /\ DropIndex /\ Goto("redis")
    <3>1. TablesTypeOK' /\ IsFiniteSet(rows') /\ UniqueActivityOrder' /\ Unkeyed' = Unkeyed
      BY <2>5, RowsKept DEF DropIndex, TablesInv, TablesTypeOK
    <3> QED
      BY <2>5, <3>1 DEF DropIndex, Goto, TablesInv
  <2> QED
    BY <1>2, <2>1, <2>2, <2>3, <2>4, <2>5 DEF Migrate
<1>3. CASE MigrateRoles \/ Connect \/ PrepareAdmin \/ Shutdown \/ CloseDatabase
  BY <1>3, TablesUntouched DEF MigrateRoles, Connect, PrepareAdmin, Shutdown, CloseDatabase,
     Goto, dbVars
<1>4. CASE StartWorkers \/ StopWorkers \/ DropIndexFails
  BY <1>4, TablesUntouched DEF StartWorkers, StopWorkers, DropIndexFails, dbVars
<1>5. ASSUME NEW p \in Procs, HandleOrder(p) PROVE TablesInv'
  <2>1. Listened
    BY <1>5 DEF HandleOrder, Query, ProcessInv, Drained
  <2>2. Unkeyed = {}
    BY <2>1 DEF Listened, TablesInv
  <2>3. PICK u \in Buyers, a \in 0..2 : Insert(u, a)
    BY <1>5 DEF HandleOrder
  <2>4. TablesTypeOK' /\ IsFiniteSet(rows') /\ UniqueActivityOrder' /\ Unkeyed' = {}
    BY <2>2, <2>3, InsertOrderKeeps
  <2> QED
    BY <1>5, <2>3, <2>4 DEF Insert, HandleOrder, Handle, TablesInv
<1>6. ASSUME NEW p \in Procs,
             Accept(p) \/ HandleAuth(p) \/ HandleAddress(p) \/ ContinueTxn(p) \/ HandleOther(p)
      PROVE  TablesInv'
  BY <1>6, TablesUntouched DEF Accept, HandleAuth, HandleAddress, ContinueTxn, HandleOther,
     Handle, dbVars
<1>7. ASSUME NEW b \in Background, TakeWork(b) \/ FinishWork(b) \/ StopWork(b)
      PROVE  TablesInv'
  BY <1>7, TablesUntouched DEF TakeWork, FinishWork, StopWork, Become, dbVars
<1>8. CASE Signal \/ TimeoutExpires \/ UNCHANGED vars
  BY <1>8, TablesUntouched DEF Signal, TimeoutExpires, vars, dbVars, processVars
<1>9. CASE Exit \/ Crash
  BY <1>9, TablesUntouched DEF Exit, Crash, NoProcess
<1> QED
  BY <1>1, <1>2, <1>3, <1>4, <1>5, <1>6, <1>7, <1>8, <1>9 DEF Next, Main

\* The accounts are not touched, and main does not pass over a statement.
LEMMA AccountsUntouched ==
    ASSUME AccountsInv, UNCHANGED accountVars,
           phase = "down" => phase' = "down",
           phase \in BeforeRoles => phase' \in BeforeRoles,
           phase \in BeforeAdmin => phase' \in BeforeAdmin
    PROVE  AccountsInv'
BY DEF AccountsInv, accountVars, AccountsTypeOK, AdminsWereConfigured

\* An account is read or made while the server listens.
LEMMA AuthKeeps ==
    ASSUME AccountsInv, NEW n \in Names, NEW password,
           Register(n) \/ Login(n, password), phase' = phase, phase \notin BeforeAdmin
    PROVE  AccountsInv'
<1> DEFINE P == {"none", "own"} \cup {c.password : c \in AdminConfigs}
           T == [name : Names, role : {"USER", "ADMIN"}]
<1> USE DEF BeforeIndex, BeforeKeys, BeforeStatuses, BeforeRoles, BeforeDrop, BeforeAdmin
<1>1. account \in [Names -> [password : P, role : {"none", "", "USER", "ADMIN"}]]
      /\ config' = config /\ configured' = configured
      /\ config.name \in Names
  BY ServerAssumption DEF AccountsInv, AccountsTypeOK, Register, Login
<1>2. "own" \in P
  OBVIOUS
<1> HIDE DEF P
<1>3. CASE Register(n)
  <2> DEFINE x == Account("own", "USER")
  <2>1. x \in [password : P, role : {"none", "", "USER", "ADMIN"}] /\ x.role = "USER"
    BY <1>2 DEF Account
  <2> HIDE DEF x
  <2>2. account' = [account EXCEPT ![n] = x] /\ ~Exists(n)
        /\ tokens' = tokens \cup {[name |-> n, role |-> "USER"]}
    BY <1>3 DEF Register, x, signToken, Role
  <2>3. account' \in [Names -> [password : P, role : {"none", "", "USER", "ADMIN"}]]
        /\ \A m \in Names : account'[m] = IF m = n THEN x ELSE account[m]
    BY <1>1, <2>1, <2>2
  <2>4. n # config.name
    <3>1. Account(config.password, "ADMIN") # NoAccount
      BY DEF Account, NoAccount
    <3> QED
      BY <2>2, <3>1 DEF AccountsInv, Exists
  <2>5. tokens' \subseteq T /\ \A t \in tokens' : t.role = "ADMIN" => t.name \in configured
    <3> DEFINE s == [name |-> n, role |-> "USER"]
    <3>1. s \in T /\ s.role = "USER"
      OBVIOUS
    <3>2. tokens' = tokens \cup {s}
      BY <2>2
    <3> HIDE DEF s
    <3> QED
      BY <3>1, <3>2 DEF AccountsInv, AccountsTypeOK, AdminsWereConfigured
  <2> QED
    BY <1>1, <2>1, <2>3, <2>4, <2>5
    DEF AccountsInv, AccountsTypeOK, AdminsWereConfigured, P
<1>4. CASE Login(n, password)
  <2> DEFINE t == [name |-> n, role |-> Role(account[n].role)]
  <2>1. account' = account /\ tokens' = tokens \cup {t}
    BY <1>4 DEF Login, signToken
  <2>2. t \in T /\ (t.role = "ADMIN" => t.name \in configured)
    BY <1>1 DEF Role, AccountsInv, AdminsWereConfigured
  <2> HIDE DEF t
  <2>3. tokens' \subseteq T /\ \A s \in tokens' : s.role = "ADMIN" => s.name \in configured
    BY <2>1, <2>2 DEF AccountsInv, AccountsTypeOK, AdminsWereConfigured
  <2> QED
    BY <1>1, <2>1, <2>3 DEF AccountsInv, AccountsTypeOK, AdminsWereConfigured
<1> QED
  BY <1>3, <1>4

\* A missing role becomes that of a user, never that of an administrator.
LEMMA FillRolesKeeps ==
    ASSUME AccountsInv, phase = "roles", phase' = "drop", FillRoles
    PROVE  AccountsInv'
<1> DEFINE P == {"none", "own"} \cup {c.password : c \in AdminConfigs}
           A == [password : P, role : {"none", "", "USER", "ADMIN"}]
<1>1. account \in [Names -> A]
  BY DEF AccountsInv, AccountsTypeOK
<1> HIDE DEF P
<1>2. ASSUME NEW n \in Names
      PROVE  /\ account'[n] \in A
             /\ account'[n].role # ""
             /\ account'[n].role = "ADMIN" => account[n].role = "ADMIN"
  <2>1. account[n] \in A
    BY <1>1
  <2>2. CASE Exists(n) /\ account[n].role = ""
    <3>1. account'[n] = [account[n] EXCEPT !.role = "USER"]
      BY <2>2 DEF FillRoles
    <3> QED
      BY <2>1, <3>1
  <2>3. CASE ~(Exists(n) /\ account[n].role = "")
    <3>1. account'[n] = account[n]
      BY <2>3 DEF FillRoles
    <3>2. NoAccount.role # ""
      BY DEF NoAccount
    <3>3. account[n].role # ""
      BY <2>3, <3>2 DEF Exists
    <3> QED
      BY <2>1, <3>1, <3>3
  <2> QED
    BY <2>2, <2>3
<1>3. account' \in [Names -> A]
  <2>1. account' = [n \in Names |-> account'[n]]
    BY DEF FillRoles
  <2> QED
    BY <1>2, <2>1
<1> QED
  BY <1>2, <1>3 DEF FillRoles, AccountsInv, AccountsTypeOK, AdminsWereConfigured, P,
     BeforeIndex, BeforeKeys, BeforeStatuses, BeforeRoles, BeforeDrop, BeforeAdmin

\* The configured account becomes an administrator's; its name is in configured.
LEMMA EnsureAdminKeeps ==
    ASSUME AccountsInv, phase = "admin", phase' = "workers", EnsureAdmin
    PROVE  AccountsInv'
<1> DEFINE P == {"none", "own"} \cup {c.password : c \in AdminConfigs}
           A == [password : P, role : {"none", "", "USER", "ADMIN"}]
           x == Account(config.password, "ADMIN")
<1>1. account \in [Names -> A] /\ config \in AdminConfigs
  BY DEF AccountsInv, AccountsTypeOK
<1>2. config.name \in Names /\ config.password \in P
  BY <1>1, ServerAssumption
<1> HIDE DEF P
<1>3. x \in A /\ x.role = "ADMIN"
  BY <1>2 DEF Account
<1> HIDE DEF x
<1>4. account' = [account EXCEPT ![config.name] = x] /\ config' = config
      /\ configured' = configured /\ tokens' = tokens
  BY DEF EnsureAdmin, x
<1>5. account' \in [Names -> A]
      /\ \A m \in Names : account'[m] = IF m = config.name THEN x ELSE account[m]
  BY <1>1, <1>2, <1>3, <1>4
<1>6. account'[config'.name] = Account(config'.password, "ADMIN")
  BY <1>2, <1>4, <1>5 DEF x
<1>7. \A n \in Names : account'[n].role # "" /\ (account'[n].role = "ADMIN" => n \in configured')
  BY <1>3, <1>4, <1>5 DEF AccountsInv, AdminsWereConfigured,
     BeforeIndex, BeforeKeys, BeforeStatuses, BeforeRoles, BeforeDrop
<1> QED
  BY <1>4, <1>5, <1>6, <1>7 DEF AccountsInv, AccountsTypeOK, AdminsWereConfigured, P

LEMMA AccountsSafe ==
    ASSUME ProcessInv, AccountsInv, [Next]_vars
    PROVE  AccountsInv'
<1> USE DEF BeforeIndex, BeforeKeys, BeforeStatuses, BeforeRoles, BeforeDrop, BeforeAdmin
<1>1. ASSUME NEW c \in AdminConfigs, Start(c) PROVE AccountsInv'
  <2>1. c.name \in Names
    BY ServerAssumption
  <2> QED
    BY <1>1, <2>1 DEF Start, LoadConfig, AccountsInv, AccountsTypeOK, AdminsWereConfigured
<1>2. CASE Migrate \/ Connect \/ Shutdown \/ CloseDatabase
  BY <1>2, AccountsUntouched DEF Migrate, Connect, Shutdown, CloseDatabase, Goto, dbVars
<1>3. CASE StartWorkers \/ StopWorkers \/ DropIndexFails
  BY <1>3, AccountsUntouched DEF StartWorkers, StopWorkers, DropIndexFails, dbVars
<1>4. CASE MigrateRoles
  BY <1>4, FillRolesKeeps DEF MigrateRoles, Goto
<1>5. CASE PrepareAdmin
  BY <1>5, EnsureAdminKeeps DEF PrepareAdmin, Goto
<1>6. ASSUME NEW p \in Procs, HandleAuth(p) PROVE AccountsInv'
  <2>1. Listened
    BY <1>6 DEF HandleAuth, Query, ProcessInv, Drained
  <2>2. phase \notin BeforeAdmin /\ phase' = phase
    BY <1>6, <2>1 DEF Listened, HandleAuth, Handle
  <2>3. PICK n \in Names : Register(n) \/ \E password : Login(n, password)
    BY <1>6 DEF HandleAuth
  <2> QED
    BY <2>2, <2>3, AuthKeeps
<1>7. ASSUME NEW p \in Procs,
             Accept(p) \/ HandleOrder(p) \/ HandleAddress(p) \/ ContinueTxn(p) \/ HandleOther(p)
      PROVE  AccountsInv'
  BY <1>7, AccountsUntouched DEF Accept, HandleOrder, HandleAddress, ContinueTxn, HandleOther,
     Handle, dbVars
<1>8. ASSUME NEW b \in Background, TakeWork(b) \/ FinishWork(b) \/ StopWork(b)
      PROVE  AccountsInv'
  BY <1>8, AccountsUntouched DEF TakeWork, FinishWork, StopWork, Become, dbVars
<1>9. CASE Signal \/ TimeoutExpires \/ UNCHANGED vars
  BY <1>9, AccountsUntouched DEF Signal, TimeoutExpires, vars, dbVars, processVars
<1>10. CASE Exit \/ Crash
  <2>1. phase' = "down" /\ UNCHANGED accountVars
    BY <1>10 DEF Exit, Crash, NoProcess
  <2> QED
    BY <2>1, AccountsUntouched
<1> QED
  BY <1>1, <1>2, <1>3, <1>4, <1>5, <1>6, <1>7, <1>8, <1>9, <1>10 DEF Next, Main

-----------------------------------------------------------------------------
(* The server *)

\* The inductive invariant.
IInv == AddressInv /\ ProcessInv /\ Flags /\ TablesInv /\ AccountsInv

LEMMA InitIInv == Init => IInv
<1> SUFFICES ASSUME Init PROVE IInv
  OBVIOUS
<1>1. AddressInv
  <2>1. addresses \in Nat /\ addresses <= MaxAddresses /\ MaxAddresses \in Nat
        /\ defaults \subseteq 1..addresses /\ txn = [p \in Procs |-> NoTxn]
        /\ engine \in Engines
    BY ServerAssumption DEF Init, AddressInit
  <2>2. NoTxn \in TxnState /\ TxnOK(NoTxn, addresses) /\ NoTxn.at = "none"
    BY <2>1, NoTxnOK
  <2>3. txn \in [Procs -> TxnState] /\ \A p \in Procs : txn[p] = NoTxn
    BY <2>1, <2>2
  <2>4. Creating = {}
    BY <2>2, <2>3 DEF Creating
  <2>5. Cardinality(Creating) = 0
    BY <2>4, FS_EmptySet
  <2>6. \A c, d \in defaults : c = d
    BY DEF Init, AddressInit
  <2> QED
    BY <2>1, <2>2, <2>3, <2>5, <2>6 DEF AddressInv, AddressTypeOK
<1>2. ProcessInv
  BY DEF Init, ProcessInv, Drained
<1>3. Flags
  BY DEF Init, Flags
<1>4. TablesInv
  <2>1. keyIndex \in BOOLEAN /\ oldIndex \in BOOLEAN /\ blank \in BOOLEAN /\ phase = "down"
    BY DEF Init, TablesInit
  <2>2. CASE rows = {}
    BY <2>1, <2>2, FS_EmptySet DEF TablesInv, TablesTypeOK, UniqueActivityOrder, BeforeIndex,
       BeforeKeys, BeforeStatuses, BeforeRoles, BeforeDrop
  <2>3. ASSUME NEW u \in Buyers,
               rows = {Row(1, u, 1, NoKey), Row(2, u, 0, NoKey), Row(3, u, 2, NoKey)}
        PROVE  TablesInv
    <3>1. {1, 2, 3} \subseteq 1..MaxOrders
      BY ServerAssumption
    <3> DEFINE R == [id : 1..MaxOrders, user : Buyers, activity : 0..2,
                     key : {NoKey} \cup (Buyers \X (1..2))]
    <3>2. rows \subseteq R
      BY <2>3, <3>1 DEF Row
    <3>3. \A r \in rows : r.key = NoKey
      BY <2>3 DEF Row
    <3>4. \A r, s \in rows : r.activity = s.activity => r = s
      BY <2>3 DEF Row
    <3>5. IsFiniteSet(rows)
      <4> DEFINE r == Row(1, u, 1, NoKey)
                 s == Row(2, u, 0, NoKey)
                 t == Row(3, u, 2, NoKey)
      <4>1. rows = ({r} \cup {s}) \cup {t}
        BY <2>3
      <4> HIDE DEF r, s, t
      <4>2. IsFiniteSet({r} \cup {s})
        BY FS_Singleton, FS_AddElement
      <4> QED
        BY <4>1, <4>2, FS_AddElement
    <3> QED
      BY <2>1, <3>2, <3>3, <3>4, <3>5 DEF TablesInv, TablesTypeOK, UniqueActivityOrder,
         BeforeIndex, BeforeKeys, BeforeStatuses, BeforeRoles, BeforeDrop
  <2> QED
    BY <2>2, <2>3 DEF Init, TablesInit
<1>5. AccountsInv
  <2>1. NoAccount.password = "none" /\ NoAccount.role = "none"
        /\ Account("own", "").password = "own" /\ Account("own", "").role = ""
    BY DEF NoAccount, Account
  <2>2. account \in [Names -> {NoAccount, Account("own", "")}]
    BY DEF Init, AccountsInit
  <2>3. config \in AdminConfigs /\ tokens = {} /\ configured = {} /\ phase = "down"
    BY ServerAssumption DEF Init, AccountsInit
  <2>4. \A n \in Names : account[n].role # "ADMIN"
    BY <2>1, <2>2
  <2>5. account \in [Names -> [password : {"none", "own"} \cup {c.password : c \in AdminConfigs},
                               role : {"none", "", "USER", "ADMIN"}]]
    <3> DEFINE P == {"none", "own"} \cup {c.password : c \in AdminConfigs}
    <3>1. "none" \in P /\ "own" \in P
      OBVIOUS
    <3> HIDE DEF P
    <3>2. {NoAccount, Account("own", "")} \subseteq
              [password : P, role : {"none", "", "USER", "ADMIN"}]
      BY <3>1 DEF NoAccount, Account
    <3>3. account \in [Names -> [password : P, role : {"none", "", "USER", "ADMIN"}]]
      BY <2>2, <3>2
    <3> QED
      BY <3>3 DEF P
  <2> QED
    BY <2>3, <2>4, <2>5 DEF AccountsInv, AccountsTypeOK, AdminsWereConfigured, BeforeIndex,
       BeforeKeys, BeforeStatuses, BeforeRoles, BeforeDrop, BeforeAdmin
<1> QED
  BY <1>1, <1>2, <1>3, <1>4, <1>5 DEF IInv

\* The inductive invariant of the server holds in every reachable state, whatever
\* is interrupted and however often the process is started again.
THEOREM IInvHolds == Spec => []IInv
<1>1. ASSUME IInv, [Next]_vars PROVE IInv'
  <2>1. AddressInv'
    BY <1>1, AddressPart, AddressSafe DEF IInv
  <2>2. ProcessInv' /\ Flags'
    BY <1>1, ProcessSafe, FlagsSafe DEF IInv
  <2>3. TablesInv' /\ AccountsInv'
    BY <1>1, TablesSafe, AccountsSafe DEF IInv
  <2> QED
    BY <2>1, <2>2, <2>3 DEF IInv
<1> QED
  BY <1>1, InitIInv, PTL DEF Spec

\* Every variable of the server, its database and its accounts has its type.
THEOREM TypeCorrect == Spec => []TypeOK
<1>1. IInv => TypeOK
  BY DEF IInv, AddressInv, ProcessInv, Flags, TablesInv, AccountsInv, TypeOK
<1> QED
  BY <1>1, IInvHolds, PTL

\* A user has at most one order of an activity through every interrupted and
\* repeated migration (backfillActivityOrderKeys, the unique index, Create).
THEOREM UniqueActivityOrderHolds == Spec => []UniqueActivityOrder
<1>1. IInv => UniqueActivityOrder
  BY DEF IInv, TablesInv
<1> QED
  BY <1>1, IInvHolds, PTL

\* The role ADMIN and tokens with it are only given to names that were configured
\* (AuthService.EnsureAdmin, Register, Login and the filling in of roles).
THEOREM AdminsWereConfiguredHolds == Spec => []AdminsWereConfigured
<1>1. IInv => AdminsWereConfigured
  BY DEF IInv, AccountsInv
<1> QED
  BY <1>1, IInvHolds, PTL

\* A server that listens has finished the migration and prepared the administrator.
THEOREM ServingMeansReadyHolds == Spec => []ServingMeansReady
<1>1. IInv => ServingMeansReady
  BY DEF IInv, TablesInv, AccountsInv, ServingMeansReady, Listened, BeforeIndex, BeforeKeys,
     BeforeStatuses, BeforeRoles, BeforeDrop, BeforeAdmin
<1> QED
  BY <1>1, IInvHolds, PTL

\* main stops the workers under no request and closes the database under neither
\* a request nor a worker, unless the time for the shutdown is used up.
THEOREM OrderlyShutdownHolds == Spec => []OrderlyShutdown
<1>1. IInv => OrderlyShutdown
  BY DEF IInv, ProcessInv, OrderlyShutdown
<1> QED
  BY <1>1, IInvHolds, PTL

\* AddressService.Create and SetDefault never leave a second default address and
\* never lose the one the user has chosen.
THEOREM OneDefaultAddressHolds == Spec => OneDefaultAddress
<1>1. ASSUME IInv, [Next]_vars
      PROVE  [/\ Cardinality(defaults') <= 1
              /\ defaults # {} => defaults' # {}]_addressVars
  <2>1. AddressInv' /\ (defaults # {} => defaults' # {})
    BY <1>1, AddressPart, AddressSafe DEF IInv
  <2>2. Cardinality(defaults') <= 1
    <3>1. CASE defaults' = {}
      BY <3>1, FS_EmptySet
    <3>2. CASE defaults' # {}
      <4>1. PICK d \in defaults' : defaults' = {d}
        BY <2>1, <3>2 DEF AddressInv
      <4> QED
        BY <4>1, FS_Singleton
    <3> QED
      BY <3>1, <3>2
  <2> QED
    BY <2>1, <2>2
<1> QED
  BY <1>1, IInvHolds, PTL DEF Spec, OneDefaultAddress
=============================================================================
