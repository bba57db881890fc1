------------------------------- MODULE Server -------------------------------
(***************************************************************************)
(* cmd/server: the process from its start to its end, over the database it *)
(* migrates (Migration), the accounts it prepares (Accounts) and requests  *)
(* that run, and may be cut off, while it stops (AddressBook and single    *)
(* inserts).                                                               *)
(*                                                                         *)
(* The start is a sequence of statements; any of them may fail, which ends *)
(* the process (log.Fatal) like a crash does, and the container is started *)
(* again.  On a signal main waits for the requests under way, then stops   *)
(* the workers and waits for them, both within one time budget, and closes *)
(* the database.                                                           *)
(***************************************************************************)
EXTENDS AddressBook, Migration, Accounts

CONSTANTS
    MaxRequests,  \* bound: requests accepted in one behaviour
    MaxFaults,    \* bound: crashes, failing statements and a failing DropIndex
    MaxSignals    \* bound: signals

ASSUME ServerAssumption ==
    /\ IsFiniteSet(Procs)
    /\ Engines \subseteq {"sqlite", "mysql"}
    /\ AdminConfigs \subseteq [name : Names, password : STRING] /\ AdminConfigs # {}
    /\ {MaxRequests, MaxFaults, MaxSignals} \subseteq Nat
    \* the databases it may find fit the bounds
    /\ MaxOrders \in Nat /\ MaxOrders >= 3
    /\ MaxAddresses \in Nat /\ MaxAddresses >= 2

VARIABLES
    phase,       \* how far main has come; "down" without a process
    handler,     \* handler[p]: "none", "active", or "txn" in an address transaction
    background,  \* background[b]: the order workers and the compensation worker
    cancelled,   \* workerCtx is cancelled
    signalled,   \* appCtx is done
    expired,     \* shutdownCtx is done
    stopped,     \* the last process ended by a signal: it is not restarted
    dropFailed,  \* DropIndex has failed in this process
    requests, faults, signals

processVars == <<phase, handler, background, cancelled, signalled, expired, stopped,
                 dropFailed>>
counters == <<requests, faults, signals>>
dbVars == <<addressVars, tableVars, accountVars>>
vars == <<dbVars, processVars, counters>>

Background == {"worker", "compensation"}

Startup == {"open", "backfill", "statuses", "roles", "drop", "redis", "rabbit",
            "admin", "workers"}

\* The database answers: it is opened and not yet closed.
Listened == phase \in {"serving", "draining", "stopping", "closing"}

Goto(to) ==
    /\ phase' = to
    /\ UNCHANGED <<handler, background, cancelled, signalled, expired, stopped,
                   dropFailed, counters>>

Fault == faults < MaxFaults /\ faults' = faults + 1

NoProcess ==
    /\ phase' = "down"
    /\ handler' = [p \in Procs |-> "none"]
    /\ background' = [b \in Background |-> "none"]
    /\ cancelled' = FALSE /\ signalled' = FALSE /\ expired' = FALSE
    /\ dropFailed' = FALSE

-----------------------------------------------------------------------------
(* Start *)

Start(c) ==
    /\ phase = "down"
    /\ LoadConfig(c)
    /\ phase' = "open"
    /\ stopped' = FALSE
    /\ UNCHANGED <<addressVars, tableVars, handler, background, cancelled, signalled,
                   expired, dropFailed, counters>>

\* database.Open
Migrate ==
    /\ \/ phase = "open" /\ AutoMigrate /\ Goto("backfill")
       \/ phase = "backfill" /\ ~BackfillDone /\ backfillActivityOrderKeys /\ Goto("backfill")
       \/ phase = "backfill" /\ BackfillDone /\ UNCHANGED tableVars /\ Goto("statuses")
       \/ phase = "statuses" /\ PublishBlankActivities /\ Goto("roles")
       \/ phase = "drop" /\ DropIndex /\ Goto("redis")
    /\ UNCHANGED <<addressVars, accountVars>>

MigrateRoles ==
    /\ phase = "roles" /\ FillRoles /\ Goto("drop")
    /\ UNCHANGED <<addressVars, tableVars>>

\* Its error is ignored.
DropIndexFails ==
    /\ phase = "drop" /\ oldIndex
    /\ Fault
    /\ phase' = "redis"
    /\ dropFailed' = TRUE
    /\ UNCHANGED <<dbVars, handler, background, cancelled, signalled, expired, stopped,
                   requests, signals>>

\* Redis and RabbitMQ are reached, if they are enabled.
Connect ==
    /\ \/ phase = "redis" /\ Goto("rabbit")
       \/ phase = "rabbit" /\ Goto("admin")
    /\ UNCHANGED dbVars

PrepareAdmin ==
    /\ phase = "admin" /\ EnsureAdmin /\ Goto("workers")
    /\ UNCHANGED <<addressVars, tableVars>>

\* The background goroutines are started, then the server listens.
StartWorkers ==
    /\ phase = "workers"
    /\ phase' = "serving"
    /\ background' = [b \in Background |-> "idle"]
    /\ UNCHANGED <<dbVars, handler, cancelled, signalled, expired, stopped, dropFailed,
                   counters>>

-----------------------------------------------------------------------------
(* Requests *)

Accept(p) ==
    /\ phase = "serving"
    /\ handler[p] = "none"
    /\ requests < MaxRequests
    /\ handler' = [handler EXCEPT ![p] = "active"]
    /\ requests' = requests + 1
    /\ UNCHANGED <<dbVars, phase, background, cancelled, signalled, expired, stopped,
                   dropFailed, faults, signals>>

\* The handler of p goes on to h.
Handle(p, h) ==
    /\ handler' = [handler EXCEPT ![p] = h]
    /\ UNCHANGED <<phase, background, cancelled, signalled, expired, stopped, dropFailed,
                   counters>>

Query(p) == handler[p] = "active" /\ phase # "closing"

HandleAuth(p) ==
    /\ Query(p)
    /\ \E n \in Names : Register(n) \/ \E c \in AdminConfigs : Login(n, c.password)
                                    \/ Login(n, "own")
    /\ Handle(p, "none")
    /\ UNCHANGED <<addressVars, tableVars>>

HandleOrder(p) ==
    /\ Query(p)
    /\ \E u \in Buyers, a \in 0..2 : Insert(u, a)
    /\ Handle(p, "none")
    /\ UNCHANGED <<addressVars, accountVars>>

HandleAddress(p) ==
    /\ Query(p)
    /\ \/ \E d \in BOOLEAN : CreateAddress(p, d)
       \/ \E row \in 1..addresses : SetDefault(p, row)
    /\ Handle(p, "txn")
    /\ UNCHANGED <<tableVars, accountVars>>

\* A transaction under way may finish though the database is being closed.
ContinueTxn(p) ==
    /\ handler[p] = "txn"
    /\ AddressStep(p)
    /\ Handle(p, IF txn'[p] = NoTxn THEN "none" ELSE "txn")
    /\ UNCHANGED <<tableVars, accountVars>>

\* Any other request, or one that is rejected or fails.
HandleOther(p) ==
    /\ handler[p] = "active"
    /\ Handle(p, "none")
    /\ UNCHANGED dbVars

-----------------------------------------------------------------------------
(* Background goroutines *)

Become(b, state) ==
    /\ background' = [background EXCEPT ![b] = state]
    /\ UNCHANGED <<dbVars, phase, handler, cancelled, signalled, expired, stopped,
                   dropFailed, counters>>

\* A select with several ready cases picks any: work may be taken up even
\* after the context was cancelled.
TakeWork(b) == background[b] = "idle" /\ Become(b, "busy")
FinishWork(b) == background[b] = "busy" /\ Become(b, "idle")
StopWork(b) == background[b] = "idle" /\ cancelled /\ Become(b, "stopped")

-----------------------------------------------------------------------------
(* Stop *)

Signal ==
    /\ phase # "down" /\ ~signalled
    /\ signals < MaxSignals
    /\ signals' = signals + 1
    /\ signalled' = TRUE
    /\ UNCHANGED <<dbVars, phase, handler, background, cancelled, expired, stopped,
                   dropFailed, requests, faults>>

Drained == \A p \in Procs : handler[p] = "none"
WorkersDone == \A b \in Background : background[b] = "stopped"

Shutdown ==
    /\ phase = "serving" /\ signalled
    /\ Goto("draining")
    /\ UNCHANGED dbVars

\* Slip: the workers are stopped with the listener.
StopWorkersEarly ==
    /\ phase = "draining"
    /\ phase' = "stopping"
    /\ cancelled' = TRUE
    /\ UNCHANGED <<dbVars, handler, background, signalled, expired, stopped, dropFailed,
                   counters>>

\* Shutdown returns; stopWorkers.
StopWorkers ==
    /\ phase = "draining"
    /\ Drained \/ expired
    /\ phase' = "stopping"
    /\ cancelled' = TRUE
    /\ UNCHANGED <<dbVars, handler, background, signalled, expired, stopped, dropFailed,
                   counters>>

\* Slip: main waits for the workers without a limit.
CloseDatabaseWaits ==
    /\ phase = "stopping"
    /\ WorkersDone
    /\ Goto("closing")
    /\ UNCHANGED dbVars

CloseDatabase ==
    /\ phase = "stopping"
    /\ WorkersDone \/ expired
    /\ Goto("closing")
    /\ UNCHANGED dbVars

TimeoutExpires ==
    /\ phase \in {"draining", "stopping"} /\ ~expired
    /\ expired' = TRUE
    /\ UNCHANGED <<dbVars, phase, handler, background, cancelled, signalled, stopped,
                   dropFailed, counters>>

Exit ==
    /\ phase = "closing"
    /\ NoProcess
    /\ stopped' = TRUE
    /\ RollbackAll
    /\ UNCHANGED <<tableVars, accountVars, counters>>

\* The process is killed, a statement of its start fails, or it cannot listen.
Crash ==
    /\ phase # "down"
    /\ Fault
    /\ NoProcess
    /\ RollbackAll
    /\ UNCHANGED <<tableVars, accountVars, stopped, requests, signals>>

-----------------------------------------------------------------------------
(* Specification *)

Init ==
    /\ AddressInit
    /\ TablesInit
    /\ AccountsInit(oldIndex)
    /\ phase = "down"
    /\ handler = [p \in Procs |-> "none"]
    /\ background = [b \in Background |-> "none"]
    /\ cancelled = FALSE /\ signalled = FALSE /\ expired = FALSE /\ stopped = FALSE
    /\ dropFailed = FALSE
    /\ requests = 0 /\ faults = 0 /\ signals = 0

Main ==
    \/ Migrate \/ MigrateRoles \/ Connect \/ PrepareAdmin \/ StartWorkers
    \/ Shutdown \/ StopWorkers \/ CloseDatabase \/ Exit

Next ==
    \/ \E c \in AdminConfigs : Start(c)
    \/ Main
    \/ DropIndexFails
    \/ \E p \in Procs :
           \/ Accept(p) \/ HandleAuth(p) \/ HandleOrder(p) \/ HandleAddress(p)
           \/ ContinueTxn(p) \/ HandleOther(p)
    \/ \E b \in Background : TakeWork(b) \/ FinishWork(b) \/ StopWork(b)
    \/ Signal \/ TimeoutExpires \/ Crash

Spec == Init /\ [][Next]_vars

\* main goes on whenever it can, its timer runs down, and a process that was not
\* stopped by a signal is started again (restart: unless-stopped).  Requests and
\* workers may hang.
FairSpec ==
    /\ Spec
    /\ WF_vars(Main)
    /\ WF_vars(TimeoutExpires)
    /\ WF_vars(~stopped /\ \E c \in AdminConfigs : Start(c))

-----------------------------------------------------------------------------
(* Properties *)

\* Every variable has its type.
TypeOK ==
    /\ AddressTypeOK /\ TablesTypeOK /\ AccountsTypeOK
    /\ phase \in Startup \cup {"down", "serving", "draining", "stopping", "closing"}
    /\ handler \in [Procs -> {"none", "active", "txn"}]
    /\ background \in [Background -> {"none", "idle", "busy", "stopped"}]
    /\ {cancelled, signalled, expired, stopped, dropFailed} \subseteq BOOLEAN

\* A server that takes requests has finished the migration, however often it was
\* interrupted: every order of an activity has its key, no status or role is
\* missing, the old index is gone unless dropping it failed just now, and the
\* configured administrator can log in.
ServingMeansReady ==
    Listened =>
        /\ keyIndex /\ Unkeyed = {} /\ ~blank
        /\ oldIndex => dropFailed
        /\ \A n \in Names : account[n].role # ""
        /\ account[config.name] = Account(config.password, "ADMIN")

\* Unless the time for the shutdown is used up, the workers are not stopped under
\* a request that still may need them, and the database is closed when neither a
\* request nor a worker uses it any more.
OrderlyShutdown ==
    ~expired =>
        /\ cancelled => Drained
        /\ phase = "closing" => Drained /\ WorkersDone

\* After a signal the process ends, even if a request or a worker hangs.
StopsAfterSignal == signalled ~> phase = "down"

\* A server that is not stopped on purpose gets to serve, after finitely many
\* crashes and wherever they happened.
EventuallyServes == phase = "down" /\ ~stopped ~> phase = "serving"
=============================================================================
