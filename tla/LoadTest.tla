------------------------------ MODULE LoadTest ------------------------------
(***************************************************************************)
(* cmd/pressure: the load generator drives RequestPipeline with a pool of  *)
(* request workers, summarises what it measured, verifies the orders and   *)
(* stocks it finds afterwards through the admin API, and reports whether   *)
(* the server passed.                                                      *)
(*                                                                         *)
(* execute runs the loads one after the other: many requests of one user,  *)
(* more users than stock, unique valid writes in batches of one activity   *)
(* each, a warm-up whose results are thrown away, and queries.             *)
(***************************************************************************)
EXTENDS RequestPipeline, Sequences, SequencesExt

CONSTANTS
    Workers,      \* -concurrency
    UserCount,    \* -users
    Stock,        \* -stock
    Duplicates,   \* -duplicate-requests
    Writes,       \* -write-requests, unless the plan makes none
    BatchCap,     \* 100, the largest batch of writes
    MaxQueries,   \* bound: queries sent before -duration is over
    MaxPolls      \* 100 polls of 200 ms: then verify gives up

VARIABLES
    phase,     \* how far execute has come
    next,      \* runLoad's next index
    job,       \* job[w]: the request worker w waits for
    results,   \* runLoad's samples
    report,    \* report[load]
    check,     \* the verification under way: what it has read, and its polls
    errors     \* verificationErrors, by kind

loadVars == <<phase, next, job, results, report, check, errors>>
vars == <<bucketVars, pipelineVars, loadVars>>

\* The loads that are reported, and those that are run.
Loads == {"duplicate", "stock", "write", "query"}
Reads == {"warmup", "query"}
Runs == Loads \cup Reads
batchSize == AtMost(UserCount, BatchCap)
Batches(n) == (n + batchSize - 1) \div batchSize
BatchStock(n, b) == AtMost(batchSize, n - b * batchSize)

\* The activities: their stock is what the load wants to buy at most.
ActivityIDs ==
    {<<"duplicate", 0>>, <<"stock", 0>>}
    \cup {<<"write", b>> : b \in 0..(Batches(Writes) - 1)}

InitialStock ==
    [a \in ActivityIDs |->
        CASE a[1] = "duplicate" -> 5
          [] a[1] = "stock" -> Stock
          [] a[1] = "write" -> BatchStock(Writes, a[2])]

ASSUME LoadTestAssumption ==
    /\ UserCount \in Nat /\ Users = 1..UserCount
    /\ Stock \in 1..UserCount
    /\ Activities = ActivityIDs /\ Stock0 = InitialStock
    /\ IsFiniteSet(Workers) /\ Workers # {} /\ "none" \notin Procs
    /\ Duplicates \in Nat \ {0}
    /\ Writes \in Nat /\ \A x \in Plans : x.writes \in {0, Writes}
    /\ BatchCap \in Nat \ {0} /\ MaxQueries \in Nat /\ MaxPolls \in Nat

NoJob == [at |-> "free", proc |-> "none", start |-> 0]
NewCheck(a) == [of |-> a, at |-> "orders", proc |-> "none", rows |-> <<>>, polls |-> 0,
                matches |-> FALSE]
NoReport == [requests |-> 0, accepted |-> 0, ok |-> 0, errors |-> 0, latency |-> <<>>]

Loading == phase \in Runs
Verifying == phase = "verify"

-----------------------------------------------------------------------------
(* runLoad *)

Count == CASE phase = "duplicate" -> Duplicates
           [] phase = "stock" -> UserCount
           [] phase = "write" -> plan.writes
           [] phase = "warmup" -> Cardinality(Workers)
           [] phase = "query" -> MaxQueries

\* Slip: users and batches are swapped.
TargetSwapped(i) ==
    CASE phase = "duplicate" -> <<1, <<"duplicate", 0>>>>
      [] phase = "stock" -> <<i + 1, <<"stock", 0>>>>
      [] phase = "write" -> <<(i \div batchSize) + 1, <<"write", i % batchSize>>>>
      [] phase \in Reads -> <<1, <<"duplicate", 0>>>>

\* The user and the activity of request i.
Target(i) ==
    CASE phase = "duplicate" -> <<1, <<"duplicate", 0>>>>
      [] phase = "stock" -> <<i + 1, <<"stock", 0>>>>
      [] phase = "write" -> <<(i % batchSize) + 1, <<"write", i \div batchSize>>>>
      [] phase \in Reads -> <<1, <<"duplicate", 0>>>>

Route == IF phase \in Reads THEN "GET /orders/:order_no" ELSE "POST /orders"

\* A worker takes the next index and sends its request.
SendRequest(w, p) ==
    /\ Loading /\ job[w].at = "free"
    /\ next < Count
    /\ next' = next + 1
    /\ Arrive(p, Route, "USER", Target(next)[1], Target(next)[2])
    /\ job' = [job EXCEPT ![w] = [at |-> "waiting", proc |-> p, start |-> clock]]
    /\ UNCHANGED <<bucketVars, plan, database, store, events, mishaps,
                   phase, results, report, check, errors>>

\* The loop ends: every index was taken, or the duration is over.
WorkerReturns(w) ==
    /\ Loading /\ job[w].at = "free"
    /\ phase = "query" \/ next >= Count
    /\ job' = [job EXCEPT ![w] = [job[w] EXCEPT !.at = "returned"]]
    /\ UNCHANGED <<bucketVars, pipelineVars, phase, next, results, report,
                   check, errors>>

Sample(w, status, failed) ==
    results' = Append(results, [status |-> status, failed |-> failed,
                                latency |-> clock - job[w].start])

ReceiveResponse(w) ==
    /\ Loading /\ job[w].at = "waiting"
    /\ req[job[w].proc].stage = "reply"
    /\ Sample(w, req[job[w].proc].status, FALSE)
    /\ req' = [req EXCEPT ![job[w].proc] = NoRequest]
    /\ job' = [job EXCEPT ![w] = NoJob]
    /\ UNCHANGED <<bucketVars, plan, database, store, events, mishaps,
                   phase, next, report, check, errors>>

\* An answer of a reported load is lost, or one of the warm-up.
AnswerLost == Mishap(IF phase = "warmup" THEN "warmup" ELSE "client")

\* The response breaks off or cannot be decoded; its status is known.
ResponseUnreadable(w) ==
    /\ Loading /\ job[w].at = "waiting"
    /\ req[job[w].proc].stage = "reply"
    /\ AnswerLost
    /\ Sample(w, req[job[w].proc].status, TRUE)
    /\ req' = [req EXCEPT ![job[w].proc] = NoRequest]
    /\ job' = [job EXCEPT ![w] = NoJob]
    /\ UNCHANGED <<bucketVars, plan, database, store, events,
                   phase, next, report, check, errors>>

\* Nobody waits for the answer of p any more; the server goes on with it.
Abandon(p) ==
    req' = [req EXCEPT ![p] = IF req[p].stage = "reply" THEN NoRequest
                              ELSE [req[p] EXCEPT !.client = FALSE]]

\* The connection breaks or the client's timeout is over.
RequestFails(w) ==
    /\ Loading /\ job[w].at = "waiting"
    /\ AnswerLost
    /\ Sample(w, 0, TRUE)
    /\ Abandon(job[w].proc)
    /\ job' = [job EXCEPT ![w] = NoJob]
    /\ UNCHANGED <<bucketVars, plan, database, store, events,
                   phase, next, report, check, errors>>

-----------------------------------------------------------------------------
(* summarize *)

WithStatus(s) == Cardinality({i \in DOMAIN results : results[i].status = s})

\* math.Ceil(p * n), p in percent.
percentile(sorted, p) == sorted[(p * Len(sorted) + 99) \div 100]

Latencies == SortSeq([i \in DOMAIN results |-> results[i].latency], <)

\* Slip: an abandoned request is not counted among the system errors.
summarizeLenient ==
    [requests |-> Len(results), accepted |-> WithStatus(202), ok |-> WithStatus(200),
     errors |-> Cardinality({i \in DOMAIN results : results[i].status >= 500}),
     latency |-> IF results = <<>> THEN <<>>
                 ELSE <<percentile(Latencies, 50), percentile(Latencies, 95),
                        percentile(Latencies, 99), Latencies[Len(results)]>>]

summarize ==
    [requests |-> Len(results), accepted |-> WithStatus(202), ok |-> WithStatus(200),
     errors |-> Cardinality({i \in DOMAIN results :
                                results[i].failed \/ results[i].status >= 500}),
     latency |-> IF results = <<>> THEN <<>>
                 ELSE <<percentile(Latencies, 50), percentile(Latencies, 95),
                        percentile(Latencies, 99), Latencies[Len(results)]>>]

\* What execute does after a load.
AfterLoad ==
    CASE phase = "duplicate" -> "stock"
      [] phase \in {"stock", "write"} -> "verify"
      [] phase = "warmup" -> "query"
      [] phase = "query" -> "report"

\* The verification that follows the load.
FirstCheck ==
    NewCheck(IF phase = "write" THEN <<"write", 0>> ELSE <<"duplicate", 0>>)

\* What follows a verification.  Without an order of the first user there is
\* nothing to query.
AfterVerify(errs) ==
    LET a == check.of
        query == IF \E e \in errs : e[2] = "duplicate" THEN "report" ELSE "warmup"
        goto(name, batch) == /\ phase' = "verify" /\ check' = NewCheck(<<name, batch>>)
        leave(to) == /\ phase' = to /\ UNCHANGED check
    IN  CASE a[1] = "duplicate" -> goto("stock", 0)
          [] a[1] = "stock" -> leave(IF plan.writes > 0 THEN "write" ELSE query)
          [] a[1] = "write" -> IF a[2] + 1 < Batches(plan.writes)
                               THEN goto("write", a[2] + 1) ELSE leave(query)

\* wg.Wait, then the report of the load, unless it is the warm-up.
LoadEnds ==
    /\ Loading
    /\ \A w \in Workers : job[w].at = "returned"
    /\ report' = IF phase = "warmup" THEN report ELSE [report EXCEPT ![phase] = summarize]
    /\ phase' = AfterLoad
    /\ next' = 0
    /\ results' = <<>>
    /\ job' = [w \in Workers |-> NoJob]
    /\ check' = FirstCheck
    /\ UNCHANGED <<bucketVars, pipelineVars, errors>>

-----------------------------------------------------------------------------
(* verify *)

Initial(a) == InitialStock[a]

\* What verify expects to have been accepted.
Accepted(a) == IF a[1] = "write" THEN Initial(a) ELSE report[a[1]].accepted

CheckRoute ==
    CASE check.at \in {"orders", "queued"} -> "GET /admin/orders"
      [] check.at = "reconcile" -> "POST /ops/stock/reconcile"
      [] check.at = "activities" -> "GET /activities"

\* The next call of the admin API.
VerifyCalls(p) ==
    /\ Verifying /\ check.proc = "none"
    /\ Arrive(p, CheckRoute, "ADMIN", "none", check.of)
    /\ check' = [check EXCEPT !.proc = p]
    /\ UNCHANGED <<bucketVars, plan, database, store, events, mishaps,
                   phase, next, job, results, report, errors>>

\* verify returns, with an error of this kind unless it is "none".
VerifyReturns(kind) ==
    LET errs == IF kind = "none" THEN errors ELSE errors \cup {<<kind, check.of[1]>>}
    IN  errors' = errs /\ AfterVerify(errs)

\* The comparison at the end of verify.  One order per user: rows is a function
\* of the user, because of the unique index (see OrderTx).
Verdict(a, rows, matches, stockLeft) ==
    LET found == {u \in Users : rows[u] # "none"}
    IN  CASE \E u \in found : rows[u] # "WAIT_PAY" -> "state"
          [] \/ Cardinality(found) # Accepted(a)
             \/ stockLeft # Initial(a) - Accepted(a)
             \/ ~matches -> "mismatch"
          [] found = {} -> "no order"
          [] OTHER -> "none"

\* The orders are read, and once more those that are QUEUED, until there are
\* none of these; what is judged in the end is the first of the two answers.
VerifyReads ==
    LET p == check.proc
        body == req[p].body
    IN  /\ Verifying /\ p # "none"
        /\ req[p].stage = "reply" /\ req[p].status = 200
        /\ req' = [req EXCEPT ![p] = NoRequest]
        /\ \/ /\ check.at = "orders"
              /\ check' = [check EXCEPT !.at = "queued", !.proc = "none", !.rows = body.rows]
              /\ UNCHANGED <<phase, errors>>
           \/ /\ check.at = "queued"
              /\ \A u \in Users : body.rows[u] # "QUEUED"
              /\ check' = [check EXCEPT !.at = "reconcile", !.proc = "none"]
              /\ UNCHANGED <<phase, errors>>
           \/ /\ check.at = "queued"
              /\ \E u \in Users : body.rows[u] = "QUEUED"
              /\ check.polls < MaxPolls
              /\ check' = [check EXCEPT !.at = "orders", !.proc = "none", !.polls = @ + 1]
              /\ UNCHANGED <<phase, errors>>
           \/ /\ check.at = "queued"
              /\ \E u \in Users : body.rows[u] = "QUEUED"
              /\ check.polls = MaxPolls
              /\ VerifyReturns("settle")
           \/ /\ check.at = "reconcile"
              /\ check' = [check EXCEPT !.at = "activities", !.proc = "none",
                                         !.matches = body.matches]
              /\ UNCHANGED <<phase, errors>>
           \/ /\ check.at = "activities"
              /\ VerifyReturns(Verdict(check.of, check.rows, check.matches, body.stock))
        /\ UNCHANGED <<bucketVars, plan, database, store, events, mishaps,
                       next, job, results, report>>

\* A call fails or is answered with an error, which verify returns.
VerifyFails ==
    /\ Verifying /\ check.proc # "none"
    /\ \/ Mishap("client") /\ Abandon(check.proc)
       \/ /\ req[check.proc].stage = "reply" /\ req[check.proc].status # 200
          /\ req' = [req EXCEPT ![check.proc] = NoRequest]
          /\ UNCHANGED mishaps
    /\ VerifyReturns("call")
    /\ UNCHANGED <<bucketVars, plan, database, store, events,
                   next, job, results, report>>

-----------------------------------------------------------------------------
(* execute *)

\* Login, registration and the activities.  Any error ends the program before
\* anything is measured.
Setup ==
    /\ phase = "setup"
    /\ phase' \in {"duplicate", "aborted"}
    /\ UNCHANGED <<bucketVars, pipelineVars, next, job, results, report, check,
                   errors>>

\* The sustained query, unless it was left out.
QueryFailed ==
    /\ \A e \in errors : e[2] # "duplicate"
    /\ report["query"].requests = 0 \/ report["query"].ok # report["query"].requests

\* The checks on the reports.  (Those on accepted are made earlier, on reports
\* that do not change any more.)
ReportErrors ==
    {<<"accepted", l>> : l \in {l \in {"duplicate", "stock", "write"} :
        report[l].accepted # CASE l = "duplicate" -> 1
                               [] l = "stock" -> Stock
                               [] l = "write" -> plan.writes}}
    \cup {<<"system", l>> : l \in {l \in Loads : report[l].errors > 0}}
    \cup IF QueryFailed THEN {<<"answers", "query">>} ELSE {}

WriteReport ==
    /\ phase = "report"
    /\ errors' = errors \cup ReportErrors
    /\ phase' = "done"
    /\ UNCHANGED <<bucketVars, pipelineVars, next, job, results, report, check>>

Init ==
    /\ PipelineInit
    /\ phase = "setup"
    /\ next = 0
    /\ job = [w \in Workers |-> NoJob]
    /\ results = <<>>
    /\ report = [l \in Loads |-> NoReport]
    /\ check = NewCheck(<<"duplicate", 0>>)
    /\ errors = {}

Next ==
    \/ ServerNext /\ UNCHANGED loadVars
    \/ \E w \in Workers :
           \/ \E p \in Procs : SendRequest(w, p)
           \/ WorkerReturns(w)
           \/ ReceiveResponse(w) \/ ResponseUnreadable(w) \/ RequestFails(w)
    \/ LoadEnds
    \/ \E p \in Procs : VerifyCalls(p)
    \/ VerifyReads \/ VerifyFails
    \/ Setup \/ WriteReport

Spec == Init /\ [][Next]_vars
-----------------------------------------------------------------------------
(* Properties *)

\* Every variable has its type.
TypeOK ==
    /\ BucketTypeOK
    /\ plan \in Plans
    /\ order \in [Activities -> [Users -> {"none", "QUEUED", "WAIT_PAY"}]]
    /\ stock \in [Activities -> Nat] /\ cache \in [Activities -> Int]
    /\ \A p \in Procs : req[p].stage \in
           {"idle", "limit", "handler", "event", "observe", "reply"}
    /\ store \in [Statuses -> [count : Nat, sum : Nat, le : [Bins -> Nat]]]
    /\ events \in [Results -> Nat]
    /\ phase \in Runs \cup {"setup", "verify", "report", "done", "aborted"}
    /\ next \in Nat
    /\ \A w \in Workers : job[w].at \in {"free", "waiting", "returned"}

\* POST requests of the current load with this status.
Sampled(s) == IF phase \in Reads THEN 0 ELSE WithStatus(s)

Reported == report["duplicate"].accepted + report["stock"].accepted
            + report["write"].accepted + report["query"].accepted

Persisted ==
    SumFunctionOnSet([a \in Activities |-> Cardinality(Orders(a, {"QUEUED", "WAIT_PAY"}))],
                     Activities)

\* What a client was told is in the metrics, what the metrics count as answered
\* they count as accepted, and what they count as accepted is in the database.
\* When no request is under way and nothing failed, all four agree.
AcceptedIsAccounted ==
    LET clients == Reported + Sampled(202)
    IN  /\ clients <= store[202].count
        /\ store[202].count <= events["accepted"]
        /\ events["accepted"] <= Persisted
        /\ (\A p \in Procs : Idle(p)) /\ Clean => clients = Persisted

\* How many of the latencies counted in e were at most l, and exactly l.
UpTo(e, l) == IF l \in Bins THEN e.le[l] ELSE e.count
Exactly(e, l) == IF l = 0 THEN UpTo(e, 0) ELSE UpTo(e, l) - UpTo(e, l - 1)

\* The histogram, the count and the sum that /metrics shows are those of one
\* set of latencies.
HistogramConsistent ==
    \A s \in Statuses :
        /\ \A l \in 0..MaxTime : Exactly(store[s], l) >= 0
        /\ store[s].sum =
               SumFunctionOnSet([l \in 0..MaxTime |-> l * Exactly(store[s], l)], 0..MaxTime)

Passed == phase = "done" /\ errors = {}

\* A report that says the server passed is true when it is written, and stays
\* true: one order for the user who asked many times, the whole stock sold and
\* no more, every write stored, all of them moved on, both stock stores in step,
\* no order that was still under way, and no commit in doubt or answer lost on the
\* way there, though to the client these look like a rejected request.  Not so in
\* the warm-up, and not so a query or a deadline that fails inside a create
\* another request makes up for: these leave a passed report.
PassedMeansCorrect ==
    Passed =>
        /\ \A a \in Activities :
               LET n == Cardinality(Orders(a, {"WAIT_PAY"}))
               IN  /\ n = CASE a[1] = "duplicate" -> 1
                            [] a[1] = "stock" -> Stock
                            [] a[1] = "write" -> IF plan.writes = 0 THEN 0 ELSE Initial(a)
                   /\ stock[a] = Initial(a) - n
                   /\ Orders(a, {"QUEUED"}) = {}
        /\ \A p \in Procs : req[p].route = "POST /orders" => req[p].stage = "idle"
        /\ mishaps["client"] = 0 /\ mishaps["commit"] = 0

\* A server that made no mistake, blocked nobody and answered in time is failed
\* only because an order was still QUEUED when verify read it.  (Queries are sent
\* unless the verification of the duplicates failed, for that very reason.)
FailedOnlyIfUnsettled ==
    /\ phase = "done" /\ Clean /\ events["blocked"] = 0
    /\ report["query"].requests > 0 \/ \E e \in errors : e[2] = "duplicate"
    => \A e \in errors : e[1] \in {"state", "settle"}
=============================================================================
