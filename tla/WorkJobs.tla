------------------------------ MODULE WorkJobs ------------------------------
(***************************************************************************)
(* The durable job system: the table `jobs`, the worker processes that     *)
(* claim and run its rows, the web processes that schedule and cancel      *)
(* them, and the quota ledger that scheduling reserves from and settlement *)
(* refunds to.                                                             *)
(*                                                                         *)
(* Every action is one database statement (or one read) together with the  *)
(* code up to the next one, so that the interleavings of the model are the *)
(* interleavings of the processes.  API workers and the subscription       *)
(* worker share the table, the sweep and the settlement; they differ in    *)
(* how a run ends.                                                         *)
(*                                                                         *)
(* Faults are drawn from a budget of MaxFaults:                            *)
(*   "crash"    a worker process dies and is started again                 *)
(*   "webcrash" a web process dies in the middle of a request              *)
(*   "dberror"  a settlement transaction raises                            *)
(*   "stall"    a live worker misses its heartbeats for a whole lease      *)
(***************************************************************************)
EXTENDS JobRow, FiniteSets

CONSTANTS
  SubWorkers,      \* the workers of the subscription backend
  Clients,         \* web requests in flight
  NoJob,
  Limit,           \* Limit[q]: the user's monthly limit of quota kind q
  SubActiveLimit,  \* max_concurrent_agy_jobs of the user's policy
  Faults,          \* the kinds of faults that may happen
  MaxFaults,       \* how many of them (bound)
  MaxClaims        \* attempts at which providers stop asking to wait (bound)

QuotaKinds == {"translated_chapters", "codex_builds"}
QuotaKind(j) ==
  IF Request[j].kind = "translate" THEN "translated_chapters" ELSE "codex_builds"

ASSUME WorkAssumption ==
  /\ SubWorkers \subseteq Workers
  /\ NoJob \notin Jobs
  /\ Limit \in [QuotaKinds -> Nat]
  /\ SubActiveLimit \in Nat
  /\ Faults \subseteq {"crash", "webcrash", "dberror", "stall"}
  /\ MaxFaults \in Nat
  /\ MaxClaims \in Nat

VARIABLES
  jobs,      \* the table: jobs[j] is a Row, status "absent" before its INSERT
  used,      \* quota_usage of the current period, per quota kind
  wk,        \* what each worker process is doing
  web,       \* what each web request is doing
  refunded,  \* history: units the settlement of each job has handed back
  lost,      \* history: units reserved by a request that died before its INSERT
  faults     \* faults still to come

vars == <<jobs, used, wk, web, refunded, lost, faults>>

(* Where a worker is in worker_loop / process.  The settle_* places are    *)
(* the calls of finalize: settle_done with success, settle_in inside the   *)
(* try block of process, settle_out outside of it.                         *)
WorkerPlaces ==
  {"idle", "sweep", "sweep_settle", "reauthorize", "revoke", "run", "finish",
   "settle_done", "settle_in", "settle_out", "mark_canceled", "caught_fail",
   "caught_wait", "caught_sick", "park", "park_sick", "sick", "release", "switch",
   "fail"}

(* last: the claimed row allowed a fallback and was on its last attempt;   *)
(* todo: what the sweep has read; settle: recovered jobs left to finalize. *)
WorkerState ==
  [pc : WorkerPlaces, job : Jobs \cup {NoJob}, last : BOOLEAN,
   todo : SUBSET (Jobs \X RecoveryActions), settle : SUBSET Jobs]

IdleWorker == [pc |-> "idle", job |-> NoJob, last |-> FALSE, todo |-> {}, settle |-> {}]

WebPlaces == {"idle", "reserved", "refund", "cancel_settle"}
WebState == [pc : WebPlaces, job : Jobs \cup {NoJob}]
IdleWeb == [pc |-> "idle", job |-> NoJob]

BackendOf(w) == IF w \in SubWorkers THEN "sub" ELSE "api"

(* One job at a time, in a claimed state                                   *)
Attends(w, j) == wk[w].job = j

Init ==
  /\ jobs = [j \in Jobs |-> AbsentRow(j)]
  /\ used = [q \in QuotaKinds |-> 0]
  /\ wk = [w \in Workers |-> IdleWorker]
  /\ web = [c \in Clients |-> IdleWeb]
  /\ refunded = [j \in Jobs |-> 0]
  /\ lost = [q \in QuotaKinds |-> 0]
  /\ faults = MaxFaults

Goto(w, pc) == wk' = [wk EXCEPT ![w].pc = pc]
GoIdle(w) == wk' = [wk EXCEPT ![w] = IdleWorker]
Write(j, row) == jobs' = [jobs EXCEPT ![j] = row]
Spend(kind) == kind \in Faults /\ faults > 0 /\ faults' = faults - 1

(* PostgresQuotaRepository.refund never takes usage below zero             *)
Refund(q, units) ==
  used' = [used EXCEPT ![q] = @ - (IF units <= @ THEN units ELSE @)]

(* finalize: settle the row and hand the remainder back, one transaction;  *)
(* a row that is finalized already is left alone.                          *)
Finalize(j, success) ==
  LET row == finalize_quota(j, jobs[j], success) IN
  IF CanFinalize(jobs[j])
    THEN /\ Write(j, row)
         /\ Refund(QuotaKind(j), Refundable(j, row))
         /\ refunded' = [refunded EXCEPT ![j] = @ + Refundable(j, row)]
    ELSE UNCHANGED <<jobs, used, refunded>>

-----------------------------------------------------------------------------
(* Scheduling: schedule_ai_job, and create_job's dedupe.                   *)

SameKey(i, j) == Request[i].kind = Request[j].kind /\ Request[i].key = Request[j].key
(* Mutant: the dedupe looks at queued jobs only. *)
QueuedTwin(j) == \E i \in Jobs : SameKey(i, j) /\ jobs[i].status \in TRIGGER_STATUSES
ActiveTwin(j) == \E i \in Jobs : SameKey(i, j) /\ Active(jobs[i])
SubActive == Cardinality({i \in Jobs : Active(jobs[i]) /\ jobs[i].backend = "sub"})

(* The reservation.  find_active is read before it and may be out of date  *)
(* by now, so an active twin does not rule it out; a request that finds    *)
(* its twin at once or its quota exhausted changes nothing.                *)
Reserve(c, j) ==
  /\ web[c] = IdleWeb
  /\ jobs[j].status = "absent"
  /\ \A d \in Clients : ~(web[d].job = j /\ web[d].pc \in {"reserved", "refund"})
  /\ used[QuotaKind(j)] + Reserved(j) <= Limit[QuotaKind(j)]
  /\ used' = [used EXCEPT ![QuotaKind(j)] = @ + Reserved(j)]
  /\ web' = [web EXCEPT ![c] = [pc |-> "reserved", job |-> j]]
  /\ UNCHANGED <<jobs, wk, refunded, lost, faults>>

(* Mutant: the queue limit is off by one. *)
InsertableAtLimit(j) ==
  /\ ~ActiveTwin(j)
  /\ Request[j].backend = "sub" => SubActive <= SubActiveLimit

(* create_job inserts under an advisory lock unless an active job has the  *)
(* key or the user's subscription queue is full.                           *)
Insertable(j) ==
  /\ ~ActiveTwin(j)
  /\ Request[j].backend = "sub" => SubActive < SubActiveLimit

Create(c) ==
  /\ web[c].pc = "reserved"
  /\ Insertable(web[c].job)
  /\ Write(web[c].job, InsertedRow(web[c].job))
  /\ web' = [web EXCEPT ![c] = IdleWeb]
  /\ UNCHANGED <<used, wk, refunded, lost, faults>>

(* Mutant: a deduplicated request keeps its reservation. *)
CreateRefusedKeepsUnits(c) ==
  /\ web[c].pc = "reserved"
  /\ ~Insertable(web[c].job)
  /\ web' = [web EXCEPT ![c] = IdleWeb]
  /\ UNCHANGED <<jobs, used, wk, refunded, lost, faults>>

(* Deduplicated, refused by the limit or by a policy change, or a command  *)
(* before the INSERT raised                                                *)
CreateRefused(c) ==
  /\ web[c].pc = "reserved"
  /\ ~Insertable(web[c].job) \/ Request[web[c].job].backend = "sub"
                             \/ Request[web[c].job].kind = "codex_build"
  /\ web' = [web EXCEPT ![c].pc = "refund"]
  /\ UNCHANGED <<jobs, used, wk, refunded, lost, faults>>

RefundReservation(c) ==
  /\ web[c].pc = "refund"
  /\ Refund(QuotaKind(web[c].job), Reserved(web[c].job))
  /\ web' = [web EXCEPT ![c] = IdleWeb]
  /\ UNCHANGED <<jobs, wk, refunded, lost, faults>>

-----------------------------------------------------------------------------
(* Cancellation by the user or by a revoked grant: the UPDATE, then, for a *)
(* row it canceled, finalize in a second transaction.                      *)
Cancel(c, j) ==
  /\ web[c] = IdleWeb
  /\ Active(jobs[j])
  /\ Write(j, cancel_job(jobs[j]))
  /\ web' = IF Terminal(cancel_job(jobs[j]))
              THEN [web EXCEPT ![c] = [pc |-> "cancel_settle", job |-> j]]
              ELSE web
  /\ UNCHANGED <<used, wk, refunded, lost, faults>>

CancelSettle(c) ==
  /\ web[c].pc = "cancel_settle"
  /\ Finalize(web[c].job, FALSE)
  /\ web' = [web EXCEPT ![c] = IdleWeb]
  /\ UNCHANGED <<wk, lost, faults>>

(* The administrator's "Retry waiting"                                     *)
RetryWaiting(j) ==
  /\ CanRetryWaiting(jobs[j])
  /\ Write(j, retry_waiting(jobs[j]))
  /\ UNCHANGED <<used, wk, web, refunded, lost, faults>>

-----------------------------------------------------------------------------
(* The worker loop: maintenance, then one claim.                           *)

Claim(w, j) ==
  /\ wk[w].pc = "idle"
  /\ Claimable(jobs[j], BackendOf(w))
  /\ LET row == claim_next(jobs[j], w) IN
       /\ Write(j, row)
       /\ wk' = [wk EXCEPT ![w] =
                   [IdleWorker EXCEPT !.pc = IF w \in SubWorkers THEN "reauthorize" ELSE "run",
                                      !.job = j,
                                      !.last = row.fallback /\ row.attempts >= row.max]]
  /\ UNCHANGED <<used, web, refunded, lost, faults>>

(* One UPDATE over all rows; the first statement of a maintenance round    *)
ReleaseDueWaits(w) ==
  /\ wk[w].pc = "idle"
  /\ \E j \in Jobs : CanReleaseWait(jobs[j])
  /\ jobs' = [j \in Jobs |-> IF CanReleaseWait(jobs[j])
                               THEN release_due_provider_wait(jobs[j]) ELSE jobs[j]]
  /\ UNCHANGED <<used, wk, web, refunded, lost, faults>>

(* stale_leases: the sweep decides from the rows as they are now ...       *)
SweepRead(w) ==
  /\ wk[w].pc = "idle"
  /\ LET stale == {j \in Jobs : StaleLease(jobs[j])} IN
       /\ stale # {}
       /\ wk' = [wk EXCEPT ![w].pc = "sweep",
                           ![w].todo = {<<j, RecoveryAction(jobs[j])>> : j \in stale}]
  /\ UNCHANGED <<jobs, used, web, refunded, lost, faults>>

(* ... and acts on the rows as they are when it gets to them.              *)
SweepStep(w) ==
  /\ wk[w].pc = "sweep"
  /\ \E t \in wk[w].todo :
       LET j == t[1]
           hit == CanRecover(jobs[j], t[2]) IN
       /\ jobs' = IF hit THEN [jobs EXCEPT ![j] = recover_stale_lease(@, t[2])] ELSE jobs
       /\ wk' = [wk EXCEPT ![w].todo = @ \ {t},
                           ![w].settle = IF hit /\ t[2] # "requeue" THEN @ \cup {j} ELSE @]
  /\ UNCHANGED <<used, web, refunded, lost, faults>>

SweepDone(w) ==
  /\ wk[w].pc = "sweep"
  /\ wk[w].todo = {}
  /\ Goto(w, IF wk[w].settle = {} THEN "idle" ELSE "sweep_settle")
  /\ UNCHANGED <<jobs, used, web, refunded, lost, faults>>

(* The loop over the recoveries, after the last of them                    *)
SweepSettle(w) ==
  /\ wk[w].pc = "sweep_settle"
  /\ \E j \in wk[w].settle :
       /\ Finalize(j, FALSE)
       /\ wk' = [wk EXCEPT ![w].settle = @ \ {j},
                           ![w].pc = IF wk[w].settle = {j} THEN "idle" ELSE @]
  /\ UNCHANGED <<web, lost, faults>>

-----------------------------------------------------------------------------
(* The handler of a claimed job.                                           *)

(* _reauthorize: the grant, the edit right and the concurrency limit are   *)
(* looked up again; anything may have changed since scheduling.            *)
Reauthorize(w) ==
  /\ wk[w].pc = "reauthorize"
  /\ \E allowed \in BOOLEAN : Goto(w, IF allowed THEN "run" ELSE "revoke")
  /\ UNCHANGED <<jobs, used, web, refunded, lost, faults>>

(* The worker cancels its own job, then waits for no child: mark_canceled. *)
Revoke(w) ==
  LET j == wk[w].job IN
  /\ wk[w].pc = "revoke"
  /\ IF Active(jobs[j])
       THEN /\ Write(j, cancel_job(jobs[j]))
            /\ Goto(w, IF Terminal(cancel_job(jobs[j])) THEN "settle_in" ELSE "mark_canceled")
       ELSE /\ Goto(w, "mark_canceled")
            /\ UNCHANGED jobs
  /\ UNCHANGED <<used, web, refunded, lost, faults>>

(* bail_if_canceled at a checkpoint of the handler                         *)
Checkpoint(w) ==
  /\ wk[w].pc = "run"
  /\ is_canceled(jobs[wk[w].job])
  /\ Goto(w, IF w \in SubWorkers THEN "mark_canceled" ELSE "settle_in")
  /\ UNCHANGED <<jobs, used, web, refunded, lost, faults>>

(* commit_translation: the chapter and its unit in one transaction         *)
CommitChapter(w) ==
  LET j == wk[w].job IN
  /\ wk[w].pc = "run"
  /\ w \in SubWorkers
  /\ Request[j].kind = "translate"
  /\ CanConsume(j, jobs[j])
  /\ Write(j, increment_quota_consumed(jobs[j]))
  /\ UNCHANGED <<used, wk, web, refunded, lost, faults>>

HandlerReturns(w) ==
  /\ wk[w].pc = "run"
  /\ Goto(w, "finish")
  /\ UNCHANGED <<jobs, used, web, refunded, lost, faults>>

(* The handler raises.  A subscription provider may also ask to wait       *)
(* (capacity) or turn out to be unusable (authentication, version).        *)
HandlerRaises(w) ==
  /\ wk[w].pc = "run"
  /\ IF w \in SubWorkers
       THEN \/ Goto(w, "caught_fail")
            \/ /\ jobs[wk[w].job].attempts < MaxClaims
               /\ \E pc \in {"caught_wait", "caught_sick"} : Goto(w, pc)
       ELSE Goto(w, "fail")
  /\ UNCHANGED <<jobs, used, web, refunded, lost, faults>>

-----------------------------------------------------------------------------
(* The end of a run.                                                       *)

(* mark_done_if_running; the row may have been taken away meanwhile        *)
MarkDone(w) ==
  LET j == wk[w].job IN
  /\ wk[w].pc = "finish"
  /\ IF CanMarkDone(jobs[j])
       THEN Write(j, mark_done_if_running(jobs[j])) /\ Goto(w, "settle_done")
       ELSE /\ Goto(w, IF w \in SubWorkers THEN "mark_canceled" ELSE "settle_in")
            /\ UNCHANGED jobs
  /\ UNCHANGED <<used, web, refunded, lost, faults>>

MarkCanceled(w) ==
  LET j == wk[w].job IN
  /\ wk[w].pc = "mark_canceled"
  /\ IF CanMarkCanceled(jobs[j])
       THEN Write(j, mark_canceled_if_running(jobs[j])) /\ Goto(w, "settle_out")
       ELSE GoIdle(w) /\ UNCHANGED jobs
  /\ UNCHANGED <<used, web, refunded, lost, faults>>

Settle(w) ==
  /\ wk[w].pc \in {"settle_done", "settle_in", "settle_out"}
  /\ Finalize(wk[w].job, wk[w].pc = "settle_done")
  /\ GoIdle(w)
  /\ UNCHANGED <<web, lost, faults>>

(* The settlement raises: inside the try block of process the exception    *)
(* handler takes over, outside of it the worker loop goes on.              *)
SettleFails(w) ==
  /\ wk[w].pc \in {"settle_done", "settle_in", "settle_out"}
  /\ Spend("dberror")
  /\ IF wk[w].pc = "settle_out" THEN GoIdle(w)
     ELSE Goto(w, IF w \in SubWorkers THEN "caught_fail" ELSE "fail")
  /\ UNCHANGED <<jobs, used, web, refunded, lost>>

(* AgyWorkerService's exception handler reads is_canceled once and then    *)
(* decides by the error code; the statement it decides for comes later.    *)
Caught(w) ==
  LET j == wk[w].job IN
  /\ wk[w].pc \in {"caught_fail", "caught_wait", "caught_sick"}
  /\ Goto(w, CASE is_canceled(jobs[j]) -> "mark_canceled"
               [] ~is_canceled(jobs[j]) /\ wk[w].pc = "caught_wait" -> "park"
               [] ~is_canceled(jobs[j]) /\ wk[w].pc = "caught_sick" -> "park_sick"
               [] OTHER -> IF ~wk[w].last THEN "fail"
                           ELSE IF Request[j].kind = "translate" THEN "release"
                           ELSE "switch")
  /\ UNCHANGED <<jobs, used, web, refunded, lost, faults>>

Park(w) ==
  LET j == wk[w].job IN
  /\ wk[w].pc \in {"park", "park_sick"}
  /\ jobs' = IF CanWait(jobs[j]) THEN [jobs EXCEPT ![j] = wait_for_provider(@)] ELSE jobs
  /\ wk' = [wk EXCEPT ![w] = [IdleWorker EXCEPT !.pc = IF wk[w].pc = "park_sick"
                                                         THEN "sick" ELSE "idle"]]
  /\ UNCHANGED <<used, web, refunded, lost, faults>>

(* An unhealthy worker claims nothing until its preflight succeeds.        *)
Preflight(w) ==
  /\ wk[w].pc = "sick"
  /\ GoIdle(w)
  /\ UNCHANGED <<jobs, used, web, refunded, lost, faults>>

(* Fallback of a translation: its reservation is released first, because   *)
(* the API backend meters every chapter itself ...                         *)
ReleaseReservation(w) ==
  /\ wk[w].pc = "release"
  /\ Finalize(wk[w].job, FALSE)
  /\ Goto(w, "switch")
  /\ UNCHANGED <<web, lost, faults>>

(* ... then the row moves to the API queue, if it is still running.        *)
SwitchToApi(w) ==
  LET j == wk[w].job IN
  /\ wk[w].pc = "switch"
  /\ IF CanFallback(jobs[j])
       THEN Write(j, fallback_to_api(jobs[j])) /\ GoIdle(w)
       ELSE Goto(w, "fail") /\ UNCHANGED jobs
  /\ UNCHANGED <<used, web, refunded, lost, faults>>

FailOrRetry(w) ==
  LET j == wk[w].job IN
  /\ wk[w].pc = "fail"
  /\ IF CanFailOrRetry(jobs[j])
       THEN /\ Write(j, fail_or_retry(jobs[j]))
            /\ IF Terminal(fail_or_retry(jobs[j])) THEN Goto(w, "settle_out") ELSE GoIdle(w)
       ELSE Goto(w, "settle_out") /\ UNCHANGED jobs
  /\ UNCHANGED <<used, web, refunded, lost, faults>>

-----------------------------------------------------------------------------
(* Time and faults.                                                        *)

(* not_before passes                                                       *)
ComesDue(j) ==
  /\ ~jobs[j].due
  /\ jobs' = [jobs EXCEPT ![j].due = TRUE]
  /\ UNCHANGED <<used, wk, web, refunded, lost, faults>>

(* A sweep takes milliseconds and a lease minutes: no lease is taken and   *)
(* expires again between the read of a sweep and its last statement.       *)
NoSweepUnderWay == \A w \in Workers : wk[w].pc # "sweep"

(* A running job nobody attends to: its worker crashed or gave up          *)
LeaseExpires(j) ==
  /\ jobs[j].status = "running"
  /\ jobs[j].lease = "fresh"
  /\ \A w \in Workers : jobs[j].claim = w => ~Attends(w, j)
  /\ NoSweepUnderWay
  /\ jobs' = [jobs EXCEPT ![j].lease = "expired"]
  /\ UNCHANGED <<used, wk, web, refunded, lost, faults>>

(* The worker is alive but cannot renew: blocked, paused or cut off        *)
Stall(j) ==
  /\ jobs[j].status = "running"
  /\ jobs[j].lease = "fresh"
  /\ \E w \in Workers : jobs[j].claim = w /\ Attends(w, j)
  /\ NoSweepUnderWay
  /\ Spend("stall")
  /\ jobs' = [jobs EXCEPT ![j].lease = "expired"]
  /\ UNCHANGED <<used, wk, web, refunded, lost>>

(* A renewal of a fresh lease changes nothing and is not a step.           *)
Heartbeat(w) ==
  LET j == wk[w].job IN
  /\ j # NoJob
  /\ CanRenewLease(jobs[j], w)
  /\ jobs[j].lease # "fresh"
  /\ Write(j, renew_lease(jobs[j]))
  /\ UNCHANGED <<used, wk, web, refunded, lost, faults>>

(* The process dies, or is stopped by a deploy, anywhere in its loop; the  *)
(* one that replaces it starts with an empty memory and a new claim token. *)
Crash(w) ==
  /\ wk[w].pc # "idle"
  /\ Spend("crash")
  /\ GoIdle(w)
  /\ UNCHANGED <<jobs, used, web, refunded, lost>>

WebCrash(c) ==
  /\ web[c].pc # "idle"
  /\ Spend("webcrash")
  /\ web' = [web EXCEPT ![c] = IdleWeb]
  /\ lost' = IF web[c].pc = "cancel_settle" THEN lost
             ELSE [lost EXCEPT ![QuotaKind(web[c].job)] = @ + Reserved(web[c].job)]
  /\ UNCHANGED <<jobs, used, wk, refunded>>

-----------------------------------------------------------------------------
WebNext(c) ==
  \/ \E j \in Jobs : Reserve(c, j) \/ Cancel(c, j)
  \/ Create(c) \/ CreateRefused(c) \/ RefundReservation(c) \/ CancelSettle(c)
  \/ WebCrash(c)

(* What a worker does on its own, maintenance and handler included         *)
WorkerStep(w) ==
  \/ \E j \in Jobs : Claim(w, j)
  \/ SweepStep(w) \/ SweepDone(w) \/ SweepSettle(w)
  \/ Reauthorize(w) \/ Revoke(w)
  \/ Checkpoint(w) \/ CommitChapter(w) \/ HandlerReturns(w) \/ HandlerRaises(w)
  \/ MarkDone(w) \/ MarkCanceled(w) \/ Settle(w)
  \/ Caught(w) \/ Park(w) \/ Preflight(w) \/ ReleaseReservation(w) \/ SwitchToApi(w)
  \/ FailOrRetry(w)

Maintenance(w) == ReleaseDueWaits(w) \/ SweepRead(w)

WorkerNext(w) ==
  WorkerStep(w) \/ Maintenance(w) \/ Heartbeat(w) \/ SettleFails(w) \/ Crash(w)

TimeNext(j) == ComesDue(j) \/ LeaseExpires(j) \/ Stall(j) \/ RetryWaiting(j)

Next ==
  \/ \E c \in Clients : WebNext(c)
  \/ \E w \in Workers : WorkerNext(w)
  \/ \E j \in Jobs : TimeNext(j)

Spec == Init /\ [][Next]_vars

(* A worker that is alive goes on, its handler ends, and maintenance comes *)
(* round; requests end; time passes.  Nobody is obliged to schedule, to    *)
(* cancel, to press "Retry waiting", or to fail.                           *)
Fairness ==
  /\ \A w \in Workers : WF_vars(WorkerStep(w)) /\ SF_vars(Maintenance(w))
  /\ \A c \in Clients : WF_vars(Create(c) \/ CreateRefused(c) \/ RefundReservation(c)
                                \/ CancelSettle(c))
  /\ \A j \in Jobs : WF_vars(ComesDue(j)) /\ WF_vars(LeaseExpires(j))

FairSpec == Spec /\ Fairness

-----------------------------------------------------------------------------
(* Properties.                                                             *)

TypeOK ==
  /\ jobs \in [Jobs -> Row]
  /\ used \in [QuotaKinds -> Nat]
  /\ wk \in [Workers -> WorkerState]
  /\ web \in [Clients -> WebState]
  /\ refunded \in [Jobs -> Nat]
  /\ lost \in [QuotaKinds -> Nat]
  /\ faults \in Nat

(* Settlement is exact.  However many workers, sweeps and requests call    *)
(* finalize, in whatever order and with whatever outcome, a job hands back *)
(* nothing before it is finalized, and afterwards what it consumed and     *)
(* what it handed back are together what it reserved: no unit is refunded  *)
(* twice, or both refunded and consumed (postgres.py, finalize).           *)
SettlementIsExact ==
  \A j \in Jobs :
    IF jobs[j].finalized
      THEN jobs[j].consumed + refunded[j] = Reserved(j)
      ELSE refunded[j] = 0 /\ jobs[j].consumed <= Reserved(j)

(* The units a job stands for in the ledger: what a request holds for it   *)
(* before the INSERT, its reservation while it is open, and what it has    *)
(* consumed once it is settled.                                            *)
BeingScheduled(j) ==
  \E c \in Clients : web[c].pc \in {"reserved", "refund"} /\ web[c].job = j
Charge(j) ==
  CASE jobs[j].status = "absent" -> IF BeingScheduled(j) THEN Reserved(j) ELSE 0
    [] jobs[j].status # "absent" /\ jobs[j].finalized -> jobs[j].consumed
    [] OTHER -> Reserved(j)
Charges == [j \in Jobs |-> Charge(j)]

(* The charged units of quota kind q, each with the job it is charged for  *)
Booked(charge, q) ==
  UNION {{j} \X (1..charge[j]) : j \in {i \in Jobs : QuotaKind(i) = q}}

(* The ledger balances.  What the quota ledger shows is exactly the units  *)
(* charged for jobs of the table and for requests in flight, plus what     *)
(* died with a web process in the window that ADR 003 accepts: nothing     *)
(* leaks and nothing is handed back that was not taken, whoever settles.   *)
LedgerBalances ==
  \A q \in QuotaKinds : used[q] = Cardinality(Booked(Charges, q)) + lost[q]

(* No double scheduling.  Two jobs with the same kind and idempotency key  *)
(* are never active at once, although retries, lease recovery, provider    *)
(* waits and the fallback all put rows back into the queue (create_job).   *)
OneActiveJobPerKey ==
  \A i, j \in Jobs : SameKey(i, j) /\ Active(jobs[i]) /\ Active(jobs[j]) => i = j

(* A user's active subscription jobs stay within the limit of the policy.  *)
SubQueueWithinLimit == SubActive <= SubActiveLimit

(* A claim is backed by a running row: a worker's claim token and lease    *)
(* are stamped on a row exactly while it runs, so neither a retry, a park, *)
(* a fallback nor a recovery leaves a token that could renew the lease of  *)
(* the next run.                                                           *)
ClaimedExactlyWhileRunning ==
  \A j \in Jobs :
    /\ (jobs[j].status = "running") <=> (jobs[j].claim # NoWorker)
    /\ (jobs[j].status = "running") <=> (jobs[j].lease # "none")

(* A terminal status is never left, not even by a worker that comes back   *)
(* after its lease was given away.                                         *)
TerminalIsFinal ==
  [][\A j \in Jobs : Terminal(jobs[j]) => jobs'[j].status = jobs[j].status]_vars

(* Once a job is settled its consumption is frozen: a chapter committed by *)
(* a late worker can no longer draw on the refunded reservation.           *)
ConsumptionFrozenOnceSettled ==
  [][\A j \in Jobs : jobs[j].finalized =>
       jobs'[j].finalized /\ jobs'[j].consumed = jobs[j].consumed]_vars

(* Every scheduled job ends, whatever the crashes.                         *)
EveryJobEnds == \A j \in Jobs : Active(jobs[j]) ~> Terminal(jobs[j])

-----------------------------------------------------------------------------
(* The quota columns of the table implement a reservation per job.         *)
ReservationState ==
  [j \in Jobs |-> IF jobs[j].status = "absent" THEN "none"
                  ELSE IF jobs[j].finalized THEN "settled" ELSE "open"]
Contract == INSTANCE Reservation WITH
  Units <- [j \in Jobs |-> Reserved(j)],
  state <- ReservationState,
  spent <- [j \in Jobs |-> jobs[j].consumed],
  returned <- refunded

(* Whatever the workers, sweeps, requests and faults do, every step of the *)
(* system is a step of the reservation contract or leaves it alone.        *)
ImplementsReservation == Contract!ReservationSpec

=============================================================================
