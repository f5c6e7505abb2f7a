-------------------------- MODULE SubscriptionRuns --------------------------
(***************************************************************************)
(* The dedicated host worker of one subscription backend (AGY or OpenAI    *)
(* Codex) and the provider processes it starts: the advisory subscription  *)
(* lock, the reaping of orphans, preflight, claim and re-authorization,    *)
(* one run (ai_execution_runs row, workspace, provider process, artifacts, *)
(* validation, commit) per batch of a job, the salvage of artifacts a dead *)
(* worker left ready, and the administrator who revokes the grant          *)
(* meanwhile.                                                              *)
(*                                                                         *)
(* Two worker processes may be started on one machine.  A worker can crash *)
(* between any two steps, leaving its provider process alive; it can also  *)
(* lose the database session that holds the lock without noticing.  The    *)
(* job row is reduced to its status and cancellation (WorkJobs has all of  *)
(* it); what a batch commits is in ChapterTranslation and Codex.           *)
(***************************************************************************)
EXTENDS Naturals, FiniteSets

CONSTANTS
  Hosts,        \* worker processes that may be started
  Jobs,         \* jobs of one user on this backend
  Works,        \* workloads a grant may list
  Batches,      \* subprocess runs a job needs
  Backends,     \* the backends considered
  Nobody,       \* no host, no job
  MaxRuns,      \* rows of ai_execution_runs
  MaxAttempts,  \* AGY_MAX_ATTEMPTS / OPENAI_CODEX_MAX_ATTEMPTS
  MaxFaults,    \* crashes and lost lock sessions
  MaxChanges    \* administrator changes of the grant

ASSUME BoundsAreNatural ==
  {MaxRuns, MaxAttempts, MaxFaults, MaxChanges} \subseteq Nat

ASSUME NamesAreApart ==
  Nobody \notin Hosts \cup Jobs /\ Batches \subseteq Nat

VARIABLES
  backend,  \* which of the two this worker serves
  policy,   \* user_ai_backend_policies: workloads granted, row version (0: none)
  admin,    \* the administrator's request: workloads whose jobs it still cancels
  job,      \* jobs rows
  host,     \* worker processes
  lock,     \* the host whose session holds the advisory lock
  run,      \* ai_execution_runs rows with their workspace and process
  faults    \* faults and grant changes so far; whether a lock session was lost

vars == <<backend, policy, admin, job, host, lock, run, faults>>

RunIds == 1..MaxRuns

(***************************************************************************)
(* Why a supervised process ends badly, by the way the worker treats the   *)
(* error code: park the job, park it and stop claiming, or retry.          *)
(***************************************************************************)

\* run_agy's verdicts in the order they are raised, then the exit code's.
AgyFailure ==
  [plugin   |-> "retry",      loop    |-> "retry",     requests |-> "retry",
   hook     |-> "retry",      timeout |-> "retry",     quota    |-> "wait",
   auth     |-> "unhealthy",  blocked |-> "unhealthy", outage   |-> "wait",
   exit     |-> "retry"]

\* The App Server's typed turn errors, request errors and protocol errors.
CodexFailure ==
  [quota   |-> "wait",      outage   |-> "wait",      auth    |-> "unhealthy",
   blocked |-> "unhealthy", protocol |-> "unhealthy", timeout |-> "retry",
   exited  |-> "retry",     failed   |-> "retry",     empty   |-> "retry",
   invalid |-> "retry"]

FailureClasses ==
  IF backend = "agy" THEN {AgyFailure[c] : c \in DOMAIN AgyFailure}
  ELSE {CodexFailure[c] : c \in DOMAIN CodexFailure}

(***************************************************************************)
(* Rows and processes.                                                     *)
(***************************************************************************)

LIVE_RUNS == {"preparing", "running", "validating"}

NoRun == [st |-> "none", job |-> Nobody, batch |-> 0, by |-> Nobody,
          proc |-> "none",    \* none, alive, ended (exit 0), broken
          known |-> FALSE,    \* process group id and start time are in the row
          files |-> "none",   \* contracted artifacts: none, bad, good
          manifest |-> "none",\* output/manifest.json: none, stale, listed
          repair |-> FALSE,   \* output/.hook-repair-count exists
          ws |-> FALSE]       \* the workspace exists

NoJob == [st |-> "none", work |-> Nobody, cancel |-> FALSE, own |-> Nobody,
          attempts |-> 0, done |-> {}]

Off == [pc |-> "down", job |-> Nobody, run |-> 0, reap |-> {}, fit |-> FALSE,
        err |-> "none"]

ACTIVE_STATUSES == {"queued", "running", "waiting_provider"}

is_canceled(j) == job[j].cancel \/ job[j].st = "canceled"

\* cancel_job: a running job is only asked to stop, the others stop at once.
cancel_job(j) ==
  IF job[j].st = "running" THEN [job[j] EXCEPT !.cancel = TRUE]
  ELSE [job[j] EXCEPT !.cancel = TRUE, !.st = "canceled"]

Granted(j) == policy.version > 0 /\ job[j].work \in policy.works

Alive(r) == run[r].proc = "alive"

\* A process its own worker still watches.
Supervised(r) == run[r].by # Nobody /\ host[run[r].by].run = r

\* Output the host's validators accept: the manifest lists exactly the files
\* in output/ (so no repair counter is left over) and they meet the contract.
Valid(x) == x.ws /\ x.manifest = "listed" /\ x.files = "good" /\ ~x.repair

Set(h, pc) == [host EXCEPT ![h].pc = pc]

Raise(h, class) ==
  [host EXCEPT ![h] = [@ EXCEPT !.pc = "except", !.err = class, !.run = 0]]

Init ==
  /\ backend \in Backends
  /\ policy = [works |-> Works, version |-> 1]
  /\ admin = {}
  /\ job = [j \in Jobs |-> NoJob]
  /\ host = [h \in Hosts |-> Off]
  /\ lock = Nobody
  /\ run = [r \in RunIds |-> NoRun]
  /\ faults = [n |-> 0, dropped |-> FALSE, change |-> 0]

(***************************************************************************)
(* Web process: scheduling, cancellation, grants.                          *)
(***************************************************************************)

\* resolve_backend grants the subscription, the job is created.
Schedule(j) ==
  /\ job[j].st = "none"
  /\ \E w \in Works :
       /\ policy.version > 0 /\ w \in policy.works
       /\ job' = [job EXCEPT ![j] = [NoJob EXCEPT !.st = "queued", !.work = w]]
  /\ UNCHANGED <<backend, policy, admin, host, lock, run, faults>>

UserCancels(j) ==
  /\ job[j].st \in ACTIVE_STATUSES /\ ~job[j].cancel
  /\ job' = [job EXCEPT ![j] = cancel_job(j)]
  /\ UNCHANGED <<backend, policy, admin, host, lock, run, faults>>

\* upsert_policy: the row is rewritten and committed; the jobs of removed
\* workloads are canceled afterwards, outside that transaction.
UpsertPolicy(works) ==
  /\ admin = {} /\ faults.change < MaxChanges /\ works # policy.works
  /\ policy' = [works |-> works, version |-> policy.version + 1]
  /\ admin' = policy.works \ works
  /\ faults' = [faults EXCEPT !.change = @ + 1]
  /\ UNCHANGED <<backend, job, host, lock, run>>

\* delete_policy: the row goes (its version count with it), then every job of
\* the backend is canceled.
DeletePolicy ==
  /\ admin = {} /\ faults.change < MaxChanges /\ policy.version > 0
  /\ policy' = [works |-> {}, version |-> 0]
  /\ admin' = Works
  /\ faults' = [faults EXCEPT !.change = @ + 1]
  /\ UNCHANGED <<backend, job, host, lock, run>>

\* cancel_revoked_jobs.
CancelRevoked ==
  /\ admin # {}
  /\ job' = [j \in Jobs |->
               IF job[j].st \in ACTIVE_STATUSES /\ job[j].work \in admin
               THEN cancel_job(j) ELSE job[j]]
  /\ admin' = {}
  /\ UNCHANGED <<backend, policy, host, lock, run, faults>>

\* The web process dies between the two.
AdminLost ==
  /\ admin # {} /\ faults.n < MaxFaults
  /\ admin' = {}
  /\ faults' = [faults EXCEPT !.n = @ + 1]
  /\ UNCHANGED <<backend, policy, job, host, lock, run>>

(***************************************************************************)
(* Worker start: lock, leases, orphans, preflight.                         *)
(***************************************************************************)

\* A worker that finds the lock taken reports standby and exits.
AcquireLock(h) ==
  /\ host[h].pc = "down" /\ lock = Nobody
  /\ lock' = h
  /\ host' = Set(h, "leases")
  /\ UNCHANGED <<backend, policy, admin, job, run, faults>>

\* The lease of a job whose worker no longer renews it.
Stale(j) ==
  job[j].st = "running" /\ (job[j].own = Nobody \/ host[job[j].own].job # j)

\* _recover_stale_leases and _release_due_provider_waits.
Recovered ==
  [j \in Jobs |->
     CASE Stale(j) /\ job[j].cancel ->
            [job[j] EXCEPT !.st = "canceled", !.own = Nobody]
       [] Stale(j) /\ ~job[j].cancel /\ job[j].attempts >= MaxAttempts ->
            [job[j] EXCEPT !.st = "failed", !.own = Nobody]
       [] Stale(j) /\ ~job[j].cancel /\ job[j].attempts < MaxAttempts ->
            [job[j] EXCEPT !.st = "queued", !.own = Nobody]
       [] job[j].st = "waiting_provider" -> [job[j] EXCEPT !.st = "queued"]
       [] OTHER -> job[j]]

RecoverLeases(h) ==
  /\ host[h].pc = "leases"
  /\ job' = Recovered
  /\ host' = [host EXCEPT ![h] = [@ EXCEPT !.pc = "reap",
                 !.reap = {r \in RunIds : run[r].st \in LIVE_RUNS}]]
  /\ UNCHANGED <<backend, policy, admin, lock, run, faults>>

\* terminate_process_group, of a process whose recorded identity matches.
Killed(x) == IF x.proc = "alive" THEN [x EXCEPT !.proc = "broken"] ELSE x

\* A run row in its final status; nobody reads the artifacts of a run that
\* did not complete again, so the model forgets them.
Closed(x, st) ==
  [st |-> st, job |-> x.job, batch |-> x.batch, by |-> x.by, proc |-> x.proc,
   known |-> x.known, files |-> "none", manifest |-> "none", repair |-> FALSE,
   ws |-> FALSE]

\* A run in 'validating' whose manifest was written can still be committed.
Resumable(x) == x.st = "validating" /\ x.ws /\ x.manifest # "none"

\* _reap_orphans, one row.
\* Mutant of the definition below.
ForgetOrphan(h, r) ==
  /\ host[h].pc = "reap" /\ r \in host[h].reap
  /\ run' = [run EXCEPT ![r] = IF Resumable(@) THEN @
                               ELSE [@ EXCEPT !.st = "worker_lost"]]
  /\ host' = [host EXCEPT ![h].reap = @ \ {r}]
  /\ UNCHANGED <<backend, policy, admin, job, lock, faults>>
ReapOrphan(h, r) ==
  /\ host[h].pc = "reap" /\ r \in host[h].reap
  /\ run' = [run EXCEPT ![r] =
       LET x == IF @.known THEN Killed(@) ELSE @
       IN  IF Resumable(x) THEN x
           ELSE IF x.st \in LIVE_RUNS THEN [x EXCEPT !.st = "worker_lost"]
                ELSE x]
  /\ host' = [host EXCEPT ![h].reap = @ \ {r}]
  /\ UNCHANGED <<backend, policy, admin, job, lock, faults>>

\* What the two preflights can find.
AgyPreflight == {"ok", "not_installed", "version", "plugin", "auth", "model",
                 "plugin_inactive"}
CodexPreflight == {"ok", "not_installed", "version", "auth", "model", "outage"}

\* run_preflight at start, and every 30 s while the worker is unfit.
Preflight(h) ==
  /\ \/ host[h].pc = "reap" /\ host[h].reap = {}
     \/ host[h].pc = "poll" /\ ~host[h].fit
  /\ \E found \in IF backend = "agy" THEN AgyPreflight ELSE CodexPreflight :
       host' = [host EXCEPT ![h] = [@ EXCEPT !.pc = "poll", !.fit = (found = "ok")]]
  /\ UNCHANGED <<backend, policy, admin, job, lock, run, faults>>

\* Periodic maintenance: leases, provider waits, expired workspaces.  A
\* workspace goes when its run finished long ago; a directory untouched for
\* the failure retention goes whatever its row says, which the model allows
\* once no worker has the run open.
Expired(r) == run[r].ws /\ run[r].st # "none" /\ ~Supervised(r) /\ ~Alive(r)

Maintain(h) ==
  /\ host[h].pc = "poll" /\ host[h].fit
  /\ \E old \in SUBSET {r \in RunIds : Expired(r)} :
       run' = [r \in RunIds |-> IF r \in old THEN [run[r] EXCEPT !.ws = FALSE]
                                ELSE run[r]]
  /\ job' = Recovered
  /\ <<run', job'>> # <<run, job>>
  /\ UNCHANGED <<backend, policy, admin, host, lock, faults>>

(***************************************************************************)
(* One job: claim, re-authorize, salvage, then a run per batch.            *)
(***************************************************************************)

Claim(h, j) ==
  /\ host[h].pc = "poll" /\ host[h].fit
  /\ job[j].st = "queued" /\ ~job[j].cancel
  /\ job' = [job EXCEPT ![j] = [@ EXCEPT !.st = "running", !.own = h,
                                         !.attempts = job[j].attempts + 1]]
  /\ host' = [host EXCEPT ![h] = [@ EXCEPT !.pc = "authorize", !.job = j]]
  /\ UNCHANGED <<backend, policy, admin, lock, run, faults>>

\* mark_canceled_if_running.
mark_canceled(j) ==
  IF job[j].st = "running" /\ job[j].cancel
  THEN [job[j] EXCEPT !.st = "canceled", !.own = Nobody] ELSE job[j]

\* reauthorize_job: a changed policy version alone does not refuse.
Reauthorize(h) ==
  LET j == host[h].job IN
  /\ host[h].pc = "authorize"
  /\ IF Granted(j)
     THEN host' = Set(h, "salvage") /\ UNCHANGED job
     ELSE /\ job' = [job EXCEPT ![j] = [@ EXCEPT !.cancel = TRUE, !.own = Nobody,
                       !.st = IF job[j].st = "running" THEN "canceled" ELSE job[j].st]]
          /\ host' = [host EXCEPT ![h] = [@ EXCEPT !.pc = "poll", !.job = Nobody]]
  /\ UNCHANGED <<backend, policy, admin, lock, run, faults>>

Ready(j) == {r \in RunIds : run[r].job = j /\ run[r].st = "validating"}

\* _resume_ready_commits: what a dead worker left validating is validated
\* again and committed, or given up.  Any exception gives the run up.
ResumeReadyCommit(h, r) ==
  LET j == host[h].job IN
  /\ host[h].pc = "salvage" /\ r \in Ready(j)
  /\ \/ /\ Valid(run[r])
        /\ run' = [run EXCEPT ![r].st = "completed"]
        /\ job' = [job EXCEPT ![j].done = @ \cup {run[r].batch}]
     \/ /\ run' = [run EXCEPT ![r] = Closed(@, "worker_lost")]
        /\ UNCHANGED job
  /\ UNCHANGED <<backend, policy, admin, host, lock, faults>>

\* Mutant of the definition below.
SkipSalvage(h) ==
  /\ host[h].pc = "salvage"
  /\ host' = Set(h, "batch")
  /\ UNCHANGED <<backend, policy, admin, job, lock, run, faults>>
SalvageDone(h) ==
  /\ host[h].pc = "salvage" /\ Ready(host[h].job) = {}
  /\ host' = Set(h, "batch")
  /\ UNCHANGED <<backend, policy, admin, job, lock, run, faults>>

Free == {r \in RunIds : run[r].st = "none"}

\* The loop over batches: cancellation, then a new row in 'preparing'.
StartBatch(h) ==
  LET j == host[h].job IN
  /\ host[h].pc = "batch"
  /\ IF is_canceled(j)
     THEN host' = Raise(h, "canceled") /\ UNCHANGED run
     ELSE \E b \in Batches \ job[j].done, r \in Free :
            /\ \A q \in Free : r <= q
            /\ \A c \in Batches \ job[j].done : b <= c
            /\ run' = [run EXCEPT ![r] = [NoRun EXCEPT
                         !.st = "preparing", !.job = j, !.batch = b, !.by = h]]
            /\ host' = [host EXCEPT ![h] = [@ EXCEPT !.pc = "prepare", !.run = r]]
  /\ UNCHANGED <<backend, policy, admin, job, lock, faults>>

\* Every batch is committed: mark_done, or mark_canceled.
FinishJob(h) ==
  LET j == host[h].job IN
  /\ host[h].pc = "batch" /\ ~is_canceled(j) /\ job[j].done = Batches
  /\ job' = [job EXCEPT ![j] = [@ EXCEPT !.st = "done", !.own = Nobody]]
  /\ host' = [host EXCEPT ![h] = [@ EXCEPT !.pc = "poll", !.job = Nobody]]
  /\ UNCHANGED <<backend, policy, admin, lock, run, faults>>

\* Workspace, inputs, manifest, seal; then the row says 'running'.  A failure
\* to create the workspace leaves the row as it is until the next reaping.
Prepare(h) ==
  LET r == host[h].run IN
  /\ host[h].pc = "prepare"
  /\ \/ /\ run' = [run EXCEPT ![r] = [@ EXCEPT !.st = "running", !.ws = TRUE]]
        /\ host' = Set(h, "spawn")
     \/ /\ UNCHANGED run
        /\ host' = Raise(h, "retry")
  /\ UNCHANGED <<backend, policy, admin, job, lock, faults>>

\* create_subprocess_exec in a session of its own.
Spawn(h) ==
  LET r == host[h].run IN
  /\ host[h].pc = "spawn"
  /\ \/ /\ run' = [run EXCEPT ![r].proc = "alive"]
        /\ host' = Set(h, "record")
     \/ /\ run' = [run EXCEPT ![r] = Closed(@, "failed")]
        /\ host' = Raise(h, "retry")
  /\ UNCHANGED <<backend, policy, admin, job, lock, faults>>

\* on_spawn: process group and start time go into the row.  When that fails
\* the monitor's handler (or the session's close) kills the process.
RecordProcess(h) ==
  LET r == host[h].run IN
  /\ host[h].pc = "record"
  /\ \/ /\ run' = [run EXCEPT ![r].known = TRUE]
        /\ host' = Set(h, "watch")
     \/ /\ run' = [run EXCEPT ![r] = Closed(Killed(@), "failed")]
        /\ host' = Raise(h, "retry")
  /\ UNCHANGED <<backend, policy, admin, job, lock, faults>>

(***************************************************************************)
(* The provider.                                                           *)
(***************************************************************************)

\* The AGY agent (re)writes contracted files.  (A manifest it writes itself is
\* replaced by the hook's.)
AgentWrites(r) ==
  /\ backend = "agy" /\ Alive(r) /\ run[r].ws
  /\ \E f \in {"bad", "good"} :
       run' = [run EXCEPT ![r] = [@ EXCEPT !.files = f, !.manifest =
                 IF run[r].manifest = "none" THEN "none" ELSE "stale"]]
  /\ UNCHANGED <<backend, policy, admin, job, host, lock, faults>>

\* validate: the hook's own check of the artifacts against the sealed inputs.
HookAccepts(x) == x.manifest = "listed" /\ x.files = "good"

\* finalize_manifest: when exactly the contracted files are there, the hook
\* writes their hashes itself.
Finalized(x) ==
  IF x.files = "none" THEN x ELSE [x EXCEPT !.manifest = "listed"]

\* The agent stops and the hook runs: it asks for one repair, counted in a
\* file that a later success removes.
StopHook(r) ==
  LET x  == IF HookAccepts(run[r]) THEN run[r] ELSE Finalized(run[r])
      ok == HookAccepts(x)
  IN
  /\ backend = "agy" /\ Alive(r) /\ run[r].ws
  /\ run' = [run EXCEPT ![r] = [x EXCEPT
               !.repair = ~ok,
               !.proc = IF ~ok /\ ~x.repair THEN "alive" ELSE "ended"]]
  /\ UNCHANGED <<backend, policy, admin, job, host, lock, faults>>

\* The provider process dies or is ended by its own limits.
ProviderExits(r) ==
  /\ Alive(r)
  /\ run' = [run EXCEPT ![r].proc = "broken"]
  /\ UNCHANGED <<backend, policy, admin, job, host, lock, faults>>

(***************************************************************************)
(* The host over the running process.                                      *)
(***************************************************************************)

\* The watch loop ends the process: canceled, or one of the failures.
StopProvider(h, class) ==
  LET r == host[h].run IN
  /\ host[h].pc = "watch" /\ Alive(r)
  /\ class = "canceled" => is_canceled(host[h].job)
  /\ run' = [run EXCEPT ![r] = Closed(Killed(@),
               IF class = "canceled" THEN "canceled" ELSE "failed")]
  /\ host' = Raise(h, class)
  /\ UNCHANGED <<backend, policy, admin, job, lock, faults>>

\* Cancellation noticed by the loop.
\* Mutant of the definition below.
NeverNotice(h) == FALSE /\ StopProvider(h, "canceled")
NoticeCancel(h) == StopProvider(h, "canceled")

ProviderFails(h) == \E class \in FailureClasses : StopProvider(h, class)

\* The process is gone: exit code 0 starts validation, another one is an
\* error of the class its message suggests.
ProviderExited(h) ==
  LET r == host[h].run IN
  /\ host[h].pc = "watch" /\ run[r].proc \in {"ended", "broken"}
  /\ IF run[r].proc = "ended"
     THEN /\ run' = [run EXCEPT ![r].st = "validating"]
          /\ host' = Set(h, "validate")
     ELSE /\ run' = [run EXCEPT ![r] = Closed(@, "failed")]
          /\ \E class \in FailureClasses : host' = Raise(h, class)
  /\ UNCHANGED <<backend, policy, admin, job, lock, faults>>

\* OpenAI Codex: the turn completes with an object; the host normalizes and
\* validates it and writes the artifacts, the manifest last.
TurnCompletes(h) ==
  LET r == host[h].run IN
  /\ backend = "openai_codex" /\ host[h].pc = "watch" /\ Alive(r) /\ run[r].ws
  /\ \/ /\ run' = [run EXCEPT ![r].files = "good"]
        /\ host' = Set(h, "manifest")
     \/ /\ run' = [run EXCEPT ![r] = Closed(Killed(@), "failed")]
        /\ host' = Raise(h, "retry")
  /\ UNCHANGED <<backend, policy, admin, job, lock, faults>>

\* The manifest, then the session is closed and the process with it.
WriteManifest(h) ==
  LET r == host[h].run IN
  /\ host[h].pc = "manifest"
  /\ run' = [run EXCEPT ![r] = [Killed(@) EXCEPT !.manifest = "listed",
                                                 !.st = "validating"]]
  /\ host' = Set(h, "validate")
  /\ UNCHANGED <<backend, policy, admin, job, lock, faults>>

\* validate_output_manifest and the workload's own validators.
ValidateOutput(h) ==
  LET r == host[h].run IN
  /\ host[h].pc = "validate"
  /\ IF Valid(run[r])
     THEN host' = Set(h, "commit") /\ UNCHANGED run
     ELSE /\ run' = [run EXCEPT ![r] = Closed(@, "failed")]
          /\ host' = Raise(h, "retry")
  /\ UNCHANGED <<backend, policy, admin, job, lock, faults>>

\* The commit transactions, then 'completed'.  A database error keeps the
\* artifacts for the next attempt; any other one fails the run.
Commit(h) ==
  LET r == host[h].run  j == host[h].job IN
  /\ host[h].pc = "commit"
  /\ \/ /\ run' = [run EXCEPT ![r].st = "completed"]
        /\ job' = [job EXCEPT ![j].done = @ \cup {run[r].batch}]
        /\ host' = [host EXCEPT ![h] = [@ EXCEPT !.pc = "batch", !.run = 0]]
     \/ /\ run' = [run EXCEPT ![r].st = "validating"]
        /\ host' = Raise(h, "retry") /\ UNCHANGED job
     \/ /\ run' = [run EXCEPT ![r] = Closed(@, "failed")]
        /\ host' = Raise(h, "retry") /\ UNCHANGED job
  /\ UNCHANGED <<backend, policy, admin, lock, faults>>

\* AgyWorkerService.process's handler: canceled, provider wait, unhealthy, or
\* retry until the attempts are used up.
Except(h) ==
  LET j == host[h].job  e == host[h].err IN
  /\ host[h].pc = "except"
  /\ job' = [job EXCEPT ![j] =
       IF e = "canceled" \/ is_canceled(j) THEN mark_canceled(j)
       ELSE IF job[j].st # "running" THEN job[j]
       ELSE [job[j] EXCEPT !.own = Nobody, !.st =
               IF e \in {"wait", "unhealthy"} THEN "waiting_provider"
               ELSE IF e = "retry" /\ job[j].attempts < MaxAttempts THEN "queued"
               ELSE "failed"]]
  /\ host' = [host EXCEPT ![h] = [@ EXCEPT !.pc = "poll", !.job = Nobody, !.err = "none",
                 !.fit = host[h].fit /\ ~(e = "unhealthy" /\ ~is_canceled(j))]]
  /\ UNCHANGED <<backend, policy, admin, lock, run, faults>>

(***************************************************************************)
(* Faults.                                                                 *)
(***************************************************************************)

\* The worker dies: its session closes, its provider process lives on.
Crash(h) ==
  /\ host[h].pc # "down" /\ faults.n < MaxFaults
  /\ host' = [host EXCEPT ![h] = Off]
  /\ lock' = IF lock = h THEN Nobody ELSE lock
  /\ faults' = [faults EXCEPT !.n = @ + 1]
  /\ UNCHANGED <<backend, policy, admin, job, run>>

\* The connection that holds the lock is lost; the worker goes on.
LoseLockSession ==
  /\ lock # Nobody /\ faults.n < MaxFaults
  /\ lock' = Nobody
  /\ faults' = [faults EXCEPT !.n = @ + 1, !.dropped = TRUE]
  /\ UNCHANGED <<backend, policy, admin, job, host, run>>

(***************************************************************************)
(* Specification.                                                          *)
(***************************************************************************)

Web ==
  \/ \E j \in Jobs : Schedule(j) \/ UserCancels(j)
  \/ \E works \in SUBSET Works : UpsertPolicy(works)
  \/ DeletePolicy \/ CancelRevoked \/ AdminLost

Starting(h) ==
  \/ AcquireLock(h) \/ RecoverLeases(h)
  \/ \E r \in RunIds : ReapOrphan(h, r)
  \/ Preflight(h)

Working(h) ==
  \/ Reauthorize(h) \/ \E r \in RunIds : ResumeReadyCommit(h, r)
  \/ SalvageDone(h) \/ StartBatch(h) \/ FinishJob(h) \/ Prepare(h) \/ Spawn(h)
  \/ RecordProcess(h) \/ ProviderExited(h) \/ WriteManifest(h)
  \/ ValidateOutput(h) \/ Commit(h) \/ Except(h) \/ NoticeCancel(h)

Host(h) ==
  \/ Starting(h) \/ Maintain(h) \/ Working(h)
  \/ \E j \in Jobs : Claim(h, j)
  \/ ProviderFails(h) \/ TurnCompletes(h)

Provider ==
  \E r \in RunIds : AgentWrites(r) \/ StopHook(r) \/ ProviderExits(r)

Next ==
  \/ Web \/ Provider \/ LoseLockSession
  \/ \E h \in Hosts : Host(h) \/ Crash(h)

\* The worker's own steps happen (the service manager restarts it too); the
\* provider owes nothing, not even an end.
Spec ==
  /\ Init /\ [][Next]_vars
  /\ \A h \in Hosts : WF_vars(Starting(h)) /\ WF_vars(Working(h))

(***************************************************************************)
(* Properties.                                                             *)
(***************************************************************************)

Statuses == {"none", "queued", "running", "waiting_provider", "canceled",
             "done", "failed"}

JobRow == [st : Statuses, work : Works \cup {Nobody}, cancel : BOOLEAN,
           own : Hosts \cup {Nobody}, attempts : Nat, done : SUBSET Batches]

\* The steps of a worker that has a run open, and of one that has a job.
OpenSteps == {"prepare", "spawn", "record", "watch", "manifest", "validate", "commit"}
JobSteps == OpenSteps \cup {"authorize", "salvage", "batch", "except"}

Worker == [pc : JobSteps \cup {"down", "leases", "reap", "poll"},
           job : Jobs \cup {Nobody}, run : 0..MaxRuns, reap : SUBSET RunIds,
           fit : BOOLEAN, err : {"none", "canceled", "retry", "wait", "unhealthy"}]

RunRow == [st : LIVE_RUNS \cup {"none", "completed", "failed", "canceled", "worker_lost"},
           job : Jobs \cup {Nobody}, batch : Batches \cup {0}, by : Hosts \cup {Nobody},
           proc : {"none", "alive", "ended", "broken"}, known : BOOLEAN,
           files : {"none", "bad", "good"}, manifest : {"none", "stale", "listed"},
           repair : BOOLEAN, ws : BOOLEAN]

\* The state has its type: rows of jobs, runs and workers.
TypeOK ==
  /\ backend \in Backends
  /\ policy \in [works : SUBSET Works, version : Nat]
  /\ admin \subseteq Works
  /\ job \in [Jobs -> JobRow]
  /\ host \in [Hosts -> Worker]
  /\ lock \in Hosts \cup {Nobody}
  /\ run \in [RunIds -> RunRow]
  /\ faults \in [n : Nat, dropped : BOOLEAN, change : Nat]

\* One subscription, one provider process: two are alive at once only after a
\* worker lost its lock session, or when a worker died in the moment between
\* starting a process and writing its identity into the run row (such a
\* process cannot be verified, so reaping leaves it alone).
OneProviderProcess ==
  \A r, q \in RunIds :
    r # q /\ Alive(r) /\ Alive(q) =>
      \/ faults.dropped
      \/ \E p \in {r, q} : ~run[p].known /\ ~Supervised(p)

\* Work a worker left complete is never sent to the provider again: while an
\* acceptable, uncommitted output of a batch is kept in 'validating', no
\* process runs for that batch of the job.
SalvagedIsNotRerun ==
  \A r, q \in RunIds :
    Alive(r) /\ run[q].st = "validating" /\ Valid(run[q])
    /\ run[q].job = run[r].job /\ run[q].batch = run[r].batch
      => faults.dropped \/ ~Supervised(r)

\* Canceling a job (by its user or by the revocation of the grant) stops its
\* provider process even when the provider would run for ever, and across a
\* crash of the worker; only an unrecorded orphan escapes.
CancelStopsTheProvider ==
  \A j \in Jobs, r \in RunIds :
    (is_canceled(j) /\ run[r].job = j /\ Alive(r))
      ~> (~Alive(r) \/ faults.dropped \/ (~run[r].known /\ ~Supervised(r)))

=============================================================================
