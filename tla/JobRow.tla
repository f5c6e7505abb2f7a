------------------------------- MODULE JobRow -------------------------------
(***************************************************************************)
(* One row of the table `jobs`, and the SQL statements that change it.     *)
(*                                                                         *)
(* Every statement of the Work module is an operator from a row to a row,  *)
(* named after the function that issues it, next to the WHERE clause that  *)
(* guards it.  A statement is atomic: PostgreSQL runs each of them in a    *)
(* transaction of its own.  What happens between two of them is the        *)
(* subject of WorkJobs.                                                    *)
(*                                                                         *)
(* Columns that never change after the INSERT (kind, idempotency key, the  *)
(* reserved units) are looked up in Request; the others are fields of Row. *)
(*   lease     claimed_at: "none" is NULL, "expired" is older than the     *)
(*             lease timeout, "fresh" is anything younger                  *)
(*   cancel    cancel_requested_at IS NOT NULL                             *)
(*   due       not_before IS NULL OR not_before <= now()                   *)
(* The subscription backends 'agy' and 'openai_codex' are treated alike by *)
(* every statement: both are "sub".                                        *)
(***************************************************************************)
EXTENDS Integers

CONSTANTS
  Jobs,            \* ids of the jobs that may be scheduled
  Workers,         \* worker processes
  NoWorker,        \* claim_token IS NULL
  Keys,            \* idempotency keys
  Request,         \* Request[j]: the command that schedules job j
  ApiMaxAttempts,  \* settings.JOB_MAX_ATTEMPTS
  SubMaxAttempts   \* the subscription backends' own max_attempts

Kinds == {"translate", "codex_build", "scrape"}
Backends == {"api", "sub"}
TRIGGER_STATUSES == {"queued"}
ACTIVE_STATUSES == {"queued", "running", "waiting_provider"}
TERMINAL_STATUSES == {"done", "failed", "canceled"}

(* A scheduling command: units is what it reserves before the INSERT.      *)
RequestType ==
  [kind : Kinds, key : Keys, backend : Backends, units : Nat, fallback : BOOLEAN]

ASSUME RequestAssumption == Request \in [Jobs -> RequestType]
ASSUME WorkerAssumption == NoWorker \notin Workers
ASSUME AttemptsAssumption ==
  /\ ApiMaxAttempts \in Nat \ {0}
  /\ SubMaxAttempts \in Nat \ {0}

Row ==
  [status    : {"absent"} \cup ACTIVE_STATUSES \cup TERMINAL_STATUSES,
   backend   : Backends,
   attempts  : Nat,
   max       : Nat,
   claim     : Workers \cup {NoWorker},
   lease     : {"none", "fresh", "expired"},
   cancel    : BOOLEAN,
   due       : BOOLEAN,
   fallback  : BOOLEAN,
   consumed  : Nat,
   finalized : BOOLEAN]

Reserved(j) == Request[j].units

(* The row create_job inserts; before the INSERT its status is "absent".   *)
InsertedRow(j) ==
  [status    |-> "queued",
   backend   |-> Request[j].backend,
   attempts  |-> 0,
   max       |-> IF Request[j].backend = "sub" THEN SubMaxAttempts ELSE ApiMaxAttempts,
   claim     |-> NoWorker,
   lease     |-> "none",
   cancel    |-> FALSE,
   due       |-> TRUE,
   fallback  |-> Request[j].fallback,
   consumed  |-> 0,
   finalized |-> FALSE]

AbsentRow(j) == [InsertedRow(j) EXCEPT !.status = "absent"]

Active(r) == r.status \in ACTIVE_STATUSES
Terminal(r) == r.status \in TERMINAL_STATUSES

(* status = s, claim_token = NULL, claimed_at = NULL                       *)
Unclaimed(r, s) == [r EXCEPT !.status = s, !.claim = NoWorker, !.lease = "none"]

-----------------------------------------------------------------------------
(* claims.py: the sub-select and the UPDATE of claim_next.                 *)
Claimable(r, backend) ==
  /\ r.status \in TRIGGER_STATUSES
  /\ r.backend = backend
  /\ r.due
  /\ ~r.cancel

claim_next(r, w) ==
  [r EXCEPT !.status = "running", !.attempts = @ + 1, !.claim = w, !.lease = "fresh"]

(* A job a live subscription child works on keeps its claim and its status *)
(* until the child is gone; any other active job is canceled on the spot.  *)
cancel_job(r) ==
  IF r.status = "running" /\ r.backend = "sub"
    THEN [r EXCEPT !.cancel = TRUE]
    ELSE [Unclaimed(r, "canceled") EXCEPT !.cancel = TRUE]

is_canceled(r) == r.status = "canceled" \/ r.cancel

CanMarkCanceled(r) == r.status = "running" /\ r.cancel
mark_canceled_if_running(r) == Unclaimed(r, "canceled")

(* Mutant: the UPDATE has lost its status guard. *)
CanMarkDoneAlways(r) == r.status \in ACTIVE_STATUSES \cup TERMINAL_STATUSES
CanMarkDone(r) == r.status = "running"
mark_done_if_running(r) == Unclaimed(r, "done")

(* Retry with a back-off (not_before in the future) while attempts remain. *)
CanFailOrRetry(r) == r.status = "running"
fail_or_retry(r) ==
  IF r.attempts >= r.max
    THEN [Unclaimed(r, "failed") EXCEPT !.due = TRUE]
    ELSE [Unclaimed(r, "queued") EXCEPT !.due = FALSE]

CanWait(r) == r.status = "running"
wait_for_provider(r) == [Unclaimed(r, "waiting_provider") EXCEPT !.due = FALSE]

CanRetryWaiting(r) == r.status = "waiting_provider"
retry_waiting(r) == [r EXCEPT !.status = "queued", !.due = TRUE]

CanReleaseWait(r) == r.status = "waiting_provider" /\ r.due
release_due_provider_wait(r) == [r EXCEPT !.status = "queued"]

(* Mutant: the switch reopens the settled quota. *)
FallbackReopensQuota(r) ==
  [Unclaimed(r, "queued") EXCEPT !.backend = "api", !.fallback = FALSE, !.attempts = 0,
                                 !.max = ApiMaxAttempts, !.due = TRUE, !.cancel = FALSE,
                                 !.finalized = FALSE]
CanFallback(r) == r.status = "running"
fallback_to_api(r) ==
  [Unclaimed(r, "queued") EXCEPT !.backend = "api", !.fallback = FALSE, !.attempts = 0,
                                 !.max = ApiMaxAttempts, !.due = TRUE, !.cancel = FALSE]

CanRenewLease(r, w) == r.status = "running" /\ r.claim = w
renew_lease(r) == [r EXCEPT !.lease = "fresh"]

-----------------------------------------------------------------------------
(* Lease recovery: the row a sweep reads decides which of three statements *)
(* it issues; each statement checks the lease again, and only the cancel   *)
(* statement checks cancel_requested_at again.                             *)

(* Mutant: no job that has a lease looks orphaned. *)
StaleWithoutLeaseOnly(r) == r.status = "running" /\ r.lease = "none"
StaleLease(r) == r.status = "running" /\ r.lease # "fresh"

RecoveryActions == {"cancel", "fail", "requeue"}

RecoveryAction(r) ==
  CASE r.cancel -> "cancel"
    [] ~r.cancel /\ r.attempts >= r.max -> "fail"
    [] OTHER -> "requeue"

CanRecover(r, action) == StaleLease(r) /\ (action = "cancel" => r.cancel)

recover_stale_lease(r, action) ==
  Unclaimed(r, CASE action = "cancel" -> "canceled"
                 [] action = "fail" -> "failed"
                 [] OTHER -> "queued")

-----------------------------------------------------------------------------
(* Quota columns.  A subscription translation pays chapter by chapter as   *)
(* they commit; every other job pays its whole reservation on success.     *)
PaysPerChapter(j, r) == r.backend = "sub" /\ Request[j].kind = "translate"

(* Mutant: settles a settled row again.                                   *)
CanFinalizeAgain(r) == r.status # "absent"
CanFinalize(r) == ~r.finalized
finalize_quota(j, r, success) ==
  [r EXCEPT !.finalized = TRUE,
            !.consumed = IF success /\ ~PaysPerChapter(j, r) THEN Reserved(j) ELSE @]

(* refundable_units of the settlement, read from the row it returns        *)
Refundable(j, r) == IF Reserved(j) >= r.consumed THEN Reserved(j) - r.consumed ELSE 0

(* Mutant: a settled reservation can still be drawn on. *)
CanConsumeSettled(j, r) == r.consumed + 1 <= Reserved(j)
CanConsume(j, r) == ~r.finalized /\ r.consumed + 1 <= Reserved(j)
increment_quota_consumed(r) == [r EXCEPT !.consumed = @ + 1]

=============================================================================
