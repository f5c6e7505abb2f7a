--------------------------- MODULE WorkJobs_proofs --------------------------
(***************************************************************************)
(* Theorems about WorkJobs, for any set of jobs, workers and requests, any *)
(* limits and any number of faults: types first, then what a step may do   *)
(* to the table and the safety theorems that follow from it.               *)
(*                                                                         *)
(* The table changes in four ways only: rows move along their lifecycle    *)
(* without touching their quota columns, one row is inserted, one row      *)
(* consumes a unit, or one row is settled (TableStep).  To know that an    *)
(* INSERT meets a fresh id and a settlement an existing row, the invariant *)
(* has to follow what workers and requests keep in memory (Known, Unborn). *)
(* The ledger comes last: what it shows is what jobs and requests are      *)
(* charged, unit by unit (LedgerBalance).                                  *)
(***************************************************************************)
EXTENDS WorkJobs, FiniteSetTheorems, TLAPS

(* Every statement of JobRow maps a row to a row.                          *)
LEMMA RowOperators ==
  ASSUME NEW j \in Jobs, NEW r \in Row
  PROVE  /\ InsertedRow(j) \in Row
         /\ AbsentRow(j) \in Row
         /\ \A w \in Workers : claim_next(r, w) \in Row
         /\ cancel_job(r) \in Row
         /\ mark_canceled_if_running(r) \in Row
         /\ mark_done_if_running(r) \in Row
         /\ fail_or_retry(r) \in Row
         /\ wait_for_provider(r) \in Row
         /\ retry_waiting(r) \in Row
         /\ release_due_provider_wait(r) \in Row
         /\ fallback_to_api(r) \in Row
         /\ renew_lease(r) \in Row
         /\ \A a \in RecoveryActions : recover_stale_lease(r, a) \in Row
         /\ \A b \in BOOLEAN : finalize_quota(j, r, b) \in Row
         /\ increment_quota_consumed(r) \in Row
         /\ Reserved(j) \in Nat
         /\ RecoveryAction(r) \in RecoveryActions
<1>0. /\ Reserved(j) \in Nat
      /\ Request[j].backend \in Backends
      /\ Request[j].fallback \in BOOLEAN
  BY RequestAssumption DEF RequestType, Reserved
<1>1. InsertedRow(j) \in Row
  BY <1>0, AttemptsAssumption DEF InsertedRow, Row, Backends, ACTIVE_STATUSES
<1>2. AbsentRow(j) \in Row
  BY <1>1 DEF AbsentRow, Row
<1>3. \A s \in ACTIVE_STATUSES \cup TERMINAL_STATUSES : Unclaimed(r, s) \in Row
  BY DEF Unclaimed, Row
<1>4. ASSUME NEW w \in Workers PROVE claim_next(r, w) \in Row
  <2>1. r.attempts + 1 \in Nat
    BY DEF Row
  <2> QED
    BY <2>1 DEF Row, claim_next, ACTIVE_STATUSES
<1>5. renew_lease(r) \in Row
  BY DEF Row, renew_lease
<1>6. /\ retry_waiting(r) \in Row
      /\ release_due_provider_wait(r) \in Row
  BY DEF Row, retry_waiting, release_due_provider_wait, ACTIVE_STATUSES
<1>7. increment_quota_consumed(r) \in Row
  BY DEF Row, increment_quota_consumed
<1>8. cancel_job(r) \in Row
  BY <1>3 DEF cancel_job, Row, Unclaimed, TERMINAL_STATUSES
<1>9. /\ mark_canceled_if_running(r) \in Row
      /\ mark_done_if_running(r) \in Row
  BY <1>3 DEF mark_canceled_if_running, mark_done_if_running, TERMINAL_STATUSES
<1>10. /\ fail_or_retry(r) \in Row
       /\ wait_for_provider(r) \in Row
  BY <1>3 DEF fail_or_retry, wait_for_provider, Row, Unclaimed, TERMINAL_STATUSES,
              ACTIVE_STATUSES
<1>11. fallback_to_api(r) \in Row
  BY <1>3, AttemptsAssumption
  DEF fallback_to_api, Row, Unclaimed, ACTIVE_STATUSES, Backends
<1>12. ASSUME NEW a \in RecoveryActions PROVE recover_stale_lease(r, a) \in Row
  BY <1>3 DEF recover_stale_lease, ACTIVE_STATUSES, TERMINAL_STATUSES, RecoveryActions
<1>13. ASSUME NEW b \in BOOLEAN PROVE finalize_quota(j, r, b) \in Row
  BY <1>0 DEF finalize_quota, Row
<1>14. RecoveryAction(r) \in RecoveryActions
  BY DEF RecoveryAction, RecoveryActions
<1> QED
  BY <1>0, <1>1, <1>2, <1>4, <1>5, <1>6, <1>7, <1>8, <1>9, <1>10, <1>11, <1>12,
     <1>13, <1>14

-----------------------------------------------------------------------------
(* Type correctness.  A worker or a request away from its resting places   *)
(* holds on to a job; without that a step of its could not be typed.       *)

RestingPlaces == {"idle", "sweep", "sweep_settle", "sick"}

JobAtHand ==
  /\ \A w \in Workers : wk[w].pc \notin RestingPlaces => wk[w].job \in Jobs
  /\ \A c \in Clients : web[c].pc # "idle" => web[c].job \in Jobs

TypeInv == TypeOK /\ JobAtHand

LEMMA QuotaKindType == ASSUME NEW j \in Jobs PROVE QuotaKind(j) \in QuotaKinds
  BY DEF QuotaKind, QuotaKinds

LEMMA ReservedType == ASSUME NEW j \in Jobs PROVE Reserved(j) \in Nat
  BY RequestAssumption DEF RequestType, Reserved

LEMMA RefundType ==
  ASSUME used \in [QuotaKinds -> Nat], NEW q \in QuotaKinds, NEW u \in Nat, Refund(q, u)
  PROVE  used' \in [QuotaKinds -> Nat]
<1>1. used[q] \in Nat
  OBVIOUS
<1>2. used[q] - (IF u <= used[q] THEN u ELSE used[q]) \in Nat
  BY <1>1
<1> QED
  BY <1>2 DEF Refund

LEMMA FinalizeType ==
  ASSUME TypeOK, NEW j \in Jobs, NEW b \in BOOLEAN, Finalize(j, b)
  PROVE  /\ jobs' \in [Jobs -> Row]
         /\ used' \in [QuotaKinds -> Nat]
         /\ refunded' \in [Jobs -> Nat]
<1> DEFINE row == finalize_quota(j, jobs[j], b)
<1>1. jobs[j] \in Row /\ refunded[j] \in Nat
  BY DEF TypeOK
<1>2. row \in Row /\ Reserved(j) \in Nat
  BY <1>1, RowOperators
<1>3. Refundable(j, row) \in Nat
  <2>1. row.consumed \in Nat
    BY <1>2 DEF Row
  <2> QED
    BY <1>2, <2>1 DEF Refundable
<1>4. CASE CanFinalize(jobs[j])
  <2>1. /\ jobs' = [jobs EXCEPT ![j] = row]
        /\ Refund(QuotaKind(j), Refundable(j, row))
        /\ refunded' = [refunded EXCEPT ![j] = @ + Refundable(j, row)]
    BY <1>4 DEF Finalize, Write
  <2>2. used' \in [QuotaKinds -> Nat]
    BY <2>1, <1>3, RefundType, QuotaKindType DEF TypeOK
  <2>3. refunded' \in [Jobs -> Nat]
    BY <2>1, <1>3, <1>1 DEF TypeOK
  <2> QED
    BY <2>1, <2>2, <2>3, <1>2 DEF TypeOK
<1>5. CASE ~CanFinalize(jobs[j])
  BY <1>5 DEF Finalize, TypeOK
<1> QED
  BY <1>4, <1>5

(* A worker that moves on keeps its job; one that goes idle drops it.      *)
LEMMA GotoType ==
  ASSUME TypeInv, NEW w \in Workers, NEW pc \in WorkerPlaces, Goto(w, pc),
         wk[w].pc \notin RestingPlaces
  PROVE  /\ wk' \in [Workers -> WorkerState]
         /\ \A v \in Workers : wk'[v].pc \notin RestingPlaces => wk'[v].job \in Jobs
  BY DEF TypeInv, TypeOK, JobAtHand, Goto, WorkerState

LEMMA SweepTypes ==
  ASSUME NEW x \in WorkerState, NEW pc \in WorkerPlaces
  PROVE  /\ \A settle \in SUBSET Jobs :
              [x EXCEPT !.settle = settle, !.pc = pc] \in WorkerState
         /\ \A todo \in SUBSET (Jobs \X RecoveryActions) :
              [x EXCEPT !.pc = pc, !.todo = todo] \in WorkerState
         /\ \A y : [x EXCEPT !.settle = y, !.pc = pc].pc = pc
         /\ \A y : [x EXCEPT !.pc = pc, !.todo = y].pc = pc
BY DEF WorkerState

LEMMA UpdateType ==
  ASSUME TypeInv, NEW w \in Workers, NEW s \in WorkerState, wk' = [wk EXCEPT ![w] = s],
         s.pc \notin RestingPlaces => s.job \in Jobs
  PROVE  /\ wk' \in [Workers -> WorkerState]
         /\ \A v \in Workers : wk'[v].pc \notin RestingPlaces => wk'[v].job \in Jobs
  BY DEF TypeInv, TypeOK, JobAtHand

LEMMA GoIdleType ==
  ASSUME TypeInv, NEW w \in Workers, GoIdle(w)
  PROVE  /\ wk' \in [Workers -> WorkerState]
         /\ \A v \in Workers : wk'[v].pc \notin RestingPlaces => wk'[v].job \in Jobs
  BY DEF TypeInv, TypeOK, JobAtHand, GoIdle, WorkerState, IdleWorker, WorkerPlaces, RestingPlaces

LEMMA GoIdleWebType ==
  ASSUME TypeInv, NEW c \in Clients, web' = [web EXCEPT ![c] = IdleWeb]
  PROVE  /\ web' \in [Clients -> WebState]
         /\ \A d \in Clients : web'[d].pc # "idle" => web'[d].job \in Jobs
  BY DEF TypeInv, TypeOK, JobAtHand, WebState, IdleWeb, WebPlaces

LEMMA WriteType ==
  ASSUME TypeOK, NEW j, NEW r \in Row, Write(j, r)
  PROVE  jobs' \in [Jobs -> Row]
  BY DEF TypeOK, Write

(* The steps of the web processes *)
LEMMA WebTypeStep ==
  ASSUME TypeInv, NEW c \in Clients, WebNext(c)
  PROVE  TypeInv'
<1> USE DEF TypeInv
<1>0. \A j \in Jobs : /\ jobs[j] \in Row
                      /\ Reserved(j) \in Nat
                      /\ QuotaKind(j) \in QuotaKinds
                      /\ used[QuotaKind(j)] + Reserved(j) \in Nat
                      /\ lost[QuotaKind(j)] + Reserved(j) \in Nat
  <2> TAKE j \in Jobs
  <2>1. Reserved(j) \in Nat /\ QuotaKind(j) \in QuotaKinds
    BY ReservedType, QuotaKindType
  <2>2. used[QuotaKind(j)] \in Nat /\ lost[QuotaKind(j)] \in Nat
    BY <2>1 DEF TypeOK
  <2> QED
    BY <2>1, <2>2 DEF TypeOK
<1>1. ASSUME NEW j \in Jobs, Reserve(c, j) PROVE TypeInv'
  BY <1>0, <1>1 DEF Reserve, TypeOK, JobAtHand, WebState, WebPlaces
<1>2. ASSUME NEW j \in Jobs, Cancel(c, j) PROVE TypeInv'
  <2>1. jobs' \in [Jobs -> Row]
    BY <1>0, <1>2, RowOperators, WriteType DEF Cancel
  <2> QED
    BY <2>1, <1>2 DEF Cancel, TypeOK, JobAtHand, WebState, WebPlaces
<1>3. CASE Create(c)
  <2>1. web[c].job \in Jobs
    BY <1>3 DEF Create, JobAtHand
  <2>2. jobs' \in [Jobs -> Row]
    BY <1>0, <1>3, <2>1, RowOperators, WriteType DEF Create
  <2> QED
    BY <2>2, <1>3, GoIdleWebType DEF Create, TypeOK, JobAtHand
<1>4. CASE CreateRefused(c)
  BY <1>4 DEF CreateRefused, TypeOK, JobAtHand, WebState, WebPlaces
<1>5. CASE RefundReservation(c)
  <2>1. web[c].job \in Jobs
    BY <1>5 DEF RefundReservation, JobAtHand
  <2>2. used' \in [QuotaKinds -> Nat]
    BY <1>0, <1>5, <2>1, RefundType DEF RefundReservation, TypeOK
  <2> QED
    BY <2>2, <1>5, GoIdleWebType DEF RefundReservation, TypeOK, JobAtHand
<1>6. CASE CancelSettle(c)
  <2>1. web[c].job \in Jobs
    BY <1>6 DEF CancelSettle, JobAtHand
  <2>2. /\ jobs' \in [Jobs -> Row]
        /\ used' \in [QuotaKinds -> Nat]
        /\ refunded' \in [Jobs -> Nat]
    BY <1>6, <2>1, FinalizeType DEF CancelSettle
  <2> QED
    BY <2>2, <1>6, GoIdleWebType DEF CancelSettle, TypeOK, JobAtHand
<1>7. CASE WebCrash(c)
  <2>1. web[c].job \in Jobs
    BY <1>7 DEF WebCrash, JobAtHand
  <2>2. lost' \in [QuotaKinds -> Nat]
    BY <1>0, <1>7, <2>1 DEF WebCrash, TypeOK
  <2>3. faults' \in Nat
    BY <1>7 DEF WebCrash, Spend, TypeOK
  <2> QED
    BY <2>2, <2>3, <1>7, GoIdleWebType DEF WebCrash, TypeOK, JobAtHand
<1> QED
  BY <1>1, <1>2, <1>3, <1>4, <1>5, <1>6, <1>7 DEF WebNext

(* Time, the lease clock and the administrator *)
LEMMA TimeTypeStep ==
  ASSUME TypeInv, NEW j \in Jobs, TimeNext(j)
  PROVE  TypeInv'
<1>0. jobs[j] \in Row
  BY DEF TypeInv, TypeOK
<1>1. CASE ComesDue(j)
  BY <1>0, <1>1 DEF ComesDue, TypeInv, TypeOK, JobAtHand, Row
<1>2. CASE LeaseExpires(j)
  BY <1>0, <1>2 DEF LeaseExpires, TypeInv, TypeOK, JobAtHand, Row
<1>3. CASE Stall(j)
  BY <1>0, <1>3 DEF Stall, Spend, TypeInv, TypeOK, JobAtHand, Row
<1>4. CASE RetryWaiting(j)
  <2>1. jobs' \in [Jobs -> Row]
    BY <1>0, <1>4, RowOperators, WriteType DEF RetryWaiting, TypeInv
  <2> QED
    BY <2>1, <1>4 DEF RetryWaiting, TypeInv, TypeOK, JobAtHand
<1> QED
  BY <1>1, <1>2, <1>3, <1>4 DEF TimeNext

(* The steps of a worker.  Most leave the memory of the worker typed by    *)
(* GotoType or GoIdleType, and write at most the row of its own job.       *)
LEMMA WorkerTypeStep ==
  ASSUME TypeInv, NEW w \in Workers, WorkerNext(w)
  PROVE  TypeInv'
<1> DEFINE JobTyped == jobs' \in [Jobs -> Row]
           WkTyped == /\ wk' \in [Workers -> WorkerState]
                      /\ \A v \in Workers : wk'[v].pc \notin RestingPlaces => wk'[v].job \in Jobs
           LedgerTyped == used' \in [QuotaKinds -> Nat] /\ refunded' \in [Jobs -> Nat]
           Rest == /\ UNCHANGED <<web, lost>>
                   /\ faults' \in Nat
<1> USE DEF TypeInv
<1>0. ASSUME JobTyped, WkTyped, LedgerTyped, Rest PROVE TypeInv'
  BY <1>0 DEF TypeOK, JobAtHand
<1> HIDE DEF JobTyped, WkTyped, LedgerTyped, Rest
<1>row. \A j \in Jobs : jobs[j] \in Row
  BY DEF TypeOK
<1>same. UNCHANGED jobs => JobTyped
  BY DEF JobTyped, TypeOK
<1>write. \A j \in Jobs : \A r \in Row : Write(j, r) => JobTyped
  BY WriteType DEF JobTyped
<1>ledger. UNCHANGED <<used, refunded>> => LedgerTyped
  BY DEF LedgerTyped, TypeOK
<1>fin. \A j \in Jobs : \A b \in BOOLEAN : Finalize(j, b) => JobTyped /\ LedgerTyped
  BY FinalizeType DEF JobTyped, LedgerTyped
<1>goto. \A pc \in WorkerPlaces : Goto(w, pc) /\ wk[w].pc \notin RestingPlaces => WkTyped
  BY GotoType DEF WkTyped
<1>idle. GoIdle(w) => WkTyped
  BY GoIdleType DEF WkTyped
<1>wk. UNCHANGED wk => WkTyped
  BY DEF WkTyped, TypeOK, JobAtHand
<1>rest. UNCHANGED <<web, lost, faults>> => Rest
  BY DEF Rest, TypeOK
<1>spend. ASSUME NEW kind, Spend(kind), UNCHANGED <<web, lost>> PROVE Rest
  BY <1>spend DEF Rest, Spend, TypeOK
<1>hand. wk[w].pc \notin RestingPlaces => wk[w].job \in Jobs /\ jobs[wk[w].job] \in Row
  BY <1>row DEF JobAtHand
<1>1. ASSUME NEW j \in Jobs, Claim(w, j) PROVE TypeInv'
  <2>1. JobTyped
    BY <1>1, <1>row, <1>write, RowOperators DEF Claim
  <2>2. wk'[w] \in WorkerState /\ wk'[w].job \in Jobs
    BY <1>1 DEF Claim, IdleWorker, TypeOK, WorkerState, WorkerPlaces
  <2>3. WkTyped
    BY <2>2, <1>1 DEF Claim, WkTyped, TypeOK, JobAtHand
  <2> QED
    BY <2>1, <2>3, <1>1, <1>0, <1>ledger, <1>rest DEF Claim
<1>2. CASE SweepStep(w)
  <2>1. PICK t \in wk[w].todo :
          /\ jobs' = IF CanRecover(jobs[t[1]], t[2])
                       THEN [jobs EXCEPT ![t[1]] = recover_stale_lease(@, t[2])] ELSE jobs
          /\ wk' = [wk EXCEPT ![w].todo = @ \ {t},
                      ![w].settle = IF CanRecover(jobs[t[1]], t[2]) /\ t[2] # "requeue"
                                      THEN @ \cup {t[1]} ELSE @]
    BY <1>2 DEF SweepStep
  <2>2. t[1] \in Jobs /\ t[2] \in RecoveryActions
    BY DEF TypeOK, WorkerState
  <2>3. recover_stale_lease(jobs[t[1]], t[2]) \in Row
    BY <2>2, <1>row, RowOperators
  <2>4. JobTyped
    BY <2>1, <2>2, <2>3 DEF JobTyped, TypeOK
  <2> DEFINE s == [wk[w] EXCEPT !.todo = @ \ {t},
                                !.settle = IF CanRecover(jobs[t[1]], t[2]) /\ t[2] # "requeue"
                                             THEN @ \cup {t[1]} ELSE @]
  <2>5. s \in WorkerState /\ s.pc = wk[w].pc
    BY <2>2 DEF TypeOK, WorkerState
  <2>6. wk' = [wk EXCEPT ![w] = s]
    BY <2>1 DEF TypeOK
  <2>7. s.pc \in RestingPlaces
    BY <2>5, <1>2 DEF SweepStep, RestingPlaces
  <2> HIDE DEF s
  <2>8. WkTyped
    BY <2>5, <2>6, <2>7, UpdateType DEF WkTyped
  <2> QED
    BY <2>4, <2>8, <1>2, <1>0, <1>ledger, <1>rest DEF SweepStep
<1>3. CASE SweepDone(w)
  <2>1. WkTyped
    BY <1>3 DEF SweepDone, Goto, WkTyped, TypeOK, JobAtHand, WorkerState, WorkerPlaces, RestingPlaces
  <2> QED
    BY <2>1, <1>3, <1>0, <1>same, <1>ledger, <1>rest DEF SweepDone
<1>4. CASE SweepSettle(w)
  <2>1. PICK j \in wk[w].settle :
          /\ Finalize(j, FALSE)
          /\ wk' = [wk EXCEPT ![w].settle = @ \ {j},
                               ![w].pc = IF wk[w].settle = {j} THEN "idle" ELSE @]
    BY <1>4 DEF SweepSettle
  <2>2. j \in Jobs
    BY DEF TypeOK, WorkerState
  <2> DEFINE s == [wk[w] EXCEPT !.settle = @ \ {j},
                                !.pc = IF wk[w].settle = {j} THEN "idle" ELSE @]
  <2>5. s \in WorkerState /\ s.pc \in {"idle", wk[w].pc}
    <3> DEFINE pc == IF wk[w].settle = {j} THEN "idle" ELSE wk[w].pc
               rest == wk[w].settle \ {j}
    <3>1. wk[w] \in WorkerState /\ pc \in WorkerPlaces /\ rest \in SUBSET Jobs
      BY DEF TypeOK, WorkerState, WorkerPlaces
    <3>2. pc \in {"idle", wk[w].pc}
      OBVIOUS
    <3>3. s = [wk[w] EXCEPT !.settle = rest, !.pc = pc]
      OBVIOUS
    <3> HIDE DEF s, pc, rest
    <3>4. /\ [wk[w] EXCEPT !.settle = rest, !.pc = pc] \in WorkerState
          /\ [wk[w] EXCEPT !.settle = rest, !.pc = pc].pc = pc
      BY <3>1, SweepTypes, Zenon
    <3> QED
      BY <3>2, <3>3, <3>4, Zenon
  <2>6. wk' = [wk EXCEPT ![w] = s]
    BY <2>1 DEF TypeOK
  <2>7. s.pc \in RestingPlaces
    BY <2>5, <1>4 DEF SweepSettle, RestingPlaces
  <2> HIDE DEF s
  <2>3. WkTyped
    BY <2>5, <2>6, <2>7, UpdateType DEF WkTyped
  <2> QED
    BY <2>1, <2>2, <2>3, <1>4, <1>0, <1>fin, <1>rest DEF SweepSettle
<1>5. CASE Reauthorize(w)
  BY <1>5, <1>0, <1>goto, <1>same, <1>ledger, <1>rest
  DEF Reauthorize, WorkerPlaces, RestingPlaces
<1>6. CASE Revoke(w)
  <2>1. wk[w].pc \notin RestingPlaces
    BY <1>6 DEF Revoke, RestingPlaces
  <2>2. JobTyped
    BY <2>1, <1>6, <1>hand, <1>write, <1>same, RowOperators DEF Revoke
  <2>3. WkTyped
    BY <2>1, <1>6, <1>goto DEF Revoke, WorkerPlaces
  <2> QED
    BY <2>2, <2>3, <1>6, <1>0, <1>ledger, <1>rest DEF Revoke
<1>7. CASE Checkpoint(w)
  BY <1>7, <1>0, <1>goto, <1>same, <1>ledger, <1>rest DEF Checkpoint, WorkerPlaces, RestingPlaces
<1>8. CASE CommitChapter(w)
  <2>1. JobTyped
    BY <1>8, <1>hand, <1>write, RowOperators DEF CommitChapter, RestingPlaces
  <2> QED
    BY <2>1, <1>8, <1>0, <1>wk, <1>ledger, <1>rest DEF CommitChapter
<1>9. CASE HandlerReturns(w)
  BY <1>9, <1>0, <1>goto, <1>same, <1>ledger, <1>rest
  DEF HandlerReturns, WorkerPlaces, RestingPlaces
<1>10. CASE HandlerRaises(w)
  BY <1>10, <1>0, <1>goto, <1>same, <1>ledger, <1>rest
  DEF HandlerRaises, WorkerPlaces, RestingPlaces
<1>11. CASE MarkDone(w)
  <2>1. wk[w].pc \notin RestingPlaces
    BY <1>11 DEF MarkDone, RestingPlaces
  <2>2. JobTyped
    BY <2>1, <1>11, <1>hand, <1>write, <1>same, RowOperators DEF MarkDone
  <2>3. WkTyped
    BY <2>1, <1>11, <1>goto DEF MarkDone, WorkerPlaces
  <2> QED
    BY <2>2, <2>3, <1>11, <1>0, <1>ledger, <1>rest DEF MarkDone
<1>12. CASE MarkCanceled(w)
  <2>1. wk[w].pc \notin RestingPlaces
    BY <1>12 DEF MarkCanceled, RestingPlaces
  <2>2. JobTyped
    BY <2>1, <1>12, <1>hand, <1>write, <1>same, RowOperators DEF MarkCanceled
  <2>3. WkTyped
    BY <2>1, <1>12, <1>goto, <1>idle DEF MarkCanceled, WorkerPlaces
  <2> QED
    BY <2>2, <2>3, <1>12, <1>0, <1>ledger, <1>rest DEF MarkCanceled
<1>13. CASE Settle(w)
  <2>1. wk[w].pc \notin RestingPlaces
    BY <1>13 DEF Settle, RestingPlaces
  <2>2. (wk[w].pc = "settle_done") \in BOOLEAN
    OBVIOUS
  <2> QED
    BY <2>1, <2>2, <1>13, <1>hand, <1>fin, <1>0, <1>idle, <1>rest DEF Settle
<1>14. CASE SettleFails(w)
  <2>1. WkTyped
    BY <1>14, <1>idle, <1>goto DEF SettleFails, WorkerPlaces, RestingPlaces
  <2> QED
    BY <2>1, <1>14, <1>0, <1>same, <1>ledger, <1>spend DEF SettleFails
<1>15. CASE Caught(w)
  BY <1>15, <1>0, <1>goto, <1>same, <1>ledger, <1>rest DEF Caught, WorkerPlaces, RestingPlaces
<1>16. CASE Park(w)
  <2>1. wk[w].job \in Jobs /\ jobs[wk[w].job] \in Row
    BY <1>16, <1>hand DEF Park, RestingPlaces
  <2>2. wait_for_provider(jobs[wk[w].job]) \in Row
    BY <2>1, RowOperators
  <2>3. JobTyped
    BY <2>1, <2>2, <1>16 DEF Park, JobTyped, TypeOK
  <2>4. wk'[w] \in WorkerState /\ wk'[w].pc \in RestingPlaces
    BY <1>16 DEF Park, IdleWorker, TypeOK, WorkerState, WorkerPlaces, RestingPlaces
  <2>5. WkTyped
    BY <2>4, <1>16 DEF Park, WkTyped, TypeOK, JobAtHand
  <2> QED
    BY <2>3, <2>5, <1>16, <1>0, <1>ledger, <1>rest DEF Park
<1>17. CASE Preflight(w)
  BY <1>17, <1>0, <1>idle, <1>same, <1>ledger, <1>rest DEF Preflight
<1>18. CASE ReleaseReservation(w)
  BY <1>18, <1>hand, <1>fin, <1>goto, <1>0, <1>rest
  DEF ReleaseReservation, WorkerPlaces, RestingPlaces
<1>19. CASE SwitchToApi(w)
  <2>1. wk[w].pc \notin RestingPlaces
    BY <1>19 DEF SwitchToApi, RestingPlaces
  <2>2. JobTyped
    BY <2>1, <1>19, <1>hand, <1>write, <1>same, RowOperators DEF SwitchToApi
  <2>3. WkTyped
    BY <2>1, <1>19, <1>goto, <1>idle DEF SwitchToApi, WorkerPlaces
  <2> QED
    BY <2>2, <2>3, <1>19, <1>0, <1>ledger, <1>rest DEF SwitchToApi
<1>20. CASE FailOrRetry(w)
  <2>1. wk[w].pc \notin RestingPlaces
    BY <1>20 DEF FailOrRetry, RestingPlaces
  <2>2. JobTyped
    BY <2>1, <1>20, <1>hand, <1>write, <1>same, RowOperators DEF FailOrRetry
  <2>3. WkTyped
    BY <2>1, <1>20, <1>goto, <1>idle DEF FailOrRetry, WorkerPlaces
  <2> QED
    BY <2>2, <2>3, <1>20, <1>0, <1>ledger, <1>rest DEF FailOrRetry
<1>21. CASE ReleaseDueWaits(w)
  <2>1. JobTyped
    BY <1>21, <1>row, RowOperators DEF ReleaseDueWaits, JobTyped
  <2> QED
    BY <2>1, <1>21, <1>0, <1>wk, <1>ledger, <1>rest DEF ReleaseDueWaits
<1>22. CASE SweepRead(w)
  <2> DEFINE read == {<<j, RecoveryAction(jobs[j])>> : j \in {i \in Jobs : StaleLease(jobs[i])}}
  <2>1. read \in SUBSET (Jobs \X RecoveryActions)
    BY <1>row, RowOperators
  <2>2. wk' = [wk EXCEPT ![w].pc = "sweep", ![w].todo = read]
    BY <1>22 DEF SweepRead
  <2> HIDE DEF read
  <2> DEFINE s == [wk[w] EXCEPT !.pc = "sweep", !.todo = read]
  <2>5. s \in WorkerState /\ s.pc = "sweep"
    <3>1. wk[w] \in WorkerState /\ "sweep" \in WorkerPlaces
      BY DEF TypeOK, WorkerPlaces
    <3> QED
      BY <2>1, <3>1, SweepTypes
  <2>6. wk' = [wk EXCEPT ![w] = s]
    BY <2>2 DEF TypeOK
  <2> HIDE DEF s
  <2>3. WkTyped
    BY <2>5, <2>6, UpdateType DEF WkTyped, RestingPlaces
  <2> QED
    BY <2>3, <1>22, <1>0, <1>same, <1>ledger, <1>rest DEF SweepRead
<1>23. CASE Heartbeat(w)
  <2>1. wk[w].job \in Jobs
    BY <1>23 DEF Heartbeat, TypeOK, WorkerState
  <2>2. JobTyped
    BY <2>1, <1>23, <1>row, <1>write, RowOperators DEF Heartbeat
  <2> QED
    BY <2>2, <1>23, <1>0, <1>wk, <1>ledger, <1>rest DEF Heartbeat
<1>24. CASE Crash(w)
  BY <1>24, <1>0, <1>idle, <1>same, <1>ledger, <1>spend DEF Crash
<1> QED
  BY <1>1, <1>2, <1>3, <1>4, <1>5, <1>6, <1>7, <1>8, <1>9, <1>10, <1>11, <1>12, <1>13,
     <1>14, <1>15, <1>16, <1>17, <1>18, <1>19, <1>20, <1>21, <1>22, <1>23, <1>24
  DEF WorkerNext, WorkerStep, Maintenance

LEMMA TypeStep == TypeInv /\ [Next]_vars => TypeInv'
<1> SUFFICES ASSUME TypeInv, [Next]_vars PROVE TypeInv'
  OBVIOUS
<1>1. CASE Next
  BY <1>1, WebTypeStep, WorkerTypeStep, TimeTypeStep DEF Next
<1>2. CASE UNCHANGED vars
  BY <1>2 DEF vars, TypeInv, TypeOK, JobAtHand
<1> QED
  BY <1>1, <1>2

LEMMA TypeInit == Init => TypeInv
<1> SUFFICES ASSUME Init PROVE TypeInv
  OBVIOUS
<1>1. jobs \in [Jobs -> Row]
  <2>1. \A j \in Jobs : AbsentRow(j) \in Row
    <3> TAKE j \in Jobs
    <3>1. InsertedRow(j) \in Row
      BY RequestAssumption, AttemptsAssumption
      DEF RequestType, InsertedRow, Row, Backends, ACTIVE_STATUSES
    <3> QED
      BY <3>1 DEF AbsentRow, Row
  <2> QED
    BY <2>1 DEF Init
<1>2. wk \in [Workers -> WorkerState]
  BY DEF Init, IdleWorker, WorkerState, WorkerPlaces
<1>3. web \in [Clients -> WebState]
  BY DEF Init, IdleWeb, WebState, WebPlaces
<1>4. /\ used \in [QuotaKinds -> Nat]
      /\ refunded \in [Jobs -> Nat]
      /\ lost \in [QuotaKinds -> Nat]
      /\ faults \in Nat
  BY WorkAssumption DEF Init
<1>5. JobAtHand
  BY DEF Init, JobAtHand, IdleWorker, IdleWeb, RestingPlaces
<1> QED
  BY <1>1, <1>2, <1>3, <1>4, <1>5 DEF TypeInv, TypeOK

(* Every reachable state is well typed, and every worker and request in    *)
(* the middle of something holds a job of the table.                       *)
THEOREM TypeInvariance == Spec => []TypeInv
<1>1. Init => TypeInv
  BY TypeInit
<1>2. TypeInv /\ [Next]_vars => TypeInv'
  BY TypeStep
<1> QED
  BY <1>1, <1>2, PTL DEF Spec

THEOREM TypeCorrect == Spec => []TypeOK
<1>1. TypeInv => TypeOK
  BY DEF TypeInv
<1> QED
  BY <1>1, TypeInvariance, PTL

-----------------------------------------------------------------------------
(* What a step does to the table.                                          *)

(* The claim columns agree with the status.                                *)
ClaimAgrees(r) ==
  /\ (r.status = "running") <=> (r.claim # NoWorker)
  /\ (r.status = "running") <=> (r.lease # "none")

(* A move along the lifecycle from row r to row s                          *)
Moves(r, s) ==
  /\ s.consumed = r.consumed
  /\ s.finalized = r.finalized
  /\ \/ s.status = r.status
     \/ Active(r) /\ s.status \in ACTIVE_STATUSES \cup TERMINAL_STATUSES
  /\ s.backend = "sub" => r.backend = "sub"
  /\ ClaimAgrees(r) => ClaimAgrees(s)

MovesOnly ==
  /\ refunded' = refunded
  /\ \A j \in Jobs : Moves(jobs[j], jobs'[j])

Inserts(j) ==
  /\ jobs[j].status = "absent"
  /\ Insertable(j)
  /\ jobs' = [jobs EXCEPT ![j] = InsertedRow(j)]
  /\ refunded' = refunded

Consumes(j) ==
  /\ jobs[j].status # "absent"
  /\ CanConsume(j, jobs[j])
  /\ jobs' = [jobs EXCEPT ![j] = increment_quota_consumed(@)]
  /\ refunded' = refunded

SettlesAs(j, success) ==
  /\ jobs[j].status # "absent"
  /\ CanFinalize(jobs[j])
  /\ jobs' = [jobs EXCEPT ![j] = finalize_quota(j, @, success)]
  /\ refunded' =
       [refunded EXCEPT ![j] = @ + Refundable(j, finalize_quota(j, jobs[j], success))]
Settles(j) == \E success \in BOOLEAN : SettlesAs(j, success)

(* Every change but an INSERT *)
Update == MovesOnly \/ \E j \in Jobs : Consumes(j) \/ Settles(j)

TableChange == Update \/ \E j \in Jobs : Inserts(j)

(* What a worker remembers of a job                                        *)
Held(w, j) ==
  \/ wk[w].job = j
  \/ \E a \in RecoveryActions : <<j, a>> \in wk[w].todo
  \/ j \in wk[w].settle

(* Jobs in a worker's memory, or being canceled, are rows of the table.    *)
Known ==
  /\ \A w \in Workers, j \in Jobs : Held(w, j) => jobs[j].status # "absent"
  /\ \A c \in Clients : web[c].pc = "cancel_settle" => jobs[web[c].job].status # "absent"

(* A job that is being scheduled is not in the table yet, and one request  *)
(* schedules it.                                                           *)
Scheduling(c) == web[c].pc \in {"reserved", "refund"}
Unborn ==
  /\ \A c \in Clients : Scheduling(c) => jobs[web[c].job].status = "absent"
  /\ \A c, d \in Clients : Scheduling(c) /\ Scheduling(d) /\ web[c].job = web[d].job => c = d

(* A row nobody has inserted has no quota history.                         *)
BlankUntilInserted ==
  \A j \in Jobs : jobs[j].status = "absent" =>
    ~jobs[j].finalized /\ jobs[j].consumed = 0 /\ refunded[j] = 0

ActiveSub == {i \in Jobs : Active(jobs[i]) /\ jobs[i].backend = "sub"}

TableInv ==
  /\ TypeInv
  /\ Known
  /\ Unborn
  /\ BlankUntilInserted
  /\ SettlementIsExact
  /\ ClaimedExactlyWhileRunning
  /\ OneActiveJobPerKey
  /\ IsFiniteSet(ActiveSub) /\ SubQueueWithinLimit

-----------------------------------------------------------------------------
(* Every lifecycle statement, under its WHERE clause, is a move.           *)
LEMMA RowMoves ==
  ASSUME NEW r \in Row
  PROVE  /\ Moves(r, r)
         /\ \A w \in Workers, b \in Backends : Claimable(r, b) => Moves(r, claim_next(r, w))
         /\ Active(r) => Moves(r, cancel_job(r))
         /\ CanMarkCanceled(r) => Moves(r, mark_canceled_if_running(r))
         /\ CanMarkDone(r) => Moves(r, mark_done_if_running(r))
         /\ CanFailOrRetry(r) => Moves(r, fail_or_retry(r))
         /\ CanWait(r) => Moves(r, wait_for_provider(r))
         /\ CanRetryWaiting(r) => Moves(r, retry_waiting(r))
         /\ CanReleaseWait(r) => Moves(r, release_due_provider_wait(r))
         /\ CanFallback(r) => Moves(r, fallback_to_api(r))
         /\ \A w \in Workers : CanRenewLease(r, w) => Moves(r, renew_lease(r))
         /\ \A a \in RecoveryActions : CanRecover(r, a) => Moves(r, recover_stale_lease(r, a))
         /\ Moves(r, [r EXCEPT !.due = TRUE])
         /\ r.status = "running" /\ r.lease = "fresh" => Moves(r, [r EXCEPT !.lease = "expired"])
<1> USE DEF Moves, ClaimAgrees, Active, ACTIVE_STATUSES, TERMINAL_STATUSES
<1>1. Moves(r, r)
  OBVIOUS
<1>2. ASSUME NEW w \in Workers, NEW b \in Backends, Claimable(r, b)
      PROVE  Moves(r, claim_next(r, w))
  BY <1>2, WorkerAssumption DEF Row, Claimable, claim_next, TRIGGER_STATUSES
<1>3. ASSUME NEW s \in ACTIVE_STATUSES \cup TERMINAL_STATUSES, s # "running", Active(r)
      PROVE  Moves(r, Unclaimed(r, s))
  BY <1>3 DEF Row, Unclaimed
<1>4. ASSUME Active(r) PROVE Moves(r, cancel_job(r))
  <2>1. CASE r.status = "running" /\ r.backend = "sub"
    BY <2>1, <1>4 DEF Row, cancel_job
  <2>2. CASE ~(r.status = "running" /\ r.backend = "sub")
    BY <2>2, <1>4 DEF Row, cancel_job, Unclaimed
  <2> QED
    BY <2>1, <2>2
<1>5. CanMarkCanceled(r) => Moves(r, mark_canceled_if_running(r))
  BY <1>3 DEF CanMarkCanceled, mark_canceled_if_running
<1>6. CanMarkDone(r) => Moves(r, mark_done_if_running(r))
  BY <1>3 DEF CanMarkDone, mark_done_if_running
<1>7. CanFailOrRetry(r) => Moves(r, fail_or_retry(r))
  BY DEF CanFailOrRetry, fail_or_retry, Unclaimed, Row
<1>8. CanWait(r) => Moves(r, wait_for_provider(r))
  BY DEF CanWait, wait_for_provider, Unclaimed, Row
<1>9. CanRetryWaiting(r) => Moves(r, retry_waiting(r))
  BY DEF CanRetryWaiting, retry_waiting, Row
<1>10. CanReleaseWait(r) => Moves(r, release_due_provider_wait(r))
  BY DEF CanReleaseWait, release_due_provider_wait, Row
<1>11. CanFallback(r) => Moves(r, fallback_to_api(r))
  BY DEF CanFallback, fallback_to_api, Unclaimed, Row
<1>12. \A w \in Workers : CanRenewLease(r, w) => Moves(r, renew_lease(r))
  BY DEF CanRenewLease, renew_lease, Row
<1>13. ASSUME NEW a \in RecoveryActions, CanRecover(r, a)
       PROVE  Moves(r, recover_stale_lease(r, a))
  BY <1>3, <1>13 DEF CanRecover, StaleLease, recover_stale_lease, RecoveryActions
<1>14. Moves(r, [r EXCEPT !.due = TRUE])
  BY DEF Row
<1>15. r.status = "running" /\ r.lease = "fresh" => Moves(r, [r EXCEPT !.lease = "expired"])
  BY DEF Row
<1> HIDE DEF Moves, ClaimAgrees, Active, ACTIVE_STATUSES, TERMINAL_STATUSES
<1> QED
  BY <1>1, <1>2, <1>4, <1>5, <1>6, <1>7, <1>8, <1>9, <1>10, <1>11, <1>12, <1>13,
     <1>14, <1>15

LEMMA SameTable ==
  ASSUME TypeOK, UNCHANGED <<jobs, refunded>>
  PROVE  MovesOnly
  BY RowMoves DEF TypeOK, MovesOnly

LEMMA WriteMoves ==
  ASSUME TypeOK, NEW j \in Jobs, NEW r, Moves(jobs[j], r), Write(j, r), UNCHANGED refunded
  PROVE  MovesOnly
  BY RowMoves DEF TypeOK, MovesOnly, Write

LEMMA FinalizeSettles ==
  ASSUME TypeOK, NEW j \in Jobs, NEW b \in BOOLEAN, jobs[j].status # "absent", Finalize(j, b)
  PROVE  MovesOnly \/ Settles(j)
<1>1. CASE CanFinalize(jobs[j])
  <2>1. SettlesAs(j, b)
    BY <1>1 DEF SettlesAs, Finalize, Write
  <2> QED
    BY <2>1 DEF Settles
<1>2. CASE ~CanFinalize(jobs[j])
  BY <1>2, SameTable DEF Finalize
<1> QED
  BY <1>1, <1>2

LEMMA WebTableStep ==
  ASSUME TypeInv, Known, Unborn, NEW c \in Clients, WebNext(c)
  PROVE  Update \/ (Create(c) /\ web[c].job \in Jobs /\ Inserts(web[c].job))
<1> USE DEF TypeInv
<1>row. \A j \in Jobs : jobs[j] \in Row
  BY DEF TypeOK
<1>same. UNCHANGED <<jobs, refunded>> => Update
  BY SameTable DEF Update
<1>1. ASSUME NEW j \in Jobs, Reserve(c, j) PROVE Update
  BY <1>1, <1>same DEF Reserve
<1>2. ASSUME NEW j \in Jobs, Cancel(c, j) PROVE Update
  <2>1. Moves(jobs[j], cancel_job(jobs[j]))
    BY <1>2, <1>row, RowMoves DEF Cancel
  <2> QED
    BY <2>1, <1>2, WriteMoves DEF Cancel, Update
<1>3. CASE Create(c)
  <2>1. web[c].job \in Jobs
    BY <1>3 DEF Create, JobAtHand
  <2>2. Inserts(web[c].job)
    BY <1>3 DEF Create, Inserts, Unborn, Scheduling, Write
  <2> QED
    BY <2>1, <2>2, <1>3
<1>4. CASE CreateRefused(c)
  BY <1>4, <1>same DEF CreateRefused
<1>5. CASE RefundReservation(c)
  BY <1>5, <1>same DEF RefundReservation
<1>6. CASE CancelSettle(c)
  <2>1. web[c].job \in Jobs /\ jobs[web[c].job].status # "absent"
    BY <1>6 DEF CancelSettle, JobAtHand, Known
  <2> QED
    BY <2>1, <1>6, FinalizeSettles DEF CancelSettle, Update
<1>7. CASE WebCrash(c)
  BY <1>7, <1>same DEF WebCrash
<1> QED
  BY <1>1, <1>2, <1>3, <1>4, <1>5, <1>6, <1>7 DEF WebNext

LEMMA TimeTableStep ==
  ASSUME TypeInv, NEW j \in Jobs, TimeNext(j)
  PROVE  Update
<1> USE DEF TypeInv
<1>0. jobs[j] \in Row
  BY DEF TypeOK
<1>1. CASE ComesDue(j)
  <2>1. Write(j, [jobs[j] EXCEPT !.due = TRUE]) /\ UNCHANGED refunded
    BY <1>1 DEF ComesDue, Write
  <2> QED
    BY <2>1, <1>0, RowMoves, WriteMoves DEF Update
<1>2. CASE LeaseExpires(j) \/ Stall(j)
  <2>1. /\ Write(j, [jobs[j] EXCEPT !.lease = "expired"])
        /\ jobs[j].status = "running" /\ jobs[j].lease = "fresh"
        /\ UNCHANGED refunded
    BY <1>2 DEF LeaseExpires, Stall, Write
  <2> QED
    BY <2>1, <1>0, RowMoves, WriteMoves DEF Update
<1>3. CASE RetryWaiting(j)
  BY <1>3, <1>0, RowMoves, WriteMoves DEF RetryWaiting, Update
<1> QED
  BY <1>1, <1>2, <1>3 DEF TimeNext

LEMMA WorkerTableStep ==
  ASSUME TypeInv, Known, NEW w \in Workers, WorkerNext(w)
  PROVE  Update
<1> DEFINE j == wk[w].job
<1> USE DEF TypeInv
<1>row. \A i \in Jobs : jobs[i] \in Row
  BY DEF TypeOK
<1>same. UNCHANGED <<jobs, refunded>> => Update
  BY SameTable DEF Update
<1>write. \A i \in Jobs : \A r : Moves(jobs[i], r) /\ Write(i, r) /\ UNCHANGED refunded => Update
  BY WriteMoves DEF Update
<1>fin. \A i \in Jobs : \A b \in BOOLEAN :
          jobs[i].status # "absent" /\ Finalize(i, b) => Update
  BY FinalizeSettles DEF Update
<1>hand. wk[w].pc \notin RestingPlaces =>
           j \in Jobs /\ jobs[j] \in Row /\ jobs[j].status # "absent"
  BY <1>row DEF JobAtHand, Known, Held
<1>1. ASSUME NEW i \in Jobs, Claim(w, i) PROVE Update
  <2>1. Moves(jobs[i], claim_next(jobs[i], w))
    BY <1>1, <1>row, RowMoves DEF Claim, BackendOf, Backends
  <2> QED
    BY <2>1, <1>1, <1>write DEF Claim
<1>2. CASE SweepStep(w)
  <2>1. PICK t \in wk[w].todo :
          jobs' = IF CanRecover(jobs[t[1]], t[2])
                    THEN [jobs EXCEPT ![t[1]] = recover_stale_lease(@, t[2])] ELSE jobs
    BY <1>2 DEF SweepStep
  <2>2. t[1] \in Jobs /\ t[2] \in RecoveryActions
    BY DEF TypeOK, WorkerState
  <2>3. CASE CanRecover(jobs[t[1]], t[2])
    <3>1. Moves(jobs[t[1]], recover_stale_lease(jobs[t[1]], t[2]))
      BY <2>2, <2>3, <1>row, RowMoves
    <3>2. Write(t[1], recover_stale_lease(jobs[t[1]], t[2])) /\ UNCHANGED refunded
      BY <2>1, <2>3, <1>2 DEF SweepStep, Write
    <3> QED
      BY <3>1, <3>2, <2>2, <1>write
  <2>4. CASE ~CanRecover(jobs[t[1]], t[2])
    BY <2>1, <2>4, <1>2, <1>same DEF SweepStep
  <2> QED
    BY <2>3, <2>4
<1>3. CASE SweepDone(w)
  BY <1>3, <1>same DEF SweepDone
<1>4. CASE SweepSettle(w)
  <2>1. PICK i \in wk[w].settle : Finalize(i, FALSE)
    BY <1>4 DEF SweepSettle
  <2>2. i \in Jobs /\ jobs[i].status # "absent"
    BY DEF TypeOK, WorkerState, Known, Held
  <2> QED
    BY <2>1, <2>2, <1>fin
<1>5. CASE Reauthorize(w)
  BY <1>5, <1>same DEF Reauthorize
<1>6. CASE Revoke(w)
  BY <1>6, <1>hand, <1>same, <1>write, RowMoves DEF Revoke, RestingPlaces
<1>7. CASE Checkpoint(w)
  BY <1>7, <1>same DEF Checkpoint
<1>8. CASE CommitChapter(w)
  <2>1. Consumes(j)
    BY <1>8, <1>hand DEF CommitChapter, RestingPlaces, Consumes, Write
  <2> QED
    BY <2>1, <1>8, <1>hand DEF CommitChapter, RestingPlaces, Update
<1>9. CASE HandlerReturns(w)
  BY <1>9, <1>same DEF HandlerReturns
<1>10. CASE HandlerRaises(w)
  BY <1>10, <1>same DEF HandlerRaises
<1>11. CASE MarkDone(w)
  BY <1>11, <1>hand, <1>same, <1>write, RowMoves DEF MarkDone, RestingPlaces
<1>12. CASE MarkCanceled(w)
  BY <1>12, <1>hand, <1>same, <1>write, RowMoves DEF MarkCanceled, RestingPlaces
<1>13. CASE Settle(w)
  <2>1. (wk[w].pc = "settle_done") \in BOOLEAN
    OBVIOUS
  <2> QED
    BY <2>1, <1>13, <1>hand, <1>fin DEF Settle, RestingPlaces
<1>14. CASE SettleFails(w)
  BY <1>14, <1>same DEF SettleFails
<1>15. CASE Caught(w)
  BY <1>15, <1>same DEF Caught
<1>16. CASE Park(w)
  <2>1. j \in Jobs /\ jobs[j] \in Row
    BY <1>16, <1>hand DEF Park, RestingPlaces
  <2>2. CASE CanWait(jobs[j])
    <3>1. Write(j, wait_for_provider(jobs[j])) /\ UNCHANGED refunded
      BY <2>2, <1>16 DEF Park, Write
    <3> QED
      BY <3>1, <2>1, <2>2, <1>write, RowMoves
  <2>3. CASE ~CanWait(jobs[j])
    BY <2>3, <1>16, <1>same DEF Park
  <2> QED
    BY <2>2, <2>3
<1>17. CASE Preflight(w)
  BY <1>17, <1>same DEF Preflight
<1>18. CASE ReleaseReservation(w)
  BY <1>18, <1>hand, <1>fin DEF ReleaseReservation, RestingPlaces
<1>19. CASE SwitchToApi(w)
  BY <1>19, <1>hand, <1>same, <1>write, RowMoves DEF SwitchToApi, RestingPlaces
<1>20. CASE FailOrRetry(w)
  BY <1>20, <1>hand, <1>same, <1>write, RowMoves DEF FailOrRetry, RestingPlaces
<1>21. CASE ReleaseDueWaits(w)
  <2>1. MovesOnly
    BY <1>21, <1>row, RowMoves DEF ReleaseDueWaits, MovesOnly
  <2> QED
    BY <2>1 DEF Update
<1>22. CASE SweepRead(w)
  BY <1>22, <1>same DEF SweepRead
<1>23. CASE Heartbeat(w)
  <2>1. j \in Jobs
    BY <1>23 DEF Heartbeat, TypeOK, WorkerState
  <2> QED
    BY <2>1, <1>23, <1>row, <1>write, RowMoves DEF Heartbeat
<1>24. CASE Crash(w)
  BY <1>24, <1>same DEF Crash
<1> QED
  BY <1>1, <1>2, <1>3, <1>4, <1>5, <1>6, <1>7, <1>8, <1>9, <1>10, <1>11, <1>12, <1>13,
     <1>14, <1>15, <1>16, <1>17, <1>18, <1>19, <1>20, <1>21, <1>22, <1>23, <1>24
  DEF WorkerNext, WorkerStep, Maintenance

(* The four ways in which the table changes *)
LEMMA TableStep == TypeInv /\ Known /\ Unborn /\ [Next]_vars => TableChange
<1> SUFFICES ASSUME TypeInv, Known, Unborn, [Next]_vars PROVE TableChange
  OBVIOUS
<1>1. CASE Next
  BY <1>1, WebTableStep, WorkerTableStep, TimeTableStep DEF Next, TableChange
<1>2. CASE UNCHANGED vars
  BY <1>2, SameTable DEF vars, TypeInv, TableChange, Update
<1> QED
  BY <1>1, <1>2

-----------------------------------------------------------------------------
(* An UPDATE neither inserts a row nor removes one.                        *)
LEMMA UpdateKeepsRows ==
  ASSUME TypeOK, Update, NEW j \in Jobs
  PROVE  (jobs'[j].status = "absent") <=> (jobs[j].status = "absent")
<1>row. jobs[j] \in Row
  BY DEF TypeOK
<1>1. CASE MovesOnly
  BY <1>1 DEF MovesOnly, Moves, Active, ACTIVE_STATUSES, TERMINAL_STATUSES
<1>2. ASSUME NEW i \in Jobs, Consumes(i)
      PROVE  (jobs'[j].status = "absent") <=> (jobs[j].status = "absent")
  BY <1>2, <1>row DEF Consumes, increment_quota_consumed, TypeOK, Row
<1>3. ASSUME NEW i \in Jobs, NEW b \in BOOLEAN, SettlesAs(i, b)
      PROVE  (jobs'[j].status = "absent") <=> (jobs[j].status = "absent")
  BY <1>3, <1>row DEF SettlesAs, finalize_quota, TypeOK, Row
<1> QED
  BY <1>1, <1>2, <1>3 DEF Update, Settles

LEMMA InsertKeepsRows ==
  ASSUME TypeOK, NEW i \in Jobs, Inserts(i), NEW j \in Jobs
  PROVE  jobs[j].status # "absent" => jobs'[j].status # "absent"
  BY DEF TypeOK, Inserts

(* A worker remembers what it remembered, and rows it has just seen.       *)
LEMMA MemoryStep ==
  ASSUME TypeInv, NEW v \in Workers, WorkerNext(v), NEW w \in Workers, NEW j \in Jobs, Held(w, j)'
  PROVE  Held(w, j) \/ jobs[j].status # "absent"
<1> USE DEF TypeInv
<1>type. wk \in [Workers -> WorkerState] /\ NoJob \notin Jobs
  BY WorkAssumption DEF TypeOK
<1>same. UNCHANGED wk => Held(w, j)
  BY DEF Held
<1>goto. \A pc \in WorkerPlaces : Goto(v, pc) => Held(w, j)
  BY <1>type DEF Held, Goto, WorkerState
<1>idle. GoIdle(v) => Held(w, j)
  <2> SUFFICES ASSUME GoIdle(v) PROVE Held(w, j)
    OBVIOUS
  <2>1. wk'[w] = IF w = v THEN IdleWorker ELSE wk[w]
    BY <1>type DEF GoIdle
  <2>2. CASE w = v
    <3>1. wk'[w].job = NoJob /\ wk'[w].todo = {} /\ wk'[w].settle = {}
      BY <2>1, <2>2 DEF IdleWorker
    <3> QED
      BY <1>type, <3>1 DEF Held
  <2>3. CASE w # v
    BY <2>1, <2>3 DEF Held
  <2> QED
    BY <2>2, <2>3
<1>1. ASSUME NEW i \in Jobs, Claim(v, i) PROVE Held(w, j) \/ jobs[j].status # "absent"
  <2>1. CASE i = j
    BY <2>1, <1>1 DEF Claim, Claimable, TRIGGER_STATUSES
  <2>2. CASE i # j
    BY <2>2, <1>1, <1>type DEF Claim, Held, IdleWorker, WorkerState
  <2> QED
    BY <2>1, <2>2
<1>2. CASE SweepStep(v)
  <2>1. PICK t \in wk[v].todo :
          wk' = [wk EXCEPT ![v].todo = @ \ {t},
                      ![v].settle = IF CanRecover(jobs[t[1]], t[2]) /\ t[2] # "requeue"
                                      THEN @ \cup {t[1]} ELSE @]
    BY <1>2 DEF SweepStep
  <2>2. t = <<t[1], t[2]>> /\ t[2] \in RecoveryActions
    BY <1>type DEF WorkerState
  <2>3. CASE w = v
    <3>1. /\ wk'[w].job = wk[w].job /\ wk'[w].todo \subseteq wk[w].todo
          /\ wk'[w].settle \subseteq wk[w].settle \cup {t[1]}
      BY <2>1, <2>3, <1>type DEF WorkerState
    <3>2. <<t[1], t[2]>> \in wk[w].todo
      BY <2>2, <2>3
    <3> QED
      BY <2>2, <3>1, <3>2 DEF Held
  <2>4. CASE w # v
    <3>1. wk'[w] = wk[w]
      BY <2>1, <2>4, <1>type
    <3> QED
      BY <3>1 DEF Held
  <2> QED
    BY <2>3, <2>4
<1>3. CASE SweepDone(v)
  BY <1>3, <1>goto DEF SweepDone, WorkerPlaces
<1>4. CASE SweepSettle(v)
  BY <1>4, <1>type DEF SweepSettle, Held, WorkerState
<1>5. CASE Reauthorize(v) \/ Revoke(v) \/ Checkpoint(v) \/ HandlerReturns(v) \/ MarkDone(v)
  BY <1>5, <1>goto DEF Reauthorize, Revoke, Checkpoint, HandlerReturns, MarkDone, WorkerPlaces
<1>6. CASE CommitChapter(v) \/ ReleaseDueWaits(v) \/ Heartbeat(v)
  BY <1>6, <1>same DEF CommitChapter, ReleaseDueWaits, Heartbeat
<1>7. CASE HandlerRaises(v) \/ Caught(v) \/ ReleaseReservation(v)
  BY <1>7, <1>goto DEF HandlerRaises, Caught, ReleaseReservation, WorkerPlaces
<1>8. CASE MarkCanceled(v) \/ SwitchToApi(v) \/ FailOrRetry(v) \/ SettleFails(v)
  BY <1>8, <1>goto, <1>idle DEF MarkCanceled, SwitchToApi, FailOrRetry, SettleFails, WorkerPlaces
<1>9. CASE Settle(v) \/ Preflight(v) \/ Crash(v)
  BY <1>9, <1>idle DEF Settle, Preflight, Crash
<1>10. CASE Park(v)
  BY <1>10, <1>type DEF Park, Held, IdleWorker, WorkerState
<1>11. CASE SweepRead(v)
  <2> DEFINE read == {<<i, RecoveryAction(jobs[i])>> : i \in {i \in Jobs : StaleLease(jobs[i])}}
  <2>1. wk' = [wk EXCEPT ![v].pc = "sweep", ![v].todo = read]
    BY <1>11 DEF SweepRead
  <2>2. \A a : <<j, a>> \in read => jobs[j].status # "absent"
    BY DEF StaleLease
  <2> HIDE DEF read
  <2>3. CASE w # v
    BY <2>1, <2>3, <1>type DEF Held
  <2>4. CASE w = v
    <3>1. wk[v] \in WorkerState
      BY <1>type
    <3>2. /\ wk'[v].job = wk[v].job
          /\ wk'[v].todo = read
          /\ wk'[v].settle = wk[v].settle
      BY <2>1, <3>1, <1>type DEF WorkerState
    <3> QED
      BY <2>2, <2>4, <3>2 DEF Held
  <2> QED
    BY <2>3, <2>4
<1> QED
  BY <1>1, <1>2, <1>3, <1>4, <1>5, <1>6, <1>7, <1>8, <1>9, <1>10, <1>11
  DEF WorkerNext, WorkerStep, Maintenance

LEMMA WorkersLeaveTheWeb ==
  ASSUME NEW w \in Workers, WorkerNext(w)
  PROVE  UNCHANGED web
  BY DEF WorkerNext, WorkerStep, Maintenance, Claim, SweepStep, SweepDone, SweepSettle,
         Reauthorize, Revoke, Checkpoint, CommitChapter, HandlerReturns, HandlerRaises,
         MarkDone, MarkCanceled, Settle, Caught, Park, Preflight, ReleaseReservation,
         SwitchToApi, FailOrRetry, ReleaseDueWaits, SweepRead, Heartbeat, SettleFails, Crash

LEMMA KnownStep == TypeInv /\ Known /\ Unborn /\ [Next]_vars => Known'
<1> SUFFICES ASSUME TypeInv, Known, Unborn, [Next]_vars PROVE Known'
  OBVIOUS
<1>stay. \A j \in Jobs : jobs[j].status # "absent" => jobs'[j].status # "absent"
  BY TableStep, UpdateKeepsRows, InsertKeepsRows DEF TableChange, TypeInv
<1>1. ASSUME NEW w \in Workers, NEW j \in Jobs, Held(w, j)'
      PROVE  Held(w, j) \/ jobs[j].status # "absent"
  <2>1. CASE UNCHANGED wk
    BY <2>1, <1>1 DEF Held
  <2>2. ASSUME NEW v \in Workers, WorkerNext(v)
        PROVE  Held(w, j) \/ jobs[j].status # "absent"
    BY <2>2, <1>1, MemoryStep
  <2>3. ASSUME NEW c \in Clients, WebNext(c) PROVE UNCHANGED wk
    BY <2>3 DEF WebNext, Reserve, Cancel, Create, CreateRefused, RefundReservation,
                CancelSettle, WebCrash
  <2>4. ASSUME NEW i \in Jobs, TimeNext(i) PROVE UNCHANGED wk
    BY <2>4 DEF TimeNext, ComesDue, LeaseExpires, Stall, RetryWaiting
  <2> QED
    BY <2>1, <2>2, <2>3, <2>4 DEF Next, vars
<1>2. ASSUME NEW c \in Clients, web'[c].pc = "cancel_settle"
      PROVE  web'[c].job \in Jobs /\ jobs[web'[c].job].status # "absent"
  <2> DEFINE Goal == web'[c].job \in Jobs /\ jobs[web'[c].job].status # "absent"
  <2>type. web \in [Clients -> WebState]
    BY DEF TypeInv, TypeOK
  <2>same. web'[c] = web[c] => Goal
    BY <1>2 DEF Known, TypeInv, JobAtHand
  <2>idle. ASSUME NEW d \in Clients, web' = [web EXCEPT ![d] = IdleWeb] PROVE Goal
    BY <2>idle, <2>same, <2>type, <1>2 DEF IdleWeb
  <2>1. ASSUME NEW d \in Clients, WebNext(d) PROVE Goal
    <3>1. ASSUME NEW i \in Jobs, Reserve(d, i) PROVE Goal
      BY <3>1, <2>same, <2>type, <1>2 DEF Reserve
    <3>2. ASSUME NEW i \in Jobs, Cancel(d, i) PROVE Goal
      BY <3>2, <2>same, <2>type, <1>2 DEF Cancel, Active, ACTIVE_STATUSES
    <3>3. CASE CreateRefused(d)
      BY <3>3, <2>same, <2>type, <1>2 DEF CreateRefused, WebState
    <3>4. CASE Create(d) \/ RefundReservation(d) \/ CancelSettle(d) \/ WebCrash(d)
      BY <3>4, <2>idle DEF Create, RefundReservation, CancelSettle, WebCrash
    <3> QED
      BY <2>1, <3>1, <3>2, <3>3, <3>4 DEF WebNext
  <2>2. ASSUME NEW v \in Workers, WorkerNext(v) PROVE UNCHANGED web
    BY <2>2, WorkersLeaveTheWeb
  <2>3. ASSUME NEW i \in Jobs, TimeNext(i) PROVE UNCHANGED web
    BY <2>3 DEF TimeNext, ComesDue, LeaseExpires, Stall, RetryWaiting
  <2> QED
    BY <2>same, <2>1, <2>2, <2>3 DEF Next, vars
<1>3. \A w \in Workers, j \in Jobs : Held(w, j)' => jobs'[j].status # "absent"
  BY <1>1, <1>stay DEF Known
<1>4. \A c \in Clients : web'[c].pc = "cancel_settle" => jobs'[web'[c].job].status # "absent"
  BY <1>2, <1>stay
<1> QED
  BY <1>3, <1>4 DEF Known, Held

LEMMA UnbornStep == TypeInv /\ Known /\ Unborn /\ [Next]_vars => Unborn'
<1> SUFFICES ASSUME TypeInv, Known, Unborn, [Next]_vars PROVE Unborn'
  OBVIOUS
<1>type. web \in [Clients -> WebState] /\ jobs \in [Jobs -> Row] /\ NoJob \notin Jobs
  BY WorkAssumption DEF TypeInv, TypeOK
<1>hand. \A c \in Clients : Scheduling(c) => web[c].job \in Jobs
  BY DEF Scheduling, TypeInv, JobAtHand
<1>update. ASSUME Update, \A c \in Clients : Scheduling(c)' => Scheduling(c) /\ web'[c].job = web[c].job
           PROVE  Unborn'
  <2>1. \A j \in Jobs : jobs[j].status = "absent" => jobs'[j].status = "absent"
    BY <1>update, UpdateKeepsRows DEF TypeInv
  <2> QED
    BY <1>update, <1>hand, <2>1 DEF Unborn, Scheduling
<1>1. ASSUME NEW d \in Clients, WebNext(d) PROVE Unborn'
  <2>1. ASSUME NEW i \in Jobs, Reserve(d, i) PROVE Unborn'
    <3>1. /\ web'[d].job = i
          /\ \A c \in Clients : c # d => web'[c] = web[c]
          /\ jobs' = jobs /\ jobs[i].status = "absent"
          /\ \A c \in Clients : Scheduling(c) => web[c].job # i
      BY <2>1, <1>type DEF Reserve, Scheduling
    <3> QED
      BY <3>1 DEF Unborn, Scheduling
  <2>2. CASE Create(d)
    <3>1. web[d].job \in Jobs /\ Scheduling(d)
      BY <2>2, <1>hand DEF Create, Scheduling
    <3>2. /\ ~Scheduling(d)'
          /\ \A c \in Clients : c # d => web'[c] = web[c]
          /\ \A j \in Jobs : j # web[d].job => jobs'[j] = jobs[j]
      BY <2>2, <1>type DEF Create, Write, Scheduling, IdleWeb
    <3>3. \A c \in Clients : c # d /\ Scheduling(c) => web[c].job # web[d].job
      BY <3>1 DEF Unborn
    <3> QED
      BY <3>1, <3>2, <3>3, <1>hand DEF Unborn, Scheduling
  <2>3. ASSUME ~Create(d), \A i \in Jobs : ~Reserve(d, i) PROVE Unborn'
    <3>1. Update
      BY <2>3, <1>1, WebTableStep
    <3>2. ASSUME NEW c \in Clients, Scheduling(c)'
          PROVE  Scheduling(c) /\ web'[c].job = web[c].job
      <4>1. CASE web' = [web EXCEPT ![d] = IdleWeb]
        BY <4>1, <3>2, <1>type DEF Scheduling, IdleWeb
      <4>2. CASE CreateRefused(d)
        BY <4>2, <3>2, <1>type DEF Scheduling, CreateRefused, WebState
      <4>3. ASSUME NEW i \in Jobs, Cancel(d, i) PROVE Scheduling(c) /\ web'[c].job = web[c].job
        BY <4>3, <3>2, <1>type DEF Scheduling, Cancel
      <4> QED
        BY <4>1, <4>2, <4>3, <2>3, <1>1
        DEF WebNext, RefundReservation, CancelSettle, WebCrash
    <3> QED
      BY <3>1, <3>2, <1>update
  <2> QED
    BY <2>1, <2>2, <2>3
<1>2. ASSUME NEW v \in Workers, WorkerNext(v) PROVE Unborn'
  <2>1. UNCHANGED web
    BY <1>2, WorkersLeaveTheWeb
  <2> QED
    BY <2>1, <1>2, <1>update, WorkerTableStep DEF Scheduling
<1>3. ASSUME NEW i \in Jobs, TimeNext(i) PROVE Unborn'
  <2>1. UNCHANGED web
    BY <1>3 DEF TimeNext, ComesDue, LeaseExpires, Stall, RetryWaiting
  <2> QED
    BY <2>1, <1>3, <1>update, TimeTableStep DEF Scheduling
<1>4. CASE UNCHANGED vars
  BY <1>4 DEF vars, Unborn, Scheduling
<1> QED
  BY <1>1, <1>2, <1>3, <1>4 DEF Next

-----------------------------------------------------------------------------
(* What a change of the table does to the quota columns of one row.        *)
LEMMA QuotaColumns ==
  ASSUME TypeOK, TableChange, NEW j \in Jobs
  PROVE  \/ /\ jobs'[j].finalized = jobs[j].finalized
            /\ jobs'[j].consumed = jobs[j].consumed
            /\ refunded'[j] = refunded[j]
         \/ /\ jobs[j].status = "absent"
            /\ ~jobs'[j].finalized /\ jobs'[j].consumed = 0
            /\ refunded'[j] = refunded[j]
         \/ /\ jobs[j].status # "absent"
            /\ ~jobs[j].finalized /\ ~jobs'[j].finalized
            /\ jobs'[j].consumed = jobs[j].consumed + 1
            /\ jobs'[j].consumed <= Reserved(j)
            /\ refunded'[j] = refunded[j]
         \/ /\ jobs[j].status # "absent"
            /\ ~jobs[j].finalized /\ jobs'[j].finalized
            /\ jobs'[j].consumed \in {jobs[j].consumed, Reserved(j)}
            /\ refunded'[j] = refunded[j] + (IF Reserved(j) >= jobs'[j].consumed
                                              THEN Reserved(j) - jobs'[j].consumed ELSE 0)
<1>row. jobs[j] \in Row /\ jobs \in [Jobs -> Row] /\ refunded \in [Jobs -> Nat]
  BY DEF TypeOK
<1>1. CASE MovesOnly
  BY <1>1 DEF MovesOnly, Moves
<1>2. ASSUME NEW i \in Jobs, Inserts(i), i = j
      PROVE  /\ jobs[j].status = "absent"
             /\ ~jobs'[j].finalized /\ jobs'[j].consumed = 0
             /\ refunded'[j] = refunded[j]
  BY <1>2, <1>row DEF Inserts, InsertedRow
<1>3. ASSUME NEW i \in Jobs, Consumes(i), i = j
      PROVE  /\ jobs[j].status # "absent"
             /\ ~jobs[j].finalized /\ ~jobs'[j].finalized
             /\ jobs'[j].consumed = jobs[j].consumed + 1
             /\ jobs'[j].consumed <= Reserved(j)
             /\ refunded'[j] = refunded[j]
  BY <1>3, <1>row DEF Consumes, CanConsume, increment_quota_consumed, Row
<1>4. ASSUME NEW i \in Jobs, NEW b \in BOOLEAN, SettlesAs(i, b), i = j
      PROVE  /\ jobs[j].status # "absent"
             /\ ~jobs[j].finalized /\ jobs'[j].finalized
             /\ jobs'[j].consumed \in {jobs[j].consumed, Reserved(j)}
             /\ refunded'[j] = refunded[j] + (IF Reserved(j) >= jobs'[j].consumed
                                               THEN Reserved(j) - jobs'[j].consumed ELSE 0)
  <2> DEFINE row == finalize_quota(j, jobs[j], b)
  <2>1. /\ row.finalized
        /\ row.consumed \in {jobs[j].consumed, Reserved(j)}
    BY <1>row DEF finalize_quota, Row
  <2>2. jobs'[j] = row /\ refunded'[j] = refunded[j] + Refundable(j, row)
    BY <1>4, <1>row DEF SettlesAs
  <2> HIDE DEF row
  <2> QED
    BY <2>1, <2>2, <1>4 DEF SettlesAs, CanFinalize, Refundable
<1>5. ASSUME NEW i \in Jobs, i # j, Inserts(i) \/ Consumes(i) \/ Settles(i)
      PROVE  jobs'[j] = jobs[j] /\ refunded'[j] = refunded[j]
  BY <1>5, <1>row DEF Inserts, Consumes, Settles, SettlesAs
<1> QED
  BY <1>1, <1>2, <1>3, <1>4, <1>5 DEF TableChange, Update, Settles

LEMMA SettlementStep ==
  ASSUME TypeOK, TypeOK', TableChange, BlankUntilInserted, SettlementIsExact
  PROVE  BlankUntilInserted' /\ SettlementIsExact'
<1> DEFINE Exact(r, back, total) ==
             IF r.finalized THEN r.consumed + back = total ELSE back = 0 /\ r.consumed <= total
<1>1. ASSUME NEW j \in Jobs PROVE Exact(jobs'[j], refunded'[j], Reserved(j))
  <2>1. /\ jobs[j].consumed \in Nat /\ jobs'[j].consumed \in Nat
        /\ refunded[j] \in Nat /\ refunded'[j] \in Nat
        /\ Reserved(j) \in Nat
    BY ReservedType DEF TypeOK, Row
  <2>2. Exact(jobs[j], refunded[j], Reserved(j))
    BY DEF SettlementIsExact
  <2>3. jobs[j].status = "absent" => refunded[j] = 0
    BY DEF BlankUntilInserted
  <2>4. /\ jobs'[j].finalized = jobs[j].finalized
        /\ jobs'[j].consumed = jobs[j].consumed
        /\ refunded'[j] = refunded[j]
        => Exact(jobs'[j], refunded'[j], Reserved(j))
    BY <2>2
  <2>5. /\ jobs[j].status = "absent"
        /\ ~jobs'[j].finalized /\ jobs'[j].consumed = 0
        /\ refunded'[j] = refunded[j]
        => Exact(jobs'[j], refunded'[j], Reserved(j))
    BY <2>1, <2>3
  <2>6. /\ ~jobs[j].finalized /\ ~jobs'[j].finalized
        /\ jobs'[j].consumed <= Reserved(j)
        /\ refunded'[j] = refunded[j]
        => Exact(jobs'[j], refunded'[j], Reserved(j))
    BY <2>1, <2>2
  <2>7. /\ ~jobs[j].finalized /\ jobs'[j].finalized
        /\ jobs'[j].consumed \in {jobs[j].consumed, Reserved(j)}
        /\ refunded'[j] = refunded[j] + (IF Reserved(j) >= jobs'[j].consumed
                                          THEN Reserved(j) - jobs'[j].consumed ELSE 0)
        => Exact(jobs'[j], refunded'[j], Reserved(j))
    BY <2>1, <2>2
  <2> HIDE DEF Exact
  <2> QED
    BY <2>4, <2>5, <2>6, <2>7, QuotaColumns
<1>2. ASSUME NEW j \in Jobs, jobs'[j].status = "absent"
      PROVE  ~jobs'[j].finalized /\ jobs'[j].consumed = 0 /\ refunded'[j] = 0
  <2>1. CASE Update
    <3>1. jobs[j].status = "absent"
      BY <2>1, <1>2, UpdateKeepsRows
    <3> QED
      BY <3>1, QuotaColumns DEF BlankUntilInserted
  <2>2. ASSUME NEW i \in Jobs, Inserts(i)
        PROVE  jobs[j].status = "absent"
    BY <2>2, <1>2, InsertKeepsRows
  <2> QED
    BY <2>1, <2>2, QuotaColumns DEF TableChange, BlankUntilInserted
<1> QED
  BY <1>1, <1>2 DEF BlankUntilInserted, SettlementIsExact

(* What a change of the table does to the lifecycle columns of one row:    *)
(* a row becomes active by being inserted, and in no other way.            *)
LEMMA LifecycleColumns ==
  ASSUME TypeOK, TableChange, NEW j \in Jobs, ~Inserts(j)
  PROVE  /\ \/ jobs'[j].status = jobs[j].status
            \/ Active(jobs[j]) /\ jobs'[j].status \in ACTIVE_STATUSES \cup TERMINAL_STATUSES
         /\ jobs'[j].backend = "sub" => jobs[j].backend = "sub"
         /\ ClaimAgrees(jobs[j]) => ClaimAgrees(jobs'[j])
<1>row. jobs[j] \in Row /\ jobs \in [Jobs -> Row]
  BY DEF TypeOK
<1>1. CASE MovesOnly
  BY <1>1 DEF MovesOnly, Moves
<1>2. ASSUME NEW i \in Jobs, (i # j /\ Inserts(i)) \/ Consumes(i) \/ Settles(i)
      PROVE  /\ jobs'[j].status = jobs[j].status
             /\ jobs'[j].backend = jobs[j].backend
             /\ jobs'[j].claim = jobs[j].claim
             /\ jobs'[j].lease = jobs[j].lease
  <2>1. CASE i # j
    BY <1>2, <2>1, <1>row DEF Inserts, Consumes, Settles, SettlesAs
  <2>2. CASE i = j /\ Consumes(i)
    BY <2>2, <1>row DEF Consumes, increment_quota_consumed, Row
  <2>3. ASSUME NEW b \in BOOLEAN, i = j, SettlesAs(i, b)
        PROVE  /\ jobs'[j].status = jobs[j].status
               /\ jobs'[j].backend = jobs[j].backend
               /\ jobs'[j].claim = jobs[j].claim
               /\ jobs'[j].lease = jobs[j].lease
    BY <2>3, <1>row DEF SettlesAs, finalize_quota, Row
  <2> QED
    BY <1>2, <2>1, <2>2, <2>3 DEF Settles
<1> QED
  BY <1>1, <1>2 DEF TableChange, Update, ClaimAgrees

LEMMA ClaimStep ==
  ASSUME TypeOK, TableChange, ClaimedExactlyWhileRunning
  PROVE  ClaimedExactlyWhileRunning'
<1>1. \A j \in Jobs : ClaimAgrees(jobs[j])
  BY DEF ClaimedExactlyWhileRunning, ClaimAgrees
<1>2. ASSUME NEW j \in Jobs PROVE ClaimAgrees(jobs'[j])
  <2>1. CASE Inserts(j)
    BY <2>1 DEF Inserts, InsertedRow, ClaimAgrees, TypeOK
  <2>2. CASE ~Inserts(j)
    BY <2>2, <1>1, LifecycleColumns
  <2> QED
    BY <2>1, <2>2
<1> QED
  BY <1>2 DEF ClaimedExactlyWhileRunning, ClaimAgrees

LEMMA ActiveStep ==
  ASSUME TypeOK, TableChange, NEW j \in Jobs, ~Inserts(j), Active(jobs'[j])
  PROVE  Active(jobs[j])
  BY LifecycleColumns DEF Active

LEMMA KeyStep ==
  ASSUME TypeOK, TableChange, OneActiveJobPerKey
  PROVE  OneActiveJobPerKey'
<1> SUFFICES ASSUME NEW i \in Jobs, NEW j \in Jobs, SameKey(i, j),
                    Active(jobs'[i]), Active(jobs'[j])
             PROVE  i = j
  BY DEF OneActiveJobPerKey, SameKey, Active
<1>1. CASE ~Inserts(i) /\ ~Inserts(j)
  BY <1>1, ActiveStep DEF OneActiveJobPerKey
<1>2. ASSUME NEW k \in Jobs, NEW l \in Jobs, Inserts(k), Active(jobs'[l]), SameKey(l, k) PROVE k = l
  <2>1. ~Active(jobs[l])
    BY <1>2 DEF Inserts, Insertable, ActiveTwin
  <2>2. Inserts(l)
    BY <2>1, <1>2, ActiveStep
  <2> QED
    BY <1>2, <2>1, <2>2 DEF Inserts, TypeOK
<1> QED
  BY <1>1, <1>2 DEF SameKey

(* The limit is kept because create_job counts under a lock: one INSERT at *)
(* a time adds to the set, and no statement moves a row onto the backend.  *)
LEMMA SubQueueStep ==
  ASSUME TypeOK, TableChange, IsFiniteSet(ActiveSub), SubQueueWithinLimit
  PROVE  IsFiniteSet(ActiveSub') /\ SubQueueWithinLimit'
<1> DEFINE S == ActiveSub
           T == ActiveSub'
<1>0. /\ SubQueueWithinLimit <=> Cardinality(S) <= SubActiveLimit
      /\ SubQueueWithinLimit' <=> Cardinality(T) <= SubActiveLimit
  BY DEF SubQueueWithinLimit, SubActive, ActiveSub, Active
<1>nat. Cardinality(S) \in Nat /\ SubActiveLimit \in Nat
  BY FS_CardinalityType, WorkAssumption
<1>other. \A j \in Jobs : ~Inserts(j) /\ j \in T => j \in S
  BY LifecycleColumns DEF ActiveSub, Active
<1>1. CASE \A j \in Jobs : ~Inserts(j)
  <2>1. T \subseteq S
    BY <1>1, <1>other DEF ActiveSub
  <2>2. IsFiniteSet(T) /\ Cardinality(T) <= Cardinality(S)
    BY <2>1, FS_Subset
  <2>3. Cardinality(T) \in Nat
    BY <2>2, FS_CardinalityType
  <2> QED
    BY <2>2, <2>3, <1>0, <1>nat
<1>2. ASSUME NEW k \in Jobs, Inserts(k)
      PROVE  IsFiniteSet(T) /\ Cardinality(T) <= SubActiveLimit
  <2>1. /\ jobs'[k] = InsertedRow(k)
        /\ \A j \in Jobs : j # k => jobs'[j] = jobs[j]
        /\ jobs[k].status = "absent"
    BY <1>2 DEF Inserts, TypeOK
  <2>2. CASE Request[k].backend = "sub"
    <3>1. T \subseteq S \cup {k}
      BY <2>1 DEF ActiveSub
    <3>2. k \notin S
      BY <2>1 DEF ActiveSub, Active, ACTIVE_STATUSES
    <3>3. Cardinality(S) < SubActiveLimit
      BY <1>2, <2>2 DEF Inserts, Insertable, SubActive, ActiveSub
    <3>4. IsFiniteSet(S \cup {k}) /\ Cardinality(S \cup {k}) = Cardinality(S) + 1
      BY <3>2, FS_AddElement
    <3>5. IsFiniteSet(T) /\ Cardinality(T) <= Cardinality(S \cup {k})
      BY <3>1, <3>4, FS_Subset
    <3>6. Cardinality(T) \in Nat
      BY <3>5, FS_CardinalityType
    <3> QED
      BY <3>3, <3>4, <3>5, <3>6, <1>nat
  <2>3. CASE Request[k].backend # "sub"
    <3>1. T \subseteq S
      BY <2>1, <2>3 DEF ActiveSub, InsertedRow
    <3>2. IsFiniteSet(T) /\ Cardinality(T) <= Cardinality(S)
      BY <3>1, FS_Subset
    <3>3. Cardinality(T) \in Nat
      BY <3>2, FS_CardinalityType
    <3> QED
      BY <3>2, <3>3, <1>0, <1>nat
  <2> QED
    BY <2>2, <2>3
<1> QED
  BY <1>1, <1>2, <1>0

-----------------------------------------------------------------------------
LEMMA TableInit == Init => TableInv
<1> SUFFICES ASSUME Init PROVE TableInv
  OBVIOUS
<1>1. TypeInv
  BY TypeInit
<1>2. \A j \in Jobs :
        /\ jobs[j].status = "absent" /\ jobs[j].claim = NoWorker /\ jobs[j].lease = "none"
        /\ jobs[j].consumed = 0 /\ ~jobs[j].finalized /\ refunded[j] = 0
  BY DEF Init, AbsentRow, InsertedRow
<1>3. Known /\ Unborn
  BY WorkAssumption DEF Init, Known, Unborn, Held, Scheduling, IdleWorker, IdleWeb
<1>4. BlankUntilInserted /\ ClaimedExactlyWhileRunning /\ OneActiveJobPerKey
  BY <1>2 DEF BlankUntilInserted, ClaimedExactlyWhileRunning, OneActiveJobPerKey, Active,
              ACTIVE_STATUSES
<1>5. SettlementIsExact
  <2>1. ASSUME NEW j \in Jobs PROVE 0 <= Reserved(j)
    <3>1. Reserved(j) \in Nat
      BY ReservedType
    <3> QED
      BY <3>1
  <2> QED
    BY <1>2, <2>1 DEF SettlementIsExact
<1>6. ActiveSub = {}
  BY <1>2 DEF ActiveSub, Active, ACTIVE_STATUSES
<1>7. IsFiniteSet(ActiveSub) /\ SubQueueWithinLimit
  <2>1. IsFiniteSet({}) /\ Cardinality({}) = 0
    BY FS_EmptySet
  <2>2. SubActive = Cardinality(ActiveSub)
    BY DEF SubActive, ActiveSub
  <2> QED
    BY <2>1, <2>2, <1>6, WorkAssumption DEF SubQueueWithinLimit
<1> QED
  BY <1>1, <1>3, <1>4, <1>5, <1>7 DEF TableInv

LEMMA TableInvStep == TableInv /\ [Next]_vars => TableInv'
<1> SUFFICES ASSUME TableInv, [Next]_vars PROVE TableInv'
  OBVIOUS
<1>1. TypeInv' /\ Known' /\ Unborn'
  BY TypeStep, KnownStep, UnbornStep DEF TableInv
<1>2. TableChange /\ TypeOK /\ TypeOK'
  BY <1>1, TableStep DEF TableInv, TypeInv
<1>3. BlankUntilInserted' /\ SettlementIsExact'
  BY <1>2, SettlementStep DEF TableInv
<1>4. ClaimedExactlyWhileRunning'
  BY <1>2, ClaimStep DEF TableInv
<1>5. OneActiveJobPerKey'
  BY <1>2, KeyStep DEF TableInv
<1>6. IsFiniteSet(ActiveSub)' /\ SubQueueWithinLimit'
  BY <1>2, SubQueueStep DEF TableInv
<1> QED
  BY <1>1, <1>3, <1>4, <1>5, <1>6 DEF TableInv

(* The inductive invariant of the table                                    *)
THEOREM TableInvariance == Spec => []TableInv
<1>1. Init => TableInv
  BY TableInit
<1>2. TableInv /\ [Next]_vars => TableInv'
  BY TableInvStep
<1> QED
  BY <1>1, <1>2, PTL DEF Spec

(* finalize is safe to call from anywhere, any number of times: for every  *)
(* job, consumed and refunded units add up to the reservation once it is   *)
(* settled, and nothing is refunded before.                                *)
THEOREM SettlementExactness == Spec => []SettlementIsExact
<1>1. TableInv => SettlementIsExact
  BY DEF TableInv
<1> QED
  BY <1>1, TableInvariance, PTL

(* create_job's dedupe holds against every statement that requeues a row.  *)
THEOREM KeyExclusion == Spec => []OneActiveJobPerKey
<1>1. TableInv => OneActiveJobPerKey
  BY DEF TableInv
<1> QED
  BY <1>1, TableInvariance, PTL

(* The claim columns are set exactly while a row is running.               *)
THEOREM ClaimDiscipline == Spec => []ClaimedExactlyWhileRunning
<1>1. TableInv => ClaimedExactlyWhileRunning
  BY DEF TableInv
<1> QED
  BY <1>1, TableInvariance, PTL

(* The user's subscription queue never exceeds the limit of the policy.    *)
THEOREM SubQueueBound == Spec => []SubQueueWithinLimit
<1>1. TableInv => SubQueueWithinLimit
  BY DEF TableInv
<1> QED
  BY <1>1, TableInvariance, PTL

(* No statement takes a row out of a terminal status.                      *)
THEOREM TerminalFinality == Spec => TerminalIsFinal
<1>1. TableInv /\ [Next]_vars => [\A j \in Jobs : Terminal(jobs[j]) => jobs'[j].status = jobs[j].status]_vars
  <2> SUFFICES ASSUME TableInv, [Next]_vars, NEW j \in Jobs, Terminal(jobs[j])
               PROVE  jobs'[j].status = jobs[j].status
    OBVIOUS
  <2>1. TypeOK /\ TableChange
    BY TableStep DEF TableInv, TypeInv
  <2>2. jobs[j].status # "absent" /\ ~Active(jobs[j])
    BY DEF Terminal, Active, TERMINAL_STATUSES, ACTIVE_STATUSES
  <2> QED
    BY <2>1, <2>2, LifecycleColumns DEF Inserts
<1> QED
  BY <1>1, TableInvariance, PTL DEF Spec, TerminalIsFinal

(* A settled row keeps its consumption, whatever a late worker commits.    *)
THEOREM ConsumptionFrozen == Spec => ConsumptionFrozenOnceSettled
<1>1. TableInv /\ [Next]_vars =>
        [\A j \in Jobs : jobs[j].finalized =>
           jobs'[j].finalized /\ jobs'[j].consumed = jobs[j].consumed]_vars
  <2> SUFFICES ASSUME TableInv, [Next]_vars, NEW j \in Jobs, jobs[j].finalized
               PROVE  jobs'[j].finalized /\ jobs'[j].consumed = jobs[j].consumed
    OBVIOUS
  <2>1. TypeOK /\ TableChange /\ BlankUntilInserted
    BY TableStep DEF TableInv, TypeInv
  <2> QED
    BY <2>1, QuotaColumns DEF BlankUntilInserted
<1> QED
  BY <1>1, TableInvariance, PTL DEF Spec, ConsumptionFrozenOnceSettled

-----------------------------------------------------------------------------
(* The refinement.  The mapping reads the state of a reservation off the   *)
(* row; TableStep says which rows change, and SettlementIsExact that a     *)
(* settlement returns all that is left.                                    *)

LEMMA ReservationStart == Init => Contract!ReservationInit
<1> SUFFICES ASSUME Init PROVE Contract!ReservationInit
  OBVIOUS
<1>1. \A j \in Jobs : jobs[j].status = "absent" /\ jobs[j].consumed = 0
  BY DEF Init, AbsentRow, InsertedRow
<1> QED
  BY <1>1 DEF Init, Contract!ReservationInit, ReservationState

LEMMA ReservationStep ==
  ASSUME TableInv, TableChange
  PROVE  [Contract!ReservationNext]_(Contract!reservationVars)
<1> DEFINE spent == [j \in Jobs |-> jobs[j].consumed]
           Units == [j \in Jobs |-> Reserved(j)]
<1>type. /\ jobs \in [Jobs -> Row] /\ refunded \in [Jobs -> Nat] /\ TypeOK
         /\ \A j \in Jobs : Reserved(j) \in Nat
  BY ReservedType DEF TableInv, TypeInv, TypeOK
<1>1. CASE MovesOnly
  <2>1. \A j \in Jobs : (jobs'[j].status = "absent") <=> (jobs[j].status = "absent")
    BY <1>1, <1>type, UpdateKeepsRows DEF Update
  <2>2. ReservationState' = ReservationState
    BY <2>1, <1>1 DEF ReservationState, MovesOnly, Moves
  <2>3. spent' = spent
    BY <1>1 DEF MovesOnly, Moves
  <2> QED
    BY <2>2, <2>3, <1>1 DEF Contract!reservationVars, MovesOnly
<1>2. ASSUME NEW j \in Jobs, Inserts(j) PROVE Contract!Open(j)
  <2>1. ~jobs[j].finalized /\ jobs[j].consumed = 0
    BY <1>2 DEF TableInv, BlankUntilInserted, Inserts
  <2>2. /\ jobs'[j].status = "queued" /\ ~jobs'[j].finalized /\ jobs'[j].consumed = 0
        /\ \A i \in Jobs : i # j => jobs'[i] = jobs[i]
    BY <1>2, <1>type DEF Inserts, InsertedRow
  <2>3. ReservationState' = [ReservationState EXCEPT ![j] = "open"]
    BY <2>2 DEF ReservationState
  <2>4. ReservationState[j] = "none"
    BY <1>2 DEF Inserts, ReservationState
  <2>5. spent' = spent
    BY <2>1, <2>2
  <2> QED
    BY <2>3, <2>4, <2>5, <1>2 DEF Contract!Open, Inserts
<1>3. ASSUME NEW j \in Jobs, Consumes(j) PROVE Contract!SpendOne(j)
  <2>0. jobs[j] \in Row /\ jobs[j].consumed \in Nat
    BY <1>type DEF Row
  <2>1. /\ jobs'[j].status = jobs[j].status /\ jobs'[j].finalized = jobs[j].finalized
        /\ jobs'[j].consumed = jobs[j].consumed + 1
        /\ \A i \in Jobs : i # j => jobs'[i] = jobs[i]
    BY <1>3, <2>0, <1>type DEF Consumes, increment_quota_consumed, Row
  <2>2. ReservationState' = ReservationState
    BY <2>1 DEF ReservationState
  <2>3. ReservationState[j] = "open"
    BY <1>3 DEF Consumes, CanConsume, ReservationState
  <2>4. spent' = [spent EXCEPT ![j] = @ + 1]
    BY <2>1
  <2>5. spent[j] < Units[j]
    BY <1>3, <2>0, <1>type DEF Consumes, CanConsume
  <2> QED
    BY <2>2, <2>3, <2>4, <2>5, <1>3 DEF Contract!SpendOne, Consumes
<1>4. ASSUME NEW j \in Jobs, NEW b \in BOOLEAN, SettlesAs(j, b)
      PROVE  Contract!KeepAll(j) \/ Contract!ReturnRest(j)
  <2> DEFINE row == finalize_quota(j, jobs[j], b)
  <2>0. /\ jobs[j] \in Row /\ jobs[j].consumed \in Nat /\ refunded[j] = 0
        /\ jobs[j].consumed <= Reserved(j)
    BY <1>type, <1>4 DEF Row, TableInv, SettlementIsExact, SettlesAs, CanFinalize
  <2>1. /\ row.status = jobs[j].status /\ row.finalized
        /\ row.consumed \in {jobs[j].consumed, Reserved(j)}
    BY <2>0 DEF finalize_quota, Row
  <2>2. /\ jobs' = [jobs EXCEPT ![j] = row]
        /\ refunded' = [refunded EXCEPT ![j] = @ + Refundable(j, row)]
        /\ jobs[j].status # "absent" /\ ~jobs[j].finalized
    BY <1>4 DEF SettlesAs, CanFinalize
  <2> HIDE DEF row
  <2>3. Refundable(j, row) = Reserved(j) - row.consumed
    BY <2>0, <2>1, <1>type DEF Refundable
  <2>4. /\ ReservationState[j] = "open"
        /\ ReservationState' = [ReservationState EXCEPT ![j] = "settled"]
    BY <2>1, <2>2, <1>type DEF ReservationState
  <2>5. spent' = [spent EXCEPT ![j] = row.consumed]
    BY <2>2, <1>type
  <2>6. refunded' = [refunded EXCEPT ![j] = Reserved(j) - row.consumed]
    <3>1. Reserved(j) \in Nat /\ row.consumed \in Nat
      BY <2>0, <2>1, <1>type
    <3>2. refunded[j] + Refundable(j, row) = Reserved(j) - row.consumed
      BY <2>0, <2>3, <3>1
    <3> QED
      BY <2>2, <3>2
  <2>7. CASE row.consumed = Reserved(j)
    <3>1. refunded' = refunded
      BY <2>0, <2>6, <2>7, <1>type
    <3> QED
      BY <3>1, <2>4, <2>5, <2>7 DEF Contract!KeepAll
  <2>8. CASE row.consumed = jobs[j].consumed
    <3>1. spent' = spent
      BY <2>5, <2>8
    <3> QED
      BY <3>1, <2>4, <2>6, <2>8 DEF Contract!ReturnRest
  <2> QED
    BY <2>1, <2>7, <2>8
<1> QED
  BY <1>1, <1>2, <1>3, <1>4 DEF TableChange, Update, Settles, Contract!ReservationNext

(* The job system implements the reservation contract: every step of every *)
(* worker, sweep, request and fault is a step of Reservation or leaves it  *)
(* alone.                                                                  *)
THEOREM ReservationRefinement == Spec => ImplementsReservation
<1>1. Init => Contract!ReservationInit
  BY ReservationStart
<1>2. TableInv /\ [Next]_vars => [Contract!ReservationNext]_(Contract!reservationVars)
  BY TableStep, ReservationStep DEF TableInv
<1> QED
  BY <1>1, <1>2, TableInvariance, PTL DEF Spec, ImplementsReservation, Contract!ReservationSpec

-----------------------------------------------------------------------------
(* The ledger balances.  Its books list the charged units one by one, so   *)
(* that what a step does to the charge of one job shows in their number    *)
(* (Rebook).  An existing row's charge and what it has handed back are its *)
(* reservation (ChargeOfSameJob), which makes a settlement post exactly    *)
(* what it hands back, whatever row it finds.                              *)

(* The units charged for one job are as many as its charge.                *)
LEMMA UnitsOfOneJob ==
  ASSUME NEW j, NEW n \in Nat
  PROVE  IsFiniteSet({j} \X (1..n)) /\ Cardinality({j} \X (1..n)) = n
<1> DEFINE S == {j}
           T == 1..n
<1>1. IsFiniteSet(S) /\ Cardinality(S) = 1
  BY FS_Singleton
<1>2. IsFiniteSet(T) /\ Cardinality(T) = n
  BY FS_Interval
<1> HIDE DEF S, T
<1>3. IsFiniteSet(S \X T) /\ Cardinality(S \X T) = Cardinality(S) * Cardinality(T)
  BY <1>1, <1>2, FS_Product
<1>4. Cardinality(S \X T) = n
  BY <1>1, <1>2, <1>3
<1> QED
  BY <1>3, <1>4 DEF S, T

(* The books with the units of one job apart from those of the others      *)
Others(charge, j, q) ==
  UNION {{i} \X (1..charge[i]) : i \in {i \in Jobs \ {j} : QuotaKind(i) = q}}

LEMMA BookedSplits ==
  ASSUME NEW charge, NEW j \in Jobs, NEW q
  PROVE  /\ Booked(charge, q) = Others(charge, j, q)
                                \cup (IF QuotaKind(j) = q THEN {j} \X (1..charge[j]) ELSE {})
         /\ Others(charge, j, q) \cap ({j} \X (1..charge[j])) = {}
<1>1. ASSUME NEW x \in Booked(charge, q), x \notin Others(charge, j, q)
      PROVE  QuotaKind(j) = q /\ x \in {j} \X (1..charge[j])
  BY <1>1 DEF Booked, Others
<1>2. Others(charge, j, q) \subseteq Booked(charge, q)
  BY DEF Booked, Others
<1>3. QuotaKind(j) = q => {j} \X (1..charge[j]) \subseteq Booked(charge, q)
  BY DEF Booked
<1>4. ASSUME NEW x \in Others(charge, j, q), x \in {j} \X (1..charge[j]) PROVE FALSE
  BY <1>4 DEF Others
<1> QED
  BY <1>1, <1>2, <1>3, <1>4

(* What the books say of a job they say one by one.                        *)
LEMMA BookedCount ==
  ASSUME NEW charge \in [Jobs -> Nat], NEW j \in Jobs, NEW q,
         IsFiniteSet(Booked(charge, q))
  PROVE  /\ IsFiniteSet(Others(charge, j, q))
         /\ Cardinality(Others(charge, j, q)) \in Nat
         /\ Cardinality(Booked(charge, q)) =
              Cardinality(Others(charge, j, q)) + (IF QuotaKind(j) = q THEN charge[j] ELSE 0)
<1> DEFINE O == Others(charge, j, q)
           J == {j} \X (1..charge[j])
<1>1. /\ Booked(charge, q) = O \cup (IF QuotaKind(j) = q THEN J ELSE {})
      /\ O \cap J = {}
  BY BookedSplits
<1>2. IsFiniteSet(J) /\ Cardinality(J) = charge[j]
  BY UnitsOfOneJob
<1> HIDE DEF O, J
<1>3. IsFiniteSet(O) /\ Cardinality(O) \in Nat
  BY <1>1, FS_Subset, FS_CardinalityType
<1>4. CASE QuotaKind(j) = q
  <2>1. Cardinality(O \cup J) = Cardinality(O) + Cardinality(J) - Cardinality({})
    BY <1>1, <1>2, <1>3, FS_Union
  <2>2. Cardinality(O \cup J) = Cardinality(O) + charge[j]
    BY <2>1, <1>2, <1>3, FS_EmptySet
  <2> QED
    BY <2>2, <1>1, <1>3, <1>4 DEF O
<1>5. CASE QuotaKind(j) # q
  <2>1. Booked(charge, q) = O
    BY <1>1, <1>5
  <2>2. Cardinality(O) = Cardinality(O) + 0
    BY <1>3
  <2> QED
    BY <2>1, <2>2, <1>3, <1>5 DEF O
<1> QED
  BY <1>4, <1>5

LEMMA BookedFinite ==
  ASSUME NEW charge \in [Jobs -> Nat], NEW j \in Jobs, NEW q,
         IsFiniteSet(Others(charge, j, q))
  PROVE  IsFiniteSet(Booked(charge, q))
<1>1. IsFiniteSet({j} \X (1..charge[j]))
  BY UnitsOfOneJob
<1>2. IsFiniteSet(Others(charge, j, q) \cup ({j} \X (1..charge[j])))
  BY <1>1, FS_Union
<1>3. CASE QuotaKind(j) = q
  <2>1. Booked(charge, q) = Others(charge, j, q) \cup ({j} \X (1..charge[j]))
    BY <1>3, BookedSplits
  <2> QED
    BY <1>2, <2>1
<1>4. CASE QuotaKind(j) # q
  <2>1. Booked(charge, q) = Others(charge, j, q)
    BY <1>4, BookedSplits
  <2> QED
    BY <2>1
<1> QED
  BY <1>3, <1>4

(* A change of one job's charge shows in the books of its quota kind, and  *)
(* nowhere else.                                                           *)
LEMMA Rebook ==
  ASSUME NEW old \in [Jobs -> Nat], NEW new \in [Jobs -> Nat], NEW j \in Jobs, NEW q,
         \A i \in Jobs \ {j} : new[i] = old[i],
         IsFiniteSet(Booked(old, q))
  PROVE  /\ IsFiniteSet(Booked(new, q))
         /\ Cardinality(Booked(new, q)) \in Nat
         /\ Cardinality(Booked(old, q)) \in Nat
         /\ QuotaKind(j) = q =>
              /\ Cardinality(Booked(old, q)) >= old[j]
              /\ Cardinality(Booked(new, q)) + old[j] = Cardinality(Booked(old, q)) + new[j]
         /\ QuotaKind(j) # q =>
              Cardinality(Booked(new, q)) = Cardinality(Booked(old, q))
<1>1. Others(new, j, q) = Others(old, j, q)
  BY DEF Others
<1>2. /\ IsFiniteSet(Others(old, j, q))
      /\ Cardinality(Others(old, j, q)) \in Nat
      /\ Cardinality(Booked(old, q)) =
           Cardinality(Others(old, j, q)) + (IF QuotaKind(j) = q THEN old[j] ELSE 0)
  BY BookedCount
<1>3. IsFiniteSet(Booked(new, q))
  BY <1>1, <1>2, BookedFinite
<1>4. Cardinality(Booked(new, q)) =
        Cardinality(Others(old, j, q)) + (IF QuotaKind(j) = q THEN new[j] ELSE 0)
  BY <1>1, <1>3, BookedCount
<1> DEFINE o == Cardinality(Others(old, j, q))
           a == Cardinality(Booked(old, q))
           b == Cardinality(Booked(new, q))
<1>5. o \in Nat /\ old[j] \in Nat /\ new[j] \in Nat
      /\ a = o + (IF QuotaKind(j) = q THEN old[j] ELSE 0)
      /\ b = o + (IF QuotaKind(j) = q THEN new[j] ELSE 0)
  BY <1>2, <1>4
<1> HIDE DEF o, a, b
<1>6. a \in Nat /\ b \in Nat
      /\ (QuotaKind(j) = q => a >= old[j] /\ b + old[j] = a + new[j])
      /\ (QuotaKind(j) # q => b = a)
  BY <1>5
<1> QED
  BY <1>3, <1>6 DEF a, b

(* A settlement hands back n units of a row; nothing else moves a unit of  *)
(* a row.                                                                  *)
HandsBack(j, n) ==
  /\ jobs[j].status # "absent"
  /\ Refund(QuotaKind(j), n)
  /\ refunded' = [refunded EXCEPT ![j] = @ + n]

LEMMA FinalizeHandsBack ==
  ASSUME TypeOK, NEW j \in Jobs, NEW b \in BOOLEAN, jobs[j].status # "absent", Finalize(j, b)
  PROVE  UNCHANGED <<used, refunded>> \/ \E n \in Nat : HandsBack(j, n)
<1> DEFINE row == finalize_quota(j, jobs[j], b)
<1>1. CASE ~CanFinalize(jobs[j])
  BY <1>1 DEF Finalize
<1>2. CASE CanFinalize(jobs[j])
  <2>1. row \in Row
    BY RowOperators DEF TypeOK
  <2> HIDE DEF row
  <2>2. Refundable(j, row) \in Nat
    BY <2>1, ReservedType DEF Refundable, Row
  <2>3. HandsBack(j, Refundable(j, row))
    BY <1>2 DEF Finalize, HandsBack, row
  <2> QED
    BY <2>2, <2>3
<1> QED
  BY <1>1, <1>2

(* What a worker does to the ledger: nothing, or one settlement            *)
LEMMA WorkerLedgerStep ==
  ASSUME TypeInv, Known, NEW w \in Workers, WorkerNext(w)
  PROVE  /\ UNCHANGED lost
         /\ UNCHANGED <<used, refunded>> \/ \E j \in Jobs, n \in Nat : HandsBack(j, n)
<1> USE DEF TypeInv
<1> DEFINE Goal == \/ UNCHANGED <<used, refunded>>
                   \/ \E j \in Jobs, n \in Nat : HandsBack(j, n)
<1>final. ASSUME NEW j \in Jobs, NEW b \in BOOLEAN, Held(w, j), Finalize(j, b) PROVE Goal
  BY <1>final, FinalizeHandsBack DEF Known
<1>1. CASE SweepSettle(w)
  <2>1. PICK j \in wk[w].settle : Finalize(j, FALSE)
    BY <1>1 DEF SweepSettle
  <2>2. j \in Jobs /\ Held(w, j)
    BY DEF TypeOK, WorkerState, Held
  <2> QED
    BY <2>1, <2>2, <1>final, <1>1 DEF SweepSettle
<1>2. CASE Settle(w)
  <2>1. wk[w].job \in Jobs /\ Held(w, wk[w].job)
    BY <1>2 DEF Settle, JobAtHand, RestingPlaces, Held
  <2> QED
    BY <2>1, <1>final, <1>2 DEF Settle
<1>3. CASE ReleaseReservation(w)
  <2>1. wk[w].job \in Jobs /\ Held(w, wk[w].job)
    BY <1>3 DEF ReleaseReservation, JobAtHand, RestingPlaces, Held
  <2> QED
    BY <2>1, <1>final, <1>3 DEF ReleaseReservation
<1>4. ASSUME ~SweepSettle(w), ~Settle(w), ~ReleaseReservation(w)
      PROVE  UNCHANGED <<used, refunded, lost>>
  BY <1>4 DEF WorkerNext, WorkerStep, Maintenance, Claim, SweepStep, SweepDone,
         Reauthorize, Revoke, Checkpoint, CommitChapter, HandlerReturns, HandlerRaises,
         MarkDone, MarkCanceled, Caught, Park, Preflight,
         SwitchToApi, FailOrRetry, ReleaseDueWaits, SweepRead, Heartbeat, SettleFails, Crash
<1>5. UNCHANGED lost
  BY <1>4 DEF SweepSettle, Settle, ReleaseReservation
<1> QED
  BY <1>1, <1>2, <1>3, <1>4, <1>5

(* What an existing row is charged and what it has handed back are its     *)
(* reservation, settled or not.  So a job that neither enters nor leaves   *)
(* the table, nor a request's hands, is charged less by what it hands back.*)
LEMMA ChargeOfSameJob ==
  ASSUME TypeOK, TypeOK', SettlementIsExact, SettlementIsExact',
         BlankUntilInserted, BlankUntilInserted', NEW j \in Jobs,
         (jobs'[j].status = "absent") <=> (jobs[j].status = "absent"),
         BeingScheduled(j)' <=> BeingScheduled(j)
  PROVE  Charge(j)' + refunded'[j] = Charge(j) + refunded[j]
<1>1. /\ Reserved(j) \in Nat /\ refunded[j] \in Nat /\ refunded'[j] \in Nat
      /\ jobs[j].consumed \in Nat /\ jobs'[j].consumed \in Nat
  BY ReservedType DEF TypeOK, Row
<1>2. CASE jobs[j].status = "absent"
  <2>1. refunded[j] = 0 /\ refunded'[j] = 0
    BY <1>2 DEF BlankUntilInserted
  <2>2. /\ Charge(j) = IF BeingScheduled(j) THEN Reserved(j) ELSE 0
        /\ Charge(j)' = IF BeingScheduled(j)' THEN Reserved(j) ELSE 0
    BY <1>2 DEF Charge
  <2> QED
    BY <2>1, <2>2
<1>3. CASE jobs[j].status # "absent"
  <2>1. /\ Charge(j) = IF jobs[j].finalized THEN jobs[j].consumed ELSE Reserved(j)
        /\ Charge(j)' = IF jobs'[j].finalized THEN jobs'[j].consumed ELSE Reserved(j)
    BY <1>3 DEF Charge
  <2>2. Charge(j) + refunded[j] = Reserved(j)
    BY <1>1, <2>1 DEF SettlementIsExact
  <2>3. Charge(j)' + refunded'[j] = Reserved(j)
    BY <1>1, <2>1 DEF SettlementIsExact
  <2> QED
    BY <2>2, <2>3
<1> QED
  BY <1>2, <1>3

LEMMA ChargesType ==
  ASSUME TypeOK
  PROVE  Charges \in [Jobs -> Nat]
<1> SUFFICES ASSUME NEW j \in Jobs PROVE Charge(j) \in Nat
  BY DEF Charges
<1>1. Reserved(j) \in Nat /\ jobs[j].consumed \in Nat
  BY ReservedType DEF TypeOK, Row
<1> QED
  BY <1>1 DEF Charge

(* The ledger posts a change of the charge of one job.                     *)
Posts(j) ==
  /\ \A i \in Jobs \ {j} : Charges'[i] = Charges[i]
  /\ \A q \in QuotaKinds : q # QuotaKind(j) => used'[q] = used[q] /\ lost'[q] = lost[q]
  /\ used'[QuotaKind(j)] + lost[QuotaKind(j)] + Charges[j]
       = used[QuotaKind(j)] + lost'[QuotaKind(j)] + Charges'[j]
NothingPosted == Charges' = Charges /\ UNCHANGED <<used, lost>>

BooksFinite == \A q \in QuotaKinds : IsFiniteSet(Booked(Charges, q))

LEMMA PostKeepsBalance ==
  ASSUME TypeOK, TypeOK', Charges \in [Jobs -> Nat], Charges' \in [Jobs -> Nat],
         BooksFinite, LedgerBalances, NEW j \in Jobs, Posts(j)
  PROVE  BooksFinite' /\ LedgerBalances'
<1> SUFFICES ASSUME NEW q \in QuotaKinds
             PROVE  /\ IsFiniteSet(Booked(Charges', q))
                    /\ used'[q] = Cardinality(Booked(Charges', q)) + lost'[q]
  BY DEF BooksFinite, LedgerBalances
<1> DEFINE old == Charges
           new == Charges'
           a == Cardinality(Booked(old, q))
           b == Cardinality(Booked(new, q))
<1>1. /\ IsFiniteSet(Booked(old, q))
      /\ used[q] = a + lost[q]
  BY DEF BooksFinite, LedgerBalances
<1>2. \A i \in Jobs \ {j} : new[i] = old[i]
  BY DEF Posts
<1>3. old \in [Jobs -> Nat] /\ new \in [Jobs -> Nat]
  OBVIOUS
<1> HIDE DEF old, new
<1>4. /\ IsFiniteSet(Booked(new, q))
      /\ b \in Nat /\ a \in Nat
      /\ QuotaKind(j) = q => b + old[j] = a + new[j]
      /\ QuotaKind(j) # q => b = a
  BY <1>1, <1>2, <1>3, Rebook
<1>5. /\ used[q] \in Nat /\ used'[q] \in Nat /\ lost[q] \in Nat /\ lost'[q] \in Nat
      /\ old[j] \in Nat /\ new[j] \in Nat
  BY <1>3 DEF TypeOK
<1>6. /\ q # QuotaKind(j) => used'[q] = used[q] /\ lost'[q] = lost[q]
      /\ q = QuotaKind(j) => used'[q] + lost[q] + old[j] = used[q] + lost'[q] + new[j]
  BY DEF Posts, old, new
<1> HIDE DEF a, b
<1>7. used'[q] = b + lost'[q]
  BY <1>1, <1>4, <1>5, <1>6
<1> QED
  BY <1>4, <1>7 DEF new, b

(* A job's charge is on the books, so that its refund is never cut short.  *)
LEMMA RefundIsExact ==
  ASSUME TypeOK, BooksFinite, LedgerBalances, NEW j \in Jobs, NEW n \in Nat,
         n <= Charges[j], Refund(QuotaKind(j), n)
  PROVE  /\ used'[QuotaKind(j)] + n = used[QuotaKind(j)]
         /\ \A q \in QuotaKinds : q # QuotaKind(j) => used'[q] = used[q]
<1> DEFINE q == QuotaKind(j)
           old == Charges
           a == Cardinality(Booked(old, q))
<1>1. q \in QuotaKinds
  BY QuotaKindType
<1>2. old \in [Jobs -> Nat]
  BY ChargesType
<1>3. IsFiniteSet(Booked(old, q)) /\ used[q] = a + lost[q]
  BY <1>1 DEF BooksFinite, LedgerBalances
<1> HIDE DEF old
<1>4. a \in Nat /\ a >= old[j]
  BY <1>2, <1>3, Rebook
<1>5. used[q] \in Nat /\ lost[q] \in Nat /\ old[j] \in Nat /\ n <= old[j]
  BY <1>1, <1>2 DEF TypeOK, old
<1> HIDE DEF a
<1>6. n <= used[q]
  BY <1>3, <1>4, <1>5
<1> HIDE DEF q
<1>7. used \in [QuotaKinds -> Nat]
  BY DEF TypeOK
<1>8. used' = [used EXCEPT ![q] = used[q] - n]
  BY <1>6 DEF Refund, q
<1>9. used'[q] = used[q] - n
  BY <1>1, <1>7, <1>8
<1>10. used'[q] + n = used[q]
  BY <1>9, <1>5
<1>11. \A k \in QuotaKinds : k # q => used'[k] = used[k]
  BY <1>7, <1>8
<1> QED
  BY <1>10, <1>11 DEF q

-----------------------------------------------------------------------------
(* Facts of one step: the invariant before it and after it, and the types  *)
(* of the charges                                                          *)
StepFacts ==
  /\ TableInv /\ TableInv'
  /\ Charges \in [Jobs -> Nat] /\ Charges' \in [Jobs -> Nat]
  /\ BooksFinite /\ LedgerBalances

(* A step that schedules nothing, and hands nothing back, posts nothing.   *)
LEMMA QuietStep ==
  ASSUME StepFacts,
         \A j \in Jobs : (jobs'[j].status = "absent") <=> (jobs[j].status = "absent"),
         \A j \in Jobs : BeingScheduled(j)' <=> BeingScheduled(j),
         UNCHANGED <<used, lost, refunded>>
  PROVE  NothingPosted
<1> USE DEF StepFacts, TableInv, TypeInv
<1>1. ASSUME NEW j \in Jobs PROVE Charges'[j] = Charges[j]
  <2>1. Charge(j)' + refunded'[j] = Charge(j) + refunded[j]
    BY ChargeOfSameJob
  <2>2. Charges[j] = Charge(j) /\ Charges'[j] = Charge(j)'
    BY DEF Charges
  <2>3. Charges[j] \in Nat /\ Charges'[j] \in Nat /\ refunded[j] \in Nat
    BY DEF TypeOK
  <2> QED
    BY <2>1, <2>2, <2>3
<1> QED
  BY <1>1 DEF NothingPosted

(* A settlement posts what it hands back.                                  *)
LEMMA HandingBackPosts ==
  ASSUME StepFacts, NEW j \in Jobs, NEW n \in Nat, HandsBack(j, n),
         \A i \in Jobs : (jobs'[i].status = "absent") <=> (jobs[i].status = "absent"),
         \A i \in Jobs : BeingScheduled(i)' <=> BeingScheduled(i),
         UNCHANGED lost
  PROVE  Posts(j)
<1> USE DEF StepFacts, TableInv, TypeInv
<1>1. \A i \in Jobs : Charges[i] = Charge(i) /\ Charges'[i] = Charge(i)'
  BY DEF Charges
<1>2. \A i \in Jobs : Charge(i)' + refunded'[i] = Charge(i) + refunded[i]
  BY ChargeOfSameJob
<1>3. refunded \in [Jobs -> Nat] /\ refunded' = [refunded EXCEPT ![j] = refunded[j] + n]
  BY DEF HandsBack, TypeOK
<1>4. refunded'[j] = refunded[j] + n /\ \A i \in Jobs \ {j} : refunded'[i] = refunded[i]
  BY <1>3
<1>5. ASSUME NEW i \in Jobs \ {j} PROVE Charges'[i] = Charges[i]
  <2>1. Charges[i] \in Nat /\ Charges'[i] \in Nat /\ refunded[i] \in Nat
    BY <1>3
  <2> QED
    BY <2>1, <1>1, <1>2, <1>4
<1>6. Charges[j] \in Nat /\ Charges'[j] \in Nat /\ refunded[j] \in Nat
  BY <1>3
<1>7. Charges'[j] + n = Charges[j]
  BY <1>1, <1>2, <1>4, <1>6
<1>8. n <= Charges[j]
  BY <1>6, <1>7
<1>9. /\ used'[QuotaKind(j)] + n = used[QuotaKind(j)]
      /\ \A q \in QuotaKinds : q # QuotaKind(j) => used'[q] = used[q]
  BY <1>8, RefundIsExact DEF HandsBack
<1>10. used'[QuotaKind(j)] + lost[QuotaKind(j)] + Charges[j]
         = used[QuotaKind(j)] + lost'[QuotaKind(j)] + Charges'[j]
  <2>1. /\ used[QuotaKind(j)] \in Nat /\ used'[QuotaKind(j)] \in Nat
        /\ lost[QuotaKind(j)] \in Nat /\ lost'[QuotaKind(j)] = lost[QuotaKind(j)]
    BY QuotaKindType DEF TypeOK
  <2> QED
    BY <2>1, <1>6, <1>7, <1>9
<1> QED
  BY <1>5, <1>9, <1>10 DEF Posts

(* A request ends with its units in hand: they are not charged any more.   *)
LEMMA LettingGo ==
  ASSUME TypeInv, Unborn, NEW c \in Clients, Scheduling(c), NEW j \in Jobs, web[c].job = j,
         web' = [web EXCEPT ![c] = IdleWeb], UNCHANGED jobs
  PROVE  /\ Charges[j] = Reserved(j) /\ Charges'[j] = 0
         /\ \A i \in Jobs \ {j} : Charges'[i] = Charges[i]
<1>1. jobs[j].status = "absent"
  BY DEF Unborn, Scheduling
<1>2. web \in [Clients -> WebState]
  BY DEF TypeInv, TypeOK
<1>3. web'[c] = IdleWeb /\ \A d \in Clients \ {c} : web'[d] = web[d]
  BY <1>2
<1>4. BeingScheduled(j)
  BY DEF BeingScheduled, Scheduling
<1>5. ~BeingScheduled(j)'
  <2>1. ASSUME NEW d \in Clients, web'[d].pc \in {"reserved", "refund"}, web'[d].job = j
        PROVE  FALSE
    <3>1. d # c
      BY <2>1, <1>3 DEF IdleWeb
    <3> QED
      BY <2>1, <3>1, <1>3 DEF Unborn, Scheduling
  <2> QED
    BY <2>1 DEF BeingScheduled
<1>6. ASSUME NEW i \in Jobs \ {j} PROVE BeingScheduled(i)' <=> BeingScheduled(i)
  <2>1. ASSUME NEW d \in Clients
        PROVE  /\ web'[d].pc \in {"reserved", "refund"} /\ web'[d].job = i
                  => web[d].pc \in {"reserved", "refund"} /\ web[d].job = i
               /\ web[d].pc \in {"reserved", "refund"} /\ web[d].job = i
                  => web'[d].pc \in {"reserved", "refund"} /\ web'[d].job = i
    BY <1>3 DEF IdleWeb
  <2> QED
    BY <2>1 DEF BeingScheduled
<1>7. Charges[j] = Reserved(j) /\ Charges'[j] = 0
  BY <1>1, <1>4, <1>5 DEF Charges, Charge
<1>8. ASSUME NEW i \in Jobs \ {j} PROVE Charges'[i] = Charges[i]
  BY <1>6 DEF Charges, Charge
<1> QED
  BY <1>7, <1>8

LEMMA WebLedgerStep ==
  ASSUME StepFacts, NEW c \in Clients, WebNext(c)
  PROVE  NothingPosted \/ \E j \in Jobs : Posts(j)
<1> USE DEF StepFacts, TableInv, TypeInv
<1>type. /\ web \in [Clients -> WebState] /\ used \in [QuotaKinds -> Nat]
         /\ lost \in [QuotaKinds -> Nat] /\ jobs \in [Jobs -> Row]
  BY DEF TypeOK
<1>at. \A j \in Jobs : Charges[j] = Charge(j) /\ Charges'[j] = Charge(j)'
  BY DEF Charges
<1>1. ASSUME NEW j \in Jobs, Reserve(c, j) PROVE Posts(j)
  <2>1. /\ jobs[j].status = "absent" /\ jobs' = jobs
        /\ ~BeingScheduled(j)
        /\ web' = [web EXCEPT ![c] = [pc |-> "reserved", job |-> j]] /\ web[c] = IdleWeb
    BY <1>1 DEF Reserve, BeingScheduled
  <2>2. web'[c] = [pc |-> "reserved", job |-> j] /\ \A d \in Clients \ {c} : web'[d] = web[d]
    BY <2>1, <1>type
  <2>3. BeingScheduled(j)'
    BY <2>2 DEF BeingScheduled
  <2>4. ASSUME NEW i \in Jobs \ {j} PROVE BeingScheduled(i)' <=> BeingScheduled(i)
    <3>1. ASSUME NEW d \in Clients
          PROVE  /\ web'[d].pc \in {"reserved", "refund"} /\ web'[d].job = i
                    => web[d].pc \in {"reserved", "refund"} /\ web[d].job = i
                 /\ web[d].pc \in {"reserved", "refund"} /\ web[d].job = i
                    => web'[d].pc \in {"reserved", "refund"} /\ web'[d].job = i
      BY <2>1, <2>2 DEF IdleWeb
    <3> QED
      BY <3>1 DEF BeingScheduled
  <2>5. Charges[j] = 0 /\ Charges'[j] = Reserved(j)
    BY <2>1, <2>3 DEF Charges, Charge
  <2>6. \A i \in Jobs \ {j} : Charges'[i] = Charges[i]
    BY <2>1, <2>4 DEF Charges, Charge
  <2>7. /\ used' = [used EXCEPT ![QuotaKind(j)] = used[QuotaKind(j)] + Reserved(j)]
        /\ lost' = lost
    BY <1>1 DEF Reserve
  <2>8. /\ used'[QuotaKind(j)] = used[QuotaKind(j)] + Reserved(j)
        /\ \A q \in QuotaKinds : q # QuotaKind(j) => used'[q] = used[q]
    BY <2>7, <1>type, QuotaKindType
  <2>9. used[QuotaKind(j)] \in Nat /\ lost[QuotaKind(j)] \in Nat /\ Reserved(j) \in Nat
    BY <1>type, QuotaKindType, ReservedType
  <2>10. used'[QuotaKind(j)] + lost[QuotaKind(j)] + Charges[j]
           = used[QuotaKind(j)] + lost'[QuotaKind(j)] + Charges'[j]
    BY <2>5, <2>7, <2>8, <2>9
  <2> QED
    BY <2>6, <2>7, <2>8, <2>10 DEF Posts
<1>2. ASSUME NEW j \in Jobs, Cancel(c, j) PROVE NothingPosted
  <2>0. ~Create(c)
    BY <1>2 DEF Cancel, Create, IdleWeb
  <2>1. Update
    BY <2>0, WebTableStep
  <2>2. \A i \in Jobs : (jobs'[i].status = "absent") <=> (jobs[i].status = "absent")
    BY <2>1, UpdateKeepsRows
  <2>3. \A i \in Jobs : BeingScheduled(i)' <=> BeingScheduled(i)
    BY <1>2, <1>type DEF Cancel, BeingScheduled, IdleWeb
  <2> QED
    BY <2>2, <2>3, <1>2, QuietStep DEF Cancel
<1>3. CASE Create(c)
  <2> DEFINE j == web[c].job
  <2>1. /\ j \in Jobs /\ jobs[j].status = "absent" /\ Scheduling(c)
    BY <1>3 DEF Create, Scheduling, Unborn, JobAtHand
  <2>2. /\ jobs' = [jobs EXCEPT ![j] = InsertedRow(j)]
        /\ web' = [web EXCEPT ![c] = IdleWeb]
        /\ UNCHANGED <<used, lost>>
    BY <1>3 DEF Create, Write
  <2>3. BeingScheduled(j)
    BY <2>1 DEF BeingScheduled, Scheduling
  <2>4. web'[c] = IdleWeb /\ \A d \in Clients \ {c} : web'[d] = web[d]
    BY <2>2, <1>type
  <2>5. ASSUME NEW i \in Jobs \ {j} PROVE BeingScheduled(i)' <=> BeingScheduled(i)
    <3>1. ASSUME NEW d \in Clients
          PROVE  /\ web'[d].pc \in {"reserved", "refund"} /\ web'[d].job = i
                    => web[d].pc \in {"reserved", "refund"} /\ web[d].job = i
                 /\ web[d].pc \in {"reserved", "refund"} /\ web[d].job = i
                    => web'[d].pc \in {"reserved", "refund"} /\ web'[d].job = i
      BY <2>4 DEF IdleWeb
    <3> QED
      BY <3>1 DEF BeingScheduled
  <2> HIDE DEF j
  <2>6. jobs'[j] = InsertedRow(j) /\ \A i \in Jobs \ {j} : jobs'[i] = jobs[i]
    BY <2>1, <2>2, <1>type
  <2>7. Charges'[j] = Charges[j]
    BY <2>1, <2>3, <2>6 DEF Charges, Charge, InsertedRow
  <2>8. ASSUME NEW i \in Jobs \ {j} PROVE Charges'[i] = Charges[i]
    BY <2>5, <2>6 DEF Charges, Charge
  <2> QED
    BY <2>2, <2>7, <2>8 DEF NothingPosted
<1>4. CASE CreateRefused(c)
  <2>1. /\ web' = [web EXCEPT ![c].pc = "refund"] /\ web[c].pc = "reserved"
        /\ UNCHANGED <<jobs, used, refunded, lost>>
    BY <1>4 DEF CreateRefused
  <2>2. /\ web'[c].pc = "refund" /\ web'[c].job = web[c].job
        /\ \A d \in Clients \ {c} : web'[d] = web[d]
    BY <2>1, <1>type DEF WebState
  <2>3. \A i \in Jobs : BeingScheduled(i)' <=> BeingScheduled(i)
    BY <2>1, <2>2 DEF BeingScheduled
  <2> QED
    BY <2>1, <2>3, QuietStep
<1>5. CASE RefundReservation(c)
  <2> DEFINE j == web[c].job
             n == Reserved(j)
  <2>1. Scheduling(c) /\ web' = [web EXCEPT ![c] = IdleWeb] /\ jobs' = jobs
        /\ Refund(QuotaKind(j), n) /\ lost' = lost
    BY <1>5 DEF RefundReservation, Scheduling
  <2>job. j \in Jobs
    BY <2>1 DEF Scheduling, JobAtHand
  <2>2. /\ Charges[j] = n /\ Charges'[j] = 0
        /\ \A i \in Jobs \ {j} : Charges'[i] = Charges[i]
    BY <2>1, <2>job, LettingGo
  <2>3. n \in Nat /\ n <= Charges[j]
    BY <2>2, <2>job, ReservedType
  <2> HIDE DEF j, n
  <2>4. /\ used'[QuotaKind(j)] + n = used[QuotaKind(j)]
        /\ \A q \in QuotaKinds : q # QuotaKind(j) => used'[q] = used[q]
    BY <2>1, <2>job, <2>3, RefundIsExact
  <2>5. used[QuotaKind(j)] \in Nat /\ used'[QuotaKind(j)] \in Nat /\ lost[QuotaKind(j)] \in Nat
    BY <1>type, <2>job, QuotaKindType DEF TypeOK
  <2>6. used'[QuotaKind(j)] + lost[QuotaKind(j)] + Charges[j]
          = used[QuotaKind(j)] + lost'[QuotaKind(j)] + Charges'[j]
    BY <2>1, <2>2, <2>3, <2>4, <2>5
  <2>7. Posts(j)
    BY <2>1, <2>2, <2>4, <2>6 DEF Posts
  <2> QED
    BY <2>job, <2>7
<1>6. CASE CancelSettle(c)
  <2> DEFINE j == web[c].job
  <2>1. j \in Jobs /\ jobs[j].status # "absent"
    BY <1>6 DEF CancelSettle, JobAtHand, Known
  <2>2. /\ Finalize(j, FALSE) /\ web' = [web EXCEPT ![c] = IdleWeb]
        /\ web[c].pc = "cancel_settle" /\ lost' = lost
    BY <1>6 DEF CancelSettle
  <2>3. web'[c] = IdleWeb /\ \A d \in Clients \ {c} : web'[d] = web[d]
    BY <2>2, <1>type
  <2>4. \A i \in Jobs : BeingScheduled(i)' <=> BeingScheduled(i)
    BY <2>2, <2>3 DEF BeingScheduled, IdleWeb
  <2>5. MovesOnly \/ Settles(j)
    BY <2>1, <2>2, FinalizeSettles
  <2>6. Update
    BY <2>1, <2>5 DEF Update
  <2>7. \A i \in Jobs : (jobs'[i].status = "absent") <=> (jobs[i].status = "absent")
    BY <2>6, UpdateKeepsRows
  <2>8. UNCHANGED <<used, refunded>> \/ \E n \in Nat : HandsBack(j, n)
    BY <2>1, <2>2, FinalizeHandsBack
  <2> HIDE DEF j
  <2> QED
    BY <2>1, <2>2, <2>4, <2>7, <2>8, QuietStep, HandingBackPosts
<1>7. CASE WebCrash(c)
  <2> DEFINE j == web[c].job
  <2>1. web' = [web EXCEPT ![c] = IdleWeb] /\ UNCHANGED <<jobs, used, refunded>>
    BY <1>7 DEF WebCrash
  <2>2. CASE ~Scheduling(c)
    <3>1. web[c].pc = "cancel_settle"
      BY <1>7, <2>2, <1>type DEF WebCrash, Scheduling, WebState, WebPlaces
    <3>2. lost' = lost
      BY <1>7, <3>1 DEF WebCrash
    <3>3. web'[c] = IdleWeb /\ \A d \in Clients \ {c} : web'[d] = web[d]
      BY <2>1, <1>type
    <3>4. \A i \in Jobs : BeingScheduled(i)' <=> BeingScheduled(i)
      BY <3>1, <3>3 DEF BeingScheduled, IdleWeb
    <3> QED
      BY <2>1, <3>2, <3>4, QuietStep
  <2>3. CASE Scheduling(c)
    <3>job. j \in Jobs
      BY <2>3 DEF Scheduling, JobAtHand
    <3>1. /\ Charges[j] = Reserved(j) /\ Charges'[j] = 0
          /\ \A i \in Jobs \ {j} : Charges'[i] = Charges[i]
      BY <2>1, <2>3, <3>job, LettingGo
    <3>2. lost' = [lost EXCEPT ![QuotaKind(j)] = lost[QuotaKind(j)] + Reserved(j)]
      BY <1>7, <2>3 DEF WebCrash, Scheduling
    <3> HIDE DEF j
    <3>3. /\ lost'[QuotaKind(j)] = lost[QuotaKind(j)] + Reserved(j)
          /\ \A q \in QuotaKinds : q # QuotaKind(j) => lost'[q] = lost[q]
      BY <3>job, <3>2, <1>type, QuotaKindType
    <3>4. used[QuotaKind(j)] \in Nat /\ lost[QuotaKind(j)] \in Nat /\ Reserved(j) \in Nat
      BY <3>job, <1>type, QuotaKindType, ReservedType
    <3>5. used'[QuotaKind(j)] + lost[QuotaKind(j)] + Charges[j]
            = used[QuotaKind(j)] + lost'[QuotaKind(j)] + Charges'[j]
      BY <2>1, <3>1, <3>3, <3>4
    <3>6. Posts(j)
      BY <2>1, <3>1, <3>3, <3>5 DEF Posts
    <3> QED
      BY <3>job, <3>6
  <2> QED
    BY <2>2, <2>3
<1> QED
  BY <1>1, <1>2, <1>3, <1>4, <1>5, <1>6, <1>7 DEF WebNext

LEMMA LedgerStep ==
  StepFacts /\ [Next]_vars => BooksFinite' /\ LedgerBalances'
<1> SUFFICES ASSUME StepFacts, [Next]_vars PROVE BooksFinite' /\ LedgerBalances'
  OBVIOUS
<1> USE DEF StepFacts, TableInv, TypeInv
<1>quiet. NothingPosted => BooksFinite' /\ LedgerBalances'
  BY DEF NothingPosted, BooksFinite, LedgerBalances
<1>post. \A j \in Jobs : Posts(j) => BooksFinite' /\ LedgerBalances'
  BY PostKeepsBalance
<1>web. UNCHANGED web => \A i \in Jobs : BeingScheduled(i)' <=> BeingScheduled(i)
  BY DEF BeingScheduled
<1>1. ASSUME NEW c \in Clients, WebNext(c) PROVE BooksFinite' /\ LedgerBalances'
  BY <1>1, <1>quiet, <1>post, WebLedgerStep
<1>2. ASSUME NEW w \in Workers, WorkerNext(w) PROVE BooksFinite' /\ LedgerBalances'
  <2>1. \A i \in Jobs : (jobs'[i].status = "absent") <=> (jobs[i].status = "absent")
    BY <1>2, WorkerTableStep, UpdateKeepsRows
  <2>2. \A i \in Jobs : BeingScheduled(i)' <=> BeingScheduled(i)
    BY <1>2, <1>web, WorkersLeaveTheWeb
  <2>3. /\ UNCHANGED lost
        /\ UNCHANGED <<used, refunded>> \/ \E j \in Jobs, n \in Nat : HandsBack(j, n)
    BY <1>2, WorkerLedgerStep
  <2> QED
    BY <2>1, <2>2, <2>3, <1>quiet, <1>post, QuietStep, HandingBackPosts
<1>3. ASSUME NEW j \in Jobs, TimeNext(j) PROVE BooksFinite' /\ LedgerBalances'
  <2>1. \A i \in Jobs : (jobs'[i].status = "absent") <=> (jobs[i].status = "absent")
    BY <1>3, TimeTableStep, UpdateKeepsRows
  <2>2. UNCHANGED <<used, web, refunded, lost>>
    BY <1>3 DEF TimeNext, ComesDue, LeaseExpires, Stall, RetryWaiting
  <2> QED
    BY <2>1, <2>2, <1>web, <1>quiet, QuietStep
<1>4. CASE UNCHANGED vars
  <2>1. NothingPosted
    BY <1>4, <1>web, QuietStep DEF vars
  <2> QED
    BY <2>1, <1>quiet
<1> QED
  BY <1>1, <1>2, <1>3, <1>4 DEF Next

LedgerInv == TableInv /\ BooksFinite /\ LedgerBalances

LEMMA LedgerInit == Init => LedgerInv
<1> SUFFICES ASSUME Init PROVE LedgerInv
  OBVIOUS
<1>1. TableInv
  BY TableInit
<1>2. ASSUME NEW q \in QuotaKinds PROVE Booked(Charges, q) = {}
  <2>1. ASSUME NEW j \in Jobs PROVE Charges[j] = 0
    BY DEF Init, Charges, Charge, AbsentRow, InsertedRow, BeingScheduled, IdleWeb
  <2>2. 1..0 = {}
    OBVIOUS
  <2> QED
    BY <2>1, <2>2 DEF Booked
<1>3. BooksFinite
  BY <1>2, FS_EmptySet DEF BooksFinite
<1>4. ASSUME NEW q \in QuotaKinds PROVE used[q] = Cardinality(Booked(Charges, q)) + lost[q]
  <2>1. Cardinality(Booked(Charges, q)) = 0
    BY <1>2, FS_EmptySet
  <2>2. used[q] = 0 /\ lost[q] = 0
    BY DEF Init
  <2> QED
    BY <2>1, <2>2
<1> QED
  BY <1>1, <1>3, <1>4 DEF LedgerInv, LedgerBalances

(* Whatever crashes, retries, sweeps and requests do to each other, the    *)
(* quota ledger shows exactly the units charged for the jobs there are,    *)
(* for the requests in flight, and for the requests that died with a web   *)
(* process before their INSERT.                                            *)
THEOREM LedgerBalance == Spec => []LedgerBalances
<1>1. Init => LedgerInv
  BY LedgerInit
<1>2. LedgerInv /\ [Next]_vars => LedgerInv'
  <2>1. TableInv => Charges \in [Jobs -> Nat]
    BY ChargesType DEF TableInv, TypeInv
  <2>2. TableInv' => Charges' \in [Jobs -> Nat]
    <3> SUFFICES ASSUME TableInv', NEW j \in Jobs PROVE Charge(j)' \in Nat
      BY DEF Charges
    <3>1. Reserved(j) \in Nat /\ jobs'[j].consumed \in Nat
      BY ReservedType DEF TableInv, TypeInv, TypeOK, Row
    <3> QED
      BY <3>1 DEF Charge
  <2> QED
    BY <2>1, <2>2, TableInvStep, LedgerStep DEF LedgerInv, StepFacts
<1>3. LedgerInv => LedgerBalances
  BY DEF LedgerInv
<1> QED
  BY <1>1, <1>2, <1>3, PTL DEF Spec

=============================================================================
