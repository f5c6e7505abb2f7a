----------------------- MODULE SubscriptionRuns_proofs -----------------------
(***************************************************************************)
(* What the host worker promises about the subscription, for any number of *)
(* workers, jobs, batches, runs and faults: one provider process at a time *)
(* and no second run of a batch whose output is ready.                     *)
(*                                                                         *)
(* The argument is about a lock that can be lost.  As long as no session   *)
(* was lost, only one worker is up; it reads and writes the run rows alone *)
(* and knows, of every recorded process that is still alive, that it is    *)
(* its own or on its list of orphans.                                      *)
(***************************************************************************)
EXTENDS SubscriptionRuns, TLAPS

-----------------------------------------------------------------------------
(* The invariants.                                                         *)

\* A worker at a step of a job has one, at a step of a run has a row of it, and
\* has no run otherwise.
StepsFit ==
  \A h \in Hosts :
    /\ host[h].pc \in JobSteps => host[h].job \in Jobs
    /\ host[h].pc \in OpenSteps => /\ host[h].run \in RunIds
                                   /\ run[host[h].run].st # "none"
    /\ host[h].pc \notin OpenSteps => host[h].run = 0

\* A row that is used is of a batch of a job.
RunsFit ==
  \A r \in RunIds :
    run[r].st # "none" => run[r].job \in Jobs /\ run[r].batch \in Batches

TypeInv == TypeOK /\ StepsFit /\ RunsFit

\* A worker that is up holds the lock.
LockIsHeld == \A h \in Hosts : host[h].pc # "down" => lock = h

\* The row of a run that a worker has open is that worker's, of its job, in the
\* status of the step, and without a process before and after the process ran.
OpenRowIs(h, x) ==
  /\ x.by = h /\ x.job = host[h].job
  /\ host[h].pc = "prepare" => x.st = "preparing"
  /\ host[h].pc \in {"spawn", "record", "watch", "manifest"} => x.st = "running"
  /\ host[h].pc \in {"validate", "commit"} => x.st = "validating"
  /\ host[h].pc \in {"prepare", "spawn"} => x.proc # "alive"

OpenRows ==
  \A h \in Hosts : host[h].pc \in OpenSteps => OpenRowIs(h, run[host[h].run])

\* Output waits for its commit only once its process is gone.
ReadyHasEnded == \A r \in RunIds : run[r].st = "validating" => ~Alive(r)

\* A recorded process that nobody watches is in a row of a live status, so that
\* a starting worker finds it, and is on the list of a worker that has made it.
OrphansAreListed ==
  \A r \in RunIds :
    Alive(r) /\ run[r].known /\ ~Supervised(r) =>
      /\ run[r].st \in LIVE_RUNS
      /\ \A h \in Hosts : \/ host[h].pc \in {"down", "leases"}
                          \/ host[h].pc = "reap" /\ r \in host[h].reap

\* A worker starts batches only after it has dealt with all that was ready.
ReadyGoesFirst ==
  \A h \in Hosts, r \in RunIds :
    (/\ host[h].pc \in OpenSteps \cup {"batch"}
     /\ run[r].st = "validating" /\ run[r].job = host[h].job) => r = host[h].run

\* Of two processes one is not recorded and watched by nobody.
OneKnownProcess ==
  \A r, q \in RunIds :
    r # q /\ Alive(r) /\ Alive(q) => \E p \in {r, q} : ~run[p].known /\ ~Supervised(p)

LockedInv == /\ LockIsHeld /\ OpenRows /\ ReadyHasEnded
             /\ OrphansAreListed /\ ReadyGoesFirst /\ OneKnownProcess

\* What holds until a lock session is lost.
RunInv == ~faults.dropped => LockedInv

-----------------------------------------------------------------------------
(* The rows and the steps.                                                 *)

USE BoundsAreNatural, NamesAreApart

LEMMA NoRunOpen == 0 \in 0..MaxRuns
  OBVIOUS

LEMMA RevokedRow ==
  ASSUME NEW x \in JobRow, NEW st \in Statuses
  PROVE  [x EXCEPT !.cancel = TRUE, !.own = Nobody, !.st = st] \in JobRow
BY DEF JobRow

LEMMA RowsHaveTypes ==
  /\ NoRun \in RunRow /\ NoJob \in JobRow /\ Off \in Worker
  /\ \A x \in RunRow : Killed(x) \in RunRow
  /\ \A x \in RunRow, st \in {"failed", "canceled", "worker_lost"} :
       /\ Closed(x, st) \in RunRow /\ Closed(x, st).st = st
       /\ Closed(x, st).job = x.job /\ Closed(x, st).batch = x.batch
       /\ Closed(x, st).by = x.by /\ Closed(x, st).proc = x.proc
       /\ Closed(x, st).known = x.known
<1>1. NoRun \in RunRow
  BY DEF NoRun, RunRow
<1>2. NoJob \in JobRow
  BY DEF NoJob, JobRow, Statuses
<1>3. Off \in Worker
  BY DEF Off, Worker
<1>4. \A x \in RunRow : Killed(x) \in RunRow
  BY DEF RunRow, Killed
<1>5. ASSUME NEW x \in RunRow, NEW st \in {"failed", "canceled", "worker_lost"}
      PROVE  /\ Closed(x, st) \in RunRow /\ Closed(x, st).st = st
             /\ Closed(x, st).job = x.job /\ Closed(x, st).batch = x.batch
             /\ Closed(x, st).by = x.by /\ Closed(x, st).proc = x.proc
             /\ Closed(x, st).known = x.known
  BY DEF Closed, RunRow
<1> QED
  BY <1>1, <1>2, <1>3, <1>4, <1>5

\* What becomes of a job's row when it is canceled or recovered.
LEMMA JobRowsHaveTypes ==
  ASSUME NEW x \in JobRow
  PROVE  /\ [x EXCEPT !.cancel = TRUE] \in JobRow
         /\ [x EXCEPT !.cancel = TRUE, !.st = "canceled"] \in JobRow
         /\ \A st \in Statuses : /\ [x EXCEPT !.st = st, !.own = Nobody] \in JobRow
                                 /\ [x EXCEPT !.st = st] \in JobRow
                                 /\ [x EXCEPT !.own = Nobody, !.st = st] \in JobRow
         /\ \A b \in Batches : [x EXCEPT !.done = x.done \cup {b}] \in JobRow
  BY DEF JobRow, Statuses

\* What ending a process leaves of its row.
LEMMA KilledRow ==
  ASSUME NEW x \in RunRow
  PROVE  /\ Killed(x).proc # "alive" /\ Killed(x).st = x.st /\ Killed(x).by = x.by
         /\ Killed(x).job = x.job /\ Killed(x).batch = x.batch
         /\ Killed(x).known = x.known
  BY DEF RunRow, Killed

\* The steps of a worker with an open run.
OpenStep(h) ==
  \/ Prepare(h) \/ Spawn(h) \/ RecordProcess(h) \/ ProviderExited(h)
  \/ WriteManifest(h) \/ ValidateOutput(h) \/ Commit(h) \/ NoticeCancel(h)
  \/ ProviderFails(h) \/ TurnCompletes(h)

\* Its steps between two runs, which leave the run rows alone.
PlainStep(h) ==
  \/ Preflight(h) \/ \E j \in Jobs : Claim(h, j)
  \/ Reauthorize(h) \/ SalvageDone(h) \/ FinishJob(h) \/ Except(h)

LEMMA NextCases ==
  ASSUME [Next]_vars
  PROVE  \/ UNCHANGED vars \/ Web \/ Provider \/ LoseLockSession
         \/ \E h \in Hosts :
              \/ OpenStep(h) \/ PlainStep(h) \/ StartBatch(h) \/ Crash(h)
              \/ AcquireLock(h) \/ RecoverLeases(h) \/ Maintain(h)
              \/ \E r \in RunIds : ReapOrphan(h, r) \/ ResumeReadyCommit(h, r)
  BY DEF Next, Host, Starting, Working, OpenStep, PlainStep

-----------------------------------------------------------------------------
(* Types.                                                                  *)

\* A step that changes only the jobs.
LEMMA JobChange ==
  ASSUME TypeInv, job' \in [Jobs -> JobRow],
         UNCHANGED <<backend, policy, host, lock, run, faults>>, admin' \in SUBSET Works
  PROVE  TypeInv'
  BY DEF TypeInv, TypeOK, StepsFit, RunsFit

LEMMA CancelTypes ==
  ASSUME TypeInv, NEW j \in Jobs
  PROVE  cancel_job(j) \in JobRow /\ mark_canceled(j) \in JobRow
<1>1. job[j] \in JobRow
  BY DEF TypeInv, TypeOK
<1> QED
  BY <1>1, JobRowsHaveTypes DEF cancel_job, mark_canceled, Statuses

LEMMA WebTypes ==
  ASSUME TypeInv, Web
  PROVE  TypeInv'
<1>0. job \in [Jobs -> JobRow] /\ admin \in SUBSET Works
  BY DEF TypeInv, TypeOK
<1>1. ASSUME NEW j \in Jobs, Schedule(j) PROVE TypeInv'
  <2>1. PICK w \in Works : job' = [job EXCEPT ![j] = [NoJob EXCEPT !.st = "queued", !.work = w]]
    BY <1>1 DEF Schedule
  <2>2. [NoJob EXCEPT !.st = "queued", !.work = w] \in JobRow
    BY DEF NoJob, JobRow, Statuses
  <2> QED
    BY <1>0, <1>1, <2>1, <2>2, JobChange DEF Schedule
<1>2. ASSUME NEW j \in Jobs, UserCancels(j) PROVE TypeInv'
  BY <1>0, <1>2, CancelTypes, JobChange DEF UserCancels
<1>3. ASSUME NEW works \in SUBSET Works, UpsertPolicy(works) PROVE TypeInv'
  BY <1>3 DEF TypeInv, TypeOK, StepsFit, RunsFit, UpsertPolicy
<1>4. CASE DeletePolicy
  BY <1>4 DEF TypeInv, TypeOK, StepsFit, RunsFit, DeletePolicy
<1>5. CASE CancelRevoked
  <2>1. job' \in [Jobs -> JobRow]
    BY <1>0, <1>5, CancelTypes DEF CancelRevoked
  <2> QED
    BY <1>5, <2>1, JobChange DEF CancelRevoked
<1>6. CASE AdminLost
  BY <1>6 DEF TypeInv, TypeOK, StepsFit, RunsFit, AdminLost
<1> QED
  BY <1>1, <1>2, <1>3, <1>4, <1>5, <1>6 DEF Web

LEMMA RecoveredTypes ==
  ASSUME TypeInv
  PROVE  Recovered \in [Jobs -> JobRow]
<1> SUFFICES ASSUME NEW j \in Jobs PROVE Recovered[j] \in JobRow
  BY DEF Recovered
<1>1. job[j] \in JobRow
  BY DEF TypeInv, TypeOK
<1>2. {"canceled", "failed", "queued"} \subseteq Statuses
  BY DEF Statuses
<1> QED
  BY <1>1, <1>2, JobRowsHaveTypes DEF Recovered

\* What a worker's step on its open run does to the row and to the worker: it
\* goes on with the run, or is done with it and leaves no process behind.
Continues(h, x, w) ==
  /\ w.pc \in OpenSteps /\ w.run = host[h].run
  /\ w.pc = "spawn" /\ host[h].pc = "prepare" =>
       x.st = "running" /\ x.proc = run[host[h].run].proc
  /\ w.pc = "validate" => x.st = "validating" /\ x.proc # "alive"
  /\ w.pc = "commit" => x = run[host[h].run]
  /\ w.pc \in {"record", "watch", "manifest"} => x.st = run[host[h].run].st
  /\ <<host[h].pc, w.pc>> \in
       {<<"prepare", "spawn">>, <<"spawn", "record">>, <<"record", "watch">>,
        <<"watch", "manifest">>, <<"watch", "validate">>, <<"manifest", "validate">>,
        <<"validate", "commit">>}

Closes(h, x, w) ==
  /\ w.pc \in {"except", "batch"} /\ w.run = 0
  /\ x.proc # "alive" \/ (/\ host[h].pc \in {"prepare", "spawn", "validate", "commit"}
                          /\ x.proc = run[host[h].run].proc)
  /\ w.pc = "batch" => x.st = "completed"

OpenMove(h, x, w) ==
  /\ run' = [run EXCEPT ![host[h].run] = x]
  /\ host' = [host EXCEPT ![h] = w]
  /\ x.st # "none" /\ x.by = run[host[h].run].by
  /\ x.job = run[host[h].run].job /\ x.batch = run[host[h].run].batch
  /\ w.job = host[h].job
  /\ Continues(h, x, w) \/ Closes(h, x, w)

LEMMA OpenWorkers ==
  ASSUME TypeInv, NEW h \in Hosts, OpenStep(h)
  PROVE  /\ host[h].run \in RunIds /\ run[host[h].run] \in RunRow
         /\ run[host[h].run].st # "none" /\ host[h].job \in Jobs /\ host[h] \in Worker
         /\ run[host[h].run].job \in Jobs /\ run[host[h].run].batch \in Batches
         /\ host[h].pc \in OpenSteps
<1>1. host[h].pc \in OpenSteps
  BY DEF OpenStep, OpenSteps, Prepare, Spawn, RecordProcess, ProviderExited,
         WriteManifest, ValidateOutput, Commit, NoticeCancel, ProviderFails,
         StopProvider, TurnCompletes
<1> QED
  BY <1>1 DEF TypeInv, TypeOK, StepsFit, RunsFit, JobSteps

LEMMA FailureKinds == FailureClasses \subseteq {"retry", "wait", "unhealthy"}
  BY DEF FailureClasses, AgyFailure, CodexFailure

LEMMA OpenMoves ==
  ASSUME TypeInv, NEW h \in Hosts, OpenStep(h)
  PROVE  \E x \in RunRow, w \in Worker : OpenMove(h, x, w)
<1> DEFINE q == host[h].run
           y == run[q]
           On(pc) == [host[h] EXCEPT !.pc = pc]
           Off1(class) == [host[h] EXCEPT !.pc = "except", !.err = class, !.run = 0]
<1>0. /\ q \in RunIds /\ y \in RunRow /\ y.st # "none" /\ host[h] \in Worker
      /\ host[h].pc \in OpenSteps /\ run \in [RunIds -> RunRow] /\ host \in [Hosts -> Worker]
  BY OpenWorkers DEF TypeInv, TypeOK
<1>a. \A pc \in OpenSteps :
        /\ On(pc) \in Worker /\ On(pc).job = host[h].job
        /\ On(pc).pc = pc /\ On(pc).run = q /\ Set(h, pc) = [host EXCEPT ![h] = On(pc)]
  BY <1>0 DEF Worker, JobSteps, Set
<1>b. \A class \in {"canceled", "retry", "wait", "unhealthy"} :
        /\ Off1(class) \in Worker /\ Off1(class).job = host[h].job
        /\ Off1(class).pc = "except" /\ Off1(class).run = 0
        /\ Raise(h, class) = [host EXCEPT ![h] = Off1(class)]
  <2> TAKE class \in {"canceled", "retry", "wait", "unhealthy"}
  <2>1. /\ Off1(class).pc = "except" /\ Off1(class).run = 0
        /\ Off1(class).job = host[h].job
    BY <1>0 DEF Worker
  <2>2. Off1(class) \in Worker
    <3>1. [host[h] EXCEPT !.pc = "except"] \in Worker
      BY <1>0 DEF Worker, JobSteps
    <3>2. [[host[h] EXCEPT !.pc = "except"] EXCEPT !.err = class] \in Worker
      BY <3>1 DEF Worker
    <3>3. [[[host[h] EXCEPT !.pc = "except"] EXCEPT !.err = class] EXCEPT !.run = 0] \in Worker
      BY <3>2, NoRunOpen DEF Worker
    <3> QED
      BY <3>3
  <2>3. Raise(h, class) = [host EXCEPT ![h] = Off1(class)]
    BY DEF Raise
  <2> QED
    BY <2>1, <2>2, <2>3
<1> HIDE DEF On, Off1
<1>1. CASE Prepare(h)
  <2> DEFINE x == [y EXCEPT !.st = "running", !.ws = TRUE]
  <2>1. x \in RunRow /\ x.st = "running" /\ x.by = y.by /\ x.job = y.job
        /\ x.batch = y.batch /\ x.proc = y.proc
    BY <1>0 DEF RunRow, LIVE_RUNS
  <2>2. CASE run' = [run EXCEPT ![q] = x] /\ host' = Set(h, "spawn")
    <3>1. OpenMove(h, x, On("spawn"))
      BY <1>0, <1>1, <1>a, <2>1, <2>2 DEF OpenMove, Continues, OpenSteps, Prepare
    <3> QED
      BY <1>a, <2>1, <3>1 DEF OpenSteps
  <2>3. CASE run' = run /\ host' = Raise(h, "retry")
    <3>1. OpenMove(h, y, Off1("retry"))
      BY <1>0, <1>1, <1>b, <2>3 DEF OpenMove, Closes, Prepare
    <3> QED
      BY <1>0, <1>b, <3>1
  <2> QED
    BY <1>1, <2>2, <2>3 DEF Prepare
<1>2. CASE Spawn(h)
  <2> DEFINE x == [y EXCEPT !.proc = "alive"]
  <2>1. x \in RunRow /\ x.st = y.st /\ x.by = y.by /\ x.job = y.job /\ x.batch = y.batch
    BY <1>0 DEF RunRow
  <2>2. CASE run' = [run EXCEPT ![q] = x] /\ host' = Set(h, "record")
    <3>1. OpenMove(h, x, On("record"))
      BY <1>0, <1>2, <1>a, <2>1, <2>2 DEF OpenMove, Continues, OpenSteps, Spawn
    <3> QED
      BY <1>a, <2>1, <3>1 DEF OpenSteps
  <2>3. CASE run' = [run EXCEPT ![q] = Closed(y, "failed")] /\ host' = Raise(h, "retry")
    <3>1. OpenMove(h, Closed(y, "failed"), Off1("retry"))
      BY <1>0, <1>2, <1>b, <2>3, RowsHaveTypes DEF OpenMove, Closes, Spawn
    <3> QED
      BY <1>0, <1>b, <3>1, RowsHaveTypes
  <2> QED
    BY <1>2, <2>2, <2>3 DEF Spawn
<1>k. \A st \in {"failed", "canceled", "worker_lost"} :
        /\ Closed(Killed(y), st) \in RunRow /\ Closed(Killed(y), st).st = st
        /\ Closed(Killed(y), st).by = y.by /\ Closed(Killed(y), st).job = y.job
        /\ Closed(Killed(y), st).batch = y.batch /\ Closed(Killed(y), st).proc # "alive"
  BY <1>0, RowsHaveTypes, KilledRow
<1>e. \A st \in {"failed", "canceled"}, class \in {"canceled", "retry", "wait", "unhealthy"} :
        run' = [run EXCEPT ![q] = Closed(Killed(y), st)] /\ host' = Raise(h, class)
          => OpenMove(h, Closed(Killed(y), st), Off1(class))
  BY <1>0, <1>b, <1>k DEF OpenMove, Closes
<1>3. CASE RecordProcess(h)
  <2> DEFINE x == [y EXCEPT !.known = TRUE]
  <2>1. x \in RunRow /\ x.st = y.st /\ x.by = y.by /\ x.job = y.job /\ x.batch = y.batch
    BY <1>0 DEF RunRow
  <2>2. CASE run' = [run EXCEPT ![q] = x] /\ host' = Set(h, "watch")
    <3>1. OpenMove(h, x, On("watch"))
      BY <1>0, <1>3, <1>a, <2>1, <2>2 DEF OpenMove, Continues, OpenSteps, RecordProcess
    <3> QED
      BY <1>a, <2>1, <3>1 DEF OpenSteps
  <2>3. CASE run' = [run EXCEPT ![q] = Closed(Killed(y), "failed")] /\ host' = Raise(h, "retry")
    BY <1>b, <1>e, <1>k, <2>3
  <2> QED
    BY <1>3, <2>2, <2>3 DEF RecordProcess
<1>4. ASSUME NEW class \in {"canceled", "retry", "wait", "unhealthy"}, StopProvider(h, class)
      PROVE  \E x \in RunRow, w \in Worker : OpenMove(h, x, w)
  <2>1. PICK st \in {"failed", "canceled"} :
          run' = [run EXCEPT ![q] = Closed(Killed(y), st)] /\ host' = Raise(h, class)
    BY <1>4 DEF StopProvider
  <2> QED
    BY <1>b, <1>e, <1>k, <2>1
<1>5. CASE NoticeCancel(h) \/ ProviderFails(h)
  BY <1>4, <1>5, FailureKinds DEF NoticeCancel, ProviderFails
<1>6. CASE ProviderExited(h)
  <2> DEFINE x == [y EXCEPT !.st = "validating"]
  <2>1. x \in RunRow /\ x.st = "validating" /\ x.by = y.by /\ x.job = y.job
        /\ x.batch = y.batch /\ x.proc = y.proc
    BY <1>0 DEF RunRow, LIVE_RUNS
  <2>2. CASE run' = [run EXCEPT ![q] = x] /\ host' = Set(h, "validate")
    <3>1. OpenMove(h, x, On("validate"))
      BY <1>0, <1>6, <1>a, <2>1, <2>2 DEF OpenMove, Continues, OpenSteps, ProviderExited
    <3> QED
      BY <1>a, <2>1, <3>1 DEF OpenSteps
  <2>3. ASSUME NEW class \in FailureClasses, host' = Raise(h, class),
               run' = [run EXCEPT ![q] = Closed(y, "failed")]
        PROVE  \E z \in RunRow, w \in Worker : OpenMove(h, z, w)
    <3>1. OpenMove(h, Closed(y, "failed"), Off1(class))
      BY <1>0, <1>6, <1>b, <2>3, FailureKinds, RowsHaveTypes
      DEF OpenMove, Closes, ProviderExited
    <3> QED
      BY <1>0, <1>b, <3>1, FailureKinds, RowsHaveTypes
  <2> QED
    BY <1>6, <2>2, <2>3 DEF ProviderExited
<1>7. CASE TurnCompletes(h)
  <2> DEFINE x == [y EXCEPT !.files = "good"]
  <2>1. x \in RunRow /\ x.st = y.st /\ x.by = y.by /\ x.job = y.job /\ x.batch = y.batch
    BY <1>0 DEF RunRow
  <2>2. CASE run' = [run EXCEPT ![q] = x] /\ host' = Set(h, "manifest")
    <3>1. OpenMove(h, x, On("manifest"))
      BY <1>0, <1>7, <1>a, <2>1, <2>2 DEF OpenMove, Continues, OpenSteps, TurnCompletes
    <3> QED
      BY <1>a, <2>1, <3>1 DEF OpenSteps
  <2>3. CASE run' = [run EXCEPT ![q] = Closed(Killed(y), "failed")] /\ host' = Raise(h, "retry")
    BY <1>b, <1>e, <1>k, <2>3
  <2> QED
    BY <1>7, <2>2, <2>3 DEF TurnCompletes
<1>8. CASE WriteManifest(h)
  <2> DEFINE x == [Killed(y) EXCEPT !.manifest = "listed", !.st = "validating"]
  <2>1. x \in RunRow /\ x.st = "validating" /\ x.by = y.by /\ x.job = y.job
        /\ x.batch = y.batch /\ x.proc # "alive"
    <3>1. Killed(y) \in RunRow
      BY <1>0, RowsHaveTypes
    <3>2. /\ Killed(y).by = y.by /\ Killed(y).job = y.job /\ Killed(y).batch = y.batch
          /\ Killed(y).proc # "alive"
      BY <1>0, KilledRow
    <3>3. x \in RunRow
      BY <3>1 DEF RunRow, LIVE_RUNS
    <3> QED
      BY <3>1, <3>2, <3>3 DEF RunRow
  <2>2. OpenMove(h, x, On("validate"))
    <3>1. run' = [run EXCEPT ![q] = x] /\ host' = Set(h, "validate")
      BY <1>8 DEF WriteManifest
    <3> QED
      BY <1>0, <1>8, <1>a, <2>1, <3>1 DEF OpenMove, Continues, OpenSteps, WriteManifest
  <2> QED
    BY <1>a, <2>1, <2>2 DEF OpenSteps
<1>9. CASE ValidateOutput(h)
  <2>1. CASE Valid(y)
    <3>1. OpenMove(h, y, On("commit"))
      BY <1>0, <1>9, <1>a, <2>1 DEF OpenMove, Continues, OpenSteps, ValidateOutput
    <3> QED
      BY <1>0, <1>a, <3>1 DEF OpenSteps
  <2>2. CASE ~Valid(y)
    <3>1. OpenMove(h, Closed(y, "failed"), Off1("retry"))
      BY <1>0, <1>9, <1>b, <2>2, RowsHaveTypes DEF OpenMove, Closes, ValidateOutput
    <3> QED
      BY <1>0, <1>b, <3>1, RowsHaveTypes
  <2> QED
    BY <2>1, <2>2
<1>10. CASE Commit(h)
  <2> DEFINE z == [y EXCEPT !.st = "completed"]
             v == [y EXCEPT !.st = "validating"]
             b == [host[h] EXCEPT !.pc = "batch", !.run = 0]
  <2>1. /\ z \in RunRow /\ z.st = "completed" /\ z.by = y.by /\ z.job = y.job
        /\ z.batch = y.batch /\ z.proc = y.proc
        /\ v \in RunRow /\ v.st = "validating" /\ v.by = y.by /\ v.job = y.job
        /\ v.batch = y.batch /\ v.proc = y.proc
    BY <1>0 DEF RunRow, LIVE_RUNS
  <2>2. b \in Worker /\ b.pc = "batch" /\ b.run = 0 /\ b.job = host[h].job
    BY <1>0, NoRunOpen DEF Worker, JobSteps
  <2>3. CASE run' = [run EXCEPT ![q] = z] /\ host' = [host EXCEPT ![h] = b]
    <3>1. OpenMove(h, z, b)
      BY <1>0, <1>10, <2>1, <2>2, <2>3 DEF OpenMove, Closes, Commit
    <3> QED
      BY <2>1, <2>2, <3>1
  <2>4. CASE run' = [run EXCEPT ![q] = v] /\ host' = Raise(h, "retry")
    <3>1. OpenMove(h, v, Off1("retry"))
      BY <1>0, <1>10, <1>b, <2>1, <2>4 DEF OpenMove, Closes, Commit
    <3> QED
      BY <1>b, <2>1, <3>1
  <2>5. CASE run' = [run EXCEPT ![q] = Closed(y, "failed")] /\ host' = Raise(h, "retry")
    <3>1. OpenMove(h, Closed(y, "failed"), Off1("retry"))
      BY <1>0, <1>10, <1>b, <2>5, RowsHaveTypes DEF OpenMove, Closes, Commit
    <3> QED
      BY <1>0, <1>b, <3>1, RowsHaveTypes
  <2> QED
    BY <1>10, <2>3, <2>4, <2>5 DEF Commit
<1> QED
  BY <1>1, <1>2, <1>3, <1>5, <1>6, <1>7, <1>8, <1>9, <1>10 DEF OpenStep

LEMMA OpenTypes ==
  ASSUME TypeInv, NEW h \in Hosts, OpenStep(h)
  PROVE  TypeInv'
<1>1. /\ host[h].run \in RunIds /\ run[host[h].run].st # "none" /\ host[h].job \in Jobs
      /\ run[host[h].run].job \in Jobs /\ run[host[h].run].batch \in Batches
  BY OpenWorkers
<1>2. PICK x \in RunRow, w \in Worker : OpenMove(h, x, w)
  BY OpenMoves
<1>3. job' \in [Jobs -> JobRow]
  <2>0. job \in [Jobs -> JobRow]
    BY DEF TypeInv, TypeOK
  <2>1. CASE UNCHANGED job
    BY <2>0, <2>1
  <2>2. CASE Commit(h) /\ job' = [job EXCEPT ![host[h].job].done = @ \cup {run[host[h].run].batch}]
    BY <1>1, <2>0, <2>2, JobRowsHaveTypes
  <2> QED
    BY <2>1, <2>2 DEF OpenStep, Prepare, Spawn, RecordProcess, ProviderExited, WriteManifest,
         ValidateOutput, Commit, NoticeCancel, ProviderFails, StopProvider, TurnCompletes
<1>4. UNCHANGED <<backend, policy, admin, lock, faults>>
  BY DEF OpenStep, Prepare, Spawn, RecordProcess, ProviderExited, WriteManifest,
         ValidateOutput, Commit, NoticeCancel, ProviderFails, StopProvider, TurnCompletes
<1>5. TypeOK'
  BY <1>1, <1>2, <1>3, <1>4 DEF TypeInv, TypeOK, OpenMove
<1>6. StepsFit'
  <2> SUFFICES ASSUME NEW g \in Hosts
               PROVE  /\ host'[g].pc \in JobSteps => host'[g].job \in Jobs
                      /\ host'[g].pc \in OpenSteps => /\ host'[g].run \in RunIds
                                                      /\ run'[host'[g].run].st # "none"
                      /\ host'[g].pc \notin OpenSteps => host'[g].run = 0
    BY DEF StepsFit
  <2>1. \A r \in RunIds : run[r].st # "none" => run'[r].st # "none"
    BY <1>1, <1>2 DEF TypeInv, TypeOK, OpenMove
  <2>2. CASE g = h
    <3>1. host'[g] = w
      BY <1>2, <2>2 DEF TypeInv, TypeOK, OpenMove
    <3> QED
      BY <1>1, <1>2, <2>1, <3>1 DEF OpenMove, Continues, Closes, OpenSteps
  <2>3. CASE g # h
    <3>1. host'[g] = host[g]
      BY <1>2, <2>3 DEF TypeInv, TypeOK, OpenMove
    <3> QED
      BY <2>1, <3>1 DEF TypeInv, StepsFit
  <2> QED
    BY <2>2, <2>3
<1>7. RunsFit'
  BY <1>1, <1>2 DEF TypeInv, TypeOK, RunsFit, OpenMove
<1> QED
  BY <1>5, <1>6, <1>7 DEF TypeInv

\* A step of a worker without an open run, to another such step, which leaves
\* the run rows alone.
PlainMove(h, w) ==
  /\ host' = [host EXCEPT ![h] = w] /\ run' = run
  /\ host[h].pc \notin OpenSteps \cup {"down", "leases"}
  /\ host[h].pc = "reap" => host[h].reap = {}
  /\ w.pc \in {"poll", "authorize", "salvage", "batch", "except"} /\ w.run = 0
  /\ w.pc # "poll" => w.job \in Jobs
  /\ w.pc = "batch" => Ready(w.job) = {}

LEMMA PlainMoves ==
  ASSUME TypeInv, NEW h \in Hosts, PlainStep(h)
  PROVE  \E w \in Worker : PlainMove(h, w)
<1>0. /\ host \in [Hosts -> Worker] /\ host[h] \in Worker
      /\ host[h].pc \notin OpenSteps => host[h].run = 0
      /\ host[h].pc \in JobSteps => host[h].job \in Jobs
  BY DEF TypeInv, TypeOK, StepsFit
<1>1. CASE Preflight(h)
  <2>1. PICK fit \in BOOLEAN : host' = [host EXCEPT ![h] = [@ EXCEPT !.pc = "poll", !.fit = fit]]
    BY <1>1 DEF Preflight
  <2> DEFINE w == [host[h] EXCEPT !.pc = "poll", !.fit = fit]
  <2>2. w \in Worker /\ w.pc = "poll" /\ w.run = host[h].run
    BY <1>0 DEF Worker
  <2>3. PlainMove(h, w)
    BY <1>0, <1>1, <2>1, <2>2 DEF PlainMove, Preflight, OpenSteps
  <2> QED
    BY <2>2, <2>3
<1>2. ASSUME NEW j \in Jobs, Claim(h, j)
      PROVE  \E w \in Worker : PlainMove(h, w)
  <2> DEFINE w == [host[h] EXCEPT !.pc = "authorize", !.job = j]
  <2>2. w \in Worker /\ w.pc = "authorize" /\ w.run = host[h].run /\ w.job = j
    BY <1>0 DEF Worker, JobSteps
  <2>3. PlainMove(h, w)
    BY <1>0, <1>2, <2>2 DEF PlainMove, Claim, OpenSteps
  <2> QED
    BY <2>2, <2>3
<1>a. /\ [host[h] EXCEPT !.pc = "poll", !.job = Nobody] \in Worker
      /\ [host[h] EXCEPT !.pc = "poll", !.job = Nobody].pc = "poll"
      /\ [host[h] EXCEPT !.pc = "poll", !.job = Nobody].run = host[h].run
      /\ [host[h] EXCEPT !.pc = "poll", !.job = Nobody].job = Nobody
  BY <1>0 DEF Worker
<1>b. \A pc \in {"salvage", "batch"} :
        /\ [host[h] EXCEPT !.pc = pc] \in Worker
        /\ [host[h] EXCEPT !.pc = pc].pc = pc
        /\ [host[h] EXCEPT !.pc = pc].run = host[h].run
        /\ [host[h] EXCEPT !.pc = pc].job = host[h].job
  BY <1>0 DEF Worker, JobSteps
<1>3. CASE Reauthorize(h)
  <2>1. CASE host' = Set(h, "salvage")
    <3>1. PlainMove(h, [host[h] EXCEPT !.pc = "salvage"])
      BY <1>0, <1>3, <1>b, <2>1 DEF PlainMove, Reauthorize, OpenSteps, JobSteps, Set
    <3> QED
      BY <1>b, <3>1
  <2>2. CASE host' = [host EXCEPT ![h] = [@ EXCEPT !.pc = "poll", !.job = Nobody]]
    <3>1. PlainMove(h, [host[h] EXCEPT !.pc = "poll", !.job = Nobody])
      BY <1>0, <1>3, <1>a, <2>2 DEF PlainMove, Reauthorize, OpenSteps
    <3> QED
      BY <1>a, <3>1
  <2> QED
    BY <1>3, <2>1, <2>2 DEF Reauthorize
<1>4. CASE SalvageDone(h)
  <2>1. PlainMove(h, [host[h] EXCEPT !.pc = "batch"])
    BY <1>0, <1>4, <1>b DEF PlainMove, SalvageDone, OpenSteps, JobSteps, Set
  <2> QED
    BY <1>b, <2>1
<1>5. CASE FinishJob(h)
  <2>1. PlainMove(h, [host[h] EXCEPT !.pc = "poll", !.job = Nobody])
    BY <1>0, <1>5, <1>a DEF PlainMove, FinishJob, OpenSteps
  <2> QED
    BY <1>a, <2>1
<1>6. CASE Except(h)
  <2>1. PICK fit \in BOOLEAN :
          host' = [host EXCEPT ![h] = [@ EXCEPT !.pc = "poll", !.job = Nobody,
                                                !.err = "none", !.fit = fit]]
    <3>1. (host[h].fit /\ ~(host[h].err = "unhealthy" /\ ~is_canceled(host[h].job))) \in BOOLEAN
      OBVIOUS
    <3> QED
      BY <1>6, <3>1 DEF Except
  <2> DEFINE w == [host[h] EXCEPT !.pc = "poll", !.job = Nobody, !.err = "none", !.fit = fit]
  <2>2. w \in Worker
    <3>1. [[host[h] EXCEPT !.pc = "poll"] EXCEPT !.job = Nobody] \in Worker
      BY <1>a
    <3>2. [[[host[h] EXCEPT !.pc = "poll"] EXCEPT !.job = Nobody] EXCEPT !.err = "none"] \in Worker
      BY <3>1 DEF Worker
    <3> QED
      BY <3>2 DEF Worker
  <2>3. w.pc = "poll" /\ w.run = host[h].run
    BY <1>0 DEF Worker
  <2>4. PlainMove(h, w)
    BY <1>0, <1>6, <2>1, <2>2, <2>3 DEF PlainMove, Except, OpenSteps
  <2> QED
    BY <2>2, <2>4
<1> QED
  BY <1>1, <1>2, <1>3, <1>4, <1>5, <1>6 DEF PlainStep

LEMMA PlainTypes ==
  ASSUME TypeInv, NEW h \in Hosts, PlainStep(h)
  PROVE  TypeInv'
<1>1. PICK w \in Worker : PlainMove(h, w)
  BY PlainMoves
<1>2. job' \in [Jobs -> JobRow]
  <2>0. job \in [Jobs -> JobRow] /\ (host[h].pc \in JobSteps => host[h].job \in Jobs)
    BY DEF TypeInv, TypeOK, StepsFit
  <2>1. CASE UNCHANGED job
    BY <2>0, <2>1
  <2>2. ASSUME NEW j \in Jobs, Claim(h, j) PROVE job' \in [Jobs -> JobRow]
    <3>1. [job[j] EXCEPT !.st = "running", !.own = h, !.attempts = job[j].attempts + 1] \in JobRow
      <4>0. job[j] \in JobRow
        BY <2>0
      <4>1. [job[j] EXCEPT !.st = "running"] \in JobRow /\ job[j].attempts + 1 \in Nat
        BY <4>0 DEF JobRow, Statuses
      <4>2. [[job[j] EXCEPT !.st = "running"] EXCEPT !.own = h] \in JobRow
        BY <4>1 DEF JobRow
      <4> QED
        BY <4>1, <4>2 DEF JobRow
    <3> QED
      BY <2>0, <2>2, <3>1 DEF Claim
  <2>3. CASE Reauthorize(h)
    <3>1. host[h].job \in Jobs
      BY <2>0, <2>3 DEF Reauthorize, JobSteps
    <3>2. \A j \in Jobs : [job[j] EXCEPT !.cancel = TRUE, !.own = Nobody,
            !.st = IF job[j].st = "running" THEN "canceled" ELSE job[j].st] \in JobRow
      <4> TAKE j \in Jobs
      <4> DEFINE st == IF job[j].st = "running" THEN "canceled" ELSE job[j].st
      <4>1. job[j] \in JobRow
        BY <2>0
      <4>2. st \in Statuses
        BY <4>1 DEF JobRow, Statuses
      <4> HIDE DEF st
      <4>4. [job[j] EXCEPT !.cancel = TRUE, !.own = Nobody, !.st = st] \in JobRow
        BY <4>1, <4>2, RevokedRow
      <4> QED
        BY <4>4 DEF st
    <3> QED
      BY <2>0, <2>3, <3>1, <3>2 DEF Reauthorize
  <2>4. CASE FinishJob(h)
    <3>1. host[h].job \in Jobs
      BY <2>0, <2>4 DEF FinishJob, JobSteps
    <3> QED
      BY <2>0, <2>4, <3>1, JobRowsHaveTypes DEF FinishJob, Statuses
  <2>5. CASE Except(h)
    <3> DEFINE j == host[h].job
    <3>1. j \in Jobs
      BY <2>0, <2>5 DEF Except, JobSteps
    <3>2. mark_canceled(j) \in JobRow /\ job[j] \in JobRow
      BY <2>0, <3>1, CancelTypes
    <3>3. \A st \in {"waiting_provider", "queued", "failed"} :
            [job[j] EXCEPT !.own = Nobody, !.st = st] \in JobRow
      BY <3>2, JobRowsHaveTypes DEF Statuses
    <3>4. PICK x \in JobRow : job' = [job EXCEPT ![j] = x]
      BY <2>5, <3>2, <3>3 DEF Except
    <3> QED
      BY <2>0, <3>1, <3>4
  <2> QED
    BY <2>1, <2>2, <2>3, <2>4, <2>5 DEF PlainStep, Preflight, SalvageDone
<1>3. UNCHANGED <<backend, policy, admin, lock, faults>>
  BY DEF PlainStep, Preflight, Claim, Reauthorize, SalvageDone, FinishJob, Except
<1>4. TypeOK'
  BY <1>1, <1>2, <1>3 DEF TypeInv, TypeOK, PlainMove
<1>5. StepsFit'
  <2> SUFFICES ASSUME NEW g \in Hosts
               PROVE  /\ host'[g].pc \in JobSteps => host'[g].job \in Jobs
                      /\ host'[g].pc \in OpenSteps => /\ host'[g].run \in RunIds
                                                      /\ run'[host'[g].run].st # "none"
                      /\ host'[g].pc \notin OpenSteps => host'[g].run = 0
    BY DEF StepsFit
  <2>1. CASE g = h
    BY <1>1, <2>1 DEF TypeInv, TypeOK, PlainMove, OpenSteps, JobSteps
  <2>2. CASE g # h
    BY <1>1, <2>2 DEF TypeInv, TypeOK, StepsFit, PlainMove
  <2> QED
    BY <2>1, <2>2
<1> QED
  BY <1>1, <1>4, <1>5 DEF TypeInv, RunsFit, PlainMove

\* A run row that fades without its worker: its process may end, and output that
\* was ready is committed or given up by the worker that salvages.
FadeMove ==
  /\ host' = host /\ run' \in [RunIds -> RunRow]
  /\ \A r \in RunIds :
       /\ run'[r].by = run[r].by /\ run'[r].job = run[r].job
       /\ run'[r].batch = run[r].batch /\ run'[r].known = run[r].known
       /\ run'[r].proc = "alive" => run[r].proc = "alive"
       /\ run'[r].st = run[r].st \/
            (/\ run[r].st = "validating" /\ run'[r].st \in {"completed", "worker_lost"}
             /\ \E h \in Hosts : host[h].pc = "salvage")

FadeStep ==
  \/ Provider
  \/ \E h \in Hosts : \/ Maintain(h)
                      \/ \E r \in RunIds : ResumeReadyCommit(h, r)

\* One row changes.
LEMMA RowFades ==
  ASSUME TypeInv, NEW r \in RunIds, NEW x \in RunRow,
         run' = [run EXCEPT ![r] = x], host' = host,
         x.by = run[r].by, x.job = run[r].job, x.batch = run[r].batch,
         x.known = run[r].known, x.proc = "alive" => run[r].proc = "alive",
         x.st = run[r].st \/
            (/\ run[r].st = "validating" /\ x.st \in {"completed", "worker_lost"}
             /\ \E h \in Hosts : host[h].pc = "salvage")
  PROVE  FadeMove
  BY DEF TypeInv, TypeOK, FadeMove

LEMMA FadeMoves ==
  ASSUME TypeInv, FadeStep
  PROVE  FadeMove
<1>0. run \in [RunIds -> RunRow]
  BY DEF TypeInv, TypeOK
<1>1. ASSUME NEW r \in RunIds, AgentWrites(r) PROVE FadeMove
  <2>1. PICK f \in {"bad", "good"} : run' = [run EXCEPT ![r] = [@ EXCEPT !.files = f, !.manifest =
                 IF run[r].manifest = "none" THEN "none" ELSE "stale"]]
    BY <1>1 DEF AgentWrites
  <2> DEFINE x == [run[r] EXCEPT !.files = f, !.manifest =
                 IF run[r].manifest = "none" THEN "none" ELSE "stale"]
  <2>2. x \in RunRow
    <3>0. run[r] \in RunRow
      BY <1>0
    <3> DEFINE y == [run[r] EXCEPT !.files = f]
               z == IF run[r].manifest = "none" THEN "none" ELSE "stale"
    <3>1. y \in RunRow
      BY <3>0 DEF RunRow
    <3>2. x = [y EXCEPT !.manifest = z]
      BY <3>0 DEF RunRow
    <3>3. z \in {"none", "stale", "listed"}
      OBVIOUS
    <3> HIDE DEF y, z
    <3>4. [y EXCEPT !.manifest = z] \in RunRow
      BY <3>1, <3>3 DEF RunRow
    <3> HIDE DEF x
    <3> QED
      BY <3>2, <3>4
  <2>3. /\ x.by = run[r].by /\ x.job = run[r].job /\ x.batch = run[r].batch
        /\ x.known = run[r].known /\ x.proc = run[r].proc /\ x.st = run[r].st
    BY <1>0 DEF RunRow
  <2>4. run' = [run EXCEPT ![r] = x] /\ host' = host
    BY <1>1, <2>1 DEF AgentWrites
  <2> HIDE DEF x
  <2> QED
    BY <2>2, <2>3, <2>4, RowFades
<1>2. ASSUME NEW r \in RunIds, StopHook(r) PROVE FadeMove
  <2> DEFINE y == IF HookAccepts(run[r]) THEN run[r] ELSE Finalized(run[r])
             ok == HookAccepts(y)
             x == [y EXCEPT !.repair = ~ok,
                            !.proc = IF ~ok /\ ~y.repair THEN "alive" ELSE "ended"]
  <2>1. /\ y \in RunRow /\ y.by = run[r].by /\ y.job = run[r].job /\ y.batch = run[r].batch
        /\ y.known = run[r].known /\ y.st = run[r].st
    BY <1>0 DEF RunRow, Finalized
  <2>2. run' = [run EXCEPT ![r] = x] /\ host' = host /\ run[r].proc = "alive"
    BY <1>2 DEF StopHook, Alive
  <2>a. ok \in BOOLEAN
    BY DEF HookAccepts
  <2> HIDE DEF y, ok
  <2>3. x \in RunRow
    <3>1. \A p \in {"alive", "ended"}, b \in BOOLEAN : [y EXCEPT !.repair = b, !.proc = p] \in RunRow
      BY <2>1 DEF RunRow
    <3> QED
      BY <2>a, <3>1
  <2>4. /\ x.by = run[r].by /\ x.job = run[r].job /\ x.batch = run[r].batch
        /\ x.known = run[r].known /\ x.st = run[r].st
    BY <2>1 DEF RunRow
  <2> HIDE DEF x
  <2> QED
    BY <2>2, <2>3, <2>4, RowFades
<1>3. ASSUME NEW r \in RunIds, ProviderExits(r) PROVE FadeMove
  <2> DEFINE x == [run[r] EXCEPT !.proc = "broken"]
  <2>1. /\ x \in RunRow /\ x.by = run[r].by /\ x.job = run[r].job /\ x.batch = run[r].batch
        /\ x.known = run[r].known /\ x.proc = "broken" /\ x.st = run[r].st
    BY <1>0 DEF RunRow
  <2>2. run' = [run EXCEPT ![r] = x] /\ host' = host
    BY <1>3 DEF ProviderExits
  <2> HIDE DEF x
  <2> QED
    BY <2>1, <2>2, RowFades
<1>4. ASSUME NEW h \in Hosts, Maintain(h) PROVE FadeMove
  <2>1. PICK old \in SUBSET {r \in RunIds : Expired(r)} :
          run' = [r \in RunIds |-> IF r \in old THEN [run[r] EXCEPT !.ws = FALSE] ELSE run[r]]
    BY <1>4 DEF Maintain
  <2>2. \A r \in RunIds :
          /\ run'[r] \in RunRow /\ run'[r].by = run[r].by /\ run'[r].job = run[r].job
          /\ run'[r].batch = run[r].batch /\ run'[r].known = run[r].known
          /\ run'[r].proc = run[r].proc /\ run'[r].st = run[r].st
    <3> SUFFICES ASSUME NEW r \in RunIds
                 PROVE  /\ run'[r] \in RunRow /\ run'[r].by = run[r].by /\ run'[r].job = run[r].job
                        /\ run'[r].batch = run[r].batch /\ run'[r].known = run[r].known
                        /\ run'[r].proc = run[r].proc /\ run'[r].st = run[r].st
      OBVIOUS
    <3>1. CASE run'[r] = run[r]
      BY <1>0, <3>1
    <3>2. CASE run'[r] = [run[r] EXCEPT !.ws = FALSE]
      <4> DEFINE x == [run[r] EXCEPT !.ws = FALSE]
      <4>1. run[r] \in RunRow
        BY <1>0
      <4>2. /\ x \in RunRow /\ x.by = run[r].by /\ x.job = run[r].job /\ x.batch = run[r].batch
            /\ x.known = run[r].known /\ x.proc = run[r].proc /\ x.st = run[r].st
        BY <4>1 DEF RunRow
      <4> QED
        BY <3>2, <4>2
    <3> QED
      BY <2>1, <3>1, <3>2
  <2>3. run' \in [RunIds -> RunRow]
    BY <2>1, <2>2
  <2> QED
    BY <1>4, <2>2, <2>3 DEF FadeMove, Maintain
<1>5. ASSUME NEW h \in Hosts, NEW r \in RunIds, ResumeReadyCommit(h, r) PROVE FadeMove
  <2>0. /\ host' = host /\ run[r].st = "validating" /\ run[r] \in RunRow
        /\ \E g \in Hosts : host[g].pc = "salvage"
    BY <1>0, <1>5 DEF ResumeReadyCommit, Ready
  <2>1. CASE run' = [run EXCEPT ![r].st = "completed"]
    <3> DEFINE x == [run[r] EXCEPT !.st = "completed"]
    <3>1. /\ x \in RunRow /\ x.by = run[r].by /\ x.job = run[r].job /\ x.batch = run[r].batch
          /\ x.known = run[r].known /\ x.proc = run[r].proc /\ x.st = "completed"
      BY <2>0 DEF RunRow
    <3>2. run' = [run EXCEPT ![r] = x]
      BY <2>1
    <3> HIDE DEF x
    <3> QED
      BY <2>0, <3>1, <3>2, RowFades
  <2>2. CASE run' = [run EXCEPT ![r] = Closed(@, "worker_lost")]
    <3> DEFINE x == Closed(run[r], "worker_lost")
    <3>1. run' = [run EXCEPT ![r] = x]
      BY <2>2
    <3>2. /\ x \in RunRow /\ x.by = run[r].by /\ x.job = run[r].job /\ x.batch = run[r].batch
          /\ x.known = run[r].known /\ x.proc = run[r].proc /\ x.st = "worker_lost"
      BY <2>0, RowsHaveTypes
    <3> HIDE DEF x
    <3> QED
      BY <2>0, <3>1, <3>2, RowFades
  <2> QED
    BY <1>5, <2>1, <2>2 DEF ResumeReadyCommit
<1> QED
  BY <1>1, <1>2, <1>3, <1>4, <1>5 DEF FadeStep, Provider

LEMMA FadeTypes ==
  ASSUME TypeInv, FadeStep
  PROVE  TypeInv'
<1>0. FadeMove
  BY FadeMoves
<1>1. job' \in [Jobs -> JobRow]
  <2>0. job \in [Jobs -> JobRow]
    BY DEF TypeInv, TypeOK
  <2>1. CASE Provider
    BY <2>0, <2>1 DEF Provider, AgentWrites, StopHook, ProviderExits
  <2>2. ASSUME NEW h \in Hosts, Maintain(h) PROVE job' \in [Jobs -> JobRow]
    BY <2>2, RecoveredTypes DEF Maintain
  <2>3. ASSUME NEW h \in Hosts, NEW r \in RunIds, ResumeReadyCommit(h, r)
        PROVE  job' \in [Jobs -> JobRow]
    <3>1. host[h].job \in Jobs /\ run[r].batch \in Batches
      BY <2>3 DEF ResumeReadyCommit, Ready, TypeInv, StepsFit, RunsFit, JobSteps
    <3>2. CASE job' = [job EXCEPT ![host[h].job].done = @ \cup {run[r].batch}]
      BY <2>0, <3>1, <3>2, JobRowsHaveTypes
    <3> QED
      BY <2>0, <2>3, <3>2 DEF ResumeReadyCommit
  <2> QED
    BY <2>1, <2>2, <2>3 DEF FadeStep
<1>2. UNCHANGED <<backend, policy, admin, lock, faults>>
  BY DEF FadeStep, Provider, AgentWrites, StopHook, ProviderExits, Maintain, ResumeReadyCommit
<1>3. TypeOK'
  BY <1>0, <1>1, <1>2 DEF TypeInv, TypeOK, FadeMove
<1>4. StepsFit' /\ RunsFit'
  BY <1>0 DEF TypeInv, StepsFit, RunsFit, FadeMove
<1> QED
  BY <1>3, <1>4 DEF TypeInv

\* The worker that is up opens a row for the next batch.
StartMove(h, x) ==
  /\ host[h].pc = "batch"
  /\ \E r \in RunIds :
       /\ run[r].st = "none" /\ run' = [run EXCEPT ![r] = x]
       /\ host' = [host EXCEPT ![h] = [@ EXCEPT !.pc = "prepare", !.run = r]]
  /\ x.st = "preparing" /\ x.by = h /\ x.job = host[h].job /\ x.batch \in Batches
  /\ x.proc = "none"

LEMMA StartMoves ==
  ASSUME TypeInv, NEW h \in Hosts, StartBatch(h)
  PROVE  \/ \E w \in Worker : PlainMove(h, w)
         \/ \E x \in RunRow : StartMove(h, x)
<1>0. host[h] \in Worker /\ host[h].job \in Jobs /\ host[h].pc = "batch" /\ host[h].run = 0
  BY DEF TypeInv, TypeOK, StepsFit, StartBatch, JobSteps, OpenSteps
<1>1. CASE is_canceled(host[h].job)
  <2> DEFINE w == [host[h] EXCEPT !.pc = "except", !.err = "canceled", !.run = 0]
  <2>1. w \in Worker
    <3>1. [host[h] EXCEPT !.pc = "except"] \in Worker
      BY <1>0 DEF Worker, JobSteps
    <3>2. [[host[h] EXCEPT !.pc = "except"] EXCEPT !.err = "canceled"] \in Worker
      BY <3>1 DEF Worker
    <3> QED
      BY <3>2, NoRunOpen DEF Worker
  <2>2. w.pc = "except" /\ w.run = 0 /\ w.job = host[h].job
    BY <1>0 DEF Worker
  <2>3. PlainMove(h, w)
    BY <1>0, <1>1, <2>2 DEF PlainMove, StartBatch, Raise, OpenSteps
  <2> QED
    BY <2>1, <2>3
<1>2. CASE ~is_canceled(host[h].job)
  <2>1. PICK b \in Batches, r \in Free :
          /\ run' = [run EXCEPT ![r] = [NoRun EXCEPT
                       !.st = "preparing", !.job = host[h].job, !.batch = b, !.by = h]]
          /\ host' = [host EXCEPT ![h] = [@ EXCEPT !.pc = "prepare", !.run = r]]
    BY <1>2 DEF StartBatch
  <2> DEFINE x == [NoRun EXCEPT !.st = "preparing", !.job = host[h].job, !.batch = b, !.by = h]
  <2>2. x \in RunRow
    BY <1>0 DEF NoRun, RunRow, LIVE_RUNS
  <2>3. x.st = "preparing" /\ x.by = h /\ x.job = host[h].job /\ x.batch = b /\ x.proc = "none"
    BY DEF NoRun
  <2>4. StartMove(h, x)
    BY <1>0, <2>1, <2>3 DEF StartMove, Free
  <2> QED
    BY <2>2, <2>4
<1> QED
  BY <1>1, <1>2

LEMMA StartTypes ==
  ASSUME TypeInv, NEW h \in Hosts, StartBatch(h)
  PROVE  TypeInv'
<1>0. UNCHANGED <<backend, policy, admin, job, lock, faults>>
  BY DEF StartBatch
<1>1. ASSUME NEW w \in Worker, PlainMove(h, w) PROVE TypeInv'
  <2>1. TypeOK'
    BY <1>0, <1>1 DEF TypeInv, TypeOK, PlainMove
  <2>2. StepsFit'
    BY <1>0, <1>1 DEF TypeInv, TypeOK, StepsFit, PlainMove, OpenSteps, JobSteps
  <2> QED
    BY <1>1, <2>1, <2>2 DEF TypeInv, RunsFit, PlainMove
<1>2. ASSUME NEW x \in RunRow, StartMove(h, x) PROVE TypeInv'
  <2>1. PICK r \in RunIds :
          /\ run[r].st = "none" /\ run' = [run EXCEPT ![r] = x]
          /\ host' = [host EXCEPT ![h] = [@ EXCEPT !.pc = "prepare", !.run = r]]
    BY <1>2 DEF StartMove
  <2> DEFINE w == [host[h] EXCEPT !.pc = "prepare", !.run = r]
  <2>2. /\ host \in [Hosts -> Worker] /\ run \in [RunIds -> RunRow]
        /\ host[h].job \in Jobs /\ x.st = "preparing" /\ x.job = host[h].job /\ x.batch \in Batches
    BY <1>2 DEF TypeInv, TypeOK, StepsFit, StartMove, JobSteps
  <2>3. w \in Worker /\ w.pc = "prepare" /\ w.run = r /\ w.job = host[h].job
    <3>1. r \in 0..MaxRuns
      BY DEF RunIds
    <3>2. [host[h] EXCEPT !.pc = "prepare"] \in Worker
      BY <2>2 DEF Worker, JobSteps, OpenSteps
    <3> QED
      BY <2>2, <3>1, <3>2 DEF Worker
  <2>4. host' = [host EXCEPT ![h] = w] /\ run' = [run EXCEPT ![r] = x]
    BY <2>1
  <2> HIDE DEF w
  <2>5. TypeOK'
    BY <1>0, <2>2, <2>3, <2>4 DEF TypeInv, TypeOK
  <2>6. StepsFit'
    BY <2>2, <2>3, <2>4 DEF TypeInv, StepsFit, OpenSteps
  <2>7. RunsFit'
    BY <2>2, <2>4 DEF TypeInv, RunsFit
  <2> QED
    BY <2>5, <2>6, <2>7 DEF TypeInv
<1> QED
  BY <1>1, <1>2, StartMoves

\* Of a starting worker's rows: an orphan whose identity is known loses its
\* process; what is not kept for its commit is given up.
ReapMove(h, r, x) ==
  /\ host[h].pc = "reap" /\ r \in host[h].reap
  /\ run' = [run EXCEPT ![r] = x]
  /\ host' = [host EXCEPT ![h].reap = @ \ {r}]
  /\ x.by = run[r].by /\ x.job = run[r].job /\ x.batch = run[r].batch
  /\ x.known = run[r].known
  /\ x.proc = "alive" => run[r].proc = "alive" /\ ~x.known
  /\ x.st = run[r].st \/ (run[r].st \in LIVE_RUNS /\ x.st = "worker_lost")

LEMMA ReapMoves ==
  ASSUME TypeInv, NEW h \in Hosts, NEW r \in RunIds, ReapOrphan(h, r)
  PROVE  \E x \in RunRow : ReapMove(h, r, x)
<1> DEFINE y == IF run[r].known THEN Killed(run[r]) ELSE run[r]
           x == IF Resumable(y) THEN y
                ELSE IF y.st \in LIVE_RUNS THEN [y EXCEPT !.st = "worker_lost"] ELSE y
<1>0. run[r] \in RunRow
  BY DEF TypeInv, TypeOK
<1>1. /\ y \in RunRow /\ y.by = run[r].by /\ y.job = run[r].job /\ y.batch = run[r].batch
      /\ y.known = run[r].known /\ y.st = run[r].st
      /\ y.proc = "alive" => run[r].proc = "alive" /\ ~y.known
  BY <1>0, KilledRow, RowsHaveTypes
<1>2. run' = [run EXCEPT ![r] = x]
  BY DEF ReapOrphan
<1> HIDE DEF y
<1>3. LET z == [y EXCEPT !.st = "worker_lost"]
      IN  /\ z \in RunRow /\ z.by = y.by /\ z.job = y.job /\ z.batch = y.batch
          /\ z.known = y.known /\ z.proc = y.proc /\ z.st = "worker_lost"
  BY <1>1 DEF RunRow
<1>4. /\ x \in RunRow /\ x.by = y.by /\ x.job = y.job /\ x.batch = y.batch
      /\ x.known = y.known /\ x.proc = y.proc 
      /\ x.st = y.st \/ (y.st \in LIVE_RUNS /\ x.st = "worker_lost")
  BY <1>1, <1>3
<1> HIDE DEF x
<1>5. ReapMove(h, r, x)
  BY <1>1, <1>2, <1>4 DEF ReapMove, ReapOrphan
<1> QED
  BY <1>4, <1>5

LEMMA ReapTypes ==
  ASSUME TypeInv, NEW h \in Hosts, NEW r \in RunIds, ReapOrphan(h, r)
  PROVE  TypeInv'
<1>1. PICK x \in RunRow : ReapMove(h, r, x)
  BY ReapMoves
<1>2. UNCHANGED <<backend, policy, admin, job, lock, faults>>
  BY DEF ReapOrphan
<1>3. /\ [host[h] EXCEPT !.reap = @ \ {r}] \in Worker
      /\ host \in [Hosts -> Worker] /\ run \in [RunIds -> RunRow]
  BY DEF TypeInv, TypeOK, Worker
<1>4. TypeOK'
  BY <1>1, <1>2, <1>3 DEF TypeInv, TypeOK, ReapMove
<1>5. \A g \in Hosts : /\ host'[g].pc = host[g].pc /\ host'[g].job = host[g].job
                       /\ host'[g].run = host[g].run
  BY <1>1, <1>3 DEF ReapMove, Worker
<1>6. RunsFit' /\ \A q \in RunIds : run'[q].st = "none" => run[q].st = "none"
  BY <1>1, <1>3 DEF TypeInv, RunsFit, ReapMove, LIVE_RUNS
<1>7. StepsFit'
  BY <1>5, <1>6 DEF TypeInv, StepsFit
<1> QED
  BY <1>4, <1>6, <1>7 DEF TypeInv

LEMMA StartsAndEndsTypes ==
  ASSUME TypeInv, NEW h \in Hosts, AcquireLock(h) \/ RecoverLeases(h) \/ Crash(h)
  PROVE  TypeInv'
<1>0. host \in [Hosts -> Worker] /\ (host[h].pc \notin OpenSteps => host[h].run = 0)
  BY DEF TypeInv, TypeOK, StepsFit
<1>1. CASE AcquireLock(h)
  <2>1. /\ [host[h] EXCEPT !.pc = "leases"] \in Worker
        /\ [host[h] EXCEPT !.pc = "leases"].run = host[h].run
        /\ [host[h] EXCEPT !.pc = "leases"].pc = "leases"
    BY <1>0 DEF Worker
  <2>2. host' = [host EXCEPT ![h] = [host[h] EXCEPT !.pc = "leases"]]
    BY <1>1 DEF AcquireLock, Set
  <2>3. TypeOK'
    BY <1>0, <1>1, <2>1, <2>2 DEF TypeInv, TypeOK, AcquireLock
  <2>4. StepsFit' /\ RunsFit'
    BY <1>0, <1>1, <2>1, <2>2 DEF TypeInv, StepsFit, RunsFit, AcquireLock, JobSteps, OpenSteps
  <2> QED
    BY <2>3, <2>4 DEF TypeInv
<1>2. CASE RecoverLeases(h)
  <2> DEFINE w == [host[h] EXCEPT !.pc = "reap", !.reap = {r \in RunIds : run[r].st \in LIVE_RUNS}]
  <2>1. w \in Worker /\ w.run = host[h].run /\ w.pc = "reap"
    BY <1>0 DEF Worker
  <2>2. host' = [host EXCEPT ![h] = w] /\ job' \in [Jobs -> JobRow]
    BY <1>2, RecoveredTypes DEF RecoverLeases
  <2> HIDE DEF w
  <2>3. TypeOK'
    BY <1>0, <1>2, <2>1, <2>2 DEF TypeInv, TypeOK, RecoverLeases
  <2>4. StepsFit' /\ RunsFit'
    BY <1>0, <1>2, <2>1, <2>2 DEF TypeInv, StepsFit, RunsFit, RecoverLeases, JobSteps, OpenSteps
  <2> QED
    BY <2>3, <2>4 DEF TypeInv
<1>3. CASE Crash(h)
  <2>1. Off \in Worker /\ Off.pc = "down" /\ Off.run = 0
    BY RowsHaveTypes DEF Off
  <2>2. TypeOK'
    BY <1>0, <1>3, <2>1 DEF TypeInv, TypeOK, Crash
  <2>3. StepsFit' /\ RunsFit'
    BY <1>0, <1>3, <2>1 DEF TypeInv, StepsFit, RunsFit, Crash, JobSteps, OpenSteps
  <2> QED
    BY <2>2, <2>3 DEF TypeInv
<1> QED
  BY <1>1, <1>2, <1>3

LEMMA TypeInvStep ==
  ASSUME TypeInv, [Next]_vars
  PROVE  TypeInv'
<1>1. CASE UNCHANGED vars
  BY <1>1 DEF vars, TypeInv, TypeOK, StepsFit, RunsFit
<1>2. CASE LoseLockSession
  <2>1. faults' \in [n : Nat, dropped : BOOLEAN, change : Nat]
    <3>1. [faults EXCEPT !.n = @ + 1] \in [n : Nat, dropped : BOOLEAN, change : Nat]
      BY DEF TypeInv, TypeOK
    <3> QED
      BY <1>2, <3>1 DEF LoseLockSession
  <2> QED
    BY <1>2, <2>1 DEF LoseLockSession, TypeInv, TypeOK, StepsFit, RunsFit
<1>3. CASE Web
  BY <1>3, WebTypes
<1>4. CASE FadeStep
  BY <1>4, FadeTypes
<1>5. ASSUME NEW h \in Hosts, OpenStep(h) PROVE TypeInv'
  BY <1>5, OpenTypes
<1>6. ASSUME NEW h \in Hosts, PlainStep(h) PROVE TypeInv'
  BY <1>6, PlainTypes
<1>7. ASSUME NEW h \in Hosts, StartBatch(h) PROVE TypeInv'
  BY <1>7, StartTypes
<1>8. ASSUME NEW h \in Hosts, NEW r \in RunIds, ReapOrphan(h, r) PROVE TypeInv'
  BY <1>8, ReapTypes
<1>9. ASSUME NEW h \in Hosts, AcquireLock(h) \/ RecoverLeases(h) \/ Crash(h) PROVE TypeInv'
  BY <1>9, StartsAndEndsTypes
<1> QED
  BY <1>1, <1>2, <1>3, <1>4, <1>5, <1>6, <1>7, <1>8, <1>9, NextCases DEF FadeStep

LEMMA InitTypes == Init => TypeInv
<1> SUFFICES ASSUME Init PROVE TypeInv
  OBVIOUS
<1>1. TypeOK
  BY RowsHaveTypes DEF Init, TypeOK
<1>2. StepsFit /\ RunsFit
  BY DEF Init, StepsFit, RunsFit, Off, NoRun, JobSteps, OpenSteps
<1> QED
  BY <1>1, <1>2 DEF TypeInv

\* Tables, workers and processes keep their types, whatever the workers, the
\* provider and the administrator do.
THEOREM TypeCorrect == Spec => []TypeOK
<1>1. Init => TypeInv
  BY InitTypes
<1>2. TypeInv /\ [Next]_vars => TypeInv'
  BY TypeInvStep
<1>3. TypeInv => TypeOK
  BY DEF TypeInv
<1> QED
  BY <1>1, <1>2, <1>3, PTL DEF Spec

-----------------------------------------------------------------------------
(* While no lock session was lost.                                         *)

LEMMA OneWorkerIsUp ==
  ASSUME LockIsHeld, NEW g \in Hosts, NEW h \in Hosts,
         host[g].pc # "down", host[h].pc # "down"
  PROVE  g = h
  BY DEF LockIsHeld

LEMMA SupervisedIsOpen ==
  ASSUME TypeInv, NEW r \in RunIds, Supervised(r)
  PROVE  /\ run[r].by \in Hosts /\ host[run[r].by].run = r
         /\ host[run[r].by].pc \in OpenSteps /\ host[run[r].by].pc # "down"
<1>1. run[r].by \in Hosts /\ host[run[r].by].run = r
  BY DEF TypeInv, TypeOK, RunRow, Supervised
<1>2. r # 0
  BY DEF RunIds
<1> QED
  BY <1>1, <1>2 DEF TypeInv, StepsFit, OpenSteps

\* To a worker past its start, a process other than its own is a loose one: not
\* recorded, and watched by nobody.
LEMMA OthersAreLoose ==
  ASSUME TypeInv, LockedInv, NEW h \in Hosts, NEW r \in RunIds,
         host[h].pc \notin {"down", "leases", "reap"}, Alive(r), r # host[h].run
  PROVE  ~run[r].known /\ ~Supervised(r)
<1>1. ~Supervised(r)
  BY SupervisedIsOpen, OneWorkerIsUp DEF LockedInv
<1> QED
  BY <1>1 DEF LockedInv, OrphansAreListed

\* Whom the workers watch depends on two fields.
LEMMA SameSupervision ==
  ASSUME NEW r \in RunIds, run'[r].by = run[r].by, TypeInv,
         \A g \in Hosts : host'[g].run = host[g].run
  PROVE  Supervised(r)' <=> Supervised(r)
  BY DEF Supervised, TypeInv, TypeOK, RunRow

LEMMA OpenLocked ==
  ASSUME TypeInv, LockedInv, NEW h \in Hosts, OpenStep(h)
  PROVE  LockedInv'
<1> DEFINE q == host[h].run
<1>0. PICK x \in RunRow, w \in Worker : OpenMove(h, x, w)
  BY OpenMoves
<1>1. /\ q \in RunIds /\ host[h].pc \in OpenSteps /\ host[h].pc # "down" /\ lock' = lock
      /\ host \in [Hosts -> Worker] /\ run \in [RunIds -> RunRow] /\ q # 0
  <2>1. lock' = lock
    BY DEF OpenStep, Prepare, Spawn, RecordProcess, ProviderExited, WriteManifest,
         ValidateOutput, Commit, NoticeCancel, ProviderFails, StopProvider, TurnCompletes
  <2> QED
    BY <2>1, OpenWorkers DEF TypeInv, TypeOK, OpenSteps, RunIds
<1>2. /\ host' = [host EXCEPT ![h] = w] /\ run' = [run EXCEPT ![q] = x]
      /\ host'[h] = w /\ run'[q] = x
      /\ \A g \in Hosts : g # h => host'[g] = host[g]
      /\ \A r \in RunIds : r # q => run'[r] = run[r]
  BY <1>0, <1>1 DEF OpenMove
<1>3. \A g \in Hosts : g # h => host'[g].pc = "down" /\ host'[g].run = 0
  BY <1>1, <1>2, OneWorkerIsUp DEF LockedInv, TypeInv, StepsFit, OpenSteps
<1>4. OpenRowIs(h, run[q]) /\ (run[q].st = "validating" => run[q].proc # "alive")
  BY <1>1 DEF LockedInv, OpenRows, ReadyHasEnded, Alive
<1>5. /\ x.by = h /\ x.job = w.job /\ w.job = host[h].job
      /\ Continues(h, x, w) \/ Closes(h, x, w)
  BY <1>0, <1>4 DEF OpenMove, OpenRowIs
<1>6. Closes(h, x, w) => x.proc # "alive"
  BY <1>4 DEF Closes, OpenRowIs
<1>7. Continues(h, x, w) =>
        /\ w.pc = "spawn" => x.st = "running" /\ x.proc # "alive"
        /\ w.pc \in {"record", "watch", "manifest"} => x.st = "running"
        /\ w.pc \in {"validate", "commit"} => x.st = "validating" /\ x.proc # "alive"
        /\ w.pc # "prepare"
  BY <1>4 DEF Continues, OpenRowIs
<1>8. \A r \in RunIds : r # q /\ run[r].proc = "alive" =>
        /\ ~run[r].known /\ ~Supervised(r) /\ ~Supervised(r)'
  <2> SUFFICES ASSUME NEW r \in RunIds, r # q, run[r].proc = "alive"
               PROVE  ~run[r].known /\ ~Supervised(r) /\ ~Supervised(r)'
    OBVIOUS
  <2>1. ~run[r].known /\ ~Supervised(r)
    BY <1>1, OthersAreLoose DEF Alive, OpenSteps
  <2>2. r # 0 /\ run'[r] = run[r] /\ run[r].by \in Hosts \cup {Nobody}
    BY <1>1, <1>2 DEF RunIds, RunRow
  <2>3. w.run \in {q, 0}
    BY <1>5 DEF Continues, Closes
  <2>4. ~Supervised(r)'
    BY <1>2, <1>3, <2>2, <2>3 DEF Supervised
  <2> QED
    BY <2>1, <2>4
<1>a. LockIsHeld'
  BY <1>1, <1>3 DEF LockedInv, LockIsHeld
<1>b. OpenRows'
  <2> SUFFICES ASSUME NEW g \in Hosts, host'[g].pc \in OpenSteps
               PROVE  OpenRowIs(g, run[host[g].run])'
    BY DEF OpenRows
  <2>1. g = h /\ Continues(h, x, w) /\ host'[h].run = q /\ host'[h] = w /\ run'[q] = x
    BY <1>2, <1>3, <1>5 DEF OpenSteps, Continues, Closes
  <2> QED
    BY <1>5, <1>7, <2>1 DEF OpenRowIs
<1>c. ReadyHasEnded'
  <2> SUFFICES ASSUME NEW r \in RunIds, run'[r].st = "validating"
               PROVE  run'[r].proc # "alive"
    BY DEF ReadyHasEnded, Alive
  <2>1. CASE r = q
    BY <1>2, <1>5, <1>6, <1>7, <2>1 DEF Continues, OpenSteps
  <2>2. CASE r # q
    BY <1>2, <2>2 DEF LockedInv, ReadyHasEnded, Alive
  <2> QED
    BY <2>1, <2>2
<1>d. OrphansAreListed'
  <2> SUFFICES ASSUME NEW r \in RunIds, run'[r].proc = "alive", run'[r].known, ~Supervised(r)'
               PROVE  FALSE
    BY DEF OrphansAreListed, Alive
  <2>1. r = q
    BY <1>2, <1>8
  <2>2. Continues(h, x, w)
    BY <1>2, <1>5, <1>6, <2>1
  <2>3. run'[r].by = h /\ host'[h].run = r
    BY <1>2, <1>5, <2>1, <2>2 DEF Continues
  <2> QED
    BY <2>3 DEF Supervised
<1>e. ReadyGoesFirst'
  <2> SUFFICES ASSUME NEW g \in Hosts, NEW r \in RunIds,
                      host'[g].pc \in OpenSteps \cup {"batch"},
                      run'[r].st = "validating", run'[r].job = host'[g].job
               PROVE  r = host'[g].run
    BY DEF ReadyGoesFirst
  <2>1. g = h /\ host'[g] = w
    BY <1>2, <1>3 DEF OpenSteps
  <2>2. r = q
    BY <1>1, <1>2, <1>5, <2>1 DEF LockedInv, ReadyGoesFirst
  <2>3. Continues(h, x, w)
    BY <1>2, <1>5, <2>1, <2>2 DEF Closes, OpenSteps
  <2> QED
    BY <2>1, <2>2, <2>3 DEF Continues
<1>f. OneKnownProcess'
  <2> SUFFICES ASSUME NEW r \in RunIds, NEW s \in RunIds, r # s,
                      run'[r].proc = "alive", run'[s].proc = "alive"
               PROVE  \E p \in {r, s} : ~run'[p].known /\ ~Supervised(p)'
    BY DEF OneKnownProcess, Alive
  <2>1. PICK p \in {r, s} : p # q
    OBVIOUS
  <2> QED
    BY <1>2, <1>8, <2>1
<1> QED
  BY <1>a, <1>b, <1>c, <1>d, <1>e, <1>f DEF LockedInv

LEMMA PlainLocked ==
  ASSUME TypeInv, LockedInv, NEW h \in Hosts, NEW w \in Worker, PlainMove(h, w), lock' = lock
  PROVE  LockedInv'
<1>1. /\ host \in [Hosts -> Worker] /\ host[h].run = 0 /\ host[h].pc # "down" /\ run' = run
      /\ w.run = 0 /\ w.pc \in {"poll", "authorize", "salvage", "batch", "except"}
      /\ w.pc = "batch" => Ready(w.job) = {}
  BY DEF TypeInv, TypeOK, StepsFit, PlainMove
<1>2. host'[h] = w /\ \A g \in Hosts : g # h => host'[g] = host[g]
  BY <1>1 DEF PlainMove
<1>3. \A r \in RunIds : Supervised(r)' <=> Supervised(r)
  BY <1>1, <1>2, SameSupervision
<1>a. LockIsHeld'
  BY <1>1, <1>2 DEF LockedInv, LockIsHeld
<1>b. OpenRows'
  <2> SUFFICES ASSUME NEW g \in Hosts, host'[g].pc \in OpenSteps
               PROVE  OpenRowIs(g, run[host[g].run])'
    BY DEF OpenRows
  <2>1. g # h
    BY <1>1, <1>2 DEF OpenSteps
  <2> QED
    BY <1>1, <1>2, <2>1 DEF LockedInv, OpenRows, OpenRowIs
<1>c. ReadyHasEnded'
  BY <1>1 DEF LockedInv, ReadyHasEnded, Alive
<1>d. OrphansAreListed'
  <2> SUFFICES ASSUME NEW r \in RunIds, Alive(r), run[r].known, ~Supervised(r)
               PROVE  FALSE
    BY <1>1, <1>3 DEF OrphansAreListed, Alive
  <2> QED
    BY DEF LockedInv, OrphansAreListed, PlainMove
<1>e. ReadyGoesFirst'
  <2> SUFFICES ASSUME NEW g \in Hosts, NEW r \in RunIds,
                      host'[g].pc \in OpenSteps \cup {"batch"},
                      run[r].st = "validating", run[r].job = host'[g].job
               PROVE  r = host'[g].run
    BY <1>1 DEF ReadyGoesFirst
  <2>1. g # h
    BY <1>1, <1>2 DEF OpenSteps, Ready
  <2> QED
    BY <1>2, <2>1 DEF LockedInv, ReadyGoesFirst
<1>f. OneKnownProcess'
  BY <1>1, <1>3 DEF LockedInv, OneKnownProcess, Alive
<1> QED
  BY <1>a, <1>b, <1>c, <1>d, <1>e, <1>f DEF LockedInv

LEMMA FadeLocked ==
  ASSUME TypeInv, LockedInv, FadeMove, lock' = lock
  PROVE  LockedInv'
<1>1. /\ host' = host
      /\ \A r \in RunIds :
           /\ run'[r].by = run[r].by /\ run'[r].job = run[r].job /\ run'[r].known = run[r].known
           /\ run'[r].proc = "alive" => run[r].proc = "alive"
           /\ run'[r].st = "validating" => run[r].st = "validating"
           /\ run'[r].st # run[r].st => run[r].st = "validating"
  BY DEF FadeMove
<1>2. \A r \in RunIds : Supervised(r)' <=> Supervised(r)
  BY <1>1, SameSupervision
<1>a. LockIsHeld'
  BY <1>1 DEF LockedInv, LockIsHeld
<1>b. OpenRows'
  <2> SUFFICES ASSUME NEW g \in Hosts, host[g].pc \in OpenSteps
               PROVE  OpenRowIs(g, run[host[g].run])'
    BY <1>1 DEF OpenRows
  <2>1. host[g].run \in RunIds
    BY DEF TypeInv, StepsFit
  <2>2. run'[host[g].run].st = run[host[g].run].st
    <3>1. \A h \in Hosts : host[h].pc # "salvage"
      BY OneWorkerIsUp DEF LockedInv, OpenSteps
    <3> QED
      BY <2>1, <3>1 DEF FadeMove
  <2>3. OpenRowIs(g, run[host[g].run])
    BY DEF LockedInv, OpenRows
  <2> QED
    BY <1>1, <2>1, <2>2, <2>3 DEF OpenRowIs
<1>c. ReadyHasEnded'
  BY <1>1 DEF LockedInv, ReadyHasEnded, Alive
<1>d. OrphansAreListed'
  <2> SUFFICES ASSUME NEW r \in RunIds, run'[r].proc = "alive", run'[r].known, ~Supervised(r)'
               PROVE  /\ run'[r].st \in LIVE_RUNS
                      /\ \A h \in Hosts : \/ host[h].pc \in {"down", "leases"}
                                          \/ host[h].pc = "reap" /\ r \in host[h].reap
    BY <1>1 DEF OrphansAreListed, Alive
  <2>1. Alive(r) /\ run[r].known /\ ~Supervised(r)
    BY <1>1, <1>2 DEF Alive
  <2>2. run'[r].st = run[r].st
    BY <1>1, <2>1 DEF LockedInv, ReadyHasEnded
  <2> QED
    BY <2>1, <2>2 DEF LockedInv, OrphansAreListed
<1>e. ReadyGoesFirst'
  BY <1>1 DEF LockedInv, ReadyGoesFirst
<1>f. OneKnownProcess'
  BY <1>1, <1>2 DEF LockedInv, OneKnownProcess, Alive
<1> QED
  BY <1>a, <1>b, <1>c, <1>d, <1>e, <1>f DEF LockedInv

LEMMA StartLocked ==
  ASSUME TypeInv, LockedInv, NEW h \in Hosts, NEW x \in RunRow, StartMove(h, x), lock' = lock
  PROVE  LockedInv'
<1>0. PICK q \in RunIds :
        /\ run' = [run EXCEPT ![q] = x]
        /\ host' = [host EXCEPT ![h] = [@ EXCEPT !.pc = "prepare", !.run = q]]
  BY DEF StartMove
<1>1. /\ host \in [Hosts -> Worker] /\ run \in [RunIds -> RunRow] /\ host[h].pc = "batch"
      /\ host[h].run = 0 /\ x.st = "preparing" /\ x.by = h /\ x.job = host[h].job
      /\ x.proc = "none"
  BY DEF TypeInv, TypeOK, StepsFit, StartMove, OpenSteps
<1>2. /\ host'[h].pc = "prepare" /\ host'[h].run = q /\ host'[h].job = host[h].job
      /\ \A g \in Hosts : g # h => host'[g] = host[g]
      /\ run'[q] = x /\ \A r \in RunIds : r # q => run'[r] = run[r]
  BY <1>0, <1>1 DEF Worker
<1>3. \A g \in Hosts : g # h => host'[g].pc = "down"
  BY <1>1, <1>2, OneWorkerIsUp DEF LockedInv
<1>4. \A r \in RunIds : run'[r].proc = "alive" =>
        /\ r # q /\ run'[r] = run[r] /\ ~run'[r].known /\ ~Supervised(r)'
  <2> SUFFICES ASSUME NEW r \in RunIds, run'[r].proc = "alive"
               PROVE  r # q /\ run'[r] = run[r] /\ ~run'[r].known /\ ~Supervised(r)'
    OBVIOUS
  <2>1. r # q /\ run'[r] = run[r] /\ Alive(r) /\ r # 0
    BY <1>1, <1>2 DEF Alive, RunIds
  <2>2. ~run[r].known /\ ~Supervised(r)
    BY <1>1, <2>1, OthersAreLoose
  <2>3. ~Supervised(r)'
    BY <1>1, <1>2, <2>1, <2>2 DEF Supervised, RunRow
  <2> QED
    BY <2>1, <2>2, <2>3
<1>a. LockIsHeld'
  BY <1>1, <1>2, <1>3 DEF LockedInv, LockIsHeld
<1>b. OpenRows'
  <2> SUFFICES ASSUME NEW g \in Hosts, host'[g].pc \in OpenSteps
               PROVE  OpenRowIs(g, run[host[g].run])'
    BY DEF OpenRows
  <2>1. g = h
    BY <1>3 DEF OpenSteps
  <2> QED
    BY <1>1, <1>2, <2>1 DEF OpenRowIs
<1>c. ReadyHasEnded'
  BY <1>1, <1>2 DEF LockedInv, ReadyHasEnded, Alive
<1>d. OrphansAreListed'
  BY <1>4 DEF OrphansAreListed, Alive
<1>e. ReadyGoesFirst'
  <2> SUFFICES ASSUME NEW g \in Hosts, NEW r \in RunIds,
                      host'[g].pc \in OpenSteps \cup {"batch"},
                      run'[r].st = "validating", run'[r].job = host'[g].job
               PROVE  FALSE
    BY DEF ReadyGoesFirst
  <2>1. g = h /\ r # q /\ run'[r] = run[r] /\ r # 0
    BY <1>1, <1>2, <1>3 DEF OpenSteps, RunIds
  <2> QED
    BY <1>1, <1>2, <2>1 DEF LockedInv, ReadyGoesFirst
<1>f. OneKnownProcess'
  BY <1>4 DEF OneKnownProcess, Alive
<1> QED
  BY <1>a, <1>b, <1>c, <1>d, <1>e, <1>f DEF LockedInv

LEMMA ReapLocked ==
  ASSUME TypeInv, LockedInv, NEW h \in Hosts, NEW r \in RunIds, NEW x \in RunRow,
         ReapMove(h, r, x), lock' = lock
  PROVE  LockedInv'
<1>1. /\ host \in [Hosts -> Worker] /\ run \in [RunIds -> RunRow] /\ host[h].pc = "reap"
      /\ x.by = run[r].by /\ x.known = run[r].known
      /\ x.proc = "alive" => run[r].proc = "alive" /\ ~x.known
      /\ x.st = "validating" => run[r].st = "validating"
  BY DEF TypeInv, TypeOK, ReapMove
<1>2. /\ \A g \in Hosts : host'[g].pc = host[g].pc /\ host'[g].run = host[g].run
      /\ host'[h].reap = host[h].reap \ {r}
      /\ run'[r] = x /\ \A s \in RunIds : s # r => run'[s] = run[s]
  BY <1>1 DEF ReapMove, Worker
<1>3. \A g \in Hosts : g # h => host[g].pc = "down"
  BY <1>1, OneWorkerIsUp DEF LockedInv
<1>4. \A s \in RunIds : Supervised(s)' <=> Supervised(s)
  BY <1>1, <1>2, SameSupervision
<1>a. LockIsHeld'
  BY <1>2 DEF LockedInv, LockIsHeld
<1>b. OpenRows'
  BY <1>1, <1>2, <1>3 DEF OpenRows, OpenSteps
<1>c. ReadyHasEnded'
  BY <1>1, <1>2 DEF LockedInv, ReadyHasEnded, Alive
<1>d. OrphansAreListed'
  <2> SUFFICES ASSUME NEW s \in RunIds, run'[s].proc = "alive", run'[s].known, ~Supervised(s)'
               PROVE  /\ run'[s].st \in LIVE_RUNS
                      /\ \A g \in Hosts : \/ host'[g].pc \in {"down", "leases"}
                                          \/ host'[g].pc = "reap" /\ s \in host'[g].reap
    BY DEF OrphansAreListed, Alive
  <2>1. s # r /\ run'[s] = run[s] /\ Alive(s) /\ ~Supervised(s)
    BY <1>1, <1>2, <1>4 DEF Alive
  <2>2. run[s].st \in LIVE_RUNS /\ s \in host[h].reap
    BY <1>1, <2>1 DEF LockedInv, OrphansAreListed
  <2> QED
    BY <1>1, <1>2, <1>3, <2>1, <2>2
<1>e. ReadyGoesFirst'
  BY <1>1, <1>2, <1>3 DEF ReadyGoesFirst, OpenSteps
<1>f. OneKnownProcess'
  <2>1. \A s \in RunIds : /\ run'[s].known = run[s].known
                          /\ run'[s].proc = "alive" => run[s].proc = "alive"
    BY <1>1, <1>2
  <2> SUFFICES ASSUME NEW s \in RunIds, NEW q \in RunIds, s # q,
                      run'[s].proc = "alive", run'[q].proc = "alive"
               PROVE  \E p \in {s, q} : ~run'[p].known /\ ~Supervised(p)'
    BY DEF OneKnownProcess, Alive
  <2>2. PICK p \in {s, q} : ~run[p].known /\ ~Supervised(p)
    BY <2>1 DEF LockedInv, OneKnownProcess, Alive
  <2>3. ~run'[p].known /\ ~Supervised(p)'
    BY <1>4, <2>1, <2>2
  <2> QED
    BY <2>3
<1> QED
  BY <1>a, <1>b, <1>c, <1>d, <1>e, <1>f DEF LockedInv

LEMMA AcquireLocked ==
  ASSUME TypeInv, LockedInv, NEW h \in Hosts, AcquireLock(h)
  PROVE  LockedInv'
<1>1. /\ host \in [Hosts -> Worker] /\ host[h].pc = "down" /\ lock = Nobody /\ lock' = h
      /\ run' = run /\ host' = [host EXCEPT ![h] = [@ EXCEPT !.pc = "leases"]]
  BY DEF TypeInv, TypeOK, AcquireLock, Set
<1>2. \A g \in Hosts : host[g].pc = "down"
  BY <1>1 DEF LockedInv, LockIsHeld
<1>3. /\ \A g \in Hosts : host'[g].run = host[g].run /\ host'[g].pc \in {"down", "leases"}
      /\ \A g \in Hosts : g # h => host'[g].pc = "down"
  BY <1>1, <1>2 DEF Worker
<1>4. \A r \in RunIds : Supervised(r)' <=> Supervised(r)
  BY <1>1, <1>3, SameSupervision
<1>a. LockIsHeld'
  BY <1>1, <1>3 DEF LockIsHeld
<1>b. OpenRows'
  BY <1>3 DEF OpenRows, OpenSteps
<1>c. ReadyHasEnded'
  BY <1>1 DEF LockedInv, ReadyHasEnded, Alive
<1>d. OrphansAreListed'
  BY <1>1, <1>3, <1>4 DEF LockedInv, OrphansAreListed, Alive
<1>e. ReadyGoesFirst'
  BY <1>3 DEF ReadyGoesFirst, OpenSteps
<1>f. OneKnownProcess'
  BY <1>1, <1>4 DEF LockedInv, OneKnownProcess, Alive
<1> QED
  BY <1>a, <1>b, <1>c, <1>d, <1>e, <1>f DEF LockedInv

\* The list of a starting worker has every recorded process that is alive.
LEMMA RecoverLocked ==
  ASSUME TypeInv, LockedInv, NEW h \in Hosts, RecoverLeases(h)
  PROVE  LockedInv'
<1>1. /\ host \in [Hosts -> Worker] /\ host[h].pc = "leases" /\ lock' = lock /\ run' = run
      /\ host' = [host EXCEPT ![h] = [@ EXCEPT !.pc = "reap",
                    !.reap = {r \in RunIds : run[r].st \in LIVE_RUNS}]]
  BY DEF TypeInv, TypeOK, RecoverLeases
<1>2. /\ \A g \in Hosts : host'[g].run = host[g].run
      /\ host'[h].pc = "reap" /\ host'[h].reap = {r \in RunIds : run[r].st \in LIVE_RUNS}
      /\ \A g \in Hosts : g # h => host'[g] = host[g] /\ host'[g].pc = "down"
  BY <1>1, OneWorkerIsUp DEF LockedInv, Worker
<1>3. \A r \in RunIds : Supervised(r)' <=> Supervised(r)
  BY <1>1, <1>2, SameSupervision
<1>a. LockIsHeld'
  BY <1>1, <1>2 DEF LockedInv, LockIsHeld
<1>b. OpenRows'
  BY <1>2 DEF OpenRows, OpenSteps
<1>c. ReadyHasEnded'
  BY <1>1 DEF LockedInv, ReadyHasEnded, Alive
<1>d. OrphansAreListed'
  <2> SUFFICES ASSUME NEW r \in RunIds, Alive(r), run[r].known, ~Supervised(r)
               PROVE  /\ run[r].st \in LIVE_RUNS
                      /\ \A g \in Hosts : \/ host'[g].pc \in {"down", "leases"}
                                          \/ host'[g].pc = "reap" /\ r \in host'[g].reap
    BY <1>1, <1>3 DEF OrphansAreListed, Alive
  <2>1. run[r].st \in LIVE_RUNS
    BY DEF LockedInv, OrphansAreListed
  <2> QED
    BY <1>2, <2>1
<1>e. ReadyGoesFirst'
  BY <1>2 DEF ReadyGoesFirst, OpenSteps
<1>f. OneKnownProcess'
  BY <1>1, <1>3 DEF LockedInv, OneKnownProcess, Alive
<1> QED
  BY <1>a, <1>b, <1>c, <1>d, <1>e, <1>f DEF LockedInv

\* A worker that dies leaves its process as an orphan that the next one finds.
LEMMA CrashLocked ==
  ASSUME TypeInv, LockedInv, NEW h \in Hosts, Crash(h)
  PROVE  LockedInv'
<1>1. /\ host \in [Hosts -> Worker] /\ run \in [RunIds -> RunRow] /\ host[h].pc # "down"
      /\ run' = run /\ host' = [host EXCEPT ![h] = Off] /\ Off.pc = "down" /\ Off.run = 0
  BY DEF TypeInv, TypeOK, Crash, Off
<1>2. \A g \in Hosts : /\ host'[g].pc = "down"
                       /\ host'[g].run = host[g].run \/ host'[g].run = 0
  BY <1>1, OneWorkerIsUp DEF LockedInv
<1>3. \A r \in RunIds : Supervised(r)' => Supervised(r)
  BY <1>1, <1>2 DEF Supervised, RunRow, RunIds
<1>a. LockIsHeld'
  BY <1>2 DEF LockIsHeld
<1>b. OpenRows'
  BY <1>2 DEF OpenRows, OpenSteps
<1>c. ReadyHasEnded'
  BY <1>1 DEF LockedInv, ReadyHasEnded, Alive
<1>d. OrphansAreListed'
  <2> SUFFICES ASSUME NEW r \in RunIds, Alive(r), run[r].known
               PROVE  run[r].st \in LIVE_RUNS
    BY <1>1, <1>2 DEF OrphansAreListed, Alive
  <2>1. CASE Supervised(r)
    <3>1. OpenRowIs(run[r].by, run[r]) /\ host[run[r].by].pc \in OpenSteps
      BY <2>1, SupervisedIsOpen DEF LockedInv, OpenRows
    <3> QED
      BY <3>1 DEF OpenRowIs, OpenSteps, LIVE_RUNS
  <2>2. CASE ~Supervised(r)
    BY <2>2 DEF LockedInv, OrphansAreListed
  <2> QED
    BY <2>1, <2>2
<1>e. ReadyGoesFirst'
  BY <1>2 DEF ReadyGoesFirst, OpenSteps
<1>f. OneKnownProcess'
  BY <1>1, <1>3 DEF LockedInv, OneKnownProcess, Alive
<1> QED
  BY <1>a, <1>b, <1>c, <1>d, <1>e, <1>f DEF LockedInv

LEMMA RunInvStep ==
  ASSUME TypeInv, RunInv, [Next]_vars
  PROVE  RunInv'
<1> SUFFICES ASSUME ~faults'.dropped PROVE LockedInv'
  BY DEF RunInv
<1>1. CASE LoseLockSession
  <2>1. faults'.dropped
    BY <1>1 DEF LoseLockSession, TypeInv, TypeOK
  <2> QED
    BY <2>1
<1> USE DEF RunInv
<1>2. CASE UNCHANGED vars
  BY <1>2 DEF vars, LockedInv, LockIsHeld, OpenRows, OpenRowIs, ReadyHasEnded,
              OrphansAreListed, ReadyGoesFirst, OneKnownProcess, Alive, Supervised
<1>3. CASE Web
  <2>1. UNCHANGED <<host, lock, run>> /\ ~faults.dropped
    BY <1>3 DEF Web, Schedule, UserCancels, UpsertPolicy, DeletePolicy, CancelRevoked,
                AdminLost, TypeInv, TypeOK
  <2> QED
    BY <2>1 DEF LockedInv, LockIsHeld, OpenRows, OpenRowIs, ReadyHasEnded,
                OrphansAreListed, ReadyGoesFirst, OneKnownProcess, Alive, Supervised
<1>4. CASE FadeStep
  <2>1. UNCHANGED <<lock, faults>>
    BY <1>4 DEF FadeStep, Provider, AgentWrites, StopHook, ProviderExits, Maintain, ResumeReadyCommit
  <2> QED
    BY <1>4, <2>1, FadeMoves, FadeLocked
<1>5. ASSUME NEW h \in Hosts, OpenStep(h) PROVE LockedInv'
  <2>1. UNCHANGED faults
    BY <1>5 DEF OpenStep, Prepare, Spawn, RecordProcess, ProviderExited, WriteManifest,
         ValidateOutput, Commit, NoticeCancel, ProviderFails, StopProvider, TurnCompletes
  <2> QED
    BY <1>5, <2>1, OpenLocked
<1>6. ASSUME NEW h \in Hosts, PlainStep(h) PROVE LockedInv'
  <2>1. UNCHANGED <<lock, faults>>
    BY <1>6 DEF PlainStep, Preflight, Claim, Reauthorize, SalvageDone, FinishJob, Except
  <2> QED
    BY <1>6, <2>1, PlainMoves, PlainLocked
<1>7. ASSUME NEW h \in Hosts, StartBatch(h) PROVE LockedInv'
  <2>1. UNCHANGED <<lock, faults>>
    BY <1>7 DEF StartBatch
  <2> QED
    BY <1>7, <2>1, StartMoves, StartLocked, PlainLocked
<1>8. ASSUME NEW h \in Hosts, NEW r \in RunIds, ReapOrphan(h, r) PROVE LockedInv'
  <2>1. UNCHANGED <<lock, faults>>
    BY <1>8 DEF ReapOrphan
  <2> QED
    BY <1>8, <2>1, ReapMoves, ReapLocked
<1>9. ASSUME NEW h \in Hosts, AcquireLock(h) \/ RecoverLeases(h) \/ Crash(h) PROVE LockedInv'
  <2>1. ~faults.dropped
    BY <1>9 DEF AcquireLock, RecoverLeases, Crash, TypeInv, TypeOK
  <2> QED
    BY <1>9, <2>1, AcquireLocked, RecoverLocked, CrashLocked
<1> QED
  BY <1>1, <1>2, <1>3, <1>4, <1>5, <1>6, <1>7, <1>8, <1>9, NextCases DEF FadeStep

LEMMA InitRuns ==
  ASSUME Init
  PROVE  TypeInv /\ RunInv
<1>1. LockedInv
  BY DEF Init, Off, NoRun, OpenSteps, LockedInv, LockIsHeld, OpenRows, ReadyHasEnded,
         OrphansAreListed, ReadyGoesFirst, OneKnownProcess, Alive
<1> QED
  BY <1>1, InitTypes DEF RunInv

LEMMA RunsAreLocked == Spec => [](TypeInv /\ RunInv)
<1>1. Init => TypeInv /\ RunInv
  BY InitRuns
<1>2. TypeInv /\ RunInv /\ [Next]_vars => (TypeInv /\ RunInv)'
  BY TypeInvStep, RunInvStep
<1> QED
  BY <1>1, <1>2, PTL DEF Spec

\* One subscription, one provider process: whatever the workers, the provider
\* and the crashes do, two processes are alive at once only after a lock session
\* was lost, or when one of them belongs to a worker that died between starting
\* it and writing its identity down.
THEOREM OneProcess == Spec => []OneProviderProcess
<1>1. RunInv => OneProviderProcess
  BY DEF RunInv, LockedInv, OneKnownProcess, OneProviderProcess
<1> QED
  BY <1>1, RunsAreLocked, PTL

\* While acceptable output of a batch waits for its commit, no worker that has
\* its lock session runs the provider for that batch.
THEOREM ReadyIsNotRepeated == Spec => []SalvagedIsNotRerun
<1>1. TypeInv /\ RunInv => SalvagedIsNotRerun
  <2> SUFFICES ASSUME TypeInv, LockedInv, NEW r \in RunIds, NEW q \in RunIds,
                      Alive(r), run[q].st = "validating", run[q].job = run[r].job, Supervised(r)
               PROVE  FALSE
    BY DEF RunInv, SalvagedIsNotRerun
  <2> DEFINE h == run[r].by
  <2>1. h \in Hosts /\ host[h].pc \in OpenSteps /\ host[h].run = r
    BY SupervisedIsOpen
  <2>2. run[r].job = host[h].job
    BY <2>1 DEF LockedInv, OpenRows, OpenRowIs
  <2>3. q = r
    BY <2>1, <2>2 DEF LockedInv, ReadyGoesFirst
  <2> QED
    BY <2>3 DEF LockedInv, ReadyHasEnded
<1> QED
  BY <1>1, RunsAreLocked, PTL

=============================================================================
