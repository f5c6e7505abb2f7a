------------------------- MODULE ChapterTranslation -------------------------
(***************************************************************************)
(* How raw chapters get their shared translation.  Two machines write it:  *)
(*                                                                         *)
(*  - the web process: readers, prefetches and API jobs all call           *)
(*    translate_chapter under a lock per chapter that lives in that        *)
(*    process;                                                             *)
(*  - the subscription worker: a process of its own that stages a batch of *)
(*    chapters under a run id, has the provider translate it and commits   *)
(*    chapter by chapter.                                                  *)
(*                                                                         *)
(* The two meet in the row only.  Owners edit the text and forced scrapes  *)
(* replace the source while both are at work.  An action is one database   *)
(* statement or transaction with the code up to the next.                  *)
(*                                                                         *)
(* Faults, scrapes and edits are drawn from budgets, at most one of each   *)
(* kind and MaxTrouble of them all: `left` holds what is left.             *)
(***************************************************************************)
EXTENDS ChapterRow, Integers, FiniteSets

CONSTANTS
  MaxChapter,   \* chapters are 1..MaxChapter
  Callers,      \* calls of translate_chapter in flight
  Forced,       \* the values of `force` callers use
  JobForce,     \* the `force` option of the subscription job
  Limit,        \* the monthly limit of translated_chapters
  MaxAttempts,  \* attempts of the subscription job
  MaxTrouble    \* bound on crashes, database errors, scrapes and edits together

Chapters == 1..MaxChapter
NoChapter == 0

ASSUME TranslationAssumption ==
  /\ MaxChapter \in Nat
  /\ IsFiniteSet(Callers)
  /\ Forced \subseteq BOOLEAN
  /\ JobForce \in BOOLEAN
  /\ {Limit, MaxAttempts, MaxTrouble} \subseteq Nat

VARIABLES
  chapters,  \* the table
  calls,     \* what each call of translate_chapter is doing
  used,      \* quota_usage of translated_chapters
  runs,      \* ai_execution_runs of the subscription job
  worker,    \* what the subscription worker is doing
  scrape,    \* the forced scrape between its SELECT and its upsert
  left,      \* budgets
  paid,      \* history: translations committed by calls
  forfeited  \* history: units of calls that ended without translation or refund

vars == <<chapters, calls, used, runs, worker, scrape, left, paid, forfeited>>

(* ch: the chapter whose lock the call holds                               *)
CallPlaces ==
  {"idle", "admitted", "charged", "calling", "answered", "lost", "refund"}
CallState == [pc : CallPlaces, ch : Chapters \cup {NoChapter}, snap : Snapshot]
IdleCall == [pc |-> "idle", ch |-> NoChapter, snap |-> NoSnapshot]

(* "running" stands for `preparing` too; "incomplete" is the status        *)
(* `validating` of a run whose output manifest is missing; "absent" is a   *)
(* row that is not there yet.                                              *)
RunStatuses ==
  {"absent", "running", "validating", "incomplete", "completed", "failed", "worker_lost"}
LIVE_RUNS == {"running", "validating", "incomplete"}

(* todo: chapters of the job that no batch has taken yet; batch: the       *)
(* chapters of the current one; staged: those of the batch that are staged *)
(* and not committed; snap: what was read of them.                         *)
WorkerPlaces ==
  {"down", "reap", "release", "idle", "resume", "batch", "provider", "validate", "commit"}
WorkerState ==
  [pc : WorkerPlaces, run : Runs \cup {NoRun}, todo : SUBSET Chapters,
   staged : SUBSET Chapters, snap : [Chapters -> Snapshot]]
WorkerAt(pc) ==
  [pc |-> pc, run |-> NoRun, todo |-> {}, staged |-> {},
   snap |-> [c \in Chapters |-> NoSnapshot]]

(* The scraper holds a chapter it has fetched, and the row it has read.    *)
ScrapeState ==
  [ch : Chapters \cup {NoChapter}, raw : BOOLEAN, text : Sources, seen : Snapshot]
NoScrape == [ch |-> NoChapter, raw |-> FALSE, text |-> NoText, seen |-> NoSnapshot]

Budget ==
  [web : Nat, worker : Nat, call : Nat, db : Nat, scrape : Nat, edit : Nat, attempts : Nat]

Charged == {k \in Callers : calls[k].pc \notin {"idle", "admitted"}}
Free(c) == \A k \in Callers : calls[k].ch # c
(* The id of the next row of ai_execution_runs                             *)
NextRun(r) == runs[r] = "absent" /\ \A q \in Runs : runs[q] = "absent" => r <= q

Init ==
  /\ \E t \in Texts : chapters = [c \in Chapters |-> RawRow(t)]
  /\ calls = [k \in Callers |-> IdleCall]
  /\ used = 0
  /\ runs = [r \in Runs |-> "absent"]
  /\ worker = WorkerAt("idle")
  /\ scrape = NoScrape
  /\ left \in [web : 0..1, worker : 0..1, call : 0..1,
               db : 0..1, scrape : 0..1, edit : 0..1,
               attempts : {MaxAttempts}]
  /\ left.web + left.worker + left.call + left.db + left.scrape + left.edit = MaxTrouble
  /\ paid = 0
  /\ forfeited = 0

Write(c, row) == chapters' = [chapters EXCEPT ![c] = row]
Goto(k, pc) == calls' = [calls EXCEPT ![k].pc = pc]
Return(k) == calls' = [calls EXCEPT ![k] = IdleCall]

-----------------------------------------------------------------------------
(* translate_chapter                                                       *)

(* The lock is taken and the row is read, without locking it.              *)
Open(k, c, force) ==
  /\ calls[k].pc = "idle"
  /\ Free(c)
  /\ Admitted(chapters[c], force)
  /\ calls' = [calls EXCEPT ![k] = [pc |-> "admitted", ch |-> c,
                                    snap |-> SnapshotOf(chapters[c])]]
  /\ UNCHANGED <<chapters, used, runs, worker, scrape, left, paid, forfeited>>

Reserve(k) ==
  /\ calls[k].pc = "admitted"
  /\ \/ used < Limit /\ used' = used + 1 /\ Goto(k, "charged")
     \/ used >= Limit /\ UNCHANGED used /\ Return(k)
  /\ UNCHANGED <<chapters, runs, worker, scrape, left, paid, forfeited>>

MarkStarted(k) ==
  /\ calls[k].pc = "charged"
  /\ Write(calls[k].ch, mark_translation_started(chapters[calls[k].ch], calls[k].snap))
  /\ Goto(k, "calling")
  /\ UNCHANGED <<used, runs, worker, scrape, left, paid, forfeited>>

ProviderAnswers(k) ==
  /\ calls[k].pc = "calling"
  /\ Goto(k, "answered")
  /\ UNCHANGED <<chapters, used, runs, worker, scrape, left, paid, forfeited>>

(* The call raises or its answer is empty: the row is marked whoever has   *)
(* it by now.                                                              *)
ProviderRaises(k) ==
  /\ calls[k].pc = "calling"
  /\ Write(calls[k].ch, mark_translation_failed(chapters[calls[k].ch]))
  /\ Goto(k, "refund")
  /\ UNCHANGED <<used, runs, worker, scrape, left, paid, forfeited>>

Commit(k) ==
  LET c == calls[k].ch IN
  /\ calls[k].pc = "answered"
  /\ Accepts(chapters[c], calls[k].snap, NoRun)
  /\ Write(c, commit_translation(chapters[c], calls[k].snap, NoRun))
  /\ paid' = paid + 1
  /\ Return(k)
  /\ UNCHANGED <<used, runs, worker, scrape, left, forfeited>>

LoseRace(k) ==
  /\ calls[k].pc = "answered"
  /\ ~Accepts(chapters[calls[k].ch], calls[k].snap, NoRun)
  /\ Goto(k, "lost")
  /\ UNCHANGED <<chapters, used, runs, worker, scrape, left, paid, forfeited>>

MarkLost(k) ==
  /\ calls[k].pc = "lost"
  /\ Write(calls[k].ch, mark_unowned_failed(chapters[calls[k].ch]))
  /\ Goto(k, "refund")
  /\ UNCHANGED <<used, runs, worker, scrape, left, paid, forfeited>>

(* Mutant: a failed translation keeps its charge. *)
KeepCharge(k) ==
  /\ calls[k].pc = "refund"
  /\ Return(k)
  /\ UNCHANGED <<chapters, used, runs, worker, scrape, left, paid, forfeited>>

RefundCall(k) ==
  /\ calls[k].pc = "refund"
  /\ used' = IF used > 0 THEN used - 1 ELSE 0
  /\ Return(k)
  /\ UNCHANGED <<chapters, runs, worker, scrape, left, paid, forfeited>>

(* A database statement of the call raises.  Only the commit is inside a    *)
(* handler that goes on; an error before the provider is called, or in a   *)
(* handler, leaves the row and the charge as they are.                     *)
CallErrors(k) ==
  /\ calls[k].pc # "idle"
  /\ left.call > 0
  /\ left' = [left EXCEPT !.call = @ - 1]
  /\ \/ calls[k].pc = "answered" /\ Goto(k, "lost") /\ UNCHANGED forfeited
     \/ calls[k].pc # "answered" /\ Return(k)
        /\ forfeited' = forfeited + (IF k \in Charged THEN 1 ELSE 0)
  /\ UNCHANGED <<chapters, used, runs, worker, scrape, paid>>

(* The web process dies and starts again: calls and locks are gone, rows   *)
(* and charges stay.                                                       *)
WebCrash ==
  /\ left.web > 0
  /\ \E k \in Callers : calls[k].pc # "idle"
  /\ left' = [left EXCEPT !.web = @ - 1]
  /\ calls' = [k \in Callers |-> IdleCall]
  /\ forfeited' = forfeited + Cardinality(Charged)
  /\ UNCHANGED <<chapters, used, runs, worker, scrape, paid>>

-----------------------------------------------------------------------------
(* The subscription worker: execute_translation_job and _run_batch         *)

ResetStaged(r) ==
  chapters' = [c \in Chapters |-> reset_staged_translation(chapters[c], r)]
SetRun(r, st) == runs' = [runs EXCEPT ![r] = st]

(* One execution of the job; a failed attempt is queued again by the job   *)
(* table until its attempts are spent.                                     *)
StartJob ==
  /\ worker.pc = "idle"
  /\ left.attempts > 0
  /\ left' = [left EXCEPT !.attempts = @ - 1]
  /\ worker' = WorkerAt("resume")
  /\ UNCHANGED <<chapters, calls, used, runs, scrape, paid, forfeited>>

(* Runs left in `validating` are to be committed from their artifacts.     *)
(* The code that reads the artifacts back names `Path`, which its module   *)
(* never imports, so every such run ends in the handler: its chapters are  *)
(* released and the run is worker_lost.                                    *)
ResumeReadyCommits(r) ==
  /\ worker.pc = "resume"
  /\ runs[r] \in {"validating", "incomplete"}
  /\ ResetStaged(r)
  /\ SetRun(r, "worker_lost")
  /\ UNCHANGED <<calls, used, worker, scrape, left, paid, forfeited>>

ListPending ==
  /\ worker.pc = "resume"
  /\ \A r \in Runs : runs[r] \notin {"validating", "incomplete"}
  /\ worker' = [worker EXCEPT !.pc = "batch",
                  !.todo = {c \in Chapters : Stageable(chapters[c], JobForce)}]
  /\ UNCHANGED <<chapters, calls, used, runs, scrape, left, paid, forfeited>>

(* Batches are runs of consecutive pending chapters, cut by a count and by *)
(* the length of the texts.                                                *)
Batches(todo) ==
  {b \in SUBSET todo : b # {} /\ \A c \in b, d \in todo \ b : c < d}

(* create_run, then stage_translation_batch in one transaction, over rows  *)
(* that may have changed since the list was read.                          *)
StageBatch(r, b) ==
  LET staged == {c \in b : Stageable(chapters[c], JobForce)} IN
  /\ worker.pc = "batch"
  /\ NextRun(r)
  /\ chapters' = [c \in Chapters |->
                    IF c \in staged THEN stage_translation(chapters[c], r) ELSE chapters[c]]
  /\ SetRun(r, IF staged = {} THEN "completed" ELSE "running")
  /\ worker' = [worker EXCEPT
                  !.pc = IF staged = {} THEN "batch" ELSE "provider",
                  !.run = IF staged = {} THEN NoRun ELSE r,
                  !.todo = @ \ b,
                  !.staged = staged,
                  !.snap = [c \in Chapters |->
                              IF c \in staged THEN SnapshotOf(chapters[c]) ELSE NoSnapshot]]
  /\ UNCHANGED <<calls, used, scrape, left, paid, forfeited>>

(* The provider exits; its output is complete or not.                      *)
ProviderExits(st) ==
  /\ worker.pc = "provider"
  /\ SetRun(worker.run, st)
  /\ worker' = [worker EXCEPT !.pc = "validate"]
  /\ UNCHANGED <<chapters, calls, used, scrape, left, paid, forfeited>>

(* Mutant: a failed batch is closed without releasing its chapters. *)
CloseRun ==
  /\ worker.pc \in {"provider", "validate"}
  /\ SetRun(worker.run, "failed")
  /\ worker' = WorkerAt("idle")
  /\ UNCHANGED <<chapters, calls, used, scrape, left, paid, forfeited>>

(* A provider error, a cancel or a validation error ends the attempt.      *)
FailRun ==
  /\ worker.pc \in {"provider", "validate"}
  /\ ResetStaged(worker.run)
  /\ SetRun(worker.run, "failed")
  /\ worker' = WorkerAt("idle")
  /\ UNCHANGED <<calls, used, scrape, left, paid, forfeited>>

Validate ==
  /\ worker.pc = "validate"
  /\ runs[worker.run] = "validating"
  /\ worker' = [worker EXCEPT !.pc = "commit"]
  /\ UNCHANGED <<chapters, calls, used, runs, scrape, left, paid, forfeited>>

(* One commit_translation of the batch, in chapter order: written, or      *)
(* found written already.                                                  *)
CommitProposal(c) ==
  LET snap == worker.snap[c] IN
  /\ worker.pc = "commit"
  /\ c \in worker.staged
  /\ \A d \in worker.staged : c <= d
  /\ \/ Accepts(chapters[c], snap, worker.run)
        /\ Write(c, commit_translation(chapters[c], snap, worker.run))
     \/ Replayed(chapters[c], snap, worker.run)
        /\ UNCHANGED chapters
  /\ worker' = [worker EXCEPT !.staged = @ \ {c}]
  /\ UNCHANGED <<calls, used, runs, scrape, left, paid, forfeited>>

(* SourceChangedError: the rest of the batch is released.                  *)
ProposalRefused(c) ==
  LET snap == worker.snap[c] IN
  /\ worker.pc = "commit"
  /\ c \in worker.staged
  /\ \A d \in worker.staged : c <= d
  /\ ~Accepts(chapters[c], snap, worker.run)
  /\ ~Replayed(chapters[c], snap, worker.run)
  /\ ResetStaged(worker.run)
  /\ SetRun(worker.run, "failed")
  /\ worker' = WorkerAt("idle")
  /\ UNCHANGED <<calls, used, scrape, left, paid, forfeited>>

(* A database error keeps the artifacts and the staging for the next       *)
(* attempt.                                                                *)
CommitErrors ==
  /\ worker.pc = "commit"
  /\ worker.staged # {}
  /\ left.db > 0
  /\ left' = [left EXCEPT !.db = @ - 1]
  /\ worker' = WorkerAt("idle")
  /\ UNCHANGED <<chapters, calls, used, runs, scrape, paid, forfeited>>

(* Creating the workspace comes after the staging and before the handler   *)
(* that would undo it: an error there leaves the run and its chapters for  *)
(* the next start of the worker.                                           *)
WorkspaceErrors ==
  /\ worker.pc = "provider"
  /\ left.db > 0
  /\ left' = [left EXCEPT !.db = @ - 1]
  /\ worker' = WorkerAt("idle")
  /\ UNCHANGED <<chapters, calls, used, runs, scrape, paid, forfeited>>

FinishBatch ==
  /\ worker.pc = "commit"
  /\ worker.staged = {}
  /\ SetRun(worker.run, "completed")
  /\ worker' = [worker EXCEPT !.pc = "batch", !.run = NoRun]
  /\ UNCHANGED <<chapters, calls, used, scrape, left, paid, forfeited>>

FinishJob ==
  /\ worker.pc = "batch"
  /\ worker.todo = {}
  /\ worker' = WorkerAt("idle")
  /\ UNCHANGED <<chapters, calls, used, runs, scrape, left, paid, forfeited>>

(* A cancel is noticed between two batches.  (It also ends the model's     *)
(* worker when the bound MaxRuns leaves no run id.)                        *)
CancelJob ==
  /\ worker.pc = "batch"
  /\ worker.todo # {}
  /\ worker' = WorkerAt("idle")
  /\ UNCHANGED <<chapters, calls, used, runs, scrape, left, paid, forfeited>>

WorkerCrash ==
  /\ worker.pc # "down"
  /\ left.worker > 0
  /\ left' = [left EXCEPT !.worker = @ - 1]
  /\ worker' = WorkerAt("down")
  /\ UNCHANGED <<chapters, calls, used, runs, scrape, paid, forfeited>>

Restart ==
  /\ worker.pc = "down"
  /\ worker' = WorkerAt("reap")
  /\ UNCHANGED <<chapters, calls, used, runs, scrape, left, paid, forfeited>>

(* _reap_orphans: a run with a complete manifest is retained; any other is *)
(* marked lost and, by a second statement, its chapters are released.      *)
MarkOrphanLost(r) ==
  /\ worker.pc = "reap"
  /\ runs[r] \in {"running", "incomplete"}
  /\ SetRun(r, "worker_lost")
  /\ worker' = [worker EXCEPT !.pc = "release", !.run = r]
  /\ UNCHANGED <<chapters, calls, used, scrape, left, paid, forfeited>>

ReleaseOrphan ==
  /\ worker.pc = "release"
  /\ ResetStaged(worker.run)
  /\ worker' = WorkerAt("reap")
  /\ UNCHANGED <<calls, used, runs, scrape, left, paid, forfeited>>

FinishReaping ==
  /\ worker.pc = "reap"
  /\ \A r \in Runs : runs[r] \notin {"running", "incomplete"}
  /\ worker' = WorkerAt("idle")
  /\ UNCHANGED <<chapters, calls, used, runs, scrape, left, paid, forfeited>>

-----------------------------------------------------------------------------
(* People and scrapers                                                     *)

EditBase(c) ==
  /\ left.edit > 0
  /\ left' = [left EXCEPT !.edit = @ - 1]
  /\ Write(c, update_base_content(chapters[c]))
  /\ UNCHANGED <<calls, used, runs, worker, scrape, paid, forfeited>>

(* A forced scrape has fetched a chapter and reads the row it will replace *)
ScrapeReads(c, raw, text) ==
  /\ scrape.ch = NoChapter
  /\ left.scrape > 0
  /\ left' = [left EXCEPT !.scrape = @ - 1]
  /\ scrape' = [ch |-> c, raw |-> raw, text |-> text, seen |-> SnapshotOf(chapters[c])]
  /\ UNCHANGED <<chapters, calls, used, runs, worker, paid, forfeited>>

ScrapeWrites ==
  /\ scrape.ch # NoChapter
  /\ Write(scrape.ch,
           upsert_ingested_chapter(chapters[scrape.ch], scrape.seen, scrape.raw, scrape.text))
  /\ scrape' = NoScrape
  /\ UNCHANGED <<calls, used, runs, worker, left, paid, forfeited>>

-----------------------------------------------------------------------------
CallStep(k) ==
  \/ \E c \in Chapters, force \in Forced : Open(k, c, force)
  \/ Reserve(k) \/ MarkStarted(k) \/ ProviderAnswers(k) \/ ProviderRaises(k)
  \/ Commit(k) \/ LoseRace(k) \/ MarkLost(k) \/ RefundCall(k)

WorkerStep ==
  \/ StartJob \/ ListPending \/ FailRun \/ Validate \/ FinishBatch \/ FinishJob
  \/ CancelJob \/ Restart \/ ReleaseOrphan \/ FinishReaping
  \/ \E r \in Runs : ResumeReadyCommits(r) \/ MarkOrphanLost(r)
  \/ \E r \in Runs, b \in Batches(worker.todo) : StageBatch(r, b)
  \/ \E st \in {"validating", "incomplete"} : ProviderExits(st)
  \/ \E c \in Chapters : CommitProposal(c) \/ ProposalRefused(c)

Outside ==
  \/ WebCrash \/ WorkerCrash \/ CommitErrors \/ WorkspaceErrors \/ ScrapeWrites
  \/ \E k \in Callers : CallErrors(k)
  \/ \E c \in Chapters : EditBase(c)
  \/ \E c \in Chapters, raw \in BOOLEAN, text \in Texts : ScrapeReads(c, raw, text)

Next == (\E k \in Callers : CallStep(k)) \/ WorkerStep \/ Outside

Spec == Init /\ [][Next]_vars

-----------------------------------------------------------------------------
TypeOK ==
  /\ chapters \in [Chapters -> Row]
  /\ calls \in [Callers -> CallState]
  /\ used \in Nat
  /\ runs \in [Runs -> RunStatuses]
  /\ worker \in WorkerState
  /\ scrape \in ScrapeState
  /\ left \in Budget
  /\ paid \in Nat
  /\ forfeited \in Nat

(* A machine translation on display is a translation of the source text    *)
(* the chapter has now: an answer that was asked for before the source was *)
(* replaced never lands (commit_translation).                              *)
TranslationIsOfItsSource ==
  \A c \in Chapters : chapters[c].content \in Texts => chapters[c].content = chapters[c].src

(* The place from which a step of the model commits chapter c, and what it *)
(* had read of the text it replaces                                        *)
CommitterSaw(c, text) ==
  \/ \E k \in Callers :
       calls[k].pc = "answered" /\ calls[k].ch = c /\ calls[k].snap.content = text
  \/ worker.pc = "commit" /\ c \in worker.staged /\ worker.snap[c].content = text

(* A machine translation replaces a text a person wrote only when that     *)
(* text was there when the translation began (a forced re-translation); an *)
(* edit made while a call or a batch is under way survives both.           *)
NoEditIsLostUnseen ==
  [][\A c \in Chapters :
       chapters[c].content = Edited /\ chapters'[c].content \in Texts
         => CommitterSaw(c, Edited)]_vars

(* Every unit of translated_chapters on the ledger is a translation that   *)
(* was committed, a call still under way, or a call that ended without its *)
(* refund (forfeited): no path of translate_chapter hands a unit back      *)
(* twice, or one that was never taken.                                     *)
ChargesBalance == used = paid + forfeited + Cardinality(Charged)

(* A chapter that a run has staged is attended: the run is live, or the    *)
(* reaper is about to release it.  (One worker crash; a second one between *)
(* the two steps of the reaper leaves the chapter staged for good.)        *)
TranslatingIsAttended ==
  \A c \in Chapters : chapters[c].status = "translating" /\ chapters[c].run # NoRun =>
    LET r == chapters[c].run IN
    runs[r] \in LIVE_RUNS \/ (worker.pc = "release" /\ worker.run = r)

=============================================================================
