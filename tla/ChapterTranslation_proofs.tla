--------------------- MODULE ChapterTranslation_proofs ----------------------
(***************************************************************************)
(* Theorems about ChapterTranslation, for any number of chapters, calls,   *)
(* runs, faults, scrapes and edits.                                        *)
(***************************************************************************)
EXTENDS ChapterTranslation, FiniteSetTheorems, TLAPS

(* Every statement of ChapterRow maps a row to a row.                      *)
LEMMA RowOperators ==
  ASSUME NEW r \in Row
  PROVE  /\ SnapshotOf(r) \in Snapshot
         /\ \A s \in Snapshot : mark_translation_started(r, s) \in Row
         /\ mark_translation_failed(r) \in Row
         /\ mark_unowned_failed(r) \in Row
         /\ \A q \in Runs : stage_translation(r, q) \in Row
         /\ \A q \in Runs \cup {NoRun} : reset_staged_translation(r, q) \in Row
         /\ \A s \in Snapshot, q \in Runs \cup {NoRun} : commit_translation(r, s, q) \in Row
         /\ update_base_content(r) \in Row
         /\ \A s \in Snapshot, raw \in BOOLEAN, t \in Sources :
              upsert_ingested_chapter(r, s, raw, t) \in Row
<1>1. SnapshotOf(r) \in Snapshot
  BY DEF SnapshotOf, Snapshot, Row
<1>2. \A s \in Snapshot : mark_translation_started(r, s) \in Row
  BY DEF mark_translation_started, Snapshot, Row, Statuses
<1>3. mark_translation_failed(r) \in Row
  BY DEF mark_translation_failed, Row, Statuses
<1>4. mark_unowned_failed(r) \in Row
  BY <1>3 DEF mark_unowned_failed
<1>5. \A q \in Runs : stage_translation(r, q) \in Row
  BY DEF stage_translation, Row, Statuses
<1>6. \A q \in Runs \cup {NoRun} : reset_staged_translation(r, q) \in Row
  BY DEF reset_staged_translation, Row, Statuses
<1>0. r.ver \in Nat /\ r.ver + 1 \in Nat
  BY DEF Row
<1>7. ASSUME NEW s \in Snapshot, NEW q \in Runs \cup {NoRun}
      PROVE  commit_translation(r, s, q) \in Row
  <2>1. s.src \in Sources /\ s.src \in Contents
    BY DEF Snapshot, Sources, Contents
  <2> QED
    BY <1>0, <2>1 DEF commit_translation, Row, Statuses
<1>8. update_base_content(r) \in Row
  BY <1>0 DEF update_base_content, Row, Statuses, Contents
<1>9. ASSUME NEW s \in Snapshot, NEW raw \in BOOLEAN, NEW t \in Sources
      PROVE  upsert_ingested_chapter(r, s, raw, t) \in Row
  <2>1. /\ IngestedSource(raw, t) \in Sources
        /\ IngestedContent(raw) \in Contents
    BY DEF IngestedSource, IngestedContent, Sources, Contents
  <2> QED
    BY <1>0, <2>1 DEF upsert_ingested_chapter, Row, Statuses
<1> QED
  BY <1>1, <1>2, <1>3, <1>4, <1>5, <1>6, <1>7, <1>8, <1>9

(* The type invariant needs that a call that is not idle has a chapter.    *)
CallsHaveChapters == \A k \in Callers : calls[k].pc # "idle" => calls[k].ch \in Chapters
(* ... and that the worker has a run where it uses one.                    *)
WorkerHasRun ==
  worker.pc \in {"provider", "validate", "commit", "release"} => worker.run \in Runs
TypeInv == TypeOK /\ CallsHaveChapters /\ WorkerHasRun

LEMMA IdleTypes ==
  /\ IdleCall \in CallState
  /\ \A pc \in WorkerPlaces : WorkerAt(pc) \in WorkerState
  /\ NoScrape \in ScrapeState
<1>1. NoSnapshot \in Snapshot
  BY DEF NoSnapshot, Snapshot, Sources, Contents
<1> QED
  BY <1>1 DEF IdleCall, CallState, CallPlaces, WorkerAt, WorkerState, NoScrape, ScrapeState,
              Sources

(* Resetting a batch is a statement over the whole table.                  *)
LEMMA ResetType ==
  ASSUME chapters \in [Chapters -> Row], NEW r \in Runs \cup {NoRun}, ResetStaged(r)
  PROVE  chapters' \in [Chapters -> Row]
BY RowOperators DEF ResetStaged

LEMMA InitType ==
  ASSUME Init
  PROVE  TypeInv
<1>1. chapters \in [Chapters -> Row]
  <2>1. PICK t \in Texts : chapters = [c \in Chapters |-> RawRow(t)]
    BY DEF Init
  <2>2. RawRow(t) \in Row
    BY DEF RawRow, Row, Statuses, Sources, Contents
  <2> QED
    BY <2>1, <2>2
<1>2. left \in Budget
  BY TranslationAssumption DEF Init, Budget
<1>3. /\ calls \in [Callers -> CallState]
      /\ worker \in WorkerState
      /\ scrape \in ScrapeState
  BY IdleTypes DEF Init, WorkerPlaces
<1>4. runs \in [Runs -> RunStatuses]
  BY DEF Init, RunStatuses
<1>5. used \in Nat /\ paid \in Nat /\ forfeited \in Nat
  BY DEF Init
<1>6. CallsHaveChapters /\ WorkerHasRun
  BY DEF Init, CallsHaveChapters, WorkerHasRun, IdleCall, WorkerAt
<1> QED
  BY <1>1, <1>2, <1>3, <1>4, <1>5, <1>6 DEF TypeInv, TypeOK

(* The steps of translate_chapter                                          *)
LEMMA CallTypeStep ==
  ASSUME TypeInv, NEW k \in Callers, CallStep(k)
  PROVE  TypeInv'
<1> USE DEF TypeInv, TypeOK
<1>0. /\ calls[k] \in CallState
      /\ \A pc \in CallPlaces : [calls[k] EXCEPT !.pc = pc] \in CallState
      /\ IdleCall \in CallState
      /\ IdleCall.pc = "idle"
  BY IdleTypes DEF CallState, IdleCall
<1>1. ASSUME NEW pc \in CallPlaces, Goto(k, pc), calls[k].pc # "idle"
      PROVE  calls' \in [Callers -> CallState] /\ CallsHaveChapters'
  BY <1>0, <1>1 DEF Goto, CallsHaveChapters, CallState
<1>2. ASSUME Return(k)
      PROVE  calls' \in [Callers -> CallState] /\ CallsHaveChapters'
  BY <1>0, <1>2 DEF Return, CallsHaveChapters
<1>3. ASSUME UNCHANGED worker PROVE WorkerHasRun'
  BY <1>3 DEF WorkerHasRun
<1>4. ASSUME calls[k].pc # "idle" PROVE calls[k].ch \in Chapters /\ calls[k].snap \in Snapshot
  BY <1>4, <1>0 DEF CallsHaveChapters, CallState
<1>5. ASSUME NEW c \in Chapters, NEW force \in Forced, Open(k, c, force) PROVE TypeInv'
  <2>1. [pc |-> "admitted", ch |-> c, snap |-> SnapshotOf(chapters[c])] \in CallState
    BY RowOperators DEF CallState, CallPlaces
  <2>2. calls' \in [Callers -> CallState] /\ CallsHaveChapters'
    BY <2>1, <1>5 DEF Open, CallsHaveChapters
  <2> QED
    BY <2>2, <1>3, <1>5 DEF Open
<1>6. CASE Reserve(k)
  <2>1. calls' \in [Callers -> CallState] /\ CallsHaveChapters'
    BY <1>6, <1>1, <1>2 DEF Reserve, CallPlaces
  <2>2. used' \in Nat
    BY <1>6 DEF Reserve
  <2> QED
    BY <2>1, <2>2, <1>3, <1>6 DEF Reserve
<1>7. CASE MarkStarted(k)
  <2>1. chapters' \in [Chapters -> Row]
    BY <1>7, <1>4, RowOperators DEF MarkStarted, Write
  <2>2. calls' \in [Callers -> CallState] /\ CallsHaveChapters'
    BY <1>7, <1>1 DEF MarkStarted, CallPlaces
  <2> QED
    BY <2>1, <2>2, <1>3, <1>7 DEF MarkStarted
<1>8. CASE ProviderAnswers(k)
  <2>1. calls' \in [Callers -> CallState] /\ CallsHaveChapters'
    BY <1>8, <1>1 DEF ProviderAnswers, CallPlaces
  <2> QED
    BY <2>1, <1>3, <1>8 DEF ProviderAnswers
<1>9. CASE ProviderRaises(k)
  <2>1. chapters' \in [Chapters -> Row]
    BY <1>9, <1>4, RowOperators DEF ProviderRaises, Write
  <2>2. calls' \in [Callers -> CallState] /\ CallsHaveChapters'
    BY <1>9, <1>1 DEF ProviderRaises, CallPlaces
  <2> QED
    BY <2>1, <2>2, <1>3, <1>9 DEF ProviderRaises
<1>10. CASE Commit(k)
  <2>1. chapters' \in [Chapters -> Row]
    BY <1>10, <1>4, RowOperators DEF Commit, Write
  <2>2. calls' \in [Callers -> CallState] /\ CallsHaveChapters'
    BY <1>10, <1>2 DEF Commit
  <2>3. paid' \in Nat
    BY <1>10 DEF Commit
  <2> QED
    BY <2>1, <2>2, <2>3, <1>3, <1>10 DEF Commit
<1>11. CASE LoseRace(k)
  <2>1. calls' \in [Callers -> CallState] /\ CallsHaveChapters'
    BY <1>11, <1>1 DEF LoseRace, CallPlaces
  <2> QED
    BY <2>1, <1>3, <1>11 DEF LoseRace
<1>12. CASE MarkLost(k)
  <2>1. chapters' \in [Chapters -> Row]
    BY <1>12, <1>4, RowOperators DEF MarkLost, Write
  <2>2. calls' \in [Callers -> CallState] /\ CallsHaveChapters'
    BY <1>12, <1>1 DEF MarkLost, CallPlaces
  <2> QED
    BY <2>1, <2>2, <1>3, <1>12 DEF MarkLost
<1>13. CASE RefundCall(k)
  <2>1. calls' \in [Callers -> CallState] /\ CallsHaveChapters'
    BY <1>13, <1>2 DEF RefundCall
  <2>2. used' \in Nat
    BY <1>13 DEF RefundCall
  <2> QED
    BY <2>1, <2>2, <1>3, <1>13 DEF RefundCall
<1> QED
  BY <1>5, <1>6, <1>7, <1>8, <1>9, <1>10, <1>11, <1>12, <1>13 DEF CallStep

(* The steps of the subscription worker                                    *)
LEMMA WorkerMoves ==
  ASSUME NEW x \in WorkerState, NEW pc \in WorkerPlaces
  PROVE  /\ [x EXCEPT !.pc = pc] \in WorkerState /\ [x EXCEPT !.pc = pc].pc = pc
         /\ [x EXCEPT !.pc = pc].run = x.run
BY DEF WorkerState

LEMMA WorkerLists ==
  ASSUME NEW x \in WorkerState, NEW todo \in SUBSET Chapters,
         worker' = [x EXCEPT !.pc = "batch", !.todo = todo]
  PROVE  worker' \in WorkerState /\ worker'.pc = "batch"
BY DEF WorkerState, WorkerPlaces

LEMMA WorkerTurns ==
  ASSUME NEW x \in WorkerState, NEW pc \in WorkerPlaces, NEW run \in Runs \cup {NoRun},
         worker' = [x EXCEPT !.pc = pc, !.run = run]
  PROVE  worker' \in WorkerState /\ worker'.pc = pc /\ worker'.run = run
BY DEF WorkerState

LEMMA WorkerTypeStep ==
  ASSUME TypeInv, WorkerStep
  PROVE  TypeInv'
<1> USE DEF TypeInv, TypeOK
<1>0. /\ worker \in WorkerState
      /\ \A pc \in WorkerPlaces : [worker EXCEPT !.pc = pc] \in WorkerState
      /\ \A pc \in WorkerPlaces : WorkerAt(pc) \in WorkerState /\ WorkerAt(pc).pc = pc
  BY IdleTypes DEF WorkerState, WorkerAt
<1>1. ASSUME UNCHANGED calls PROVE CallsHaveChapters'
  BY <1>1 DEF CallsHaveChapters
<1>2. ASSUME NEW r \in Runs, NEW st \in RunStatuses, SetRun(r, st)
      PROVE  runs' \in [Runs -> RunStatuses]
  BY <1>2 DEF SetRun
<1>3. ASSUME NEW pc \in {"down", "reap", "idle", "resume"}, worker' = WorkerAt(pc)
      PROVE  worker' \in WorkerState /\ WorkerHasRun'
  BY <1>3, <1>0 DEF WorkerHasRun, WorkerPlaces
<1>at. \A pc \in {"batch", "resume", "idle"} : worker'.pc = pc => WorkerHasRun'
  BY DEF WorkerHasRun
<1>4. CASE StartJob
  <2>1. left' \in Budget
    BY <1>4 DEF StartJob, Budget
  <2> QED
    BY <2>1, <1>1, <1>3, <1>4 DEF StartJob
<1>5. CASE ListPending
  <2>1. worker' \in WorkerState /\ WorkerHasRun'
    <3> DEFINE todo == {c \in Chapters : Stageable(chapters[c], JobForce)}
    <3>1. worker' = [worker EXCEPT !.pc = "batch", !.todo = todo]
      BY <1>5 DEF ListPending
    <3>2. todo \in SUBSET Chapters
      OBVIOUS
    <3> HIDE DEF todo
    <3>3. worker' \in WorkerState /\ worker'.pc = "batch"
      BY <1>0, <3>1, <3>2, WorkerLists, Zenon
    <3> QED
      BY <3>3, <1>at
  <2> QED
    BY <2>1, <1>1, <1>5 DEF ListPending
<1>6. CASE FailRun
  <2>1. worker.run \in Runs
    BY <1>6 DEF FailRun, WorkerHasRun
  <2>2. chapters' \in [Chapters -> Row]
    BY <2>1, <1>6, ResetType DEF FailRun
  <2>3. runs' \in [Runs -> RunStatuses]
    BY <2>1, <1>6, <1>2 DEF FailRun, RunStatuses
  <2> QED
    BY <2>2, <2>3, <1>1, <1>3, <1>6 DEF FailRun
<1>7. CASE Validate
  <2>1. worker' \in WorkerState /\ WorkerHasRun'
    <3>1. worker' = [worker EXCEPT !.pc = "commit"] /\ worker.pc = "validate"
      BY <1>7 DEF Validate
    <3>2. worker' \in WorkerState /\ worker'.run = worker.run
      <4>1. "commit" \in WorkerPlaces
        BY DEF WorkerPlaces
      <4> QED
        BY <1>0, <3>1, <4>1, WorkerMoves, Zenon
    <3> QED
      BY <3>1, <3>2 DEF WorkerHasRun
  <2> QED
    BY <2>1, <1>1, <1>7 DEF Validate
<1>8. CASE FinishBatch
  <2>0. worker' = [worker EXCEPT !.pc = "batch", !.run = NoRun]
    BY <1>8 DEF FinishBatch
  <2>1. worker' \in WorkerState /\ WorkerHasRun'
    <3>0. "batch" \in WorkerPlaces /\ NoRun \in Runs \cup {NoRun}
      BY DEF WorkerPlaces
    <3>1. worker' \in WorkerState
      BY <2>0, <1>0, <3>0, WorkerTurns, Zenon
    <3>2. worker'.pc = "batch"
      BY <2>0, <1>0, <3>0, WorkerTurns, Zenon
    <3> QED
      BY <3>1, <3>2 DEF WorkerHasRun
  <2>2. runs' \in [Runs -> RunStatuses]
    BY <1>8, <1>2 DEF FinishBatch, WorkerHasRun, RunStatuses
  <2> QED
    BY <2>1, <2>2, <1>1, <1>8 DEF FinishBatch
<1>9. CASE FinishJob
  BY <1>1, <1>3, <1>9 DEF FinishJob
<1>91. CASE CancelJob
  BY <1>1, <1>3, <1>91 DEF CancelJob
<1>10. CASE Restart
  BY <1>1, <1>3, <1>10 DEF Restart
<1>11. CASE ReleaseOrphan
  <2>1. chapters' \in [Chapters -> Row]
    BY <1>11, ResetType DEF ReleaseOrphan, WorkerHasRun
  <2> QED
    BY <2>1, <1>1, <1>3, <1>11 DEF ReleaseOrphan
<1>12. CASE FinishReaping
  BY <1>1, <1>3, <1>12 DEF FinishReaping
<1>13. ASSUME NEW r \in Runs, ResumeReadyCommits(r) PROVE TypeInv'
  <2>1. chapters' \in [Chapters -> Row]
    BY <1>13, ResetType DEF ResumeReadyCommits
  <2>2. runs' \in [Runs -> RunStatuses]
    BY <1>13, <1>2 DEF ResumeReadyCommits, RunStatuses
  <2> QED
    <3>1. UNCHANGED <<calls, used, worker, scrape, left, paid, forfeited>>
      BY <1>13 DEF ResumeReadyCommits
    <3>2. CallsHaveChapters' /\ WorkerHasRun'
      BY <1>1, <3>1 DEF WorkerHasRun
    <3> QED
      BY <2>1, <2>2, <3>1, <3>2
<1>14. ASSUME NEW r \in Runs, MarkOrphanLost(r) PROVE TypeInv'
  <2>1. runs' \in [Runs -> RunStatuses]
    BY <1>14, <1>2 DEF MarkOrphanLost, RunStatuses
  <2>2. worker' \in WorkerState /\ WorkerHasRun'
    <3>0. "release" \in WorkerPlaces
      BY DEF WorkerPlaces
    <3>1. worker' = [worker EXCEPT !.pc = "release", !.run = r]
      BY <1>14 DEF MarkOrphanLost
    <3>2. worker' \in WorkerState /\ worker'.run = r
      <4>1. r \in Runs \cup {NoRun}
        OBVIOUS
      <4> QED
        BY <1>0, <3>0, <3>1, <4>1, WorkerTurns, Zenon
    <3> QED
      BY <3>2 DEF WorkerHasRun
  <2> QED
    BY <2>1, <2>2, <1>1, <1>14 DEF MarkOrphanLost
<1>15. ASSUME NEW r \in Runs, NEW b \in Batches(worker.todo), StageBatch(r, b) PROVE TypeInv'
  <2> DEFINE staged == {c \in b : Stageable(chapters[c], JobForce)}
             snap == [c \in Chapters |->
                        IF c \in staged THEN SnapshotOf(chapters[c]) ELSE NoSnapshot]
  <2>1. b \subseteq Chapters /\ staged \subseteq Chapters
    BY <1>0 DEF Batches, WorkerState
  <2>2. chapters' \in [Chapters -> Row]
    BY <1>15, RowOperators DEF StageBatch
  <2>3. runs' \in [Runs -> RunStatuses]
    BY <1>15, <1>2 DEF StageBatch, RunStatuses
  <2>4. snap \in [Chapters -> Snapshot]
    BY RowOperators DEF NoSnapshot, Snapshot, Sources, Contents
  <2>5. worker' = [worker EXCEPT
                     !.pc = IF staged = {} THEN "batch" ELSE "provider",
                     !.run = IF staged = {} THEN NoRun ELSE r,
                     !.todo = @ \ b, !.staged = staged, !.snap = snap]
    BY <1>15 DEF StageBatch
  <2> HIDE DEF staged, snap
  <2>6. worker' \in WorkerState /\ WorkerHasRun'
    <3>1. worker' \in WorkerState
      <4>1. worker.todo \ b \in SUBSET Chapters
        BY <1>0 DEF WorkerState
      <4>2. (IF staged = {} THEN "batch" ELSE "provider") \in WorkerPlaces
        BY DEF WorkerPlaces
      <4>3. (IF staged = {} THEN NoRun ELSE r) \in Runs \cup {NoRun}
        OBVIOUS
      <4> QED
        BY <4>1, <4>2, <4>3, <2>1, <2>4, <2>5, <1>0 DEF WorkerState
    <3>2. worker'.pc = (IF staged = {} THEN "batch" ELSE "provider")
      BY <2>5, <1>0 DEF WorkerState
    <3>3. worker'.run = (IF staged = {} THEN NoRun ELSE r)
      BY <2>5, <1>0 DEF WorkerState
    <3> QED
      BY <3>1, <3>2, <3>3 DEF WorkerHasRun
  <2> QED
    BY <2>2, <2>3, <2>6, <1>1, <1>15 DEF StageBatch
<1>16. ASSUME NEW st \in {"validating", "incomplete"}, ProviderExits(st) PROVE TypeInv'
  <2>1. worker' \in WorkerState /\ WorkerHasRun'
    BY <1>16, <1>0 DEF ProviderExits, WorkerHasRun, WorkerState, WorkerPlaces
  <2>2. runs' \in [Runs -> RunStatuses]
    BY <1>16, <1>2 DEF ProviderExits, WorkerHasRun, RunStatuses
  <2> QED
    BY <2>1, <2>2, <1>1, <1>16 DEF ProviderExits
<1>17. ASSUME NEW c \in Chapters, CommitProposal(c) PROVE TypeInv'
  <2>1. worker.snap[c] \in Snapshot /\ worker.run \in Runs
    BY <1>17, <1>0 DEF WorkerState, CommitProposal, WorkerHasRun
  <2>2. chapters' \in [Chapters -> Row]
    <3>1. commit_translation(chapters[c], worker.snap[c], worker.run) \in Row
      BY <2>1, RowOperators
    <3> QED
      BY <3>1, <1>17 DEF CommitProposal, Write
  <2>3. worker' \in WorkerState /\ WorkerHasRun'
    BY <2>1, <1>17, <1>0 DEF CommitProposal, WorkerHasRun, WorkerState
  <2> QED
    BY <2>2, <2>3, <1>1, <1>17 DEF CommitProposal
<1>18. ASSUME NEW c \in Chapters, ProposalRefused(c) PROVE TypeInv'
  <2>1. worker.run \in Runs
    BY <1>18 DEF ProposalRefused, WorkerHasRun
  <2>2. chapters' \in [Chapters -> Row]
    BY <2>1, <1>18, ResetType DEF ProposalRefused
  <2>3. runs' \in [Runs -> RunStatuses]
    BY <2>1, <1>18, <1>2 DEF ProposalRefused, RunStatuses
  <2> QED
    BY <2>2, <2>3, <1>1, <1>3, <1>18 DEF ProposalRefused
<1> QED
  BY <1>4, <1>5, <1>6, <1>7, <1>8, <1>9, <1>91, <1>10, <1>11, <1>12, <1>13, <1>14, <1>15,
     <1>16, <1>17, <1>18 DEF WorkerStep

(* Crashes, database errors, edits and scrapes                             *)
LEMMA ChargedIsFinite ==
  IsFiniteSet(Charged) /\ Cardinality(Charged) \in Nat
<1>1. Charged \subseteq Callers /\ IsFiniteSet(Callers)
  BY TranslationAssumption DEF Charged
<1> QED
  BY <1>1, FS_Subset, FS_CardinalityType

LEMMA OutsideTypeStep ==
  ASSUME TypeInv, Outside
  PROVE  TypeInv'
<1> USE DEF TypeInv, TypeOK
<1>1. ASSUME UNCHANGED calls PROVE CallsHaveChapters'
  BY <1>1 DEF CallsHaveChapters
<1>2. ASSUME UNCHANGED worker PROVE WorkerHasRun'
  BY <1>2 DEF WorkerHasRun
<1>3. CASE WebCrash
  <2>1. calls' \in [Callers -> CallState] /\ CallsHaveChapters'
    BY <1>3, IdleTypes DEF WebCrash, CallsHaveChapters, IdleCall
  <2>2. left' \in Budget /\ forfeited' \in Nat
    BY <1>3, ChargedIsFinite DEF WebCrash, Budget
  <2> QED
    BY <2>1, <2>2, <1>2, <1>3 DEF WebCrash
<1>4. CASE WorkerCrash
  <2>1. worker' \in WorkerState /\ WorkerHasRun'
    BY <1>4, IdleTypes DEF WorkerCrash, WorkerHasRun, WorkerAt, WorkerPlaces
  <2>2. left' \in Budget
    BY <1>4 DEF WorkerCrash, Budget
  <2> QED
    BY <2>1, <2>2, <1>1, <1>4 DEF WorkerCrash
<1>5. CASE CommitErrors
  <2>1. worker' \in WorkerState /\ WorkerHasRun'
    BY <1>5, IdleTypes DEF CommitErrors, WorkerHasRun, WorkerAt, WorkerPlaces
  <2>2. left' \in Budget
    BY <1>5 DEF CommitErrors, Budget
  <2> QED
    BY <2>1, <2>2, <1>1, <1>5 DEF CommitErrors
<1>51. CASE WorkspaceErrors
  <2>1. worker' \in WorkerState /\ WorkerHasRun'
    BY <1>51, IdleTypes DEF WorkspaceErrors, WorkerHasRun, WorkerAt, WorkerPlaces
  <2>2. left' \in Budget
    BY <1>51 DEF WorkspaceErrors, Budget
  <2> QED
    BY <2>1, <2>2, <1>1, <1>51 DEF WorkspaceErrors
<1>52. ASSUME NEW k \in Callers, CallErrors(k) PROVE TypeInv'
  <2>1. calls' \in [Callers -> CallState] /\ CallsHaveChapters'
    <3>1. CASE Goto(k, "lost")
      BY <3>1, <1>52 DEF CallErrors, Goto, CallsHaveChapters, CallState, CallPlaces
    <3>2. CASE Return(k)
      BY <3>2, IdleTypes DEF Return, CallsHaveChapters, IdleCall
    <3> QED
      BY <3>1, <3>2, <1>52 DEF CallErrors
  <2>2. left' \in Budget /\ forfeited' \in Nat
    BY <1>52 DEF CallErrors, Budget
  <2> QED
    BY <2>1, <2>2, <1>2, <1>52 DEF CallErrors
<1>6. CASE ScrapeWrites
  <2>1. /\ scrape.ch \in Chapters /\ scrape.seen \in Snapshot
        /\ scrape.raw \in BOOLEAN /\ scrape.text \in Sources
    BY <1>6 DEF ScrapeWrites, ScrapeState
  <2>2. upsert_ingested_chapter(chapters[scrape.ch], scrape.seen, scrape.raw, scrape.text) \in Row
    BY <2>1, RowOperators
  <2>3. chapters' \in [Chapters -> Row]
    BY <2>2, <1>6 DEF ScrapeWrites, Write
  <2> QED
    BY <2>3, <1>1, <1>2, <1>6, IdleTypes DEF ScrapeWrites
<1>7. ASSUME NEW c \in Chapters, EditBase(c) PROVE TypeInv'
  <2>1. chapters' \in [Chapters -> Row]
    BY <1>7, RowOperators DEF EditBase, Write
  <2>2. left' \in Budget
    BY <1>7 DEF EditBase, Budget
  <2> QED
    BY <2>1, <2>2, <1>1, <1>2, <1>7 DEF EditBase
<1>8. ASSUME NEW c \in Chapters, NEW raw \in BOOLEAN, NEW text \in Texts,
             ScrapeReads(c, raw, text)
      PROVE  TypeInv'
  <2>1. scrape' \in ScrapeState
    BY <1>8, RowOperators DEF ScrapeReads, ScrapeState, Sources
  <2>2. left' \in Budget
    BY <1>8 DEF ScrapeReads, Budget
  <2> QED
    BY <2>1, <2>2, <1>1, <1>2, <1>8 DEF ScrapeReads
<1> QED
  BY <1>3, <1>4, <1>5, <1>51, <1>52, <1>6, <1>7, <1>8 DEF Outside

LEMMA TypeStep ==
  ASSUME TypeInv, [Next]_vars
  PROVE  TypeInv'
<1>1. CASE Next
  BY <1>1, CallTypeStep, WorkerTypeStep, OutsideTypeStep DEF Next
<1>2. CASE UNCHANGED vars
  BY <1>2 DEF vars, TypeInv, TypeOK, CallsHaveChapters, WorkerHasRun
<1> QED
  BY <1>1, <1>2

(* Every variable keeps its type.  The induction carries along that a call *)
(* of translate_chapter under way has a chapter, and the worker a run      *)
(* wherever it writes one.                                                 *)
THEOREM TranslationTypeCorrect == Spec => []TypeOK
<1>1. Spec => []TypeInv
  BY InitType, TypeStep, PTL DEF Spec
<1>2. TypeInv => TypeOK
  BY DEF TypeInv
<1> QED
  BY <1>1, <1>2, PTL

-----------------------------------------------------------------------------
(* What one step can do to the text of one chapter                         *)

SameText(r, q) == q.src = r.src /\ q.content = r.content /\ q.ver = r.ver

CommittedBy(r, q, snap, run) ==
  Accepts(r, snap, run) /\ q = commit_translation(r, snap, run)

TextStep(c) ==
  \/ SameText(chapters[c], chapters'[c])
  \/ \E k \in Callers : calls[k].pc = "answered" /\ calls[k].ch = c
       /\ CommittedBy(chapters[c], chapters'[c], calls[k].snap, NoRun)
  \/ worker.pc = "commit" /\ c \in worker.staged
       /\ CommittedBy(chapters[c], chapters'[c], worker.snap[c], worker.run)
  \/ chapters'[c] = update_base_content(chapters[c])
  \/ \E seen \in Snapshot, raw \in BOOLEAN, t \in Sources :
       chapters'[c] = upsert_ingested_chapter(chapters[c], seen, raw, t)

(* Taking, marking, staging and releasing a chapter leave its text alone.  *)
LEMMA QuietStatements ==
  ASSUME NEW r \in Row
  PROVE  /\ \A s : SameText(r, mark_translation_started(r, s))
         /\ SameText(r, mark_translation_failed(r))
         /\ SameText(r, mark_unowned_failed(r))
         /\ \A q : SameText(r, stage_translation(r, q))
         /\ \A q : SameText(r, reset_staged_translation(r, q))
BY DEF SameText, mark_translation_started, mark_translation_failed, mark_unowned_failed,
       stage_translation, reset_staged_translation, Row

LEMMA TextSteps ==
  ASSUME TypeInv, [Next]_vars, NEW c \in Chapters
  PROVE  TextStep(c)
<1> USE DEF TypeInv, TypeOK
<1>0. chapters[c] \in Row
  OBVIOUS
<1>1. ASSUME UNCHANGED chapters PROVE TextStep(c)
  BY <1>1 DEF TextStep, SameText
<1>2. ASSUME NEW d, NEW row, Write(d, row), SameText(chapters[d], row) PROVE TextStep(c)
  BY <1>2 DEF Write, TextStep, SameText
<1>3. ASSUME NEW r, ResetStaged(r) PROVE TextStep(c)
  BY <1>0, <1>3, QuietStatements DEF ResetStaged, TextStep
<1>4. ASSUME NEW k \in Callers, CallStep(k) PROVE TextStep(c)
  <2>1. ASSUME calls[k].pc # "idle" PROVE chapters[calls[k].ch] \in Row
    BY <2>1 DEF CallsHaveChapters
  <2>2. CASE MarkStarted(k)
    BY <2>1, <2>2, <1>2, QuietStatements DEF MarkStarted
  <2>3. CASE ProviderRaises(k)
    BY <2>1, <2>3, <1>2, QuietStatements DEF ProviderRaises
  <2>4. CASE MarkLost(k)
    BY <2>1, <2>4, <1>2, QuietStatements DEF MarkLost
  <2>5. CASE Commit(k)
    <3>1. CASE calls[k].ch = c
      BY <2>5, <3>1 DEF Commit, Write, TextStep, CommittedBy
    <3>2. CASE calls[k].ch # c
      BY <2>5, <3>2 DEF Commit, Write, TextStep, SameText
    <3> QED
      BY <3>1, <3>2
  <2> QED
    BY <2>2, <2>3, <2>4, <2>5, <1>1, <1>4
       DEF CallStep, Open, Reserve, ProviderAnswers, LoseRace, RefundCall
<1>5. CASE WorkerStep
  <2>1. ASSUME NEW r \in Runs, NEW b, StageBatch(r, b) PROVE TextStep(c)
    BY <1>0, <2>1, QuietStatements DEF StageBatch, TextStep, SameText
  <2>2. ASSUME NEW d \in Chapters, CommitProposal(d) PROVE TextStep(c)
    BY <2>2 DEF CommitProposal, Write, TextStep, CommittedBy, SameText
  <2> QED
    BY <2>1, <2>2, <1>1, <1>3, <1>5
       DEF WorkerStep, StartJob, ListPending, FailRun, Validate, FinishBatch, FinishJob, CancelJob, Restart,
           ReleaseOrphan, FinishReaping, ResumeReadyCommits, MarkOrphanLost, ProviderExits,
           ProposalRefused
<1>6. CASE Outside
  <2>1. ASSUME NEW d \in Chapters, EditBase(d) PROVE TextStep(c)
    BY <2>1 DEF EditBase, Write, TextStep, SameText
  <2>2. CASE ScrapeWrites
    <3>1. scrape.seen \in Snapshot /\ scrape.raw \in BOOLEAN /\ scrape.text \in Sources
      BY DEF ScrapeState
    <3> QED
      BY <2>2, <3>1 DEF ScrapeWrites, Write, TextStep, SameText
  <2> QED
    BY <2>1, <2>2, <1>1, <1>6 
       DEF Outside, WebCrash, WorkerCrash, CommitErrors, WorkspaceErrors, CallErrors, ScrapeReads
<1>7. CASE UNCHANGED vars
  BY <1>1, <1>7 DEF vars
<1> QED
  BY <1>4, <1>5, <1>6, <1>7 DEF Next

(* The fields the four kinds of step leave behind                          *)
LEMMA CommitLeaves ==
  ASSUME NEW r \in Row, NEW q, NEW s, NEW run, CommittedBy(r, q, s, run)
  PROVE  /\ r.src = s.src /\ r.ver = s.ver
         /\ q.src = r.src /\ q.content = s.src /\ q.ver = r.ver + 1
BY DEF CommittedBy, Accepts, commit_translation, Row

LEMMA EditLeaves ==
  ASSUME NEW r \in Row
  PROVE  /\ update_base_content(r).content = Edited
         /\ update_base_content(r).src = r.src
         /\ update_base_content(r).ver = r.ver + 1
BY DEF update_base_content, Row

LEMMA IngestLeaves ==
  ASSUME NEW r \in Row, NEW seen, NEW raw \in BOOLEAN, NEW t
  PROVE  /\ upsert_ingested_chapter(r, seen, raw, t).content \in {NoText, Published}
         /\ upsert_ingested_chapter(r, seen, raw, t).ver \in {r.ver, r.ver + 1}
BY DEF upsert_ingested_chapter, IngestedContent, Row

-----------------------------------------------------------------------------
(* The translation a reader is shown is that of the chapter's present      *)
(* source, whatever calls, batches, crashes, edits and scrapes have done:  *)
(* commit_translation compares the source under the row lock.              *)
THEOREM TranslationMatchesSource == Spec => []TranslationIsOfItsSource
<1>1. Init => TranslationIsOfItsSource
  BY TextAssumption DEF Init, TranslationIsOfItsSource, RawRow
<1>2. TypeInv /\ TranslationIsOfItsSource /\ [Next]_vars => TranslationIsOfItsSource'
  <2> SUFFICES ASSUME TypeInv, TranslationIsOfItsSource, [Next]_vars, NEW c \in Chapters,
                      chapters'[c].content \in Texts
               PROVE  chapters'[c].content = chapters'[c].src
    BY DEF TranslationIsOfItsSource
  <2>1. chapters[c] \in Row
    BY DEF TypeInv, TypeOK
  <2>2. TextStep(c)
    BY TextSteps
  <2>3. CASE SameText(chapters[c], chapters'[c])
    BY <2>3 DEF SameText, TranslationIsOfItsSource
  <2>4. ASSUME NEW s, NEW run, CommittedBy(chapters[c], chapters'[c], s, run)
        PROVE  chapters'[c].content = chapters'[c].src
    BY <2>1, <2>4, CommitLeaves
  <2>5. chapters'[c] # update_base_content(chapters[c])
    BY <2>1, EditLeaves, TextAssumption
  <2>6. ASSUME NEW seen \in Snapshot, NEW raw \in BOOLEAN, NEW t \in Sources
        PROVE  chapters'[c] # upsert_ingested_chapter(chapters[c], seen, raw, t)
    BY <2>1, IngestLeaves, TextAssumption
  <2> QED
    BY <2>2, <2>3, <2>4, <2>5, <2>6 DEF TextStep
<1> QED
  BY <1>1, <1>2, InitType, TypeStep, PTL DEF Spec

-----------------------------------------------------------------------------
(* What a translator remembers of a row is not newer than the row, and if  *)
(* the versions still agree, an edit on the row is one it has seen.        *)
Fresh(snap, r) ==
  /\ snap.ver <= r.ver
  /\ snap.ver = r.ver /\ r.content = Edited => snap.content = Edited

SnapshotsFresh ==
  /\ \A k \in Callers : calls[k].pc # "idle" => Fresh(calls[k].snap, chapters[calls[k].ch])
  /\ \A c \in worker.staged : Fresh(worker.snap[c], chapters[c])

LEMMA SnapshotIsFresh ==
  ASSUME NEW r \in Row, NEW q, SameText(r, q)
  PROVE  Fresh(SnapshotOf(r), q)
BY DEF Fresh, SnapshotOf, SameText, Row

(* No step makes a snapshot stale in that sense: an edit always takes a    *)
(* new version, and no other statement writes one.                         *)
LEMMA StaysFresh ==
  ASSUME TypeInv, [Next]_vars, NEW c \in Chapters, NEW s \in Snapshot, Fresh(s, chapters[c])
  PROVE  Fresh(s, chapters'[c])
<1>1. chapters[c] \in Row /\ chapters[c].ver \in Nat /\ s.ver \in Nat
  BY DEF TypeInv, TypeOK, Row, Snapshot
<1>2. TextStep(c)
  BY TextSteps
<1>3. CASE SameText(chapters[c], chapters'[c])
  BY <1>3 DEF SameText, Fresh
<1>4. ASSUME NEW t, NEW run, CommittedBy(chapters[c], chapters'[c], t, run)
      PROVE  Fresh(s, chapters'[c])
  BY <1>1, <1>4, CommitLeaves DEF Fresh
<1>5. CASE chapters'[c] = update_base_content(chapters[c])
  BY <1>1, <1>5, EditLeaves DEF Fresh
<1>6. ASSUME NEW seen \in Snapshot, NEW raw \in BOOLEAN, NEW t \in Sources,
             chapters'[c] = upsert_ingested_chapter(chapters[c], seen, raw, t)
      PROVE  Fresh(s, chapters'[c])
  <2>1. chapters'[c].content # Edited
    BY <1>1, <1>6, IngestLeaves, TextAssumption
  <2>2. chapters'[c].ver \in {chapters[c].ver, chapters[c].ver + 1}
    BY <1>1, <1>6, IngestLeaves
  <2> QED
    BY <1>1, <2>1, <2>2 DEF Fresh
<1> QED
  BY <1>2, <1>3, <1>4, <1>5, <1>6 DEF TextStep

(* Snapshots are taken by Open and StageBatch, from the row as it is, and  *)
(* kept or dropped by every other step.                                    *)
LEMMA NewSnapshots ==
  ASSUME TypeInv, [Next]_vars
  PROVE  /\ \A k \in Callers :
              \/ calls'[k].pc = "idle"
              \/ /\ calls[k].pc # "idle"
                 /\ calls'[k].ch = calls[k].ch /\ calls'[k].snap = calls[k].snap
              \/ /\ calls'[k].ch \in Chapters /\ UNCHANGED chapters
                 /\ calls'[k].snap = SnapshotOf(chapters[calls'[k].ch])
         /\ \A c \in worker'.staged :
              \/ c \in worker.staged /\ worker'.snap[c] = worker.snap[c]
              \/ /\ SameText(chapters[c], chapters'[c])
                 /\ worker'.snap[c] = SnapshotOf(chapters[c])
<1> USE DEF TypeInv, TypeOK
<1>0. IdleCall.pc = "idle" /\ \A pc : WorkerAt(pc).staged = {}
  BY DEF IdleCall, WorkerAt
<1> DEFINE CallsOK == \A k \in Callers :
              \/ calls'[k].pc = "idle"
              \/ /\ calls[k].pc # "idle"
                 /\ calls'[k].ch = calls[k].ch /\ calls'[k].snap = calls[k].snap
              \/ /\ calls'[k].ch \in Chapters /\ UNCHANGED chapters
                 /\ calls'[k].snap = SnapshotOf(chapters[calls'[k].ch])
           StagedOK == \A c \in worker'.staged :
              \/ c \in worker.staged /\ worker'.snap[c] = worker.snap[c]
              \/ /\ SameText(chapters[c], chapters'[c])
                 /\ worker'.snap[c] = SnapshotOf(chapters[c])
<1>1. ASSUME UNCHANGED calls PROVE CallsOK
  BY <1>1
<1>2. ASSUME UNCHANGED worker PROVE StagedOK
  BY <1>2
<1>3. ASSUME NEW k \in Callers, CallStep(k) PROVE CallsOK /\ StagedOK
  <2>0. /\ calls \in [Callers -> CallState]
        /\ \A j \in Callers : calls[j] \in [pc : CallPlaces, ch : Chapters \cup {NoChapter},
                                            snap : Snapshot]
    BY DEF CallState
  <2>1. ASSUME NEW pc, Goto(k, pc), calls[k].pc # "idle" PROVE CallsOK
    BY <2>0, <2>1 DEF Goto
  <2>2. ASSUME Return(k) PROVE CallsOK
    BY <1>0, <2>0, <2>2 DEF Return
  <2>3. ASSUME NEW c \in Chapters, NEW force \in Forced, Open(k, c, force) PROVE CallsOK
    BY <2>0, <2>3 DEF Open
  <2>4. CallsOK
    <3> HIDE DEF CallsOK
    <3> QED
      BY <2>1, <2>2, <2>3, <1>3
         DEF CallStep, Reserve, MarkStarted, ProviderAnswers, ProviderRaises, Commit, LoseRace,
             MarkLost, RefundCall
  <2>5. UNCHANGED worker
    BY <1>3 DEF CallStep, Open, Reserve, MarkStarted, ProviderAnswers, ProviderRaises, Commit,
                LoseRace, MarkLost, RefundCall
  <2> QED
    BY <2>4, <2>5, <1>2
<1>4. ASSUME NEW pc, worker' = WorkerAt(pc) PROVE StagedOK
  BY <1>0, <1>4
<1>5. CASE WorkerStep
  <2>0. worker \in [pc : WorkerPlaces, run : Runs \cup {NoRun}, todo : SUBSET Chapters,
                    staged : SUBSET Chapters, snap : [Chapters -> Snapshot]]
    BY DEF WorkerState
  <2>1. UNCHANGED calls
    BY <1>5 DEF WorkerStep, StartJob, ListPending, FailRun, Validate, FinishBatch, FinishJob,
                CancelJob, Restart, ReleaseOrphan, FinishReaping, ResumeReadyCommits, MarkOrphanLost,
                StageBatch, ProviderExits, CommitProposal, ProposalRefused
  <2>2. ASSUME worker'.staged = worker.staged, worker'.snap = worker.snap PROVE StagedOK
    BY <2>2
  <2>3. ASSUME NEW r \in Runs, NEW b \in Batches(worker.todo), StageBatch(r, b) PROVE StagedOK
    <3> DEFINE staged == {c \in b : Stageable(chapters[c], JobForce)}
    <3>1. staged \subseteq Chapters
      BY <2>0 DEF Batches
    <3>2. worker'.staged = staged
      BY <2>0, <2>3 DEF StageBatch
    <3>3. worker'.snap = [c \in Chapters |->
                            IF c \in staged THEN SnapshotOf(chapters[c]) ELSE NoSnapshot]
      BY <2>0, <2>3 DEF StageBatch
    <3>4. \A c \in staged : chapters'[c] = stage_translation(chapters[c], r)
      BY <3>1, <2>3 DEF StageBatch
    <3> HIDE DEF staged
    <3> QED
      BY <3>1, <3>2, <3>3, <3>4, QuietStatements
  <2>4. ASSUME NEW c \in Chapters, CommitProposal(c) PROVE StagedOK
    <3>1. worker'.staged = worker.staged \ {c} /\ worker'.snap = worker.snap
      BY <2>0, <2>4 DEF CommitProposal
    <3> QED
      BY <3>1
  <2>5. ASSUME ListPending \/ Validate \/ FinishBatch PROVE StagedOK
    BY <2>0, <2>2, <2>5 DEF ListPending, Validate, FinishBatch
  <2>6. ASSUME NEW r \in Runs, MarkOrphanLost(r) PROVE StagedOK
    BY <2>0, <2>2, <2>6 DEF MarkOrphanLost
  <2>7. ASSUME NEW st, ProviderExits(st) PROVE StagedOK
    BY <2>0, <2>2, <2>7 DEF ProviderExits
  <2>8. StagedOK
    <3> HIDE DEF StagedOK
    <3> QED
      BY <2>3, <2>4, <2>5, <2>6, <2>7, <1>2, <1>4, <1>5
         DEF WorkerStep, StartJob, FailRun, FinishJob, CancelJob, Restart, ReleaseOrphan, FinishReaping,
             ResumeReadyCommits, ProposalRefused
  <2> QED
    BY <2>1, <2>8, <1>1
<1>6. ASSUME Outside PROVE CallsOK /\ StagedOK
  <2>1. CASE WebCrash
    BY <2>1, <1>0, <1>2 DEF WebCrash
  <2>2. CASE WorkerCrash \/ CommitErrors \/ WorkspaceErrors
    BY <2>2, <1>1, <1>4 DEF WorkerCrash, CommitErrors, WorkspaceErrors
  <2>3. ASSUME NEW k \in Callers, CallErrors(k) PROVE CallsOK /\ StagedOK
    <3>0. calls[k] \in [pc : CallPlaces, ch : Chapters \cup {NoChapter}, snap : Snapshot]
      BY DEF CallState
    <3>1. CASE Goto(k, "lost")
      BY <3>0, <3>1, <2>3, <1>2 DEF CallErrors, Goto
    <3>2. CASE Return(k)
      BY <1>0, <3>2, <2>3, <1>2 DEF CallErrors, Return
    <3> QED
      BY <3>1, <3>2, <2>3 DEF CallErrors
  <2> QED
    <3> HIDE DEF CallsOK, StagedOK
    <3> QED
      BY <2>1, <2>2, <2>3, <1>1, <1>2, <1>6 DEF Outside, ScrapeWrites, EditBase, ScrapeReads
<1>7. CASE UNCHANGED vars
  BY <1>1, <1>2, <1>7 DEF vars
<1> QED
  BY <1>3, <1>5, <1>6, <1>7 DEF Next

LEMMA FreshStep ==
  ASSUME TypeInv, SnapshotsFresh, [Next]_vars
  PROVE  SnapshotsFresh'
<1>1. ASSUME NEW k \in Callers, calls'[k].pc # "idle"
      PROVE  Fresh(calls'[k].snap, chapters'[calls'[k].ch])
  <2>1. CASE /\ calls[k].pc # "idle"
             /\ calls'[k].ch = calls[k].ch /\ calls'[k].snap = calls[k].snap
    <3>1. calls[k].ch \in Chapters /\ calls[k].snap \in Snapshot
      BY <2>1 DEF TypeInv, TypeOK, CallsHaveChapters, CallState
    <3> QED
      BY <2>1, <3>1, StaysFresh DEF SnapshotsFresh
  <2>2. CASE /\ calls'[k].ch \in Chapters /\ UNCHANGED chapters
             /\ calls'[k].snap = SnapshotOf(chapters[calls'[k].ch])
    <3>1. SameText(chapters[calls'[k].ch], chapters'[calls'[k].ch])
      BY <2>2 DEF SameText
    <3>2. chapters[calls'[k].ch] \in Row
      BY <2>2 DEF TypeInv, TypeOK
    <3> QED
      BY <2>2, <3>1, <3>2, SnapshotIsFresh
  <2> QED
    BY <1>1, <2>1, <2>2, NewSnapshots
<1>2. ASSUME NEW c \in worker'.staged
      PROVE  Fresh(worker'.snap[c], chapters'[c])
  <2>0. c \in Chapters
    BY TypeStep DEF TypeInv, TypeOK, WorkerState
  <2>1. CASE c \in worker.staged /\ worker'.snap[c] = worker.snap[c]
    <3>1. worker.snap[c] \in Snapshot
      BY <2>0 DEF TypeInv, TypeOK, WorkerState
    <3> QED
      BY <2>0, <2>1, <3>1, StaysFresh DEF SnapshotsFresh
  <2>2. CASE /\ SameText(chapters[c], chapters'[c])
             /\ worker'.snap[c] = SnapshotOf(chapters[c])
    <3>1. chapters[c] \in Row
      BY <2>0 DEF TypeInv, TypeOK
    <3> QED
      BY <2>2, <3>1, SnapshotIsFresh
  <2> QED
    BY <2>1, <2>2, NewSnapshots
<1> QED
  BY <1>1, <1>2 DEF SnapshotsFresh

(* A text written by a person is overwritten by a machine translation only *)
(* if the translator had read that text: the version compared by           *)
(* commit_translation protects an edit made while a call or a batch of any *)
(* size is under way.                                                      *)
THEOREM EditsSurvive == Spec => NoEditIsLostUnseen
<1>1. Init => SnapshotsFresh
  BY DEF Init, SnapshotsFresh, IdleCall, WorkerAt
<1>2. TypeInv /\ SnapshotsFresh /\ [Next]_vars =>
        \A c \in Chapters :
          chapters[c].content = Edited /\ chapters'[c].content \in Texts => CommitterSaw(c, Edited)
  <2> SUFFICES ASSUME TypeInv, SnapshotsFresh, [Next]_vars, NEW c \in Chapters,
                      chapters[c].content = Edited, chapters'[c].content \in Texts
               PROVE  CommitterSaw(c, Edited)
    OBVIOUS
  <2>1. chapters[c] \in Row
    BY DEF TypeInv, TypeOK
  <2>2. TextStep(c)
    BY TextSteps
  <2>3. ~SameText(chapters[c], chapters'[c])
    BY TextAssumption DEF SameText
  <2>4. chapters'[c] # update_base_content(chapters[c])
    BY <2>1, EditLeaves, TextAssumption
  <2>5. ASSUME NEW seen \in Snapshot, NEW raw \in BOOLEAN, NEW t \in Sources
        PROVE  chapters'[c] # upsert_ingested_chapter(chapters[c], seen, raw, t)
    BY <2>1, IngestLeaves, TextAssumption
  <2>6. ASSUME NEW k \in Callers, calls[k].pc = "answered", calls[k].ch = c,
               CommittedBy(chapters[c], chapters'[c], calls[k].snap, NoRun)
        PROVE  CommitterSaw(c, Edited)
    BY <2>1, <2>6, CommitLeaves DEF CommitterSaw, SnapshotsFresh, Fresh
  <2>7. ASSUME worker.pc = "commit", c \in worker.staged,
               CommittedBy(chapters[c], chapters'[c], worker.snap[c], worker.run)
        PROVE  CommitterSaw(c, Edited)
    BY <2>1, <2>7, CommitLeaves DEF CommitterSaw, SnapshotsFresh, Fresh
  <2> QED
    BY <2>2, <2>3, <2>4, <2>5, <2>6, <2>7 DEF TextStep
<1>3. Spec => [](TypeInv /\ SnapshotsFresh)
  BY <1>1, InitType, TypeStep, FreshStep, PTL DEF Spec
<1> QED
  BY <1>2, <1>3, PTL DEF Spec, NoEditIsLostUnseen

-----------------------------------------------------------------------------
(* Counting the calls that hold a unit                                     *)

LEMMA ChargedGrows ==
  ASSUME NEW k, k \notin Charged, Charged' = Charged \cup {k}
  PROVE  Cardinality(Charged') = Cardinality(Charged) + 1
BY ChargedIsFinite, FS_AddElement

LEMMA ChargedShrinks ==
  ASSUME NEW k \in Charged, Charged' = Charged \ {k}
  PROVE  Cardinality(Charged') = Cardinality(Charged) - 1 /\ Cardinality(Charged) > 0
<1>1. Cardinality(Charged') = Cardinality(Charged) - 1
  BY ChargedIsFinite, FS_RemoveElement
<1>2. Charged # {}
  OBVIOUS
<1> QED
  BY <1>1, <1>2, ChargedIsFinite, FS_EmptySet

(* The ledger shows what was translated, what is under way and what was    *)
(* forfeited, and nothing else, for any number of concurrent calls: no     *)
(* failure, lost race, crash or database error makes translate_chapter     *)
(* hand a unit back twice.                                                 *)
THEOREM ChargesAlwaysBalance == Spec => []ChargesBalance
<1>1. Init => ChargesBalance
  <2>1. Init => Charged = {}
    BY DEF Init, Charged, IdleCall
  <2> QED
    BY <2>1, ChargedIsFinite, FS_EmptySet DEF Init, ChargesBalance
<1>2. TypeInv /\ ChargesBalance /\ [Next]_vars => ChargesBalance'
  <2> SUFFICES ASSUME TypeInv, ChargesBalance, [Next]_vars
               PROVE  ChargesBalance'
    OBVIOUS
  <2> USE DEF ChargesBalance
  <2>0. /\ used \in Nat /\ paid \in Nat /\ forfeited \in Nat
        /\ calls \in [Callers -> CallState]
        /\ Cardinality(Charged) \in Nat
    BY ChargedIsFinite DEF TypeInv, TypeOK
  <2>1. ASSUME UNCHANGED <<used, paid, forfeited>>, Charged' = Charged PROVE ChargesBalance'
    BY <2>1
  <2>2. ASSUME UNCHANGED <<used, paid, forfeited, calls>> PROVE ChargesBalance'
    BY <2>1, <2>2 DEF Charged
  <2>3. ASSUME NEW k \in Callers, NEW pc \in CallPlaces, Goto(k, pc)
        PROVE  Charged' = IF pc \in {"idle", "admitted"} THEN Charged \ {k} ELSE Charged \cup {k}
    BY <2>0, <2>3 DEF Goto, Charged, CallState
  <2>4. ASSUME NEW k \in Callers, Return(k) PROVE Charged' = Charged \ {k}
    BY <2>0, <2>4 DEF Return, Charged, IdleCall
  <2>5. ASSUME NEW k \in Callers, CallStep(k) PROVE ChargesBalance'
    <3>1. ASSUME NEW c \in Chapters, NEW force \in Forced, Open(k, c, force)
          PROVE  ChargesBalance'
      BY <2>0, <2>1, <3>1 DEF Open, Charged
    <3>2. CASE Reserve(k)
      <4>1. k \notin Charged
        BY <3>2 DEF Reserve, Charged
      <4>2. CASE used' = used + 1 /\ Goto(k, "charged")
        BY <4>1, <4>2, <3>2, <2>0, <2>3, ChargedGrows DEF Reserve, CallPlaces
      <4>3. CASE UNCHANGED used /\ Return(k)
        <5>1. Charged' = Charged
          BY <4>1, <4>3, <2>4
        <5> QED
          BY <5>1, <4>3, <3>2, <2>1 DEF Reserve
      <4> QED
        BY <4>2, <4>3, <3>2 DEF Reserve
    <3>3. CASE MarkStarted(k) \/ ProviderAnswers(k) \/ ProviderRaises(k) \/ LoseRace(k) \/ MarkLost(k)
      <4>1. k \in Charged
        BY <3>3 DEF MarkStarted, ProviderAnswers, ProviderRaises, LoseRace, MarkLost, Charged
      <4>2. \E pc \in CallPlaces \ {"idle", "admitted"} : Goto(k, pc)
        BY <3>3 DEF MarkStarted, ProviderAnswers, ProviderRaises, LoseRace, MarkLost, CallPlaces
      <4>3. Charged' = Charged
        BY <4>1, <4>2, <2>3
      <4> QED
        BY <4>3, <3>3, <2>1 DEF MarkStarted, ProviderAnswers, ProviderRaises, LoseRace, MarkLost
    <3>4. CASE Commit(k)
      <4>1. k \in Charged /\ Charged' = Charged \ {k}
        BY <3>4, <2>4 DEF Commit, Charged
      <4>2. Cardinality(Charged') = Cardinality(Charged) - 1 /\ Cardinality(Charged) > 0
        BY <4>1, ChargedShrinks
      <4> QED
        BY <4>2, <3>4, <2>0 DEF Commit
    <3>5. CASE RefundCall(k)
      <4>1. k \in Charged /\ Charged' = Charged \ {k}
        BY <3>5, <2>4 DEF RefundCall, Charged
      <4>2. Cardinality(Charged') = Cardinality(Charged) - 1 /\ Cardinality(Charged) > 0
        BY <4>1, ChargedShrinks
      <4> QED
        BY <4>2, <3>5, <2>0 DEF RefundCall
    <3> QED
      BY <2>5, <3>1, <3>2, <3>3, <3>4, <3>5 DEF CallStep
  <2>6. CASE WebCrash
    <3>1. Charged' = {}
      BY <2>6 DEF WebCrash, Charged, IdleCall
    <3> QED
      BY <3>1, <2>6, <2>0, FS_EmptySet DEF WebCrash
  <2>7. CASE WorkerStep
    BY <2>2, <2>7
       DEF WorkerStep, StartJob, ListPending, FailRun, Validate, FinishBatch, FinishJob, CancelJob, Restart,
           ReleaseOrphan, FinishReaping, ResumeReadyCommits, MarkOrphanLost, StageBatch,
           ProviderExits, CommitProposal, ProposalRefused
  <2>71. ASSUME NEW k \in Callers, CallErrors(k) PROVE ChargesBalance'
    <3>1. CASE calls[k].pc = "answered" /\ Goto(k, "lost") /\ UNCHANGED forfeited
      <4>1. k \in Charged
        BY <3>1 DEF Charged
      <4>2. Charged' = Charged
        BY <4>1, <3>1, <2>3 DEF CallPlaces
      <4> QED
        BY <4>2, <3>1, <2>71, <2>1 DEF CallErrors
    <3>2. CASE Return(k) /\ forfeited' = forfeited + (IF k \in Charged THEN 1 ELSE 0)
      <4>1. Charged' = Charged \ {k}
        BY <3>2, <2>4
      <4>2. CASE k \in Charged
        <5>1. Cardinality(Charged') = Cardinality(Charged) - 1
          BY <4>1, <4>2, ChargedShrinks
        <5> QED
          BY <5>1, <4>2, <3>2, <2>71, <2>0 DEF CallErrors
      <4>3. CASE k \notin Charged
        <5>1. Charged' = Charged
          BY <4>1, <4>3
        <5> QED
          BY <5>1, <4>3, <3>2, <2>71, <2>0 DEF CallErrors
      <4> QED
        BY <4>2, <4>3
    <3> QED
      BY <3>1, <3>2, <2>71 DEF CallErrors
  <2>8. CASE Outside
    BY <2>2, <2>6, <2>71, <2>8
       DEF Outside, WorkerCrash, CommitErrors, WorkspaceErrors, ScrapeWrites, EditBase, ScrapeReads
  <2>9. CASE UNCHANGED vars
    BY <2>2, <2>9 DEF vars
  <2> QED
    BY <2>5, <2>7, <2>8, <2>9 DEF Next
<1> QED
  BY <1>1, <1>2, InitType, TypeStep, PTL DEF Spec


-----------------------------------------------------------------------------
(* Staged chapters                                                         *)

(* The row waits for the run r.                                            *)
Waits(row, r) == row.status = "translating" /\ row.run = r

(* What waits for the batch under way has not been committed by it, and a  *)
(* worker that died or starts again has used the one crash there is.       *)
BatchHoldsItsRows ==
  worker.pc \in {"provider", "validate", "commit"} =>
    \A c \in Chapters : Waits(chapters[c], worker.run) => c \in worker.staged
CrashIsSpent ==
  /\ left.worker \in {0, 1}
  /\ worker.pc \in {"down", "reap", "release"} => left.worker = 0

StagedIsAttended ==
  \A c \in Chapters, r \in Runs : Waits(chapters[c], r) =>
    runs[r] \in LIVE_RUNS \/ (worker.pc = "release" /\ worker.run = r)

AttendInv == StagedIsAttended /\ BatchHoldsItsRows /\ CrashIsSpent

LEMMA WaitingRows ==
  ASSUME NEW row \in Row, NEW r \in Runs
  PROVE  /\ \A s : ~Waits(mark_translation_started(row, s), r)
         /\ ~Waits(mark_translation_failed(row), r)
         /\ Waits(mark_unowned_failed(row), r) => Waits(row, r)
         /\ \A s, q : ~Waits(commit_translation(row, s, q), r)
         /\ ~Waits(update_base_content(row), r)
         /\ \A s, t : \A raw \in BOOLEAN : ~Waits(upsert_ingested_chapter(row, s, raw, t), r)
         /\ \A q \in Runs : Waits(stage_translation(row, q), r) => q = r
         /\ \A q : Waits(reset_staged_translation(row, q), r) => Waits(row, r) /\ r # q
BY DEF Waits, Row, Runs, NoRun, mark_translation_started, mark_translation_failed,
   mark_unowned_failed, commit_translation, update_base_content, upsert_ingested_chapter,
   stage_translation, reset_staged_translation

(* The row of a chapter that waits was not freed, and no other one starts  *)
(* to wait.                                                                *)
Shrinks == \A c \in Chapters, r \in Runs : Waits(chapters'[c], r) => Waits(chapters[c], r)

LEMMA ResetFrees ==
  ASSUME TypeInv, NEW q, ResetStaged(q)
  PROVE  Shrinks /\ \A c \in Chapters : q \in Runs => ~Waits(chapters'[c], q)
<1>1. \A c \in Chapters : chapters[c] \in Row /\ chapters'[c] = reset_staged_translation(chapters[c], q)
  BY DEF TypeInv, TypeOK, ResetStaged
<1> QED
  BY <1>1, WaitingRows DEF Shrinks

LEMMA WriteFrees ==
  ASSUME TypeInv, NEW c \in Chapters, NEW row, Write(c, row),
         \A r \in Runs : Waits(row, r) => Waits(chapters[c], r)
  PROVE  Shrinks
BY DEF TypeInv, TypeOK, Write, Shrinks

(* Steps of calls, people and scrapers never stage a chapter.              *)
LEMMA QuietAttended ==
  ASSUME TypeInv, AttendInv, Shrinks, runs' = runs, worker' = worker, left'.worker = left.worker
  PROVE  AttendInv'
<1>1. BatchHoldsItsRows'
  BY DEF AttendInv, BatchHoldsItsRows, Shrinks, TypeInv, WorkerHasRun
<1> QED
  BY <1>1 DEF AttendInv, StagedIsAttended, CrashIsSpent, Shrinks

LEMMA CallAttended ==
  ASSUME TypeInv, AttendInv, NEW k \in Callers, CallStep(k)
  PROVE  AttendInv'
<1>1. runs' = runs /\ worker' = worker /\ left' = left
  BY DEF CallStep, Open, Reserve, MarkStarted, ProviderAnswers, ProviderRaises, Commit, LoseRace,
     MarkLost, RefundCall
<1>2. ASSUME calls[k].pc # "idle"
      PROVE  calls[k].ch \in Chapters /\ chapters[calls[k].ch] \in Row
  BY <1>2 DEF TypeInv, TypeOK, CallsHaveChapters
<1>3. CASE UNCHANGED chapters
  BY <1>1, <1>3, QuietAttended DEF Shrinks
<1>4. CASE MarkStarted(k)
  <2>1. Shrinks
    BY <1>2, <1>4, WaitingRows, WriteFrees DEF MarkStarted
  <2> QED
    BY <1>1, <2>1, QuietAttended
<1>5. CASE ProviderRaises(k)
  <2>1. Shrinks
    BY <1>2, <1>5, WaitingRows, WriteFrees DEF ProviderRaises
  <2> QED
    BY <1>1, <2>1, QuietAttended
<1>6. CASE Commit(k)
  <2>1. Shrinks
    BY <1>2, <1>6, WaitingRows, WriteFrees DEF Commit
  <2> QED
    BY <1>1, <2>1, QuietAttended
<1>7. CASE MarkLost(k)
  <2>1. Shrinks
    BY <1>2, <1>7, WaitingRows, WriteFrees DEF MarkLost
  <2> QED
    BY <1>1, <2>1, QuietAttended
<1> QED
  BY <1>3, <1>4, <1>5, <1>6, <1>7
     DEF CallStep, Open, Reserve, ProviderAnswers, LoseRace, RefundCall

(* Only a crash takes the worker from its place, and only one happens.     *)
LEMMA OutsideAttended ==
  ASSUME TypeInv, AttendInv, Outside
  PROVE  AttendInv'
<1>0. left \in Budget
  BY DEF TypeInv, TypeOK
<1>1. CASE WebCrash \/ \E k \in Callers : CallErrors(k)
  BY <1>0, <1>1, QuietAttended DEF WebCrash, CallErrors, Shrinks, Budget
<1>2. CASE WorkerCrash
  <2>1. worker.pc \notin {"down", "reap", "release"} /\ left'.worker = 0
    BY <1>0, <1>2 DEF WorkerCrash, AttendInv, CrashIsSpent, Budget
  <2> QED
    BY <1>2, <2>1 DEF WorkerCrash, WorkerAt, AttendInv, StagedIsAttended, BatchHoldsItsRows, CrashIsSpent
<1>3. CASE CommitErrors \/ WorkspaceErrors
  <2>1. /\ worker.pc \in {"commit", "provider"} /\ worker' = WorkerAt("idle")
        /\ left'.worker = left.worker /\ UNCHANGED <<chapters, runs>>
    BY <1>0, <1>3 DEF CommitErrors, WorkspaceErrors, Budget
  <2> QED
    BY <2>1 DEF WorkerAt, AttendInv, StagedIsAttended, BatchHoldsItsRows, CrashIsSpent
<1>4. CASE ScrapeWrites
  <2>1. scrape.ch \in Chapters /\ scrape.raw \in BOOLEAN /\ chapters[scrape.ch] \in Row
    BY <1>4 DEF ScrapeWrites, TypeInv, TypeOK, ScrapeState
  <2>2. Shrinks
    BY <1>4, <2>1, WaitingRows, WriteFrees DEF ScrapeWrites
  <2> QED
    BY <1>4, <2>2, QuietAttended DEF ScrapeWrites
<1>5. ASSUME NEW c \in Chapters, EditBase(c) PROVE AttendInv'
  <2>1. Shrinks
    BY <1>5, WaitingRows, WriteFrees DEF EditBase, TypeInv, TypeOK
  <2> QED
    BY <1>0, <1>5, <2>1, QuietAttended DEF EditBase, Budget
<1>6. CASE \E c \in Chapters, raw \in BOOLEAN, text \in Texts : ScrapeReads(c, raw, text)
  BY <1>0, <1>6, QuietAttended DEF ScrapeReads, Shrinks, Budget
<1> QED
  BY <1>1, <1>2, <1>3, <1>4, <1>5, <1>6 DEF Outside

LEMMA WorkerAttended ==
  ASSUME TypeInv, AttendInv, WorkerStep
  PROVE  AttendInv'
<1>0. /\ worker \in WorkerState /\ runs \in [Runs -> RunStatuses]
      /\ \A c \in Chapters : chapters[c] \in Row
      /\ (worker.pc \in {"provider", "validate", "commit", "release"} => worker.run \in Runs)
  BY DEF TypeInv, TypeOK, WorkerHasRun
<1>1. CASE StartJob \/ ListPending \/ FinishJob \/ CancelJob \/ Restart \/ FinishReaping \/ Validate
  <2>1. /\ UNCHANGED <<chapters, runs>> /\ left'.worker = left.worker
        /\ worker.pc # "release" /\ worker'.pc # "release"
        /\ worker'.pc \in {"provider", "validate", "commit"} =>
             /\ worker.pc \in {"provider", "validate", "commit"}
             /\ worker'.run = worker.run /\ worker'.staged = worker.staged
        /\ worker'.pc \in {"down", "reap"} => worker.pc \in {"down", "reap"}
    <3>1. CASE StartJob
      BY <3>1 DEF StartJob, WorkerAt, TypeInv, TypeOK, Budget
    <3>2. CASE ListPending
      BY <1>0, <3>2 DEF ListPending, WorkerState
    <3>3. CASE FinishJob \/ CancelJob \/ Restart \/ FinishReaping
      BY <3>3 DEF FinishJob, CancelJob, Restart, FinishReaping, WorkerAt
    <3>4. CASE Validate
      BY <1>0, <3>4 DEF Validate, WorkerState
    <3> QED
      BY <1>1, <3>1, <3>2, <3>3, <3>4
  <2> QED
    BY <2>1 DEF AttendInv, StagedIsAttended, BatchHoldsItsRows, CrashIsSpent
<1>2. ASSUME NEW q \in Runs, ResetStaged(q), runs' = runs \/ \E st : SetRun(q, st),
             worker.pc = "release" => worker.run = q,
             worker'.pc \in {"idle", "resume", "reap"}, left' = left,
             worker'.pc = "reap" => worker.pc = "release"
      PROVE  AttendInv'
  <2>1. Shrinks /\ \A c \in Chapters : ~Waits(chapters'[c], q)
    BY <1>2, ResetFrees
  <2>2. \A r \in Runs : r # q => runs'[r] = runs[r]
    BY <1>0, <1>2 DEF SetRun
  <2>3. StagedIsAttended'
    BY <1>2, <2>1, <2>2 DEF AttendInv, StagedIsAttended, Shrinks
  <2> QED
    BY <1>2, <2>3 DEF AttendInv, BatchHoldsItsRows, CrashIsSpent
<1>3. CASE FailRun
  BY <1>0, <1>2, <1>3 DEF FailRun, WorkerAt
<1>4. CASE ReleaseOrphan
  BY <1>0, <1>2, <1>4 DEF ReleaseOrphan, WorkerAt
<1>5. ASSUME NEW r \in Runs, ResumeReadyCommits(r) PROVE AttendInv'
  BY <1>2, <1>5 DEF ResumeReadyCommits
<1>6. ASSUME NEW c \in Chapters, ProposalRefused(c) PROVE AttendInv'
  BY <1>0, <1>2, <1>6 DEF ProposalRefused, WorkerAt
<1>7. ASSUME NEW r \in Runs, MarkOrphanLost(r) PROVE AttendInv'
  <2>1. /\ worker.pc = "reap" /\ worker'.pc = "release" /\ worker'.run = r
        /\ UNCHANGED <<chapters, left>> /\ \A q \in Runs : q # r => runs'[q] = runs[q]
    BY <1>0, <1>7 DEF MarkOrphanLost, SetRun, WorkerState
  <2> QED
    BY <2>1 DEF AttendInv, StagedIsAttended, BatchHoldsItsRows, CrashIsSpent
<1>8. CASE FinishBatch
  <2>1. /\ worker.pc = "commit" /\ worker.staged = {} /\ worker'.pc = "batch"
        /\ UNCHANGED <<chapters, left>> /\ \A q \in Runs : q # worker.run => runs'[q] = runs[q]
    BY <1>0, <1>8 DEF FinishBatch, SetRun, WorkerState
  <2>2. \A c \in Chapters : ~Waits(chapters[c], worker.run)
    BY <2>1 DEF AttendInv, BatchHoldsItsRows
  <2> QED
    BY <2>1, <2>2 DEF AttendInv, StagedIsAttended, BatchHoldsItsRows, CrashIsSpent
<1>9. ASSUME NEW st \in {"validating", "incomplete"}, ProviderExits(st) PROVE AttendInv'
  <2>1. /\ worker.pc = "provider" /\ worker'.pc = "validate" /\ worker'.run = worker.run
        /\ worker'.staged = worker.staged /\ UNCHANGED <<chapters, left>>
        /\ runs'[worker.run] \in LIVE_RUNS
        /\ \A q \in Runs : q # worker.run => runs'[q] = runs[q]
    BY <1>0, <1>9 DEF ProviderExits, SetRun, WorkerState, LIVE_RUNS
  <2> QED
    BY <2>1 DEF AttendInv, StagedIsAttended, BatchHoldsItsRows, CrashIsSpent
<1>10. ASSUME NEW c \in Chapters, CommitProposal(c) PROVE AttendInv'
  <2>1. /\ worker.pc = "commit" /\ worker'.pc = "commit" /\ worker'.run = worker.run
        /\ worker'.staged = worker.staged \ {c} /\ UNCHANGED <<runs, left>>
    BY <1>0, <1>10 DEF CommitProposal, WorkerState
  <2>2. Shrinks /\ ~Waits(chapters'[c], worker.run)
    <3>1. CASE Write(c, commit_translation(chapters[c], worker.snap[c], worker.run))
      <4>1. \A r \in Runs : ~Waits(commit_translation(chapters[c], worker.snap[c], worker.run), r)
        BY <1>0, WaitingRows
      <4>2. chapters'[c] = commit_translation(chapters[c], worker.snap[c], worker.run)
        BY <3>1 DEF Write, TypeInv, TypeOK
      <4> QED
        BY <1>0, <2>1, <3>1, <4>1, <4>2, WriteFrees
    <3>2. CASE Replayed(chapters[c], worker.snap[c], worker.run) /\ UNCHANGED chapters
      BY <3>2 DEF Replayed, Shrinks, Waits
    <3> QED
      BY <1>10, <3>1, <3>2 DEF CommitProposal
  <2> QED
    BY <1>0, <2>1, <2>2 DEF AttendInv, StagedIsAttended, BatchHoldsItsRows, CrashIsSpent, Shrinks
<1>11. ASSUME NEW r \in Runs, NEW b \in Batches(worker.todo), StageBatch(r, b) PROVE AttendInv'
  <2> DEFINE staged == {c \in b : Stageable(chapters[c], JobForce)}
  <2>1. /\ worker.pc = "batch" /\ runs[r] = "absent" /\ UNCHANGED left
        /\ \A c \in Chapters :
             chapters'[c] = IF c \in staged THEN stage_translation(chapters[c], r) ELSE chapters[c]
        /\ runs'[r] = IF staged = {} THEN "completed" ELSE "running"
        /\ \A q \in Runs : q # r => runs'[q] = runs[q]
        /\ worker'.pc = IF staged = {} THEN "batch" ELSE "provider"
        /\ staged # {} => worker'.run = r
        /\ worker'.staged = staged
    BY <1>0, <1>11 DEF StageBatch, NextRun, SetRun, WorkerState
  <2> HIDE DEF staged
  <2>2. \A c \in Chapters : ~Waits(chapters[c], r)
    BY <2>1 DEF AttendInv, StagedIsAttended, LIVE_RUNS
  <2>3. \A c \in Chapters, q \in Runs :
          Waits(chapters'[c], q) => (q = r /\ c \in staged) \/ (q # r /\ Waits(chapters[c], q))
    BY <1>0, <2>1, <2>2, WaitingRows
  <2>4. StagedIsAttended'
    BY <2>1, <2>3 DEF AttendInv, StagedIsAttended, LIVE_RUNS
  <2> QED
    BY <2>1, <2>3, <2>4 DEF AttendInv, BatchHoldsItsRows, CrashIsSpent
<1> QED
  BY <1>1, <1>3, <1>4, <1>5, <1>6, <1>7, <1>8, <1>9, <1>10, <1>11 DEF WorkerStep

(* A chapter that a run has staged is released: the run is live, or the    *)
(* reaper is about to free the chapter, whatever calls, edits, scrapes,    *)
(* errors and the one crash of the worker do in between.                   *)
THEOREM StagedIsReleased == Spec => []TranslatingIsAttended
<1>1. Init => AttendInv
  <2> SUFFICES ASSUME Init PROVE AttendInv
    OBVIOUS
  <2>1. \A c \in Chapters, r \in Runs : ~Waits(chapters[c], r)
    BY DEF Init, RawRow, Waits
  <2>2. left.worker \in {0, 1}
    BY DEF Init
  <2> QED
    BY <2>1, <2>2 DEF Init, WorkerAt, AttendInv, StagedIsAttended, BatchHoldsItsRows, CrashIsSpent
<1>2. TypeInv /\ AttendInv /\ [Next]_vars => AttendInv'
  <2>1. TypeInv /\ AttendInv /\ UNCHANGED vars => AttendInv'
    BY QuietAttended DEF vars, Shrinks
  <2> QED
    BY <2>1, CallAttended, WorkerAttended, OutsideAttended DEF Next
<1>3. TypeInv /\ AttendInv => TranslatingIsAttended
  BY DEF TypeInv, TypeOK, Row, AttendInv, StagedIsAttended, Waits, TranslatingIsAttended
<1> QED
  BY <1>1, <1>2, <1>3, InitType, TypeStep, PTL DEF Spec
=============================================================================
