# Reading-Wiki: a TLA+ verification project

Reading-Wiki is a self-hosted reader for web novels: it scrapes or imports books,
translates and narrates chapters, illustrates them, and builds a spoiler-safe
codex that answers questions. Everything expensive runs in worker processes that
share one PostgreSQL database (and some directories) with the web processes. This
project models the places where those processes meet, and the checks that decide
what a provider's answer may do to the shared state. Every definition names the
code it stands for in `PROJECT.json` ("map"); paths below are relative to
`src/novelwiki/`.

## 1. Inventory

| Component | State it keeps | Operations | What is hard | What makes it correct | Modules |
|---|---|---|---|---|---|
| Work: durable jobs (`modules/work`) | table `jobs`: status, attempts, claim token, lease, cancel mark, not-before, quota columns | schedule with dedupe, claim, renew, retry, park, cancel, recover, settle | several workers, a sweep in each, cancels from the web, crashes between two statements | a job is settled once and exactly; one active job per key; terminal is final; every job ends | JobRow, WorkJobs, Reservation |
| AI scheduling and quota (`workflows`, `modules/identity`) | `quota_usage` per user, period and kind | reserve, create or dedupe, compensate, settle | crash between reservation and insert | usage is what jobs hold or consumed | WorkJobs |
| Chapter translation (`modules/translation`, `modules/reading`) | chapter status, source hash, content version, run id | stage, start, commit, fail, reset | a worker lost while a chapter is `translating`; edits during a translation | a commit never overwrites newer content; a chapter is charged once | ChapterRow, ChapterTranslation |
| Subscription worker and provider runners (`modules/ai_execution`) | `ai_execution_runs`, workspaces, processes, an advisory lock, grants | reap, claim, reauthorize, start, watch, validate, salvage, stop | processes outlive their worker; paid output is left behind | one process per subscription; finished work is not paid twice; a cancel stops the provider | SubscriptionRuns |
| Narration (`modules/narration`) | `tts_jobs` without leases, `chapter_audio`, audio files and timing manifests | request, claim, narrate, publish, cancel, requeue at start | restart in the middle of a chapter, two processes on one target, files replaced one by one | audio, manifest, row and text belong together | Narration |
| Sharing (`modules/reading`, `modules/catalog`) | overlays, contributions, visibility, tag suggestions | edit, overlay, resolve, contribute, accept, reject, publish | READ COMMITTED requests that read before they write | nobody reads past a conflict; the record of a contribution is true | Sharing |
| Import (`modules/acquisition`) | `import_jobs`, upload blobs, OCR checkpoints | chunked upload, parse, OCR, review, commit | lost replies, leases, unguarded status writes | bytes in order; volumes disjoint; no job stuck | ImportJobs |
| Scraper (`modules/acquisition`) | `sources`, rows of `chapters` | crawl, resume, limit, renumber | sites that change, lock pages and link in circles | no gap behind a checkpoint; every crawl ends | Scraper |
| Codex build (`modules/codex`) | chunks, vectors, entities, aliases, facts, memories, caches | chunk, embed, extract, commit, resume, merge, reset | attempts that lost their lease; edits in the middle; names learned late | memory stands on the current prefix; nothing above the ceiling | Codex |
| Codex answers' checks | one proposal of a provider | repair, verify, quarantine, resolve, commit | each check relies on claims another one removes | what is stored is anchored and named | Proposal |
| Questions and profiles (`modules/codex`) | BM25 index in memory and on disk, `query_cache`, `wiki_cache` | load, rebuild, search, answer, verify, cache | cancellation while a thread works; index and corpus replaced in two steps | answers cite what was retrieved | Ask |
| Illustrations (`modules/codex`) | `codex_art`, plans, jobs | plan, draw sheets, paint, show, invalidate | drawing ahead of readers; edits while painting | art tells nothing ahead and is of the current text | Illustrations |
| Identity (accounts), Experience, Frontend, Platform | accounts, views, UI, wiring | requests | little concurrency of their own | request-level rules | none |

The components interact through the database (`jobs`, `quota_usage`, `chapters`,
`ai_execution_runs`) and through calls inside one process: a route calls the
scheduling workflow, which calls the ledger and the job table; a worker calls the
handler of the owning module, which commits through a workflow that writes the
tables of several modules in one transaction. In the models this shows as
follows. WorkJobs is the life of a job row; SubscriptionRuns is the life of the
runs of one such job; ChapterTranslation, Codex, Illustrations, ImportJobs and
Scraper are what a handler does, each with the lease reduced to what it can see of
it (a second attempt, `LoseLease`, `Stall`). ChapterRow is shared by everything
that changes a chapter's text, and the edits and scrapes of one module appear in
the others as their environment (`EditText`, `ReplaceChapter`, `CodexChanges`,
`IngestUpserts`). Proposal is the inside of Codex's extraction step, Ask the inside
of its `Ask` and `Answer`.

## 2. The model

Conventions. An action is one transaction, or one read whose result is used later,
with the code up to the next await; everything separated by an await on the
database or on a provider may be interleaved. A provider is nondeterminism over the
answers the code tells apart. Time is reduced to what statements compare. History
variables say so in their comment. A definition whose comment begins "Mutant" is a
plausible wrong version of the one below it and is used by no specification.

### JobRow and WorkJobs: the job table and its processes

A row of `jobs` is a record of the columns that change. Every SQL statement of
`modules/work` is an operator from row to row with the name of the Python function
that issues it, next to its WHERE clause (`CanMarkDone`, `StaleLease`, ...). A lease
is `none`, `fresh` or `expired`, and `due` says whether not_before has passed. The
two subscription backends are one (`"sub"`): no statement tells them apart.

| State of WorkJobs | Code |
|---|---|
| `jobs` | table `jobs` |
| `used` | one user's row of `quota_usage` in the current period |
| `wk[w]` | a worker process: its place in `worker_loop` / `process`, the claimed job, what the sweep has read, what it has still to settle |
| `web[c]` | a request between its transactions |
| `refunded`, `lost` | history: units handed back per job, units that died with a web process |
| `faults` | how many faults may still happen |

`Reserve`, `Create`, `CreateRefused`, `RefundReservation` are `schedule_ai_job`;
`Cancel`/`CancelSettle` the cancel route; `Claim` to `SweepSettle` the worker loop
and its maintenance; `Reauthorize` to `HandlerRaises` the handler; `MarkDone` to
`FailOrRetry` the two versions of `process`, API and subscription. `ComesDue`,
`LeaseExpires` and `Stall` are the clock; `Crash`, `WebCrash` and `SettleFails` the
failures. `Charge` is what a job counts for in the ledger, and `Booked` lays the charges
out unit by unit, so that the balance is the size of a set. **Reservation** is the contract: a reservation per job is opened, spent
unit by unit, and settled once by keeping all of it or returning the rest;
`ImplementsReservation` is the refinement mapping.

### ChapterRow and ChapterTranslation: two machines on one table

A row of `chapters` reduced to what translation and the shared text compare: `src`
(original_text; its hash stands for it), `content`, `ver`, `status`, `run`
(translation_run_id) and `sha`. A text is abstracted to where it comes from: a
member of `Texts` is a source text and, as `content`, its machine translation;
`Published` needs no translation; `Edited` is one a person wrote.

| State of ChapterTranslation | Code |
|---|---|
| `chapters` | table `chapters` |
| `calls[k]` | a call of `translate_chapter` in the web process: its place, the chapter whose lock it holds, what it read |
| `used` | `quota_usage.translated_chapters` of the metered user |
| `runs` | rows of `ai_execution_runs` |
| `worker` | `execute_translation_job` / `_run_batch` and, after a restart, `_reap_orphans` |
| `scrape` | a forced scrape between its SELECT and its upsert |
| `left` | what may still go wrong: at most one of each kind, `MaxTrouble` in all |
| `paid`, `forfeited` | history: committed calls; charged calls that ended with neither text nor refund |

`Open` to `RefundCall` follow `translate_chapter` statement by statement;
`CallErrors` is a database error at any of them. `StartJob` to `CancelJob` are the
subscription job. The reset of a batch and the closing of its run are one action
in `FailRun`, `ProposalRefused` and `ResumeReadyCommits`: in that order a crash
between them leaves a live run without chapters, which the reaper closes. In the
reaper the order is the other way round, so there they are two actions.
`ResumeReadyCommits` models what the code does: its body raises before it can commit.

### SubscriptionRuns: the host worker and its provider processes

Two worker processes of one backend. `host[h]` is a process (its place in start-up,
claim and batch), `run[r]` a row of `ai_execution_runs` with its workspace, its
artifacts and its process, `lock` the session that holds the advisory lock, `policy`
and `admin` the grant and the administrator who changes it. A crash leaves the
provider process alive; `LoseLockSession` takes the lock away unnoticed. The two
backends share the module; `backend` selects what differs (how artifacts are
collected and validated).

### Narration

`jobs` is `tts_jobs` (a job has its request and the set of chapters it has still to
do, taken in reading order), `cached` the rows of `chapter_audio`, `files` the audio and the
manifest of a target as numbers of renders, `renders` (history) what each render
read. `wk[w]` walks `_generate_chapter`: text, quota, target lock, synthesis,
`unlink`, `replace`, `manifest`, `upsert`, one action each, since a crash may fall
between any two.

### Sharing

One chapter of one novel under READ COMMITTED: `req[u]` is what a request has read;
its writes become visible at its commit, against rows that may have changed. The
forced scrape or import is three statements (`IngestReads`, `IngestUpserts`,
`IngestFlags`) outside a transaction, and may die between them.

### ImportJobs

`upload[j]` has the blob on disk and what the client believes; `row[j]` the status
and who renews the lease; `wk[w]` a worker with the status it read, because
`update_job` writes without a guard; `web[j]` a request between its read and its
write. `LockVolumeAppend` and `_write_segments` are the commit of an appended volume.

### Codex

Chunks and vectors are versions of the text they were made from; the knowledge of a
chapter is the number of the answer (`run`) and the context it was extracted on, so
that "stands on" is a comparison. What a build carries from one statement to the next
is one of a few named record sets (`Inputs`, `Answers`, `Anchored`). `entity` has where an entity was first seen, where
its displayed name was learned, and its aliases; `cache` per ceiling the chapters a
cached answer was told from. `build[b]` is a build in one of two processes; `saved`
the proposal a lost attempt of the subscription build left in its workspace.

### Proposal

One answer is a function from positions to claims of `Pool`, each claim a record of
kind, references, evidence (exact, close or missing) and what else the checks read; a
quarantine leaves a gap, so the others keep their order. `ChooseAnswer` runs the
repairs and checks of the path (API, API with verifier, single-pass or separate
subscription runs), `Revise` the verifier's answer, `Resolve` the matching of new
mentions and the judge, `Commit` the repeated checks and the store, `NextChapter`
carries the aliases and threads over. An alias is stored under the entity its mention
was resolved to, and an identity claim needs a reveal only when it joins two entities,
as in the code. The module is sequential; what makes it hard is that each check relies
on claims that another one removes.

### Illustrations

`art[i]` is a row of `codex_art` with what its makers had been told (`told`, `seen`:
history), `plan` the parent and chapter plans, `run[a]` an attempt, which may go on
after it lost its lease. `Shown` and `Gallery` are the queries that serve readers.

### Ask

`mgr[p]` is a BM25Manager: corpus, index, cached prefix indexes, loaded flag, the
lock with its queue, and whether a cancelled caller's thread is still draining.
A retriever is the corpus it indexed. `req[r]` is a question or a profile request
through plan, tools, draft, verifier, repair, citations and cache.

### Scraper

A site is a list of pages in reading order; a page is what the extractors get from
it (kind, number, link, lock). `job[j]` walks the adapters' loops; `chapters` are the
novel's rows with their source, page and number. Numbers are in hundredths, so that
a side story at +0.01 is an integer. `SiteChanges` publishes and unlocks pages,
`RenumberReads`/`RenumberCommits` move a source.

## 3. Runs

Twelve runs, one per module that is a specification (two for WorkJobs: the API and
the subscription backend), each asking its properties of one instance. All of them
are expected to pass.

| Run | Instance | Properties |
|---|---|---|
| `work_api` | two requests with the same key, two API workers, two faults of any kind | `SettlementIsExact`, `LedgerBalances`, `OneActiveJobPerKey`, `TerminalIsFinal`, `EveryJobEnds` |
| `work_sub` | a translation and a build, a subscription and an API worker, waits, revocation, fallback, one fault | `SubQueueWithinLimit`, `ConsumptionFrozenOnceSettled`, `ImplementsReservation` |
| `translation` | two chapters, two calls of the web process, a forced job with two runs, two troubles of different kinds | `TranslationIsOfItsSource`, `TranslatingIsAttended`, `ChargesBalance`, `NoEditIsLostUnseen` |
| `narration` | two chapters (one without text), two workers, two jobs, one edit, one fault | `ManifestDescribesAudio`, `SharedAudioIsItsText`, `OnlyForcedWorkIsRepeated`, `GeneratingIsAttended` |
| `sharing` | an owner, an admin and a reader, three versions, five requests, one contribution | `StaleOverlayIsShown`, `MergedIsAccepted` |
| `import` | a born-digital book and a scan in one batch, two workers, one request, two faults | `BlobIsThePrefix`, `VolumesAreDisjoint`, `EveryClaimEnds` |
| `codex` | two chapters, two entities, two builders, two jobs, three answers, one change, one fault | `VectorIsOfItsText`, `MemoryIsCurrent`, `NoSpoilers` |
| `proposal` | answers of up to three of nineteen claims, four paths, a thread, five ways a name may match | `CommittedIsSound`, `VerifiedIsCommittable`, `MergedIsOffered` |
| `illustrations` | two chapters, one character, a range and a forced redraw, two attempts, one change, one fault | `NoSpoilerArt`, `ShownIsOfItsText`, `GalleryIsOnePlan` |
| `sub_runs` | both backends, two worker processes, a job of two batches, one fault, one change of the grant | `OneProviderProcess`, `SalvagedIsNotRerun`, `CancelStopsTheProvider` |
| `ask` | two chunks, one claim, two ceilings, two requests, one process | `LoadedIsAligned`, `CachedIsGrounded`, `LockIsAttended` |
| `scraper` | twelve novels, one or two per navigation pattern, two jobs, one renumbering, one fault | `NoChapterIsSkipped`, `ChaptersAreAligned`, `LimitIsReached`, `EveryCrawlEnds` |

**Why the bounds are enough.** Two of every actor give every pairwise race: a lost
lease and its rival, two requests with one key, two processes on one target. Two
attempts make both the retry and the final failure happen; one or two units let a
reservation be partly consumed; two chapters let a batch be partly committed and a
prefix be rebuilt under a later chapter; two ceilings tell a visible row from a
hidden one. A budget of one or two faults puts a crash, a stall or an error at
every step, and two where a fault matters only after another one. Three claims are
one more than any check relates. Counters that the program does not bound
(provider waits, edits, scrapes, requests) are bounded by the constants named for
it. `CHECK_DEADLOCK FALSE` is set where a bound or the absence of requests lets
everything come to rest; `proposal` and `ask` check for deadlock too. Symmetry is used for callers, attempts and
entities with builders, in runs without liveness.

Every specification also has a type invariant (`TypeOK`, and `AskTypeOK`, `ArtTypeOK`,
`ScraperTypeOK` in the modules that share a proof module with another), proved for all
eleven of them (section 4); the runs spend their time on the other properties.

**What the restrictions hide.** Some statements above hold only within limits that
are part of the model, and each limit is a fact about the program:

* `TranslatingIsAttended` speaks of chapters staged by a run, and the instance has
  one worker crash. A web process that dies leaves `translating` without a run id,
  which nothing resets; a second worker crash between the reaper's two statements
  strands a batch.
* `MemoryIsCurrent` exempts (`raced`) an import that invalidates a range during a
  commit: `invalidate_chapter_range` takes no advisory lock.
* `OneProviderProcess`, `SalvagedIsNotRerun` and `CancelStopsTheProvider` exempt a
  worker that lost its lock session unnoticed, and a provider process whose worker
  died before it wrote the process identity into the run row.
* `LoadedIsAligned` speaks of a loaded manager: `asearch` does not look at `_loaded`
  again after it has waited for the lock, and of one process that writes the index
  (see section 6).
* `StaleOverlayIsShown` exempts the author of the merged text (`keep_overlay_user`).
* `GalleryIsOnePlan` exempts a job whose plan was deleted under it.
* `NoChapterIsSkipped` is checked on sites whose chapter numbers are their own; for
  Novel543's derived numbers it does not hold across a resume (section 6).
  `ChaptersAreAligned` is checked with renumberings between jobs
  (`RenumberAnytime = FALSE`): a job reads `chapter_offset` once.

**Fairness.** WorkJobs: a live worker goes on (weak fairness of `WorkerStep`): its
loop never blocks except in the handler, which is bounded by provider timeouts.
Maintenance gets strong fairness because `_run_maintenance` is called on every round
of the loop, although a claim may disable it for a while. Requests finish, time
passes. ImportJobs: the worker loops and their maintenance go on and a worker that
dies is started again by the supervisor; a request that was read is written.
SubscriptionRuns: a worker that runs goes on and one that died is started again
(systemd unit); the provider is not assumed to finish. Scraper: a running job and a
started renumbering go on; sites owe nothing. Nowhere is a schedule, a cancel, a
retry by hand or a failure assumed.

## 4. Proofs

All eleven specifications have theorems, in eight proof modules: the three that work on
a neighbour's tables share its module. Every theorem holds for all constants that
satisfy the ASSUMEs of the modules: any number of jobs, workers, requests, chapters,
calls, claims and faults. The assumptions are of three kinds: bounds are natural
numbers, the values that mean "none" are not members of the set they stand beside,
and subsets are subsets; those of Narration, ChapterTranslation, Ask and Illustrations
add that chapters, callers, chunks or art keys are finite, and that of Illustrations that
a scene plan has one to three scenes, as the plan's schema demands
(`codex/domain/illustrations.py:118`). Where a theorem
needs more, it says so in its statement, and the paragraph below says why. No proof
assumes fairness. Of the 40 properties the runs check, 36 are theorems; the other four
are liveness properties.

| Module | Theorems | Inductive invariant |
|---|---|---|
| `WorkJobs_proofs` | `TypeCorrect`, `SettlementExactness`, `KeyExclusion`, `ClaimDiscipline`, `SubQueueBound`, `TerminalFinality`, `ConsumptionFrozen`, `ReservationRefinement`, `LedgerBalance` | `TypeInv`, `TableInv`, `LedgerInv` |
| `ChapterTranslation_proofs` | `TranslationTypeCorrect`, `TranslationMatchesSource`, `EditsSurvive`, `ChargesAlwaysBalance`, `StagedIsReleased` | `TypeInv`, `SnapshotsFresh`, `AttendInv` |
| `SubscriptionRuns_proofs` | `TypeCorrect`, `OneProcess`, `ReadyIsNotRepeated` | `TypeInv`, `RunInv` |
| `Narration_proofs` | `TypeCorrect`, `ManifestsAreTrue`, `CachedAudio`, `WorkIsNotRepeated`, `NoJobIsStranded` | `TypeInv`, `AudioInv` |
| `ReaderViews_proofs` (Sharing, Illustrations) | `TypeCorrect`, `ContributionRecord`, `StaleOverlay`; `ArtTypes`, `ArtNeverSpoils`, `ArtOfItsText`, `GalleryOfOnePlan` | `TypeInv`; `ArtInv` |
| `Acquisition_proofs` (ImportJobs, Scraper) | `TypeCorrect`, `UploadIsExact`, `NumbersAreNotReused`, `AppendNeverCollides`; `ScraperTypes`, `ChaptersStayAligned`, `NothingIsSkipped`, `LimitsAreReached` | `TypeOK`, `VolumeInv`; `ScraperTypeInv`, `OffsetIsCurrent`, `PathInv` |
| `Codex_proofs` | `TypeCorrect`, `VectorsAreTrue`, `ReadersAreSafe`, `MemoryStaysCurrent` | `TypeInv`, `ToldIsBelow`, `MemoryInv` |
| `Grounding_proofs` (Proposal, Ask) | `TypeCorrect`, `CommitIsAlwaysSound`, `NoPaidRunIsLost`, `MergesAreOffered`; `AskTypes`, `LockAlwaysAttended`, `CachedAlwaysGrounded`, `LoadedAlwaysAligned` | `IInv`; `AskInv`, `GroundedInv`, `AlignInv` |

A type invariant is seldom inductive alone: a process in the middle of its work must
be known to hold what its next step uses. So each `TypeInv` adds what processes
remember (a worker away from its resting places has a job, a run, a chapter).

**Jobs.** `RowMoves` classifies every lifecycle statement under its guard; `TableStep`
shows that a step of the system moves rows, inserts one, consumes one unit or settles
one row, and nothing else. To know that a settlement meets a row and an INSERT a fresh
id, `TableInv` follows what processes remember: jobs in a worker's memory are rows of
the table (`Known`), jobs being scheduled are not, and belong to one request
(`Unborn`). The safety theorems and the refinement follow from `TableInv` and
`TableStep` alone.

`LedgerBalance` needs no sum over the table: `Booked` is a set with one element per
charged unit, and a step that changes one job's charge by n changes its size by n
(`Rebook`, from the cardinality theorems of the library). What is left is
what each step does to the charge of the one job it touches: a settlement that keeps c of
a reservation of r takes r - c off the books and off the ledger (`ChargeOfSameJob`),
and the subtraction in the ledger's UPDATE, which the code cuts off at
zero, is never cut off, because what is handed back is on the books (`RefundIsExact`).

**Translation.** `TextSteps` shows that one step does one of five things to the text of
a chapter: nothing, a commit by a call, a commit by the worker, an edit, an upsert.
`EditsSurvive` needs `SnapshotsFresh`: what a translator remembers is never newer than
the row, and when the versions agree, an edit on the row is one it has seen; an edit
always takes a new version (`StaysFresh`), which makes the version check of
`commit_translation` sufficient. `ChargesAlwaysBalance` counts with the cardinality of
the set of charged calls. `StagedIsReleased` needs that a batch at work names every row
that waits on its run (`BatchHoldsItsRows`), and that a worker that is down, reaping or
releasing has spent the one crash of the model (`CrashIsSpent`): with two, the theorem
is false (section 3).

**Subscription runs.** `LockedInv` says, until a lock session is lost: a worker that is
up holds the advisory lock (`LockIsHeld`), and its open row is its own, in the status
of its step (`OpenRows`); a run whose artifacts are ready has no live process
(`ReadyHasEnded`); a recorded process nobody watches is in a row the next worker lists
and reaps before it claims (`OrphansAreListed`); a worker opens a batch only after it has dealt
with all that was ready (`ReadyGoesFirst`). The many actions are grouped into a few
kinds of moves of the run table first, so that each conjunct is shown once per kind.

**Narration.** `AudioInv`: two processes past the target lock have different targets
(`TargetsDiffer`); the stages of a publication leave the manifest removed before the
audio is replaced and written after it (`PublicationInOrder`), which makes a crash
between any two of them harmless; every file of the shared text, cached or left behind,
reads the version it is named for (`FilesHaveTheirText`).

**Sharing.** What a request read is no newer than the tables it writes to
(`RequestsAreOld`), and an overlay is anchored to a version the chapter has had; a
merge and its record are one transaction, and a rejection that meets a row already
decided changes nothing.

**Illustrations.** `ArtInv` says of every row of `codex_art` what its makers had been told
when it was drawn: nothing beyond its chapter, and texts whose hashes the row carries
(`RowOK`), of a scene and character its plan has (`RowPlanned`). An attempt may outlive
its lease and draw beside its successor, so the same is said of each attempt's drawing in hand
(`Drawing`) and of the plans it holds (`PlanOK`). Both survive every step of the others
because of what no step takes back (`Onward`): rows are added and marked as gone but
otherwise stay as they were drawn, a job keeps what it was asked for, and a plan stays
unless the plans of its job were deleted. Edits, replacements and resets cannot unsay
what was told; they withdraw rows from what is shown.

**Import.** A chunk is appended only at the end the blob has when it is written, so
what was resent or cut off never leaves a hole. For volumes, every number given out is at most the highest one
(`NumbersAreBelowLast`), and a worker that writes still has that number
(`OffsetIsLast`), because `LockVolumeAppend` lets nobody move it in between.

**Scraper.** `ChaptersStayAligned` has two hypotheses, each a check the code lacks
(section 6): no renumbering meets a live job of its source (`~RenumberAnytime`), and no
two editors renumber at a time. Then the offset a job read is the source's
(`OffsetIsCurrent`).

`NothingIsSkipped` is an argument along the path of a crawl. A page is settled when it is
saved or holds no chapter anybody may read. `PathInv` says that behind every saved row
everything is settled (`RowsInOrder`), that a crawl about to open a page has settled all
before it but for the chapter it is in the middle of (`FetchOK`, `QueueOK`), and that a link, an index
or a number guessed from a URL leads at most to the page after (`InOrder`). A resume starts behind the row with the highest number, which
is the furthest page because numbers grow. A row once saved stays saved: an upsert that
replaces it is of the same page, since the numbers of a source are its own and the
offsets keep the sources apart (`SavedStays`). `LimitsAreReached` uses the same path: what
a crawl yielded is new, but for the checkpoint that an inclusive resume yields again
(`CountOK`). Both assume that the novel starts in order (`BookInOrder`): numbers grow with
the pages, links do not jump, and no two sources can meet in one number. All of it is
needed, as the sites that break it show: on a site with derived numbers a resume skips
chapters, and a forced crawl of a source that overlaps another replaces the other's rows
(both in section 6). All of the run's novels satisfy it but two, one whose guesses from
URLs jump and one whose two sources overlap; on those the properties rest on TLC alone.
`PathInv` itself was model-checked on the others, and on further novels in order, before
it was proved.

**Codex.** `NamesAreSafe` (an alias is told no later than where it may be shown, and a
displayed name is known where its entity is first seen) gives `ReadersAreSafe` together
with `ToldIsBelow`, since the effective ceiling never exceeds the reader's progress.
`MemoryStaysCurrent` needs `LockedIsCurrent`: while a commit holds the advisory lock,
the prefix it compared stays what it was.

**Proposals.** `IInv` adds to the three properties that a proposal waiting for its
commit is anchored already, but on the single-pass path (`AnchoredBefore`), that a link
was offered, and that only the direct path waits for a verifier. The main lemmas:
what a repair may change of a claim (`RepairIs`), that a repair leaves the graph of
references and threads valid (`SameGraph`), what a verified answer is (`VerifiedIs`), and
that the store keeps what was checked (`CommitIsSound`). The attempt to prove
`CommittedIsNamed` showed that an earlier version of the model kept an alias under the
new mention even when the mention had been resolved to a known entity; the model now
follows `extract.py:1630-1669`, and its instance has claims that meet the case.

**Questions.** `LockInv` follows who holds the manager's lock: the holder is the rebuild,
or a live request at a step that ends in a release, or a cancelled request
whose thread still runs, which releases it on return; a request waits exactly if
it is in the queue, once. `GroundedInv` carries the evidence of a request from its
retrieval to the cache: what a draft cites was retrieved under the request's own ceiling,
and only a draft that passed the check of citations reaches the INSERT.
`LoadedAlwaysAligned` compares versions of the corpus: what is loaded, on disk or in a
prefix index is never newer than the chunks (`NotNewer`), and the signature on disk is
never newer than the index beside it, so that a signature which matches the corpus leaves the
index no other choice than to match it too (`DiskOK`, `Kept`). It assumes that
one process writes the index (`Procs = {Web}`), as the run does. A codex build in a worker or
`rebuild-bm25` from the command line is a second one, and with it the property is false: the
files on disk are not written together (section 6). The other three theorems hold for any
set of processes.

Only model-checked, and why:

* `EveryJobEnds`, `EveryClaimEnds`, `CancelStopsTheProvider`, `EveryCrawlEnds`: liveness
  under fairness is out of the prover's reach.
* What the theorems exclude by a hypothesis and a run's instance still contains: the two
  novels that are not in order (above).

## 5. Not modelled, and the plan

Left out for good: prompts and the parsing of answers, ranking and retrieval scores,
HTML and file parsing, network and address checks, image and audio bytes, the user
interface, logging, wiring and schema migration, and the read-only projections of
`modules/experience`. Left out because each is one statement on one row, with
nothing to interleave: accounts, sessions and rate limits of `modules/identity`, the
glossary's first-write-wins INSERT, shelves and metadata of `modules/catalog`. The
monthly turn of the quota period and the usage limits of a grant are open.

The plan, in the order it was carried out: the job table and its contract
(WorkJobs, Reservation), the machines that commit under a lease (ChapterTranslation,
SubscriptionRuns, Narration, ImportJobs, Codex), what decides which answers are stored
(Proposal, Ask), what readers see (Sharing, Illustrations), the scraper; then the
theorems in the same order. What stays open: the two items named above, and a theorem for
sites with derived numbers, which first needs a number that does not depend on where a
crawl started.

## 6. Behaviours met while modelling

The models follow the code, so they contain what it does where a document, a comment
or a reader might expect something else. These are recorded here for the
maintainers; no run depends on them, and most can be reproduced by widening the cfg
or by stating the property that is quoted. Paths of documents are relative to `src/`.

*Jobs.* A cancel that lands between the subscription worker's last look and its park
or retry leaves an active row that nobody may claim and nobody ends
(`ai_execution/application/worker.py:83`). A process that dies between the UPDATE that
ends a job and its settlement strands the reservation (`work/.../postgres.py:364`,
`:399`). A settlement error after `mark_done` sends a successful job down the failure
path (`work/application/worker.py:43`).

*Translation.* `mark_translation_started` is unconditional, so a batch staged between
`translate_chapter`'s read and its mark is translated by both providers
(`reading/.../translation.py:104`). A forced scrape keeps `translation_run_id`, and the
chapter is never translated on demand again (`reading/.../ingestion.py:92`).
`_resume_ready_commits` uses `Path`, which `translation/.../agy.py:332` does not import, so
finished artifacts are given up. A web process that dies leaves `translating` rows
nobody readmits. A stale forced scrape changes the text without a new version.

*Narration.* A reader may hear audio of a text other than the one on the page while an
edit or an overlay is young (`docs/pipelines/narration.md:76-77`). A chapter charged to
the quota is not refunded when its synthesis fails (`narration/.../worker.py:326`).

*Sharing.* `accept_contribution` can merge over a concurrent edit, or twice. A forced
ingest decides `base_changed` from a stale read. Renumbering a source does not move
overlays and contributions. `set_visibility` is an unconditional UPDATE after its check
(`catalog/application/access.py:58`), so an owner's earlier request can take a novel out
of Global. Tags whose suggestion was rejected may have been applied.

*Import.* A grouped batch whose last book turns out to be a scan is not committed
(`acquisition/application/import_worker.py:284`, against the comment at `:255`). A cancel is
overwritten by a worker's `update_job` (`docs/pipelines/file-import.md:172`). A lost lease,
a second confirm or an error after the commit can create a novel twice
(`import_worker.py:426`). A superseded worker's late marker can requeue a committed
job. Appends with a manual offset are not serialized.

*Codex.* An edit between chunking and the hash of the extraction is committed with the
old claims under the new hash (`codex/.../ingest/chunk.py:189`). An answer may be cached after
`clear_caches`. `merge_entities` leaves `query_cache`. A late forced commit drops a suffix
that is finished. Another process's BM25 is not refreshed by a rebuild. The docstring of
`promote_canonical_name_if_safe` (`link.py:127`) promises more than its body checks.

*Proposals.* A dormant thread goes on without `reopen` when it is reached by title under
a new `pN` ref (`extract.py:1749`, `docs/data/database-schema.md:339-340`). On the direct path a
judge's NEW is overridden by an embedding match. The single-pass path quarantines
aliases after names were checked against them.

*Illustrations.* A plan deleted by a reset can leave art that is painted afterwards
(`illustration_store.py:100`, `docs/pipelines/chapter-illustrations.md:167-168`). `current()` does not
look at the lease.

*Subscription runs.* A provider process may start after its grant was revoked: the grant
is checked once per claimed job (`ai_execution/application/worker.py:40`,
`docs/openai-codex-operator-runbook.md:210-211`). `AgyError.retryable` is never read. A bumped
`policy_version` does not refuse a job. An orphan whose identity was not recorded is never
reaped.

*Questions.* A search that waits behind a failed rebuild and a cancelled load uses the new
corpus with the old index (`retrieval/bm25.py:267`,
`docs/pipelines/codex-build-and-ask.md:245`). Two processes that share the index
directory write the index files and the signature beside them without a common lock
(`retrieval/bm25.py:145`), so that one can load the other's index under its own signature;
with two members of `Procs`, `LoadedIsAligned` fails. A repaired draft is checked by the machine
grounding but not by the verifier again.

*Scraper.* Novel543 derives the number of a side story from the chapter before it and
starts every crawl from nothing, so a resume at a side story numbers it differently and
skips what follows (`scraper/adapters.py:604`). A renumbering during a job splits the
source's numbering (`scraper/runner.py:89`). Two sources whose ranges overlap overwrite each
other's rows: the scraper never calls the guard that the docs describe
(`other_source_numbers`). One source's failure ends
the job of all.
