----------------------------- MODULE Narration -----------------------------
(***************************************************************************)
(* Audiobook narration: the tts_jobs queue without leases, the worker that *)
(* advances it chapter by chapter, the audio cache (table chapter_audio    *)
(* and the files under AUDIO_DIR) and the requests that fill the queue.    *)
(* One novel and one voice: no statement compares two of them.  A chapter  *)
(* text is named by where it comes from: <<"base", v>> is version v of the *)
(* shared text, <<"own", n>> the n-th text a reader saved over it.         *)
(***************************************************************************)
EXTENDS Integers, Sequences, FiniteSets

CONSTANTS
  Chapters,     \* prose chapters of the novel, numbers
  Users,        \* readers
  Base,         \* the owner of shared audio: user_id IS NULL
  Workers,      \* processes that run worker_loop
  Unready,      \* chapters whose text is missing, or not translated yet
  MaxBatch,     \* TTS_MAX_BATCH_CHAPTERS
  Limit,        \* monthly tts_chapters of every reader
  Forced,       \* values of the force option that chapter requests use
  MaxJobs,      \* bound on rows of tts_jobs
  Edits,        \* bound on edits of the shared text and of readers' own
  Faults        \* bound on crashes, errors and cancels

ASSUME NarrationAssumptions ==
  /\ Chapters \subseteq Nat /\ IsFiniteSet(Chapters)
  /\ Unready \subseteq Chapters
  /\ Base \notin Users /\ Forced \subseteq BOOLEAN
  /\ {MaxBatch, Limit, MaxJobs, Edits, Faults} \subseteq Nat

VARIABLES
  version,   \* chapters.content_version
  own,       \* chapter_overlays: 0, or which text the reader saved last
  jobs,      \* table tts_jobs, indexed by id
  cached,    \* table chapter_audio: the targets that have a row
  files,     \* per target the audio and its timing manifest, as render numbers
  renders,   \* history: what every call of the sidecar rendered, and for whom
  used,      \* quota_usage.tts_chapters
  wk,        \* local state of each worker process
  web,       \* a request for audio between its reads and its insert
  left       \* what may still go wrong

vars == <<version, own, jobs, cached, files, renders, used, wk, web, left>>

----------------------------------------------------------------------------
\* One audio cache entry: chapter, content version, and whose text it reads.
Target == [ch : Chapters, ver : 1..1 + Edits, owner : Users \cup {Base}]

ACTIVE_STATUSES == {"queued", "generating"}
Statuses == ACTIVE_STATUSES \cup {"done", "failed", "canceled"}

\* dedupe_key of a job: "chapter:<target>:force|normal", or "book:<novel>:<voice>".
Keys == [scope : {"chapter"}, target : Target, force : BOOLEAN]
          \cup [scope : {"book"}, force : {FALSE}]

\* The chapters of a job are a list in ascending order: here the set of them.
Job == [user : Users, key : Keys, chapters : SUBSET Chapters, status : Statuses]

Idle == [pc |-> "idle"]
Down == [pc |-> "down"]

\* What _generate_chapter knows about the chapter it works on.
Working == [pc : {"claimed", "next"}, job : 1..MaxJobs, todo : SUBSET Chapters]
  \cup [pc : {"resolved", "narrate", "unlink", "replace", "manifest", "upsert"},
        job : 1..MaxJobs, todo : SUBSET Chapters, target : Target,
        text : {"base", "own"} \X Nat, render : Nat, timed : BOOLEAN]

\* What a request for audio takes from its reads to its insert.
Request == [pc : {"create"}, chapters : SUBSET Chapters, key : Keys]

\* The reads of find_audio and of the active-job lookups.
HasActive(key) == \E j \in DOMAIN jobs :
                     jobs[j].key = key /\ jobs[j].status \in ACTIVE_STATUSES
find_active_chapter_job(t) ==
  \E force \in BOOLEAN : HasActive([scope |-> "chapter", target |-> t, force |-> force])
BookKey == [scope |-> "book", force |-> FALSE]
find_active_book_job == HasActive(BookKey)

\* resolve_narration_text: the overlay if there is one, else the shared text.
resolve_narration_text(ch, u) ==
  IF own[u][ch] > 0
  THEN [target |-> [ch |-> ch, ver |-> version[ch], owner |-> u],
        text |-> <<"own", own[u][ch]>>]
  ELSE [target |-> [ch |-> ch, ver |-> version[ch], owner |-> Base],
        text |-> <<"base", version[ch]>>]
Narratable(ch, u) == own[u][ch] > 0 \/ ch \notin Unready

\* check_available and try_reserve, for one unit.
Affordable(u) == used[u] + 1 <= Limit

\* The update every handler goes through: a late write never moves a job that
\* has ended.  Only a cancel may touch a canceled row again, to no effect here.
update_job(j, status) ==
  IF jobs[j].status \in ACTIVE_STATUSES
  THEN [jobs EXCEPT ![j].status = status] ELSE jobs

\* Mutant of the definition below.
NoTargetLock(t) == FALSE

\* A job that generates for the same target, in this or another process.
TargetLocked(t) == \E w \in Workers :
  /\ wk[w].pc \in {"narrate", "unlink", "replace", "manifest", "upsert"}
  /\ wk[w].target = t

----------------------------------------------------------------------------
Init ==
  /\ version = [ch \in Chapters |-> 1]
  /\ own = [u \in Users |-> [ch \in Chapters |-> 0]]
  /\ jobs = <<>>
  /\ cached = {}
  /\ files = [t \in Target |-> [audio |-> 0, manifest |-> 0]]
  /\ renders = <<>>
  /\ used = [u \in Users |-> 0]
  /\ wk = [w \in Workers |-> Down]
  /\ web = [u \in Users |-> Idle]
  /\ left = [edits |-> Edits, faults |-> Faults]

\* --- Readers ---------------------------------------------------------------

\* generate_chapter up to the quota check: nothing is asked of the queue when
\* the audio is cached (unless it is to be made again) or on its way.
GenerateChapter(u, ch, force) ==
  /\ web[u] = Idle
  /\ Narratable(ch, u)
  /\ LET t == resolve_narration_text(ch, u).target IN
     /\ force \/ t \notin cached
     /\ ~find_active_chapter_job(t)
     /\ Affordable(u)
     /\ web' = [web EXCEPT ![u] = [pc |-> "create", chapters |-> {ch},
                   key |-> [scope |-> "chapter", target |-> t, force |-> force]]]
  /\ UNCHANGED <<version, own, jobs, cached, files, renders, used, wk, left>>

\* generate_book: the first MaxBatch chapters without shared audio of the
\* present version, whoever asks.
GenerateBook(u) ==
  LET missing == {ch \in Chapters :
                    [ch |-> ch, ver |-> version[ch], owner |-> Base] \notin cached}
      batch == {ch \in missing : Cardinality({d \in missing : d < ch}) < MaxBatch}
  IN /\ web[u] = Idle
     /\ ~find_active_book_job
     /\ missing # {}
     /\ Affordable(u)
     /\ web' = [web EXCEPT ![u] = [pc |-> "create", chapters |-> batch, key |-> BookKey]]
     /\ UNCHANGED <<version, own, jobs, cached, files, renders, used, wk, left>>

\* create_job: one active job per dedupe key, under an advisory lock.
CreateJob(u) ==
  /\ web[u].pc = "create"
  /\ \/ HasActive(web[u].key) /\ UNCHANGED jobs
     \/ /\ ~HasActive(web[u].key) /\ Len(jobs) < MaxJobs
        /\ jobs' = Append(jobs, [user |-> u, key |-> web[u].key,
                            chapters |-> web[u].chapters, status |-> "queued"])
  /\ web' = [web EXCEPT ![u] = Idle]
  /\ UNCHANGED <<version, own, cached, files, renders, used, wk, left>>

\* cancel_job by the requester or an admin.
CancelJob(j) ==
  /\ left.faults > 0 /\ jobs[j].status \in ACTIVE_STATUSES
  /\ jobs' = update_job(j, "canceled")
  /\ left' = [left EXCEPT !.faults = @ - 1]
  /\ UNCHANGED <<version, own, cached, files, renders, used, wk, web>>

\* Reading: every change of the shared text takes a new version.
EditBase(ch) ==
  /\ left.edits > 0 /\ ch \notin Unready
  /\ version' = [version EXCEPT ![ch] = @ + 1]
  /\ left' = [left EXCEPT !.edits = @ - 1]
  /\ UNCHANGED <<own, jobs, cached, files, renders, used, wk, web>>

\* Reading: save_overlay stores the reader's text, and leaves the audio alone.
SaveOverlay(u, ch) ==
  /\ left.edits > 0
  /\ own' = [own EXCEPT ![u][ch] = @ + 1]
  /\ left' = [left EXCEPT !.edits = @ - 1]
  /\ UNCHANGED <<version, jobs, cached, files, renders, used, wk, web>>

\* --- The worker --------------------------------------------------------------

\* Mutant of the definition below.
StartWithoutRequeue(w) ==
  /\ wk[w] = Down
  /\ wk' = [wk EXCEPT ![w] = Idle]
  /\ UNCHANGED <<version, own, jobs, cached, files, renders, used, web, left>>

\* worker_loop begins with _requeue_interrupted: every job in progress is queued
\* again, those of another live process too.
Start(w) ==
  /\ wk[w] = Down
  /\ jobs' = [j \in DOMAIN jobs |->
               IF jobs[j].status = "generating"
               THEN [jobs[j] EXCEPT !.status = "queued"] ELSE jobs[j]]
  /\ wk' = [wk EXCEPT ![w] = Idle]
  /\ UNCHANGED <<version, own, cached, files, renders, used, web, left>>

\* claim_next: an atomic UPDATE of one queued row (the one untouched longest).
Claim(w, j) ==
  /\ wk[w] = Idle
  /\ jobs[j].status = "queued"
  /\ jobs' = [jobs EXCEPT ![j].status = "generating"]
  /\ wk' = [wk EXCEPT ![w] = [pc |-> "claimed", job |-> j, todo |-> jobs[j].chapters]]
  /\ UNCHANGED <<version, own, cached, files, renders, used, web, left>>

\* _run up to the loop: stop when canceled, else the job is generating (again).
Begin(w) ==
  /\ wk[w].pc = "claimed"
  /\ LET j == wk[w].job IN
     IF jobs[j].status = "canceled"
     THEN wk' = [wk EXCEPT ![w] = Idle] /\ UNCHANGED jobs
     ELSE /\ wk' = [wk EXCEPT ![w].pc = "next"]
          /\ jobs' = update_job(j, "generating")
  /\ UNCHANGED <<version, own, cached, files, renders, used, web, left>>

\* One round of the chapter loop, in order: the cancel check, then the text the
\* requester reads now; a chapter without text is skipped.
NextChapter(w) ==
  /\ wk[w].pc = "next"
  /\ \E ch \in wk[w].todo :
       LET j == wk[w].job
           u == jobs[j].user
           info == resolve_narration_text(ch, u)
           rest == wk[w].todo \ {ch}
       IN /\ \A d \in wk[w].todo : ch <= d
          /\ \/ /\ jobs[j].status = "canceled"
                /\ wk' = [wk EXCEPT ![w] = Idle]
             \/ /\ jobs[j].status # "canceled" /\ Narratable(ch, u)
                /\ wk' = [wk EXCEPT ![w] =
                     [pc |-> "resolved", job |-> j, todo |-> rest, target |-> info.target,
                      text |-> info.text, render |-> 0, timed |-> FALSE]]
             \/ /\ jobs[j].status # "canceled" /\ ~Narratable(ch, u)
                /\ wk' = [wk EXCEPT ![w].todo = rest]
  /\ UNCHANGED <<version, own, jobs, cached, files, renders, used, web, left>>

\* The end of the loop: every chapter was narrated, cached or skipped.
FinishJob(w) ==
  /\ wk[w].pc = "next" /\ wk[w].todo = {}
  /\ jobs' = update_job(wk[w].job, "done")
  /\ wk' = [wk EXCEPT ![w] = Idle]
  /\ UNCHANGED <<version, own, cached, files, renders, used, web, left>>

\* Under the target lock: look into the cache, then reserve one unit.
EnterTarget(w) ==
  /\ wk[w].pc = "resolved"
  /\ ~TargetLocked(wk[w].target)
  /\ LET j == wk[w].job
         u == jobs[j].user
         forced == jobs[j].key.force
     IN \/ /\ ~forced /\ wk[w].target \in cached
           /\ wk' = [wk EXCEPT ![w] = [pc |-> "next", job |-> j, todo |-> @.todo]]
           /\ UNCHANGED <<jobs, used>>
        \/ /\ forced \/ wk[w].target \notin cached
           /\ ~Affordable(u)
           /\ jobs' = update_job(j, "done")
           /\ wk' = [wk EXCEPT ![w] = Idle]
           /\ UNCHANGED used
        \/ /\ forced \/ wk[w].target \notin cached
           /\ Affordable(u)
           /\ used' = [used EXCEPT ![u] = @ + 1]
           /\ wk' = [wk EXCEPT ![w].pc = "narrate"]
           /\ UNCHANGED jobs
  /\ UNCHANGED <<version, own, cached, files, renders, web, left>>

\* The sidecar answers, with a timing manifest or, from an older one, without.
Narrate(w) ==
  /\ wk[w].pc = "narrate"
  /\ renders' = Append(renders, [target |-> wk[w].target, text |-> wk[w].text])
  /\ \E timed \in BOOLEAN :
       wk' = [wk EXCEPT ![w] = [@ EXCEPT !.pc = "unlink", !.render = Len(renders) + 1,
                                         !.timed = timed]]
  /\ UNCHANGED <<version, own, jobs, cached, files, used, web, left>>

\* Mutant of the definition below.
PublishOverManifest(w) ==
  /\ wk[w].pc = "unlink"
  /\ wk' = [wk EXCEPT ![w].pc = "replace"]
  /\ UNCHANGED <<version, own, jobs, cached, files, renders, used, web, left>>

\* Publishing: the old manifest goes first, then the audio is replaced, then the
\* new manifest appears, and last the row that points to the file.
UnlinkManifest(w) ==
  /\ wk[w].pc = "unlink"
  /\ files' = [files EXCEPT ![wk[w].target].manifest = 0]
  /\ wk' = [wk EXCEPT ![w].pc = "replace"]
  /\ UNCHANGED <<version, own, jobs, cached, renders, used, web, left>>

ReplaceAudio(w) ==
  /\ wk[w].pc = "replace"
  /\ files' = [files EXCEPT ![wk[w].target].audio = wk[w].render]
  /\ wk' = [wk EXCEPT ![w].pc = IF wk[w].timed THEN "manifest" ELSE "upsert"]
  /\ UNCHANGED <<version, own, jobs, cached, renders, used, web, left>>

PublishManifest(w) ==
  /\ wk[w].pc = "manifest"
  /\ files' = [files EXCEPT ![wk[w].target].manifest = wk[w].render]
  /\ wk' = [wk EXCEPT ![w].pc = "upsert"]
  /\ UNCHANGED <<version, own, jobs, cached, renders, used, web, left>>

\* Mutant of the definition below.
UpsertLatest(w) ==
  /\ wk[w].pc = "upsert"
  /\ cached' = cached \cup {[wk[w].target EXCEPT !.ver = version[wk[w].target.ch]]}
  /\ wk' = [wk EXCEPT ![w] = [pc |-> "next", job |-> @.job, todo |-> @.todo]]
  /\ UNCHANGED <<version, own, jobs, files, renders, used, web, left>>

UpsertAudio(w) ==
  /\ wk[w].pc = "upsert"
  /\ cached' = cached \cup {wk[w].target}
  /\ wk' = [wk EXCEPT ![w] = [pc |-> "next", job |-> @.job, todo |-> @.todo]]
  /\ UNCHANGED <<version, own, jobs, files, renders, used, web, left>>

\* An exception in the handler: no sidecar, a failed synthesis, a full disk or a
\* database error.  fail_job ends the job; the unit it reserved is not returned.
JobFails(w) ==
  /\ left.faults > 0
  /\ wk[w].pc \in {"claimed", "narrate", "unlink", "replace", "manifest", "upsert"}
  /\ jobs' = update_job(wk[w].job, "failed")
  /\ wk' = [wk EXCEPT ![w] = Idle]
  /\ left' = [left EXCEPT !.faults = @ - 1]
  /\ UNCHANGED <<version, own, cached, files, renders, used, web>>

\* The process dies, or stop_worker cancels the task; its locks go with it.
Crash(w) ==
  /\ left.faults > 0 /\ wk[w] # Down
  /\ wk' = [wk EXCEPT ![w] = Down]
  /\ left' = [left EXCEPT !.faults = @ - 1]
  /\ UNCHANGED <<version, own, jobs, cached, files, renders, used, web>>

WorkerStep(w) ==
  \/ \E j \in DOMAIN jobs : Claim(w, j)
  \/ Begin(w) \/ NextChapter(w) \/ FinishJob(w) \/ EnterTarget(w) \/ Narrate(w)
  \/ UnlinkManifest(w) \/ ReplaceAudio(w) \/ PublishManifest(w) \/ UpsertAudio(w)

Next ==
  \/ \E u \in Users :
       \/ \E ch \in Chapters, force \in Forced : GenerateChapter(u, ch, force)
       \/ GenerateBook(u) \/ CreateJob(u)
       \/ \E ch \in Chapters : SaveOverlay(u, ch)
  \/ \E j \in DOMAIN jobs : CancelJob(j)
  \/ \E ch \in Chapters : EditBase(ch)
  \/ \E w \in Workers : Start(w) \/ WorkerStep(w) \/ JobFails(w) \/ Crash(w)

Spec == Init /\ [][Next]_vars

----------------------------------------------------------------------------
\* The variables have their types.
TypeOK ==
  /\ version \in [Chapters -> 1..1 + Edits]
  /\ own \in [Users -> [Chapters -> 0..Edits]]
  /\ jobs \in Seq(Job) /\ Len(jobs) <= MaxJobs
  /\ cached \subseteq Target
  /\ files \in [Target -> [audio : Nat, manifest : Nat]]
  /\ renders \in Seq([target : Target, text : {"base", "own"} \X Nat])
  /\ used \in [Users -> 0..Limit]
  /\ wk \in [Workers -> {Idle, Down} \cup Working]
  /\ web \in [Users -> {Idle} \cup Request]
  /\ left \in [edits : 0..Edits, faults : 0..Faults]

\* A timing manifest on disk belongs to the audio beside it, whatever crash or
\* failure interrupts a publication and however two processes interleave
\* (_generate_chapter: "Never leave an old manifest beside replacement audio").
ManifestDescribesAudio ==
  \A t \in Target : files[t].manifest # 0 => files[t].manifest = files[t].audio

\* A row of chapter_audio has its file, and shared audio reads the text of the
\* version it is filed under, although the text may change while it is made.
SharedAudioIsItsText ==
  \A t \in cached :
    /\ files[t].audio # 0
    /\ t.owner = Base => renders[files[t].audio].text = <<"base", t.ver>>

\* Nothing that is cached is paid for and made again, unless it was asked to be:
\* not after a restart, not by a second process, not by a book and a chapter job.
OnlyForcedWorkIsRepeated ==
  \A w \in Workers :
    wk[w].pc \in {"narrate", "unlink", "replace", "manifest", "upsert"}
      => wk[w].target \notin cached \/ jobs[wk[w].job].key.force

\* A job in progress is never stranded: a live worker has it in hand, or a worker
\* that died will queue it again when it starts.  (Nothing else ever would: there
\* is no lease.)
GeneratingIsAttended ==
  \A j \in DOMAIN jobs : jobs[j].status = "generating" =>
    \E w \in Workers : wk[w] = Down \/ (wk[w] # Idle /\ wk[w].job = j)

============================================================================
