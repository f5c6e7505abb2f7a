-------------------------- MODULE Narration_proofs --------------------------
(***************************************************************************)
(* Theorems about Narration, for any number of chapters, readers, worker   *)
(* processes, jobs, edits and faults.                                      *)
(***************************************************************************)
EXTENDS Narration, TLAPS

(* Every edit left may still raise a version, within the bound.            *)
EditsFit ==
  /\ \A ch \in Chapters : version[ch] + left.edits <= 1 + Edits
  /\ \A u \in Users, ch \in Chapters : own[u][ch] + left.edits <= Edits

(* A worker that is at work has a row of tts_jobs.                         *)
JobsExist == \A w \in Workers : wk[w].pc \notin {"idle", "down"} => wk[w].job \in DOMAIN jobs

TypeInv == TypeOK /\ EditsFit /\ JobsExist

(* A worker past the target lock, and one whose audio has been rendered.   *)
Locking == {"narrate", "unlink", "replace", "manifest", "upsert"}
Rendered == {"unlink", "replace", "manifest", "upsert"}

(* The advisory lock: two workers never generate for one target.           *)
TargetsDiffer ==
  \A v, w \in Workers :
    v # w /\ wk[v].pc \in Locking /\ wk[w].pc \in Locking => wk[v].target # wk[w].target

(* What a worker narrates for everyone is the version it files it under,   *)
(* and what it has rendered is what it read.                               *)
WorkersHaveTheirText ==
  \A w \in Workers :
    /\ wk[w].pc \in Locking \cup {"resolved"} /\ wk[w].target.owner = Base
         => wk[w].text = <<"base", wk[w].target.ver>>
    /\ wk[w].pc \in Rendered => /\ wk[w].render \in DOMAIN renders
                                /\ renders[wk[w].render].text = wk[w].text

(* How far a publication has got: no manifest while the audio is replaced, *)
(* and the worker's own audio after that.                                  *)
PublicationInOrder ==
  \A w \in Workers :
    /\ wk[w].pc \in {"replace", "manifest"} => files[wk[w].target].manifest = 0
    /\ wk[w].pc \in {"manifest", "upsert"} => files[wk[w].target].audio = wk[w].render

(* Every audio file, cached or left behind by a failure, reads its text.   *)
FilesHaveTheirText ==
  \A t \in Target : files[t].audio # 0 =>
    /\ files[t].audio \in DOMAIN renders
    /\ t.owner = Base => renders[files[t].audio].text = <<"base", t.ver>>

(* A row of chapter_audio is written when its file is there.               *)
CachedHasAudio == \A t \in cached : files[t].audio # 0

AudioInv ==
  /\ TargetsDiffer /\ WorkersHaveTheirText /\ PublicationInOrder /\ FilesHaveTheirText
  /\ ManifestDescribesAudio /\ CachedHasAudio

----------------------------------------------------------------------------
(* Types.                                                                  *)

Places == {"claimed", "next", "resolved"} \cup Locking
Texts == {"base", "own"} \X Nat

LEMMA WorkerFields ==
  ASSUME NEW s \in {Idle, Down} \cup Working
  PROVE  /\ s.pc \in {"idle", "down"} \cup Places
         /\ s.pc = "idle" <=> s = Idle
         /\ s.pc = "down" <=> s = Down
         /\ s.pc \notin {"idle", "down"} => s \in Working /\ s.job \in 1..MaxJobs
                                                          /\ s.todo \in SUBSET Chapters
         /\ s.pc \in Locking \cup {"resolved"} =>
              /\ s.target \in Target /\ s.text \in Texts /\ s.render \in Nat
              /\ s.timed \in BOOLEAN
<1>1. CASE s = Idle \/ s = Down
  BY <1>1 DEF Idle, Down, Locking
<1>2. CASE s \in [pc : {"claimed", "next"}, job : 1..MaxJobs, todo : SUBSET Chapters]
  BY <1>2 DEF Idle, Down, Locking, Places, Working
<1>3. CASE s \in [pc : {"resolved", "narrate", "unlink", "replace", "manifest", "upsert"},
                  job : 1..MaxJobs, todo : SUBSET Chapters, target : Target,
                  text : {"base", "own"} \X Nat, render : Nat, timed : BOOLEAN]
  BY <1>3 DEF Idle, Down, Locking, Places, Working, Texts
<1> QED
  BY <1>1, <1>2, <1>3 DEF Working

(* Between two chapters, and while one is made.                            *)
Between == [pc : {"claimed", "next"}, job : 1..MaxJobs, todo : SUBSET Chapters]
Making == [pc : {"resolved", "narrate", "unlink", "replace", "manifest", "upsert"},
           job : 1..MaxJobs, todo : SUBSET Chapters, target : Target,
           text : {"base", "own"} \X Nat, render : Nat, timed : BOOLEAN]

LEMMA WorkingIsEither ==
  /\ Working = Between \cup Making
  /\ \A s \in Working : /\ s.pc \in Locking \cup {"resolved"} => s \in Making
                        /\ s.pc = "claimed" \/ s.pc = "next" => s \in Between
BY DEF Working, Between, Making, Locking

LEMMA WorkerStates ==
  /\ \A pc \in {"claimed", "next"}, j \in 1..MaxJobs, todo \in SUBSET Chapters :
       [pc |-> pc, job |-> j, todo |-> todo] \in Working
  /\ \A j \in 1..MaxJobs, todo \in SUBSET Chapters, t \in Target, text \in Texts :
       [pc |-> "resolved", job |-> j, todo |-> todo, target |-> t, text |-> text,
        render |-> 0, timed |-> FALSE] \in Working
BY DEF Working, Texts

(* The moves of a worker between chapters ...                              *)
LEMMA BetweenMoves ==
  ASSUME NEW s \in Working, s.pc = "claimed" \/ s.pc = "next", NEW todo \in SUBSET Chapters
  PROVE  /\ [s EXCEPT !.pc = "next"] \in Working /\ [s EXCEPT !.todo = todo] \in Working
         /\ [s EXCEPT !.pc = "next"].job = s.job /\ [s EXCEPT !.todo = todo].job = s.job
         /\ [s EXCEPT !.pc = "next"].pc = "next" /\ [s EXCEPT !.todo = todo].pc = s.pc
<1>1. s \in Between
  BY WorkingIsEither
<1>2. [s EXCEPT !.pc = "next"] \in Between /\ [s EXCEPT !.todo = todo] \in Between
  BY <1>1 DEF Between
<1> QED
  BY <1>1, <1>2, WorkingIsEither DEF Between

(* ... and of one that makes a chapter.                                    *)
LEMMA MakingMoves ==
  ASSUME NEW s \in Working, s.pc \in Locking \cup {"resolved"}, NEW pc \in Locking
  PROVE  /\ [s EXCEPT !.pc = pc] \in Working
         /\ [s EXCEPT !.pc = pc].pc = pc
         /\ [s EXCEPT !.pc = pc].job = s.job
         /\ [s EXCEPT !.pc = pc].target = s.target
         /\ [s EXCEPT !.pc = pc].text = s.text
         /\ [s EXCEPT !.pc = pc].render = s.render
<1>1. s \in Making
  BY WorkingIsEither
<1>2. [s EXCEPT !.pc = pc] \in Making
  BY <1>1 DEF Making, Locking
<1> QED
  BY <1>1, <1>2, WorkingIsEither DEF Making

(* The one update of tts_jobs: rows keep everything but their status, and  *)
(* only the row of the caller may change.                                  *)
LEMMA UpdateJob ==
  ASSUME jobs \in Seq(Job), NEW j \in DOMAIN jobs, NEW status \in Statuses
  PROVE  /\ update_job(j, status) \in Seq(Job)
         /\ Len(update_job(j, status)) = Len(jobs)
         /\ DOMAIN update_job(j, status) = DOMAIN jobs
         /\ \A i \in DOMAIN jobs :
              /\ update_job(j, status)[i].key = jobs[i].key
              /\ update_job(j, status)[i].user = jobs[i].user
              /\ i # j => update_job(j, status)[i] = jobs[i]
         /\ update_job(j, status)[j].status =
              IF jobs[j].status \in ACTIVE_STATUSES THEN status ELSE jobs[j].status
<1>0. \A i \in DOMAIN jobs : jobs[i] \in Job
  OBVIOUS
<1>1. CASE jobs[j].status \in ACTIVE_STATUSES
  <2> DEFINE row == [jobs[j] EXCEPT !.status = status]
  <2>1. update_job(j, status) = [jobs EXCEPT ![j] = row]
    BY <1>1 DEF update_job
  <2>2. row \in Job /\ row.status = status /\ row.key = jobs[j].key /\ row.user = jobs[j].user
    BY <1>0 DEF Job
  <2> HIDE DEF row
  <2> QED
    BY <2>1, <2>2, <1>0, <1>1
<1>2. CASE jobs[j].status \notin ACTIVE_STATUSES
  BY <1>2, <1>0 DEF update_job
<1> QED
  BY <1>1, <1>2

(* A step of worker w that leaves it in state s.                           *)
LEMMA WorkerFrame ==
  ASSUME TypeInv, NEW w \in Workers, NEW s \in {Idle, Down} \cup Working,
         wk' = [wk EXCEPT ![w] = s], DOMAIN jobs \subseteq DOMAIN jobs',
         s.pc \notin {"idle", "down"} => s.job \in DOMAIN jobs'
  PROVE  wk' \in [Workers -> {Idle, Down} \cup Working] /\ JobsExist'
BY DEF TypeInv, TypeOK, JobsExist

LEMMA ResolveTypes ==
  ASSUME TypeInv, NEW ch \in Chapters, NEW u \in Users
  PROVE  /\ resolve_narration_text(ch, u).target \in Target
         /\ resolve_narration_text(ch, u).text \in Texts
         /\ resolve_narration_text(ch, u).target.owner = Base
              => resolve_narration_text(ch, u).text
                   = <<"base", resolve_narration_text(ch, u).target.ver>>
<1>1. version[ch] \in 1..1 + Edits /\ version[ch] \in Nat
  BY NarrationAssumptions DEF TypeInv, TypeOK
<1>2. own[u][ch] \in Nat
  BY NarrationAssumptions DEF TypeInv, TypeOK
<1>3. u # Base
  BY NarrationAssumptions
<1>4. CASE own[u][ch] > 0
  <2>1. /\ resolve_narration_text(ch, u).target = [ch |-> ch, ver |-> version[ch], owner |-> u]
        /\ resolve_narration_text(ch, u).text = <<"own", own[u][ch]>>
    BY <1>4 DEF resolve_narration_text
  <2> QED
    BY <1>1, <1>2, <1>3, <2>1 DEF Target, Texts
<1>5. CASE ~(own[u][ch] > 0)
  <2>1. /\ resolve_narration_text(ch, u).target = [ch |-> ch, ver |-> version[ch], owner |-> Base]
        /\ resolve_narration_text(ch, u).text = <<"base", version[ch]>>
    BY <1>5 DEF resolve_narration_text
  <2> QED
    BY <1>1, <2>1 DEF Target, Texts
<1> QED
  BY <1>4, <1>5

LEMMA Bounds == Edits \in Nat /\ Faults \in Nat /\ MaxJobs \in Nat /\ Limit \in Nat
BY NarrationAssumptions

LEMMA Budget ==
  ASSUME TypeInv
  PROVE  /\ left.edits \in 0..Edits /\ left.faults \in 0..Faults
         /\ left.edits > 0 =>
              /\ [left EXCEPT !.edits = @ - 1] \in [edits : 0..Edits, faults : 0..Faults]
              /\ [left EXCEPT !.edits = @ - 1].edits = left.edits - 1
         /\ left.faults > 0 =>
              /\ [left EXCEPT !.faults = @ - 1] \in [edits : 0..Edits, faults : 0..Faults]
              /\ [left EXCEPT !.faults = @ - 1].edits = left.edits
<1>1. left \in [edits : 0..Edits, faults : 0..Faults]
  BY DEF TypeInv, TypeOK
<1>2. left.edits \in 0..Edits /\ left.faults \in 0..Faults
  BY <1>1
<1>3. left.edits > 0 => left.edits - 1 \in 0..Edits
  BY <1>2, Bounds
<1>4. left.faults > 0 => left.faults - 1 \in 0..Faults
  BY <1>2, Bounds
<1> QED
  BY <1>1, <1>2, <1>3, <1>4

LEMMA InitType ==
  ASSUME Init
  PROVE  TypeInv
<1>1. /\ version \in [Chapters -> 1..1 + Edits]
      /\ own \in [Users -> [Chapters -> 0..Edits]]
      /\ used \in [Users -> 0..Limit]
      /\ left \in [edits : 0..Edits, faults : 0..Faults]
  BY NarrationAssumptions DEF Init
<1>2. /\ jobs \in Seq(Job) /\ Len(jobs) <= MaxJobs
      /\ renders \in Seq([target : Target, text : {"base", "own"} \X Nat])
      /\ cached \subseteq Target
  BY NarrationAssumptions DEF Init
<1>3. files \in [Target -> [audio : Nat, manifest : Nat]]
  BY DEF Init
<1>4. wk \in [Workers -> {Idle, Down} \cup Working] /\ web \in [Users -> {Idle} \cup Request]
  BY DEF Init
<1>5. EditsFit
  BY NarrationAssumptions DEF Init, EditsFit
<1>6. JobsExist
  BY DEF Init, JobsExist, Down
<1> QED
  BY <1>1, <1>2, <1>3, <1>4, <1>5, <1>6 DEF TypeInv, TypeOK

(* The requests of readers and the edits of texts.                         *)
ReaderStep(u) ==
  \/ \E ch \in Chapters, force \in Forced : GenerateChapter(u, ch, force)
  \/ GenerateBook(u) \/ CreateJob(u)
  \/ \E ch \in Chapters : SaveOverlay(u, ch)

LEMMA ReaderType ==
  ASSUME TypeInv, NEW u \in Users, ReaderStep(u)
  PROVE  TypeInv'
<1>1. ASSUME NEW ch \in Chapters, NEW force \in Forced, GenerateChapter(u, ch, force)
      PROVE  TypeInv'
  <2> DEFINE t == resolve_narration_text(ch, u).target
             key == [scope |-> "chapter", target |-> t, force |-> force]
             r == [pc |-> "create", chapters |-> {ch}, key |-> key]
  <2>1. t \in Target
    BY ResolveTypes
  <2>2. key \in Keys
    BY <2>1, NarrationAssumptions DEF Keys
  <2>3. r \in Request
    BY <2>2 DEF Request
  <2>4. web' = [web EXCEPT ![u] = r]
    BY <1>1 DEF GenerateChapter
  <2> HIDE DEF r
  <2>5. web' \in [Users -> {Idle} \cup Request]
    BY <2>3, <2>4 DEF TypeInv, TypeOK
  <2> QED
    BY <1>1, <2>5 DEF GenerateChapter, TypeInv, TypeOK, EditsFit, JobsExist
<1>2. CASE GenerateBook(u)
  <2>1. PICK batch \in SUBSET Chapters :
          web' = [web EXCEPT ![u] = [pc |-> "create", chapters |-> batch, key |-> BookKey]]
    BY <1>2 DEF GenerateBook
  <2>2. [pc |-> "create", chapters |-> batch, key |-> BookKey] \in Request
    BY DEF BookKey, Keys, Request
  <2>3. web' \in [Users -> {Idle} \cup Request]
    BY <2>1, <2>2 DEF TypeInv, TypeOK
  <2> QED
    BY <1>2, <2>3 DEF GenerateBook, TypeInv, TypeOK, EditsFit, JobsExist
<1>3. CASE CreateJob(u)
  <2>1. web' \in [Users -> {Idle} \cup Request]
    BY <1>3 DEF CreateJob, TypeInv, TypeOK
  <2>2. web[u] \in Request
    BY <1>3 DEF CreateJob, TypeInv, TypeOK, Idle
  <2> DEFINE row == [user |-> u, key |-> web[u].key, chapters |-> web[u].chapters,
                     status |-> "queued"]
  <2>3. row \in Job
    BY <2>2 DEF Request, Job, Statuses, ACTIVE_STATUSES
  <2>4. \/ UNCHANGED jobs
        \/ jobs' = Append(jobs, row) /\ Len(jobs) < MaxJobs
    BY <1>3 DEF CreateJob
  <2>5. /\ jobs' \in Seq(Job) /\ Len(jobs') <= MaxJobs
        /\ DOMAIN jobs \subseteq DOMAIN jobs'
    <3>1. jobs \in Seq(Job) /\ Len(jobs) <= MaxJobs
      BY DEF TypeInv, TypeOK
    <3>2. CASE UNCHANGED jobs
      BY <3>1, <3>2
    <3>3. CASE jobs' = Append(jobs, row) /\ Len(jobs) < MaxJobs
      <4> HIDE DEF row
      <4> QED
        BY <3>1, <3>3, <2>3, Bounds
    <3> QED
      BY <2>4, <3>2, <3>3
  <2>6. JobsExist'
    BY <1>3, <2>5 DEF CreateJob, TypeInv, JobsExist
  <2> QED
    BY <1>3, <2>1, <2>5, <2>6 DEF CreateJob, TypeInv, TypeOK, EditsFit
<1>4. ASSUME NEW ch \in Chapters, SaveOverlay(u, ch)
      PROVE  TypeInv'
  <2>1. /\ left.edits \in 0..Edits /\ left.edits > 0
        /\ left' \in [edits : 0..Edits, faults : 0..Faults]
        /\ left'.edits = left.edits - 1
    BY <1>4, Budget DEF SaveOverlay
  <2>2. own[u][ch] \in 0..Edits /\ own[u][ch] + 1 \in 0..Edits
    <3>1. own[u][ch] \in 0..Edits /\ own[u][ch] + left.edits <= Edits
      BY DEF TypeInv, TypeOK, EditsFit
    <3> QED
      BY <2>1, <3>1, Bounds
  <2>3. /\ own' \in [Users -> [Chapters -> 0..Edits]]
        /\ \A x \in Users, c \in Chapters :
             own'[x][c] = IF x = u /\ c = ch THEN own[u][ch] + 1 ELSE own[x][c]
    BY <1>4, <2>2 DEF SaveOverlay, TypeInv, TypeOK
  <2>4. EditsFit'
    <3>1. ASSUME NEW x \in Users, NEW c \in Chapters PROVE own'[x][c] + left'.edits <= Edits
      <4>1. own[x][c] \in 0..Edits /\ own[x][c] + left.edits <= Edits
        BY DEF TypeInv, TypeOK, EditsFit
      <4>2. own[u][ch] + left.edits <= Edits
        BY DEF TypeInv, EditsFit
      <4> QED
        BY <2>1, <2>2, <2>3, <4>1, <4>2, NarrationAssumptions
    <3>2. ASSUME NEW c \in Chapters PROVE version'[c] + left'.edits <= 1 + Edits
      <4>1. version[c] \in 1..1 + Edits /\ version[c] + left.edits <= 1 + Edits
        BY DEF TypeInv, TypeOK, EditsFit
      <4>2. version' = version
        BY <1>4 DEF SaveOverlay
      <4> QED
        BY <2>1, <4>1, <4>2, NarrationAssumptions
    <3> QED
      BY <3>1, <3>2 DEF EditsFit
  <2> QED
    BY <1>4, <2>1, <2>3, <2>4 DEF SaveOverlay, TypeInv, TypeOK, JobsExist
<1> QED
  BY <1>1, <1>2, <1>3, <1>4 DEF ReaderStep

LEMMA EditType ==
  ASSUME TypeInv, NEW ch \in Chapters, EditBase(ch)
  PROVE  TypeInv'
<1>1. /\ left.edits \in 0..Edits /\ left.edits > 0
      /\ left' \in [edits : 0..Edits, faults : 0..Faults]
      /\ left'.edits = left.edits - 1
  BY Budget DEF EditBase
<1>2. version[ch] \in 1..1 + Edits /\ version[ch] + 1 \in 1..1 + Edits
  <2>1. version[ch] \in 1..1 + Edits /\ version[ch] + left.edits <= 1 + Edits
    BY DEF TypeInv, TypeOK, EditsFit
  <2> QED
    BY <1>1, <2>1, Bounds
<1>3. /\ version' \in [Chapters -> 1..1 + Edits]
      /\ \A c \in Chapters : version'[c] = IF c = ch THEN version[ch] + 1 ELSE version[c]
  BY <1>2 DEF EditBase, TypeInv, TypeOK
<1>4. ASSUME NEW c \in Chapters PROVE version'[c] + left'.edits <= 1 + Edits
  <2>1. version[c] \in 1..1 + Edits /\ version[c] + left.edits <= 1 + Edits
    BY DEF TypeInv, TypeOK, EditsFit
  <2> QED
    BY <1>1, <1>2, <1>3, <2>1, NarrationAssumptions
<1>5. ASSUME NEW u \in Users, NEW c \in Chapters PROVE own'[u][c] + left'.edits <= Edits
  <2>1. own[u][c] \in 0..Edits /\ own[u][c] + left.edits <= Edits /\ own' = own
    BY DEF TypeInv, TypeOK, EditsFit, EditBase
  <2> QED
    BY <1>1, <2>1, NarrationAssumptions
<1>6. EditsFit'
  BY <1>4, <1>5 DEF EditsFit
<1> QED
  BY <1>1, <1>3, <1>6 DEF EditBase, TypeInv, TypeOK, JobsExist

(* A fault is spent: nothing that the edits are counted by changes.        *)
LEMMA FaultFrame ==
  ASSUME TypeInv, left.faults > 0, left' = [left EXCEPT !.faults = @ - 1],
         UNCHANGED <<version, own>>
  PROVE  left' \in [edits : 0..Edits, faults : 0..Faults] /\ EditsFit'
<1>1. left' \in [edits : 0..Edits, faults : 0..Faults] /\ left'.edits = left.edits
  BY Budget
<1> QED
  BY <1>1 DEF TypeInv, EditsFit

LEMMA CancelType ==
  ASSUME TypeInv, NEW j \in DOMAIN jobs, CancelJob(j)
  PROVE  TypeInv'
<1>1. /\ jobs' \in Seq(Job) /\ Len(jobs') <= MaxJobs /\ DOMAIN jobs' = DOMAIN jobs
  BY UpdateJob DEF CancelJob, TypeInv, TypeOK, Statuses
<1>2. left' \in [edits : 0..Edits, faults : 0..Faults] /\ EditsFit'
  BY FaultFrame DEF CancelJob
<1> QED
  BY <1>1, <1>2 DEF CancelJob, TypeInv, TypeOK, JobsExist

(* The steps of a worker that may change the queue.                        *)
LEMMA QueueType ==
  ASSUME TypeInv, NEW w \in Workers,
         \/ Start(w) \/ (\E j \in DOMAIN jobs : Claim(w, j)) \/ Begin(w) \/ FinishJob(w)
         \/ EnterTarget(w) \/ JobFails(w) \/ Crash(w)
  PROVE  TypeInv'
<1>0. /\ jobs \in Seq(Job) /\ Len(jobs) <= MaxJobs /\ DOMAIN jobs \subseteq 1..MaxJobs
      /\ wk[w] \in {Idle, Down} \cup Working
      /\ Idle.pc = "idle" /\ Down.pc = "down"
  BY Bounds DEF TypeInv, TypeOK, Idle, Down
<1>1. CASE Start(w)
  <2>1. ASSUME NEW j \in DOMAIN jobs
        PROVE  (IF jobs[j].status = "generating" THEN [jobs[j] EXCEPT !.status = "queued"]
                ELSE jobs[j]) \in Job
    <3>1. jobs[j] \in Job
      BY <1>0
    <3> QED
      BY <3>1 DEF Job, Statuses, ACTIVE_STATUSES
  <2>2. jobs' \in Seq(Job) /\ Len(jobs') = Len(jobs) /\ DOMAIN jobs' = DOMAIN jobs
    BY <1>0, <1>1, <2>1 DEF Start
  <2>3. wk' \in [Workers -> {Idle, Down} \cup Working] /\ JobsExist'
    BY <1>0, <1>1, <2>2, WorkerFrame DEF Start
  <2> QED
    BY <1>1, <2>2, <2>3 DEF Start, TypeInv, TypeOK, EditsFit
<1>2. ASSUME NEW j \in DOMAIN jobs, Claim(w, j)
      PROVE  TypeInv'
  <2> DEFINE s == [pc |-> "claimed", job |-> j, todo |-> jobs[j].chapters]
             row == [jobs[j] EXCEPT !.status = "generating"]
  <2>1. jobs[j] \in Job
    BY <1>0
  <2>2. row \in Job
    BY <2>1 DEF Job, Statuses, ACTIVE_STATUSES
  <2>3. s \in Working /\ s.job = j
    BY <1>0, <2>1, WorkerStates DEF Job
  <2>4. jobs' = [jobs EXCEPT ![j] = row] /\ wk' = [wk EXCEPT ![w] = s]
    BY <1>2 DEF Claim
  <2> HIDE DEF s, row
  <2>5. jobs' \in Seq(Job) /\ Len(jobs') = Len(jobs) /\ DOMAIN jobs' = DOMAIN jobs
    BY <1>0, <2>2, <2>4
  <2>6. wk' \in [Workers -> {Idle, Down} \cup Working] /\ JobsExist'
    BY <2>3, <2>4, <2>5, WorkerFrame
  <2> QED
    BY <1>2, <2>5, <2>6 DEF Claim, TypeInv, TypeOK, EditsFit
<1>3. ASSUME wk[w].pc \notin {"idle", "down"}
      PROVE  /\ wk[w].job \in DOMAIN jobs /\ wk[w].job \in 1..MaxJobs
             /\ wk[w] \in Working /\ wk[w].todo \in SUBSET Chapters
  BY <1>0, <1>3, WorkerFields DEF TypeInv, JobsExist
<1>4. ASSUME wk[w].pc \notin {"idle", "down"}, NEW status \in Statuses,
             jobs' = jobs \/ jobs' = update_job(wk[w].job, status)
      PROVE  jobs' \in Seq(Job) /\ Len(jobs') <= MaxJobs /\ DOMAIN jobs' = DOMAIN jobs
  BY <1>0, <1>3, <1>4, UpdateJob
<1>5. CASE Begin(w)
  <2>1. jobs' \in Seq(Job) /\ Len(jobs') <= MaxJobs /\ DOMAIN jobs' = DOMAIN jobs
    BY <1>4, <1>5 DEF Begin, Statuses, ACTIVE_STATUSES
  <2> DEFINE s == [wk[w] EXCEPT !.pc = "next"]
  <2>2. s \in Working /\ s.job = wk[w].job
    BY <1>3, <1>5, BetweenMoves DEF Begin
  <2>3. wk' = [wk EXCEPT ![w] = Idle] \/ wk' = [wk EXCEPT ![w] = s]
    BY <1>5 DEF Begin
  <2> HIDE DEF s
  <2>4. wk' \in [Workers -> {Idle, Down} \cup Working] /\ JobsExist'
    BY <1>0, <1>3, <1>5, <2>1, <2>2, <2>3, WorkerFrame DEF Begin
  <2> QED
    BY <1>5, <2>1, <2>4 DEF Begin, TypeInv, TypeOK, EditsFit
<1>6. CASE FinishJob(w)
  <2>1. jobs' \in Seq(Job) /\ Len(jobs') <= MaxJobs /\ DOMAIN jobs' = DOMAIN jobs
    BY <1>4, <1>6 DEF FinishJob, Statuses
  <2>2. wk' \in [Workers -> {Idle, Down} \cup Working] /\ JobsExist'
    BY <1>0, <1>6, <2>1, WorkerFrame DEF FinishJob
  <2> QED
    BY <1>6, <2>1, <2>2 DEF FinishJob, TypeInv, TypeOK, EditsFit
<1>7. CASE EnterTarget(w)
  <2>1. jobs' \in Seq(Job) /\ Len(jobs') <= MaxJobs /\ DOMAIN jobs' = DOMAIN jobs
    BY <1>4, <1>7 DEF EnterTarget, Statuses
  <2> DEFINE n == [pc |-> "next", job |-> wk[w].job, todo |-> wk[w].todo]
             s == [wk[w] EXCEPT !.pc = "narrate"]
  <2>2. n \in Working /\ n.job = wk[w].job
    BY <1>3, <1>7, WorkerStates DEF EnterTarget
  <2>3. s \in Working /\ s.job = wk[w].job
    BY <1>3, <1>7, MakingMoves DEF EnterTarget, Locking
  <2>4. \/ wk' = [wk EXCEPT ![w] = n]
        \/ wk' = [wk EXCEPT ![w] = s]
        \/ wk' = [wk EXCEPT ![w] = Idle]
    BY <1>7 DEF EnterTarget
  <2> HIDE DEF n, s
  <2>5. wk' \in [Workers -> {Idle, Down} \cup Working] /\ JobsExist'
    BY <1>0, <1>3, <1>7, <2>1, <2>2, <2>3, <2>4, WorkerFrame DEF EnterTarget
  <2>6. used' \in [Users -> 0..Limit]
    <3>1. used \in [Users -> 0..Limit]
      BY DEF TypeInv, TypeOK
    <3>2. \/ used' = used
          \/ \E u \in Users : used[u] + 1 <= Limit /\ used' = [used EXCEPT ![u] = used[u] + 1]
      <4>1. jobs[wk[w].job] \in Job
        BY <1>0, <1>3, <1>7 DEF EnterTarget
      <4>2. jobs[wk[w].job].user \in Users
        BY <4>1 DEF Job
      <4> QED
        BY <1>7, <4>2 DEF EnterTarget, Affordable
    <3> QED
      BY <3>1, <3>2, Bounds
  <2> QED
    BY <1>7, <2>1, <2>5, <2>6 DEF EnterTarget, TypeInv, TypeOK, EditsFit
<1>8. CASE JobFails(w)
  <2>1. jobs' \in Seq(Job) /\ Len(jobs') <= MaxJobs /\ DOMAIN jobs' = DOMAIN jobs
    BY <1>4, <1>8 DEF JobFails, Statuses
  <2>2. wk' \in [Workers -> {Idle, Down} \cup Working] /\ JobsExist'
    BY <1>0, <1>8, <2>1, WorkerFrame DEF JobFails
  <2>3. left' \in [edits : 0..Edits, faults : 0..Faults] /\ EditsFit'
    BY <1>8, FaultFrame DEF JobFails
  <2> QED
    BY <1>8, <2>1, <2>2, <2>3 DEF JobFails, TypeInv, TypeOK
<1>9. CASE Crash(w)
  <2>1. wk' \in [Workers -> {Idle, Down} \cup Working] /\ JobsExist'
    BY <1>0, <1>9, WorkerFrame DEF Crash
  <2>2. left' \in [edits : 0..Edits, faults : 0..Faults] /\ EditsFit'
    BY <1>9, FaultFrame DEF Crash
  <2> QED
    BY <1>9, <2>1, <2>2 DEF Crash, TypeInv, TypeOK
<1> QED
  BY <1>1, <1>2, <1>5, <1>6, <1>7, <1>8, <1>9

(* The steps that make one chapter's audio.                                *)
MakingStep(w) ==
  \/ NextChapter(w) \/ Narrate(w) \/ UnlinkManifest(w) \/ ReplaceAudio(w)
  \/ PublishManifest(w) \/ UpsertAudio(w)

(* Where each of them leads.                                               *)
LEMMA NextChapterMove ==
  ASSUME TypeInv, NEW w \in Workers, NextChapter(w)
  PROVE  /\ wk[w].pc = "next" /\ wk[w].job \in DOMAIN jobs
         /\ \E s \in {Idle} \cup Working :
              /\ wk' = [wk EXCEPT ![w] = s]
              /\ \/ s = Idle /\ jobs[wk[w].job].status = "canceled"
                 \/ s.pc = "next" /\ s.job = wk[w].job
                 \/ /\ s.pc = "resolved" /\ s.job = wk[w].job
                    /\ s.target.owner = Base => s.text = <<"base", s.target.ver>>
<1>0. /\ wk[w].pc = "next" /\ wk[w].job \in DOMAIN jobs /\ wk[w].job \in 1..MaxJobs
      /\ wk[w] \in Working /\ wk[w].todo \in SUBSET Chapters
  BY WorkerFields DEF NextChapter, TypeInv, TypeOK, JobsExist
<1>1. jobs[wk[w].job].user \in Users
  <2>1. jobs[wk[w].job] \in Job
    BY <1>0 DEF TypeInv, TypeOK
  <2> QED
    BY <2>1 DEF Job
<1> DEFINE j == wk[w].job
           u == jobs[j].user
           Rest(ch) == wk[w].todo \ {ch}
           Info(ch) == resolve_narration_text(ch, u)
           Found(ch) == [pc |-> "resolved", job |-> j, todo |-> Rest(ch),
                         target |-> Info(ch).target, text |-> Info(ch).text,
                         render |-> 0, timed |-> FALSE]
<1>2. PICK ch \in wk[w].todo :
        \/ jobs[j].status = "canceled" /\ wk' = [wk EXCEPT ![w] = Idle]
        \/ wk' = [wk EXCEPT ![w] = Found(ch)]
        \/ wk' = [wk EXCEPT ![w] = [wk[w] EXCEPT !.todo = Rest(ch)]]
  BY DEF NextChapter
<1>3. ch \in Chapters /\ Rest(ch) \in SUBSET Chapters
  BY <1>0
<1>4. /\ Found(ch) \in Working /\ Found(ch).pc = "resolved" /\ Found(ch).job = j
      /\ Found(ch).target.owner = Base => Found(ch).text = <<"base", Found(ch).target.ver>>
  <2>1. /\ Info(ch).target \in Target /\ Info(ch).text \in Texts
        /\ Info(ch).target.owner = Base => Info(ch).text = <<"base", Info(ch).target.ver>>
    BY <1>1, <1>3, ResolveTypes
  <2>2. Found(ch) \in Working
    BY <1>0, <1>3, <2>1, WorkerStates
  <2> QED
    BY <2>1, <2>2
<1>5. LET s == [wk[w] EXCEPT !.todo = Rest(ch)] IN
        s \in Working /\ s.pc = "next" /\ s.job = j
  BY <1>0, <1>3, BetweenMoves
<1> HIDE DEF Found, Rest
<1> QED
  BY <1>0, <1>2, <1>4, <1>5

LEMMA PublishMove ==
  ASSUME TypeInv, NEW w \in Workers, NEW pc \in Locking,
         wk[w].pc \in Locking, wk' = [wk EXCEPT ![w].pc = pc]
  PROVE  \E s \in Working :
           /\ wk' = [wk EXCEPT ![w] = s] /\ s.pc = pc /\ s.job = wk[w].job
           /\ s.target = wk[w].target /\ s.text = wk[w].text /\ s.render = wk[w].render
<1>1. wk[w] \in Working
  BY WorkerFields DEF TypeInv, TypeOK, Locking
<1> DEFINE s == [wk[w] EXCEPT !.pc = pc]
<1>2. /\ s \in Working /\ s.pc = pc /\ s.job = wk[w].job
      /\ s.target = wk[w].target /\ s.text = wk[w].text /\ s.render = wk[w].render
  BY <1>1, MakingMoves
<1>3. wk' = [wk EXCEPT ![w] = s]
  OBVIOUS
<1> QED
  BY <1>2, <1>3

LEMMA NarrateMove ==
  ASSUME TypeInv, NEW w \in Workers, Narrate(w)
  PROVE  \E s \in Working :
           /\ wk' = [wk EXCEPT ![w] = s] /\ s.pc = "unlink" /\ s.job = wk[w].job
           /\ s.target = wk[w].target /\ s.text = wk[w].text /\ s.render = Len(renders) + 1
<1>1. wk[w] \in Working /\ wk[w].pc = "narrate"
  BY WorkerFields DEF Narrate, TypeInv, TypeOK
<1>2. Len(renders) + 1 \in Nat
  BY DEF TypeInv, TypeOK
<1> DEFINE s(timed) == [wk[w] EXCEPT !.pc = "unlink", !.render = Len(renders) + 1, !.timed = timed]
<1>3. PICK timed \in BOOLEAN : wk' = [wk EXCEPT ![w] = s(timed)]
  BY DEF Narrate
<1>4. wk[w] \in Making
  BY <1>1, WorkingIsEither DEF Locking
<1>5. /\ s(timed) \in Making /\ s(timed).pc = "unlink" /\ s(timed).job = wk[w].job
      /\ s(timed).target = wk[w].target /\ s(timed).text = wk[w].text
      /\ s(timed).render = Len(renders) + 1
  BY <1>2, <1>4 DEF Making
<1>6. s(timed) \in Working
  BY <1>5, WorkingIsEither
<1> HIDE DEF s
<1> QED
  BY <1>3, <1>5, <1>6

LEMMA UpsertMove ==
  ASSUME TypeInv, NEW w \in Workers, UpsertAudio(w)
  PROVE  \E s \in Working : wk' = [wk EXCEPT ![w] = s] /\ s.pc = "next" /\ s.job = wk[w].job
<1>1. wk[w].job \in 1..MaxJobs /\ wk[w].todo \in SUBSET Chapters
  BY WorkerFields DEF UpsertAudio, TypeInv, TypeOK
<1> DEFINE s == [pc |-> "next", job |-> wk[w].job, todo |-> wk[w].todo]
<1>2. s \in Working /\ s.pc = "next" /\ s.job = wk[w].job
  BY <1>1, WorkerStates
<1>3. wk' = [wk EXCEPT ![w] = s]
  BY DEF UpsertAudio
<1> QED
  BY <1>2, <1>3

LEMMA MakingType ==
  ASSUME TypeInv, NEW w \in Workers, MakingStep(w)
  PROVE  TypeInv'
<1>0. /\ files \in [Target -> [audio : Nat, manifest : Nat]]
      /\ renders \in Seq([target : Target, text : {"base", "own"} \X Nat])
      /\ Idle \in {Idle, Down} \cup Working /\ Idle.pc = "idle"
      /\ Len(renders) \in Nat
  BY DEF TypeInv, TypeOK, Idle
<1>1. CASE NextChapter(w)
  <2>1. wk' \in [Workers -> {Idle, Down} \cup Working] /\ JobsExist'
    <3>1. jobs' = jobs
      BY <1>1 DEF NextChapter
    <3> QED
      BY <1>0, <1>1, <3>1, NextChapterMove, WorkerFrame
  <2> QED
    BY <1>1, <2>1 DEF NextChapter, TypeInv, TypeOK, EditsFit
<1>2. ASSUME wk[w].pc \in Locking
      PROVE  /\ wk[w].job \in DOMAIN jobs /\ wk[w].target \in Target
             /\ wk[w].text \in Texts /\ wk[w].render \in Nat
  BY <1>2, WorkerFields DEF TypeInv, TypeOK, JobsExist, Locking
<1>3. CASE Narrate(w)
  <2> DEFINE r == [target |-> wk[w].target, text |-> wk[w].text]
  <2>1. r \in [target : Target, text : {"base", "own"} \X Nat]
    BY <1>2, <1>3 DEF Narrate, Locking, Texts
  <2>2. renders' = Append(renders, r)
    BY <1>3 DEF Narrate
  <2> HIDE DEF r
  <2>3. /\ renders' \in Seq([target : Target, text : {"base", "own"} \X Nat])
        /\ Len(renders') = Len(renders) + 1
    BY <1>0, <2>1, <2>2
  <2>4. wk' \in [Workers -> {Idle, Down} \cup Working] /\ JobsExist'
    <3>1. jobs' = jobs /\ wk[w].job \in DOMAIN jobs
      BY <1>2, <1>3 DEF Narrate, Locking
    <3> QED
      BY <1>3, <3>1, NarrateMove, WorkerFrame
  <2> QED
    BY <1>3, <2>3, <2>4 DEF Narrate, TypeInv, TypeOK, EditsFit
<1>4. CASE UpsertAudio(w)
  <2>1. wk' \in [Workers -> {Idle, Down} \cup Working] /\ JobsExist'
    <3>1. jobs' = jobs /\ wk[w].job \in DOMAIN jobs
      BY <1>2, <1>4 DEF UpsertAudio, Locking
    <3> QED
      BY <1>4, <3>1, UpsertMove, WorkerFrame
  <2>2. cached' \subseteq Target
    BY <1>2, <1>4 DEF UpsertAudio, Locking, TypeInv, TypeOK
  <2> QED
    BY <1>4, <2>1, <2>2 DEF UpsertAudio, TypeInv, TypeOK, EditsFit
<1>5. ASSUME NEW pc \in Locking, wk[w].pc \in Locking,
             wk' = [wk EXCEPT ![w].pc = pc], jobs' = jobs
      PROVE  wk' \in [Workers -> {Idle, Down} \cup Working] /\ JobsExist'
  <2>1. wk[w].job \in DOMAIN jobs
    BY <1>2, <1>5
  <2> QED
    BY <1>5, <2>1, PublishMove, WorkerFrame
<1>6. ASSUME NEW t \in Target, NEW n \in Nat,
             \/ files' = [files EXCEPT ![t].audio = n]
             \/ files' = [files EXCEPT ![t].manifest = n]
      PROVE  files' \in [Target -> [audio : Nat, manifest : Nat]]
  BY <1>0, <1>6
<1>7. CASE UnlinkManifest(w)
  <2>1. files' \in [Target -> [audio : Nat, manifest : Nat]]
    BY <1>2, <1>6, <1>7 DEF UnlinkManifest, Locking
  <2>2. wk' \in [Workers -> {Idle, Down} \cup Working] /\ JobsExist'
    BY <1>5, <1>7 DEF UnlinkManifest, Locking
  <2> QED
    BY <1>7, <2>1, <2>2 DEF UnlinkManifest, TypeInv, TypeOK, EditsFit
<1>8. CASE ReplaceAudio(w)
  <2>1. files' \in [Target -> [audio : Nat, manifest : Nat]]
    BY <1>2, <1>6, <1>8 DEF ReplaceAudio, Locking
  <2>2. wk' \in [Workers -> {Idle, Down} \cup Working] /\ JobsExist'
    <3>1. (IF wk[w].timed THEN "manifest" ELSE "upsert") \in Locking
      BY DEF Locking
    <3> QED
      BY <1>5, <1>8, <3>1 DEF ReplaceAudio, Locking
  <2> QED
    BY <1>8, <2>1, <2>2 DEF ReplaceAudio, TypeInv, TypeOK, EditsFit
<1>9. CASE PublishManifest(w)
  <2>1. files' \in [Target -> [audio : Nat, manifest : Nat]]
    BY <1>2, <1>6, <1>9 DEF PublishManifest, Locking
  <2>2. wk' \in [Workers -> {Idle, Down} \cup Working] /\ JobsExist'
    BY <1>5, <1>9 DEF PublishManifest, Locking
  <2> QED
    BY <1>9, <2>1, <2>2 DEF PublishManifest, TypeInv, TypeOK, EditsFit
<1> QED
  BY <1>1, <1>3, <1>4, <1>7, <1>8, <1>9 DEF MakingStep

LEMMA NextCases ==
  ASSUME Next
  PROVE  \/ \E u \in Users : ReaderStep(u)
         \/ \E j \in DOMAIN jobs : CancelJob(j)
         \/ \E ch \in Chapters : EditBase(ch)
         \/ \E w \in Workers :
              \/ Start(w) \/ (\E j \in DOMAIN jobs : Claim(w, j)) \/ Begin(w) \/ FinishJob(w)
              \/ EnterTarget(w) \/ JobFails(w) \/ Crash(w)
              \/ MakingStep(w)
BY DEF Next, ReaderStep, WorkerStep, MakingStep

LEMMA TypeStep ==
  ASSUME TypeInv, [Next]_vars
  PROVE  TypeInv'
<1>1. CASE Next
  BY <1>1, NextCases, ReaderType, CancelType, EditType, QueueType, MakingType
<1>2. CASE UNCHANGED vars
  BY <1>2 DEF vars, TypeInv, TypeOK, EditsFit, JobsExist
<1> QED
  BY <1>1, <1>2

LEMMA TypeInvariant == Spec => []TypeInv
BY InitType, TypeStep, PTL DEF Spec

(* The tables, the files and the local states of requests and workers keep *)
(* their types: quotas, versions and the queue within their bounds.        *)
THEOREM TypeCorrect == Spec => []TypeOK
<1>1. TypeInv => TypeOK
  BY DEF TypeInv
<1> QED
  BY <1>1, TypeInvariant, PTL

----------------------------------------------------------------------------
(* The audio on disk.                                                      *)

LEMMA InitAudio ==
  ASSUME Init
  PROVE  AudioInv
<1>1. \A w \in Workers : wk[w].pc = "down"
  BY DEF Init, Down
<1>2. \A t \in Target : files[t].audio = 0 /\ files[t].manifest = 0
  BY DEF Init
<1>3. cached = {}
  BY DEF Init
<1> QED
  BY <1>1, <1>2, <1>3
     DEF AudioInv, TargetsDiffer, WorkersHaveTheirText, PublicationInOrder, FilesHaveTheirText,
         ManifestDescribesAudio, CachedHasAudio, Locking, Rendered

(* A worker goes where it makes nothing, and leaves the files as they are. *)
LEMMA AudioLeave ==
  ASSUME TypeInv, AudioInv, NEW w \in Workers, NEW s, wk' = [wk EXCEPT ![w] = s],
         s.pc \notin Locking \cup {"resolved"}, UNCHANGED <<files, renders>>
  PROVE  /\ TargetsDiffer' /\ WorkersHaveTheirText' /\ PublicationInOrder'
         /\ FilesHaveTheirText' /\ ManifestDescribesAudio'
<1>1. wk'[w] = s /\ \A x \in Workers : x # w => wk'[x] = wk[x]
  BY DEF TypeInv, TypeOK
<1>2. TargetsDiffer'
  BY <1>1 DEF AudioInv, TargetsDiffer
<1>3. WorkersHaveTheirText'
  BY <1>1 DEF AudioInv, WorkersHaveTheirText, Rendered, Locking
<1>4. PublicationInOrder'
  BY <1>1 DEF AudioInv, PublicationInOrder, Locking
<1>5. FilesHaveTheirText' /\ ManifestDescribesAudio'
  BY DEF AudioInv, FilesHaveTheirText, ManifestDescribesAudio
<1> QED
  BY <1>2, <1>3, <1>4, <1>5

(* The requests of readers, cancels and edits of texts.                    *)
LEMMA AudioReaders ==
  ASSUME AudioInv, UNCHANGED <<wk, files, renders, cached>>
  PROVE  AudioInv'
BY DEF AudioInv, TargetsDiffer, WorkersHaveTheirText, PublicationInOrder, FilesHaveTheirText,
       ManifestDescribesAudio, CachedHasAudio

(* Taking the lock of a target that no worker has.                         *)
LEMMA AudioEnter ==
  ASSUME TypeInv, AudioInv, NEW w \in Workers, EnterTarget(w)
  PROVE  AudioInv'
<1>0. UNCHANGED <<files, renders, cached>> /\ CachedHasAudio'
  BY DEF EnterTarget, AudioInv, CachedHasAudio
<1>1. CASE wk' = [wk EXCEPT ![w].pc = "narrate"]
  <2> DEFINE s == [wk[w] EXCEPT !.pc = "narrate"]
  <2>1. /\ wk[w] \in Working /\ wk[w].pc = "resolved"
    BY WorkerFields DEF EnterTarget, TypeInv, TypeOK
  <2>2. /\ s.pc = "narrate" /\ s.target = wk[w].target /\ s.text = wk[w].text
    BY <2>1, MakingMoves DEF Locking
  <2>3. wk'[w] = s /\ \A x \in Workers : x # w => wk'[x] = wk[x]
    BY <1>1 DEF TypeInv, TypeOK
  <2> HIDE DEF s
  <2>4. TargetsDiffer'
    <3>1. \A x \in Workers : wk[x].pc \in Locking => wk[x].target # wk[w].target
      BY DEF EnterTarget, TargetLocked, Locking
    <3> QED
      BY <2>2, <2>3, <3>1 DEF AudioInv, TargetsDiffer
  <2>5. WorkersHaveTheirText'
    BY <1>0, <2>1, <2>2, <2>3 DEF AudioInv, WorkersHaveTheirText, Rendered, Locking
  <2>6. PublicationInOrder'
    BY <1>0, <2>2, <2>3 DEF AudioInv, PublicationInOrder
  <2>7. FilesHaveTheirText' /\ ManifestDescribesAudio'
    BY <1>0 DEF AudioInv, FilesHaveTheirText, ManifestDescribesAudio
  <2> QED
    BY <1>0, <2>4, <2>5, <2>6, <2>7 DEF AudioInv
<1>2. CASE wk' = [wk EXCEPT ![w] = [pc |-> "next", job |-> wk[w].job, todo |-> wk[w].todo]]
  BY <1>0, <1>2, AudioLeave DEF AudioInv, Locking
<1>3. CASE wk' = [wk EXCEPT ![w] = Idle]
  BY <1>0, <1>3, AudioLeave DEF AudioInv, Locking, Idle
<1> QED
  BY <1>1, <1>2, <1>3 DEF EnterTarget

(* The text the requester reads now.                                       *)
LEMMA AudioNext ==
  ASSUME TypeInv, AudioInv, NEW w \in Workers, NextChapter(w)
  PROVE  AudioInv'
<1>0. UNCHANGED <<files, renders, cached>> /\ CachedHasAudio'
  BY DEF NextChapter, AudioInv, CachedHasAudio
<1>1. PICK s \in {Idle} \cup Working :
        /\ wk' = [wk EXCEPT ![w] = s]
        /\ \/ s = Idle
           \/ s.pc = "next"
           \/ s.pc = "resolved" /\ (s.target.owner = Base => s.text = <<"base", s.target.ver>>)
  BY NextChapterMove
<1>2. CASE s = Idle \/ s.pc = "next"
  BY <1>0, <1>1, <1>2, AudioLeave DEF AudioInv, Locking, Idle
<1>3. CASE s.pc = "resolved" /\ (s.target.owner = Base => s.text = <<"base", s.target.ver>>)
  <2>1. wk'[w] = s /\ \A x \in Workers : x # w => wk'[x] = wk[x]
    BY <1>1 DEF TypeInv, TypeOK
  <2>2. TargetsDiffer'
    BY <1>3, <2>1 DEF AudioInv, TargetsDiffer, Locking
  <2>3. WorkersHaveTheirText'
    BY <1>0, <1>3, <2>1 DEF AudioInv, WorkersHaveTheirText, Rendered
  <2>4. PublicationInOrder'
    BY <1>0, <1>3, <2>1 DEF AudioInv, PublicationInOrder
  <2>5. FilesHaveTheirText' /\ ManifestDescribesAudio'
    BY <1>0 DEF AudioInv, FilesHaveTheirText, ManifestDescribesAudio
  <2> QED
    BY <1>0, <2>2, <2>3, <2>4, <2>5 DEF AudioInv
<1> QED
  BY <1>1, <1>2, <1>3

(* The sidecar's answer is one more render; those before it stay.          *)
LEMMA AudioNarrate ==
  ASSUME TypeInv, AudioInv, NEW w \in Workers, Narrate(w)
  PROVE  AudioInv'
<1>1. PICK s \in Working :
        /\ wk' = [wk EXCEPT ![w] = s] /\ s.pc = "unlink"
        /\ s.target = wk[w].target /\ s.text = wk[w].text /\ s.render = Len(renders) + 1
  BY NarrateMove
<1>2. wk'[w] = s /\ \A x \in Workers : x # w => wk'[x] = wk[x]
  BY <1>1 DEF TypeInv, TypeOK
<1>3. /\ Len(renders) + 1 \in DOMAIN renders'
      /\ renders'[Len(renders) + 1].text = wk[w].text
      /\ \A n \in DOMAIN renders : n \in DOMAIN renders' /\ renders'[n] = renders[n]
  <2> DEFINE r == [target |-> wk[w].target, text |-> wk[w].text]
  <2>1. renders' = Append(renders, r) /\ renders \in Seq([target : Target, text : {"base", "own"} \X Nat])
    BY DEF Narrate, TypeInv, TypeOK
  <2>2. r.text = wk[w].text
    OBVIOUS
  <2> HIDE DEF r
  <2> QED
    BY <2>1, <2>2
<1>4. wk[w].pc = "narrate" /\ UNCHANGED <<files, cached>>
  BY DEF Narrate
<1>5. TargetsDiffer'
  BY <1>1, <1>2, <1>4 DEF AudioInv, TargetsDiffer, Locking
<1>6. WorkersHaveTheirText'
  BY <1>1, <1>2, <1>3, <1>4 DEF AudioInv, WorkersHaveTheirText, Rendered, Locking
<1>7. PublicationInOrder'
  BY <1>1, <1>2, <1>4 DEF AudioInv, PublicationInOrder
<1>8. FilesHaveTheirText'
  BY <1>3, <1>4 DEF AudioInv, FilesHaveTheirText
<1>9. ManifestDescribesAudio' /\ CachedHasAudio'
  BY <1>4 DEF AudioInv, ManifestDescribesAudio, CachedHasAudio
<1> QED
  BY <1>5, <1>6, <1>7, <1>8, <1>9 DEF AudioInv

(* The three steps of a publication write to the files of one target, whose *)
(* lock the worker has.                                                     *)
LEMMA AudioPublish ==
  ASSUME TypeInv, AudioInv, NEW w \in Workers,
         UnlinkManifest(w) \/ ReplaceAudio(w) \/ PublishManifest(w)
  PROVE  AudioInv'
<1> DEFINE t == wk[w].target
<1>0. /\ wk[w].pc \in Locking /\ t \in Target /\ wk[w].render \in Nat
      /\ files \in [Target -> [audio : Nat, manifest : Nat]]
      /\ UNCHANGED <<renders, cached>>
  <2>1. wk[w].pc \in Locking
    BY DEF UnlinkManifest, ReplaceAudio, PublishManifest, Locking
  <2> QED
    BY <2>1, WorkerFields DEF UnlinkManifest, ReplaceAudio, PublishManifest, TypeInv, TypeOK
<1>1. PICK s \in Working :
        /\ wk' = [wk EXCEPT ![w] = s] /\ s.pc \in {"replace", "manifest", "upsert"}
        /\ UnlinkManifest(w) => s.pc = "replace"
        /\ ReplaceAudio(w) => s.pc \in {"manifest", "upsert"}
        /\ PublishManifest(w) => s.pc = "upsert"
        /\ s.target = t /\ s.text = wk[w].text /\ s.render = wk[w].render
  <2>1. CASE UnlinkManifest(w)
    <3>1. wk[w].pc = "unlink" /\ wk' = [wk EXCEPT ![w].pc = "replace"]
      BY <2>1 DEF UnlinkManifest
    <3>2. "replace" \in Locking /\ wk[w].pc \in Locking
      BY <3>1 DEF Locking
    <3>3. ~ReplaceAudio(w) /\ ~PublishManifest(w)
      BY <3>1 DEF ReplaceAudio, PublishManifest
    <3>4. PICK s \in Working :
            /\ wk' = [wk EXCEPT ![w] = s] /\ s.pc = "replace"
            /\ s.target = t /\ s.text = wk[w].text /\ s.render = wk[w].render
      <4>1. wk' = [wk EXCEPT ![w].pc = "replace"]
        BY <3>1
      <4>2. \E s \in Working :
              /\ wk' = [wk EXCEPT ![w] = s] /\ s.pc = "replace" /\ s.job = wk[w].job
              /\ s.target = wk[w].target /\ s.text = wk[w].text /\ s.render = wk[w].render
        BY <3>2, <4>1, PublishMove, Zenon
      <4> QED
        BY <4>2
    <3> QED
      BY <3>3, <3>4, Zenon
  <2>2. CASE ReplaceAudio(w)
    <3>1. wk[w].pc = "replace"
      BY <2>2 DEF ReplaceAudio
    <3>2. PICK pc \in Locking : wk' = [wk EXCEPT ![w].pc = pc] /\ pc \in {"manifest", "upsert"}
      BY <2>2 DEF ReplaceAudio, Locking
    <3>3. wk[w].pc \in Locking
      BY <3>1 DEF Locking
    <3>4. PICK s \in Working :
            /\ wk' = [wk EXCEPT ![w] = s] /\ s.pc = pc /\ s.job = wk[w].job
            /\ s.target = wk[w].target /\ s.text = wk[w].text /\ s.render = wk[w].render
      BY <3>2, <3>3, PublishMove
    <3>5. ~UnlinkManifest(w) /\ ~PublishManifest(w)
      BY <3>1 DEF UnlinkManifest, PublishManifest
    <3> QED
      BY <3>2, <3>4, <3>5
  <2>3. CASE PublishManifest(w)
    <3>1. wk[w].pc = "manifest" /\ wk' = [wk EXCEPT ![w].pc = "upsert"]
      BY <2>3 DEF PublishManifest
    <3> QED
      BY <3>1, PublishMove DEF Locking, ReplaceAudio, UnlinkManifest
  <2> QED
    BY <2>1, <2>2, <2>3
<1>2. wk'[w] = s /\ \A x \in Workers : x # w => wk'[x] = wk[x]
  BY <1>1 DEF TypeInv, TypeOK
<1>3. \A x \in Workers : x # w /\ wk[x].pc \in Locking => wk[x].target # t
  BY <1>0 DEF AudioInv, TargetsDiffer
<1>4. TargetsDiffer'
  BY <1>0, <1>1, <1>2, <1>3 DEF AudioInv, TargetsDiffer
<1>5. WorkersHaveTheirText'
  <2>1. wk[w].pc \in Rendered
    BY DEF UnlinkManifest, ReplaceAudio, PublishManifest, Rendered
  <2> QED
    BY <1>0, <1>1, <1>2, <2>1 DEF AudioInv, WorkersHaveTheirText, Rendered, Locking
<1>6. ASSUME NEW x \in Target, x # t PROVE files'[x] = files[x]
  BY <1>0, <1>6 DEF UnlinkManifest, ReplaceAudio, PublishManifest
<1>7. /\ UnlinkManifest(w) => files'[t].manifest = 0 /\ files'[t].audio = files[t].audio
      /\ ReplaceAudio(w) => files'[t].audio = wk[w].render /\ files'[t].manifest = files[t].manifest
      /\ PublishManifest(w) => files'[t].manifest = wk[w].render /\ files'[t].audio = files[t].audio
  BY <1>0 DEF UnlinkManifest, ReplaceAudio, PublishManifest
<1>8. /\ ReplaceAudio(w) => files[t].manifest = 0
      /\ PublishManifest(w) => files[t].audio = wk[w].render
  BY DEF AudioInv, PublicationInOrder, ReplaceAudio, PublishManifest
<1>9. PublicationInOrder'
  <2>1. ASSUME NEW x \in Workers, x # w
        PROVE  /\ wk'[x].pc \in {"replace", "manifest"} => files'[wk'[x].target].manifest = 0
               /\ wk'[x].pc \in {"manifest", "upsert"} => files'[wk'[x].target].audio = wk'[x].render
    <3>1. wk'[x] = wk[x]
      BY <1>2, <2>1
    <3>2. wk[x].pc \in Locking => files'[wk[x].target] = files[wk[x].target]
      <4>1. wk[x].pc \in Locking => wk[x].target \in Target
        BY WorkerFields DEF TypeInv, TypeOK
      <4> QED
        BY <1>3, <1>6, <2>1, <4>1
    <3> QED
      BY <3>1, <3>2 DEF AudioInv, PublicationInOrder, Locking
  <2>2. /\ s.pc \in {"replace", "manifest"} => files'[t].manifest = 0
        /\ s.pc \in {"manifest", "upsert"} => files'[t].audio = s.render
    BY <1>1, <1>7, <1>8
  <2> QED
    BY <1>1, <1>2, <2>1, <2>2 DEF PublicationInOrder
<1>10. FilesHaveTheirText'
  <2>1. /\ wk[w].pc \in Rendered => wk[w].render \in DOMAIN renders
        /\ wk[w].pc \in Rendered /\ t.owner = Base
             => renders[wk[w].render].text = <<"base", t.ver>>
    BY DEF AudioInv, WorkersHaveTheirText, Rendered, Locking
  <2>2. files'[t].audio = files[t].audio \/ (files'[t].audio = wk[w].render /\ wk[w].pc \in Rendered)
    BY <1>7 DEF ReplaceAudio, Rendered
  <2> QED
    BY <1>0, <1>6, <2>1, <2>2 DEF AudioInv, FilesHaveTheirText
<1>11. ManifestDescribesAudio'
  BY <1>6, <1>7, <1>8 DEF AudioInv, ManifestDescribesAudio
<1>12. CachedHasAudio'
  <2>1. files[t].audio # 0 => files'[t].audio # 0
    <3>1. wk[w].pc \in Rendered => wk[w].render \in DOMAIN renders
      BY DEF AudioInv, WorkersHaveTheirText
    <3>2. 0 \notin DOMAIN renders
      BY DEF TypeInv, TypeOK
    <3> QED
      BY <1>7, <3>1, <3>2 DEF ReplaceAudio, Rendered
  <2>2. cached \subseteq Target
    BY DEF TypeInv, TypeOK
  <2> QED
    BY <1>0, <1>6, <2>1, <2>2 DEF AudioInv, CachedHasAudio
<1> QED
  BY <1>4, <1>5, <1>9, <1>10, <1>11, <1>12 DEF AudioInv

(* The row that points to the file.                                        *)
LEMMA AudioUpsert ==
  ASSUME TypeInv, AudioInv, NEW w \in Workers, UpsertAudio(w)
  PROVE  AudioInv'
<1>1. PICK s \in Working : wk' = [wk EXCEPT ![w] = s] /\ s.pc = "next"
  BY UpsertMove
<1>2. UNCHANGED <<files, renders>> /\ cached' = cached \cup {wk[w].target}
  BY DEF UpsertAudio
<1>3. CachedHasAudio'
  <2>1. files[wk[w].target].audio # 0
    <3>1. files[wk[w].target].audio = wk[w].render /\ wk[w].render \in DOMAIN renders
      BY DEF UpsertAudio, AudioInv, PublicationInOrder, WorkersHaveTheirText, Rendered
    <3>2. 0 \notin DOMAIN renders
      BY DEF TypeInv, TypeOK
    <3> QED
      BY <3>1, <3>2
  <2> QED
    BY <1>2, <2>1 DEF AudioInv, CachedHasAudio
<1> QED
  BY <1>1, <1>2, <1>3, AudioLeave DEF AudioInv, Locking

(* The steps of a worker that touch neither files nor cache.               *)
LEMMA AudioQueue ==
  ASSUME TypeInv, AudioInv, NEW w \in Workers,
         \/ Start(w) \/ (\E j \in DOMAIN jobs : Claim(w, j)) \/ Begin(w) \/ FinishJob(w)
         \/ JobFails(w) \/ Crash(w)
  PROVE  AudioInv'
<1>1. UNCHANGED <<files, renders, cached>>
  BY DEF Start, Claim, Begin, FinishJob, JobFails, Crash
<1>2. PICK s : wk' = [wk EXCEPT ![w] = s] /\ s.pc \notin Locking \cup {"resolved"}
  <2>1. CASE Begin(w)
    <3>1. wk[w] \in Working /\ wk[w].pc = "claimed"
      BY <2>1, WorkerFields DEF Begin, TypeInv, TypeOK
    <3>2. [wk[w] EXCEPT !.pc = "next"].pc = "next"
      BY <3>1, BetweenMoves
    <3> QED
      BY <2>1, <3>2 DEF Begin, Idle, Locking
  <2>2. CASE Start(w) \/ (\E j \in DOMAIN jobs : Claim(w, j)) \/ FinishJob(w)
               \/ JobFails(w) \/ Crash(w)
    BY <2>2 DEF Start, Claim, FinishJob, JobFails, Crash, Idle, Down, Locking
  <2> QED
    BY <2>1, <2>2
<1>3. CachedHasAudio'
  BY <1>1 DEF AudioInv, CachedHasAudio
<1> QED
  BY <1>1, <1>2, <1>3, AudioLeave DEF AudioInv

LEMMA AudioStep ==
  ASSUME TypeInv, AudioInv, [Next]_vars
  PROVE  AudioInv'
<1>1. ASSUME NEW u \in Users, ReaderStep(u) PROVE AudioInv'
  BY <1>1, AudioReaders DEF ReaderStep, GenerateChapter, GenerateBook, CreateJob, SaveOverlay
<1>2. ASSUME NEW j \in DOMAIN jobs, CancelJob(j) PROVE AudioInv'
  BY <1>2, AudioReaders DEF CancelJob
<1>3. ASSUME NEW ch \in Chapters, EditBase(ch) PROVE AudioInv'
  BY <1>3, AudioReaders DEF EditBase
<1>4. ASSUME NEW w \in Workers, MakingStep(w) PROVE AudioInv'
  BY <1>4, AudioNext, AudioNarrate, AudioPublish, AudioUpsert DEF MakingStep
<1>5. CASE UNCHANGED vars
  BY <1>5, AudioReaders DEF vars
<1> QED
  BY <1>1, <1>2, <1>3, <1>4, <1>5, NextCases, AudioQueue, AudioEnter

LEMMA AudioInvariant == Spec => [](TypeInv /\ AudioInv)
<1>1. Init => AudioInv
  BY InitAudio
<1> QED
  BY <1>1, TypeInvariant, AudioStep, PTL DEF Spec

(* No timing manifest is ever beside audio it does not describe, whatever  *)
(* crash or failure interrupts a publication and however the processes     *)
(* interleave (_generate_chapter).                                         *)
THEOREM ManifestsAreTrue == Spec => []ManifestDescribesAudio
<1>1. AudioInv => ManifestDescribesAudio
  BY DEF AudioInv
<1> QED
  BY <1>1, AudioInvariant, PTL

(* Every row of chapter_audio has its file, and shared audio reads the text *)
(* of the version it is filed under (_generate_chapter,                     *)
(* resolve_narration_text).                                                 *)
THEOREM CachedAudio == Spec => []SharedAudioIsItsText
<1>1. TypeInv /\ AudioInv => SharedAudioIsItsText
  BY DEF TypeInv, TypeOK, AudioInv, CachedHasAudio, FilesHaveTheirText, SharedAudioIsItsText
<1> QED
  BY <1>1, AudioInvariant, PTL

----------------------------------------------------------------------------
(* What is paid for once.                                                  *)

(* The queue never changes what a job asks for.                            *)
LEMMA KeysStay ==
  ASSUME TypeInv, [Next]_vars, NEW j \in DOMAIN jobs
  PROVE  j \in DOMAIN jobs' /\ jobs'[j].key = jobs[j].key
<1>0. jobs \in Seq(Job) /\ jobs[j] \in Job
  BY DEF TypeInv, TypeOK
<1>1. CASE UNCHANGED jobs
  BY <1>1
<1>2. ASSUME NEW i \in DOMAIN jobs, NEW status \in Statuses, jobs' = update_job(i, status)
      PROVE  j \in DOMAIN jobs' /\ jobs'[j].key = jobs[j].key
  BY <1>0, <1>2, UpdateJob
<1>3. ASSUME NEW u \in Users, ReaderStep(u)
      PROVE  j \in DOMAIN jobs' /\ jobs'[j].key = jobs[j].key
  <2>1. UNCHANGED jobs \/ \E r : jobs' = Append(jobs, r)
    BY <1>3 DEF ReaderStep, GenerateChapter, GenerateBook, CreateJob, SaveOverlay
  <2> QED
    BY <1>0, <1>1, <2>1
<1>4. ASSUME NEW w \in Workers, Start(w)
      PROVE  j \in DOMAIN jobs' /\ jobs'[j].key = jobs[j].key
  BY <1>0, <1>4 DEF Start, Job
<1>5. ASSUME NEW w \in Workers, NEW i \in DOMAIN jobs, Claim(w, i)
      PROVE  j \in DOMAIN jobs' /\ jobs'[j].key = jobs[j].key
  BY <1>0, <1>5 DEF Claim, Job
<1>6. ASSUME NEW w \in Workers,
             Begin(w) \/ FinishJob(w) \/ EnterTarget(w) \/ JobFails(w)
      PROVE  j \in DOMAIN jobs' /\ jobs'[j].key = jobs[j].key
  <2>1. wk[w].job \in DOMAIN jobs
    BY <1>6 DEF Begin, FinishJob, EnterTarget, JobFails, TypeInv, JobsExist
  <2> QED
    BY <1>1, <1>2, <1>6, <2>1
       DEF Begin, FinishJob, EnterTarget, JobFails, Statuses, ACTIVE_STATUSES
<1>7. ASSUME NEW w \in Workers, Crash(w) \/ MakingStep(w)
      PROVE  UNCHANGED jobs
  BY <1>7 DEF Crash, MakingStep, NextChapter, Narrate, UnlinkManifest, ReplaceAudio,
              PublishManifest, UpsertAudio
<1>8. ASSUME NEW i \in DOMAIN jobs, CancelJob(i)
      PROVE  j \in DOMAIN jobs' /\ jobs'[j].key = jobs[j].key
  BY <1>2, <1>8 DEF CancelJob, Statuses
<1>9. CASE UNCHANGED vars \/ \E ch \in Chapters : EditBase(ch)
  BY <1>1, <1>9 DEF vars, EditBase
<1> QED
  BY <1>1, <1>3, <1>4, <1>5, <1>6, <1>7, <1>8, <1>9, NextCases

(* Work is only done under the lock of its target, after a look into the   *)
(* cache; what another worker caches meanwhile is of another target.       *)
LEMMA RepeatedStep ==
  ASSUME TypeInv, AudioInv, OnlyForcedWorkIsRepeated, [Next]_vars
  PROVE  OnlyForcedWorkIsRepeated'
<1>0. ASSUME NEW x \in Workers, wk'[x].pc \in Locking => wk[x].pc \in Locking,
             wk[x].pc \in Locking /\ wk'[x].pc \in Locking =>
               wk'[x].target = wk[x].target /\ wk'[x].job = wk[x].job,
             wk'[x].pc \in Locking /\ wk'[x].target \in cached' => wk'[x].target \in cached
      PROVE  wk'[x].pc \in Locking =>
               wk'[x].target \notin cached' \/ jobs'[wk'[x].job].key.force
  <2>1. wk[x].pc \in Locking => wk[x].job \in DOMAIN jobs
    BY DEF TypeInv, JobsExist, Locking
  <2>2. wk[x].pc \in Locking => jobs'[wk[x].job].key = jobs[wk[x].job].key
    BY <2>1, KeysStay
  <2> QED
    BY <1>0, <2>2 DEF OnlyForcedWorkIsRepeated, Locking
<1>1. CASE UNCHANGED <<wk, cached>>
  BY <1>0, <1>1 DEF OnlyForcedWorkIsRepeated, Locking
<1>2. ASSUME NEW w \in Workers, NEW s, wk' = [wk EXCEPT ![w] = s], UNCHANGED cached,
             \/ s.pc \notin Locking
             \/ wk[w].pc \in Locking /\ s.target = wk[w].target /\ s.job = wk[w].job
      PROVE  OnlyForcedWorkIsRepeated'
  <2>1. wk'[w] = s /\ \A x \in Workers : x # w => wk'[x] = wk[x]
    BY <1>2 DEF TypeInv, TypeOK
  <2>2. ASSUME NEW x \in Workers
        PROVE  wk'[x].pc \in Locking => wk'[x].target \notin cached' \/ jobs'[wk'[x].job].key.force
    BY <1>0, <1>2, <2>1
  <2> QED
    BY <2>2 DEF OnlyForcedWorkIsRepeated, Locking
<1>3. ASSUME NEW w \in Workers, EnterTarget(w) PROVE OnlyForcedWorkIsRepeated'
  <2>0. wk[w] \in Working /\ wk[w].pc = "resolved" /\ UNCHANGED cached
    BY <1>3, WorkerFields DEF EnterTarget, TypeInv, TypeOK
  <2>1. CASE \/ wk' = [wk EXCEPT ![w] = [pc |-> "next", job |-> wk[w].job, todo |-> wk[w].todo]]
             \/ wk' = [wk EXCEPT ![w] = Idle]
    BY <1>2, <2>0, <2>1 DEF Locking, Idle
  <2>2. CASE /\ wk' = [wk EXCEPT ![w].pc = "narrate"] /\ UNCHANGED jobs
             /\ jobs[wk[w].job].key.force \/ wk[w].target \notin cached
    <3> DEFINE s == [wk[w] EXCEPT !.pc = "narrate"]
    <3>1. s.target = wk[w].target /\ s.job = wk[w].job
      BY <2>0, MakingMoves DEF Locking
    <3>2. wk'[w] = s /\ \A x \in Workers : x # w => wk'[x] = wk[x]
      BY <2>2 DEF TypeInv, TypeOK
    <3> HIDE DEF s
    <3> QED
      BY <2>0, <2>2, <3>1, <3>2 DEF OnlyForcedWorkIsRepeated
  <2> QED
    BY <1>3, <2>1, <2>2 DEF EnterTarget
<1>4. ASSUME NEW w \in Workers, UpsertAudio(w) PROVE OnlyForcedWorkIsRepeated'
  <2>1. PICK s \in Working : wk' = [wk EXCEPT ![w] = s] /\ s.pc = "next"
    BY <1>4, UpsertMove
  <2>2. wk'[w] = s /\ \A x \in Workers : x # w => wk'[x] = wk[x]
    BY <2>1 DEF TypeInv, TypeOK
  <2>3. \A x \in Workers : x # w /\ wk[x].pc \in Locking => wk[x].target # wk[w].target
    BY <1>4 DEF UpsertAudio, AudioInv, TargetsDiffer, Locking
  <2>4. ASSUME NEW x \in Workers
        PROVE  wk'[x].pc \in Locking => wk'[x].target \notin cached' \/ jobs'[wk'[x].job].key.force
    <3>1. cached' = cached \cup {wk[w].target}
      BY <1>4 DEF UpsertAudio
    <3>2. s.pc \notin Locking
      BY <2>1 DEF Locking
    <3> QED
      BY <1>0, <2>2, <2>3, <3>1, <3>2
  <2> QED
    BY <2>4 DEF OnlyForcedWorkIsRepeated, Locking
<1>5. ASSUME NEW w \in Workers, MakingStep(w) PROVE OnlyForcedWorkIsRepeated'
  <2>1. CASE NextChapter(w)
    <3>1. UNCHANGED cached
      BY <2>1 DEF NextChapter
    <3>2. PICK s \in {Idle} \cup Working : wk' = [wk EXCEPT ![w] = s] /\ s.pc \notin Locking
      BY <2>1, NextChapterMove DEF Locking, Idle
    <3> QED
      BY <1>2, <3>1, <3>2
  <2>2. CASE Narrate(w)
    <3>1. UNCHANGED cached /\ wk[w].pc \in Locking
      BY <2>2 DEF Narrate, Locking
    <3> QED
      BY <1>2, <2>2, <3>1, NarrateMove
  <2>3. CASE UnlinkManifest(w) \/ ReplaceAudio(w) \/ PublishManifest(w)
    <3>1. UNCHANGED cached /\ wk[w].pc \in Locking
      BY <2>3 DEF UnlinkManifest, ReplaceAudio, PublishManifest, Locking
    <3>2. PICK pc \in Locking : wk' = [wk EXCEPT ![w].pc = pc]
      BY <2>3 DEF UnlinkManifest, ReplaceAudio, PublishManifest, Locking
    <3>3. PICK s \in Working : /\ wk' = [wk EXCEPT ![w] = s]
                               /\ s.target = wk[w].target /\ s.job = wk[w].job
      BY <3>1, <3>2, PublishMove
    <3> QED
      BY <1>2, <3>1, <3>3
  <2> QED
    BY <1>4, <1>5, <2>1, <2>2, <2>3 DEF MakingStep
<1>6. ASSUME NEW w \in Workers,
             \/ Start(w) \/ (\E j \in DOMAIN jobs : Claim(w, j)) \/ Begin(w) \/ FinishJob(w)
             \/ JobFails(w) \/ Crash(w)
      PROVE  OnlyForcedWorkIsRepeated'
  <2>1. UNCHANGED cached
    BY <1>6 DEF Start, Claim, Begin, FinishJob, JobFails, Crash
  <2>2. CASE Begin(w)
    <3>1. wk[w] \in Working /\ wk[w].pc = "claimed"
      BY <2>2, WorkerFields DEF Begin, TypeInv, TypeOK
    <3>2. [wk[w] EXCEPT !.pc = "next"].pc = "next"
      BY <3>1, BetweenMoves
    <3>3. PICK s : wk' = [wk EXCEPT ![w] = s] /\ s.pc \notin Locking
      BY <2>2, <3>2 DEF Begin, Idle, Locking
    <3> QED
      BY <1>2, <2>1, <3>3
  <2>3. CASE Start(w) \/ (\E j \in DOMAIN jobs : Claim(w, j)) \/ FinishJob(w)
               \/ JobFails(w) \/ Crash(w)
    <3>1. PICK s : wk' = [wk EXCEPT ![w] = s] /\ s.pc \notin Locking
      BY <2>3 DEF Start, Claim, FinishJob, JobFails, Crash, Idle, Down, Locking
    <3> QED
      BY <1>2, <2>1, <3>1
  <2> QED
    BY <1>6, <2>2, <2>3
<1>7. CASE \/ \E u \in Users : ReaderStep(u)
           \/ \E j \in DOMAIN jobs : CancelJob(j)
           \/ \E ch \in Chapters : EditBase(ch)
           \/ UNCHANGED vars
  <2>1. UNCHANGED <<wk, cached>>
    BY <1>7 DEF ReaderStep, GenerateChapter, GenerateBook, CreateJob, SaveOverlay, CancelJob,
                EditBase, vars
  <2> QED
    BY <1>1, <2>1
<1> QED
  BY <1>3, <1>5, <1>6, <1>7, NextCases

(* Nothing that is cached is paid for and made again unless it was asked    *)
(* for with force (_generate_chapter's second look under the target lock).  *)
THEOREM WorkIsNotRepeated == Spec => []OnlyForcedWorkIsRepeated
<1>1. Init => OnlyForcedWorkIsRepeated
  BY DEF Init, OnlyForcedWorkIsRepeated, Down
<1> QED
  BY <1>1, AudioInvariant, RepeatedStep, PTL DEF Spec

----------------------------------------------------------------------------
(* No job is stranded.                                                     *)

(* A step in which worker w takes, keeps or loses job i, or lets go of it   *)
(* when it is not generating any more, and that changes no other job.       *)
LEMMA AttendedFrame ==
  ASSUME TypeInv, GeneratingIsAttended,
         NEW w \in Workers, NEW s, wk' = [wk EXCEPT ![w] = s],
         NEW i \in DOMAIN jobs, DOMAIN jobs' = DOMAIN jobs,
         \A j \in DOMAIN jobs : j # i => jobs'[j] = jobs[j],
         wk[w] # Down, wk[w] = Idle \/ wk[w].job = i,
         s = Down \/ (s # Idle /\ s.job = i) \/ jobs'[i].status # "generating"
  PROVE  GeneratingIsAttended'
<1>1. wk'[w] = s /\ \A x \in Workers : x # w => wk'[x] = wk[x]
  BY DEF TypeInv, TypeOK
<1> SUFFICES ASSUME NEW j \in DOMAIN jobs, jobs'[j].status = "generating"
             PROVE  \E x \in Workers : wk'[x] = Down \/ (wk'[x] # Idle /\ wk'[x].job = j)
  BY DEF GeneratingIsAttended
<1>2. CASE s = Down \/ j = i
  BY <1>1, <1>2
<1>3. CASE j # i
  <2>1. PICK x \in Workers : wk[x] = Down \/ (wk[x] # Idle /\ wk[x].job = j)
    BY <1>3 DEF GeneratingIsAttended
  <2> QED
    BY <1>1, <1>3, <2>1
<1> QED
  BY <1>2, <1>3

LEMMA AttendedStep ==
  ASSUME TypeInv, GeneratingIsAttended, [Next]_vars
  PROVE  GeneratingIsAttended'
<1>0. /\ jobs \in Seq(Job)
      /\ \A j \in DOMAIN jobs : jobs[j] \in Job
      /\ \A w \in Workers : /\ wk[w] \in {Idle, Down} \cup Working
                            /\ wk[w].pc \notin {"idle", "down"} =>
                                 wk[w].job \in DOMAIN jobs /\ wk[w] # Idle /\ wk[w] # Down
  <2>1. jobs \in Seq(Job) /\ \A w \in Workers : wk[w] \in {Idle, Down} \cup Working
    BY DEF TypeInv, TypeOK
  <2> QED
    BY <2>1 DEF TypeInv, JobsExist, Idle, Down
<1>1. CASE UNCHANGED <<wk, jobs>>
  BY <1>1 DEF GeneratingIsAttended
(* The queue changes, and no worker moves.                                 *)
<1>2. ASSUME UNCHANGED wk,
             \A j \in DOMAIN jobs' : jobs'[j].status = "generating" =>
               j \in DOMAIN jobs /\ jobs[j].status = "generating"
      PROVE  GeneratingIsAttended'
  BY <1>2 DEF GeneratingIsAttended
<1>3. ASSUME NEW u \in Users, ReaderStep(u) PROVE GeneratingIsAttended'
  <2>1. UNCHANGED <<wk, jobs>> \/ (UNCHANGED wk /\ \E r : r.status = "queued" /\ jobs' = Append(jobs, r))
    BY <1>3 DEF ReaderStep, GenerateChapter, GenerateBook, CreateJob, SaveOverlay
  <2>2. ASSUME NEW r, r.status = "queued", jobs' = Append(jobs, r), UNCHANGED wk
        PROVE  GeneratingIsAttended'
    <3>1. ASSUME NEW j \in DOMAIN jobs', jobs'[j].status = "generating"
          PROVE  j \in DOMAIN jobs /\ jobs[j].status = "generating"
      <4>1. jobs'[j] = r \/ (j \in DOMAIN jobs /\ jobs'[j] = jobs[j])
        BY <1>0, <2>2
      <4> QED
        BY <2>2, <3>1, <4>1
    <3> QED
      BY <1>2, <2>2, <3>1
  <2> QED
    BY <1>1, <2>1, <2>2
<1>4. ASSUME NEW i \in DOMAIN jobs, CancelJob(i) PROVE GeneratingIsAttended'
  <2>1. /\ DOMAIN jobs' = DOMAIN jobs /\ UNCHANGED wk
        /\ \A j \in DOMAIN jobs : j # i => jobs'[j] = jobs[j]
        /\ jobs'[i].status = "canceled"
    BY <1>0, <1>4, UpdateJob DEF CancelJob, Statuses
  <2> QED
    BY <1>2, <2>1
<1>5. ASSUME NEW w \in Workers, Start(w) PROVE GeneratingIsAttended'
  <2>1. \A j \in DOMAIN jobs' : jobs'[j].status # "generating"
    BY <1>0, <1>5 DEF Start, Job
  <2> QED
    BY <2>1 DEF GeneratingIsAttended
<1>6. ASSUME NEW w \in Workers, NEW i \in DOMAIN jobs, Claim(w, i) PROVE GeneratingIsAttended'
  <2> DEFINE s == [pc |-> "claimed", job |-> i, todo |-> jobs[i].chapters]
  <2>1. wk' = [wk EXCEPT ![w] = s] /\ wk[w] = Idle /\ s.job = i
    BY <1>6 DEF Claim
  <2>2. s # Idle /\ Idle # Down
    BY DEF Idle, Down
  <2> HIDE DEF s
  <2>3. DOMAIN jobs' = DOMAIN jobs /\ \A j \in DOMAIN jobs : j # i => jobs'[j] = jobs[j]
    BY <1>0, <1>6 DEF Claim
  <2>4. wk[w] # Down /\ (s = Down \/ (s # Idle /\ s.job = i) \/ jobs'[i].status # "generating")
    BY <2>1, <2>2, Zenon
  <2>5. wk[w] = Idle \/ wk[w].job = i
    BY <2>1, Zenon
  <2>6. wk' = [wk EXCEPT ![w] = s]
    BY <2>1, Zenon
  <2> QED
    BY <2>3, <2>4, <2>5, <2>6, AttendedFrame, Zenon
(* A worker that writes to its own job, or finds it canceled.              *)
<1>7. ASSUME NEW w \in Workers, wk[w].pc \notin {"idle", "down"}, NEW status \in Statuses,
             jobs' = update_job(wk[w].job, status)
      PROVE  /\ DOMAIN jobs' = DOMAIN jobs
             /\ \A j \in DOMAIN jobs : j # wk[w].job => jobs'[j] = jobs[j]
             /\ status # "generating" => jobs'[wk[w].job].status # "generating"
  <2>1. wk[w].job \in DOMAIN jobs
    BY <1>0, <1>7
  <2> QED
    BY <1>0, <1>7, <2>1, UpdateJob DEF ACTIVE_STATUSES
<1>8. ASSUME NEW w \in Workers, Begin(w) PROVE GeneratingIsAttended'
  <2>1. /\ wk[w] \in Working /\ wk[w].pc = "claimed" /\ wk[w].job \in DOMAIN jobs
        /\ wk[w] # Idle /\ wk[w] # Down
    BY <1>0, <1>8, WorkerFields DEF Begin
  <2>2. CASE jobs[wk[w].job].status = "canceled" /\ wk' = [wk EXCEPT ![w] = Idle] /\ jobs' = jobs
    BY <2>1, <2>2, AttendedFrame
  <2>3. CASE /\ wk' = [wk EXCEPT ![w].pc = "next"]
             /\ jobs' = update_job(wk[w].job, "generating")
    <3> DEFINE s == [wk[w] EXCEPT !.pc = "next"]
    <3>1. s.job = wk[w].job /\ s # Idle /\ wk' = [wk EXCEPT ![w] = s]
      <4>1. s.job = wk[w].job /\ s.pc = "next"
        BY <2>1, BetweenMoves
      <4> QED
        BY <2>3, <4>1 DEF Idle
    <3> HIDE DEF s
    <3>2. /\ DOMAIN jobs' = DOMAIN jobs
          /\ \A j \in DOMAIN jobs : j # wk[w].job => jobs'[j] = jobs[j]
      BY <1>7, <2>1, <2>3 DEF Statuses, ACTIVE_STATUSES
    <3> QED
      BY <2>1, <3>1, <3>2, AttendedFrame
  <2> QED
    BY <1>8, <2>2, <2>3 DEF Begin
<1>9. ASSUME NEW w \in Workers, wk[w].pc \notin {"idle", "down"}, wk' = [wk EXCEPT ![w] = Idle],
             NEW status \in Statuses \ {"generating"}, jobs' = update_job(wk[w].job, status)
      PROVE  GeneratingIsAttended'
  <2>1. /\ DOMAIN jobs' = DOMAIN jobs
        /\ \A j \in DOMAIN jobs : j # wk[w].job => jobs'[j] = jobs[j]
        /\ jobs'[wk[w].job].status # "generating"
    BY <1>7, <1>9
  <2>2. wk[w] # Idle /\ wk[w] # Down /\ wk[w].job \in DOMAIN jobs
    BY <1>0, <1>9
  <2> QED
    BY <1>9, <2>1, <2>2, AttendedFrame
<1>10. ASSUME NEW w \in Workers, FinishJob(w) \/ JobFails(w) PROVE GeneratingIsAttended'
  BY <1>9, <1>10 DEF FinishJob, JobFails, Statuses, ACTIVE_STATUSES
(* A worker that goes on with its job.                                     *)
<1>11. ASSUME NEW w \in Workers, wk[w].pc \notin {"idle", "down"}, jobs' = jobs,
              NEW s \in Working, wk' = [wk EXCEPT ![w] = s], s.job = wk[w].job
       PROVE  GeneratingIsAttended'
  <2>1. s # Idle
    BY <1>11 DEF Working, Idle
  <2>2. wk[w] # Idle /\ wk[w] # Down /\ wk[w].job \in DOMAIN jobs
    BY <1>0, <1>11
  <2> QED
    BY <1>11, <2>1, <2>2, AttendedFrame
<1>12. ASSUME NEW w \in Workers, EnterTarget(w) PROVE GeneratingIsAttended'
  <2>1. /\ wk[w] \in Working /\ wk[w].pc = "resolved"
        /\ wk[w].job \in 1..MaxJobs /\ wk[w].todo \in SUBSET Chapters
    BY <1>0, <1>12, WorkerFields DEF EnterTarget
  <2>2. CASE /\ wk' = [wk EXCEPT ![w] = [pc |-> "next", job |-> wk[w].job, todo |-> wk[w].todo]]
             /\ jobs' = jobs
    <3> DEFINE s == [pc |-> "next", job |-> wk[w].job, todo |-> wk[w].todo]
    <3>1. s \in Working /\ s.job = wk[w].job
      BY <2>1, WorkerStates
    <3> HIDE DEF s
    <3> QED
      BY <1>11, <2>1, <2>2, <3>1 DEF s
  <2>3. CASE wk' = [wk EXCEPT ![w] = Idle] /\ jobs' = update_job(wk[w].job, "done")
    BY <1>9, <2>1, <2>3 DEF Statuses
  <2>4. CASE wk' = [wk EXCEPT ![w].pc = "narrate"] /\ jobs' = jobs
    <3> DEFINE s == [wk[w] EXCEPT !.pc = "narrate"]
    <3>1. s \in Working /\ s.job = wk[w].job
      BY <2>1, MakingMoves DEF Locking
    <3>2. wk' = [wk EXCEPT ![w] = s]
      BY <2>4
    <3> HIDE DEF s
    <3> QED
      BY <1>11, <2>1, <2>4, <3>1, <3>2
  <2> QED
    BY <1>12, <2>2, <2>3, <2>4 DEF EnterTarget
<1>13. ASSUME NEW w \in Workers, MakingStep(w) PROVE GeneratingIsAttended'
  <2>0. jobs' = jobs /\ wk[w].pc \notin {"idle", "down"}
    BY <1>13 DEF MakingStep, NextChapter, Narrate, UnlinkManifest, ReplaceAudio,
                 PublishManifest, UpsertAudio
  <2>1. CASE NextChapter(w)
    <3>1. PICK s \in {Idle} \cup Working :
            /\ wk' = [wk EXCEPT ![w] = s]
            /\ \/ s = Idle /\ jobs[wk[w].job].status = "canceled"
               \/ s.pc = "next" /\ s.job = wk[w].job
               \/ /\ s.pc = "resolved" /\ s.job = wk[w].job
                  /\ s.target.owner = Base => s.text = <<"base", s.target.ver>>
      BY <2>1, NextChapterMove
    <3>2. wk[w] # Idle /\ wk[w] # Down /\ wk[w].job \in DOMAIN jobs
      BY <1>0, <2>0
    <3>3. CASE s = Idle /\ jobs[wk[w].job].status = "canceled"
      <4>1. jobs'[wk[w].job].status # "generating"
        BY <2>0, <3>3
      <4> QED
        BY <2>0, <3>1, <3>2, <4>1, AttendedFrame
    <3>4. CASE s.pc \in {"next", "resolved"} /\ s.job = wk[w].job
      <4>1. s # Idle /\ s \in Working
        BY <3>1, <3>4 DEF Idle
      <4> QED
        BY <1>11, <2>0, <3>1, <3>4, <4>1
    <3> QED
      BY <3>1, <3>3, <3>4
  <2>2. CASE Narrate(w)
    BY <1>11, <2>0, <2>2, NarrateMove
  <2>3. CASE UnlinkManifest(w) \/ ReplaceAudio(w) \/ PublishManifest(w)
    <3>1. wk[w].pc \in Locking
      BY <2>3 DEF UnlinkManifest, ReplaceAudio, PublishManifest, Locking
    <3>2. PICK pc \in Locking : wk' = [wk EXCEPT ![w].pc = pc]
      BY <2>3 DEF UnlinkManifest, ReplaceAudio, PublishManifest, Locking
    <3>3. PICK s \in Working : wk' = [wk EXCEPT ![w] = s] /\ s.job = wk[w].job
      BY <3>1, <3>2, PublishMove
    <3> QED
      BY <1>11, <2>0, <3>3
  <2>4. CASE UpsertAudio(w)
    BY <1>11, <2>0, <2>4, UpsertMove
  <2> QED
    BY <1>13, <2>1, <2>2, <2>3, <2>4 DEF MakingStep
<1>14. ASSUME NEW w \in Workers, Crash(w) PROVE GeneratingIsAttended'
  <2>1. wk'[w] = Down
    BY <1>14 DEF Crash, TypeInv, TypeOK
  <2> QED
    BY <2>1 DEF GeneratingIsAttended
<1>15. CASE UNCHANGED vars \/ \E ch \in Chapters : EditBase(ch)
  BY <1>1, <1>15 DEF vars, EditBase
<1> QED
  BY <1>3, <1>4, <1>5, <1>6, <1>8, <1>10, <1>12, <1>13, <1>14, <1>15, NextCases

(* A job in progress is in the hands of a live worker, or a worker that     *)
(* died will queue it again when it starts (_requeue_interrupted): there is *)
(* no lease that would.                                                     *)
THEOREM NoJobIsStranded == Spec => []GeneratingIsAttended
<1>1. Init => GeneratingIsAttended
  BY DEF Init, GeneratingIsAttended
<1> QED
  BY <1>1, TypeInvariant, AttendedStep, PTL DEF Spec
=============================================================================
