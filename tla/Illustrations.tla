--------------------------- MODULE Illustrations ---------------------------
(***************************************************************************)
(* Chapter art of one novel: jobs for a chapter or for a range, attempts   *)
(* that plan, draw character sheets and paint scenes and that may outlive  *)
(* their lease, and the gallery that decides what a reader is shown while  *)
(* chapters are edited, replaced and the codex is reset.                   *)
(***************************************************************************)
EXTENDS Integers, Sequences, FiniteSets, FiniteSetsExt, SequencesExt, TLC

CONSTANTS
  N,            \* chapters are 1..N
  Versions,     \* versions of a chapter's text (its source hash)
  Keys,         \* character keys
  MaxJobs,      \* bound on jobs
  Attempts,     \* processes that may run a job
  ScenePlans,   \* what the planner may choose: per scene its characters (1 to 3 scenes)
  ArtRequests,  \* the requests made: chapter (0: the range), scenes (0: auto), force
  MaxContext,   \* previous_chapters of a ContextDecision (at most 3)
  MaxArt,       \* bound on rows of codex_art
  MaxPlans,     \* bound on answers of the planner
  MaxChanges,   \* bound on cancellations, edits, replacements and resets
  MaxFaults     \* bound on crashes, lost leases and provider failures

ASSUME IllustrationsAssumptions ==
  /\ {N, MaxJobs, MaxContext, MaxArt, MaxPlans, MaxChanges, MaxFaults} \subseteq Nat
  /\ N > 0 /\ 1 \in Versions /\ IsFiniteSet(Keys)
  /\ \A r \in ArtRequests : r.ch \in 0..N /\ r.count \in 0..3 /\ r.force \in BOOLEAN
  /\ \A p \in ScenePlans : p \in Seq(SUBSET Keys) /\ Len(p) \in 1..3

VARIABLES
  text,   \* version of each chapter's text
  art,    \* table codex_art, in the order of created_at
  plan,   \* tables codex_art_plans (parent) and codex_art_chapter_plans (of)
  job,    \* the illustration jobs
  run,    \* local state of each attempt
  left    \* counters of the bounds

artVars == <<text, art, plan, job, run, left>>

Chapters == 1..N
Jobs == 1..MaxJobs

\* Texts that something was made from: a chapter and the version it had.
Sources == SUBSET (Chapters \X Versions)

\* Sheets, by the key of their character.
Sheets == UNION {[K -> 1..MaxArt] : K \in SUBSET Keys}

\* What is drawn under one name: a character's sheet, new or renamed, or a scene.
Slots == [kind : {"name", "sheet"}, ch : Chapters, of : Keys]
           \cup [kind : {"scene"}, ch : Chapters, of : 1..3]

\* A row of codex_art. src are the sources it records besides its chapter. told
\* and seen are history: the texts that went into the image, and the chapters
\* that whoever planned it had been told of.
Row == [job : Jobs, ch : Chapters, kind : {"sheet", "scene"}, slot : Slots, hash : Versions,
        src : Sources, refs : Seq(1..MaxArt), count : 0..3, plan : 1..MaxPlans,
        gone : BOOLEAN, told : Sources, seen : SUBSET Chapters]

\* A row of codex_art_chapter_plans: per scene its characters, the keys that get
\* a new name or alias, the context, and the sheets it starts from.
Plan == [n : 1..MaxPlans, scenes : ScenePlans, renames : SUBSET Keys, ctx : Sources,
         refs : Sheets, told : Sources, seen : SUBSET Chapters]

\* What was asked for: the chapters with the hash of their text at the time.
Options == [range : BOOLEAN, chapters : Seq([ch : Chapters, hash : Versions]),
            count : 0..3, force : BOOLEAN]

\* dropped is history: an import or a reset deleted the job's plans.
Job == [status : {"queued", "running", "done", "failed", "canceled"}, options : Options,
        attempts : Nat, started : BOOLEAN, dropped : BOOLEAN]

NoPlan == [n |-> 0]

\* An attempt: its job, the chapter it is at, the context and the sheets it was
\* given, the plan it draws, the rows it found finished and the slots left.
Attempt == [pc : {"verify", "chapter", "load", "plan", "resume", "next", "paint"},
            lost : BOOLEAN, job : Jobs, options : Options, started : BOOLEAN,
            at : Nat \ {0}, ctx : Sources, planned : BOOLEAN, plan : Plan \cup {NoPlan},
            sheets : Sheets, seen : SUBSET Chapters, done : SUBSET Nat, todo : Seq(Slots)]

NoJob == [status |-> "none"]
Off == [pc |-> "idle", lost |-> FALSE]

ArtInit ==
  /\ text = [c \in Chapters |-> 1]
  /\ art = <<>>
  /\ plan = [j \in Jobs |-> [parent |-> FALSE, of |-> [c \in Chapters |-> NoPlan]]]
  /\ job = [j \in Jobs |-> NoJob]
  /\ run = [a \in Attempts |-> Off]
  /\ left = [plans |-> 0, changes |-> MaxChanges, faults |-> MaxFaults]

----------------------------------------------------------------------------
\* --- The store --------------------------------------------------------------

\* The rows of codex_art.
Rows == {i \in DOMAIN art : ~art[i].gone}

\* Mutant of the definition below.
AnyChapter(ch, c) == TRUE

\* What belongs to the story up to chapter c.
Reached(ch, c) == ch <= c

\* The newest sheet of each key up to chapter c: latest chapter, then latest row.
LatestSheet(k, c) ==
  LET all == {i \in Rows : art[i].kind = "sheet" /\ art[i].slot.of = k /\ Reached(art[i].ch, c)} IN
  {i \in all : \A o \in all : art[o].ch < art[i].ch \/ (art[o].ch = art[i].ch /\ o <= i)}

IsCurrent(sources) == \A s \in sources : text[s[1]] = s[2]

\* reference(): a sheet, as it was read, that an attempt at chapter c may use.
UsableCopy(i, c) ==
  /\ art[i].kind = "sheet" /\ Reached(art[i].ch, c)
  /\ text[art[i].ch] = art[i].hash /\ IsCurrent(art[i].src)

\* reference(store.get(...)): it is read again.
UsableSheet(i, c) == ~art[i].gone /\ UsableCopy(i, c)

\* IllustrationStore.save looks for the job's row of codex_art_plans: the
\* plan of a chapter's job, or the header of a range.
PlanRow(j) == plan[j].parent

\* _current: what the gallery may show, the sheets of a scene included.
SheetShown(i) == text[art[i].ch] = art[i].hash /\ IsCurrent(art[i].src)

ArtShown(i) ==
  /\ text[art[i].ch] = art[i].hash /\ IsCurrent(art[i].src)
  /\ art[i].kind = "scene" =>
       \A s \in ToSet(art[i].refs) :
         ~art[s].gone /\ Reached(art[s].ch, art[i].ch) /\ SheetShown(s)

ScenesOf(j, c) ==
  {i \in Rows : art[i].kind = "scene" /\ art[i].job = j /\ art[i].ch = c /\ ArtShown(i)}

IsComplete(S) ==
  /\ S # {}
  /\ LET n == art[Max(S)].count IN
     Cardinality(S) = n /\ {art[i].slot.of : i \in S} = 1..n

\* complete_scenes: of the complete batches, the one with the newest row.
Gallery(c) ==
  LET whole == {S \in {ScenesOf(j, c) : j \in Jobs} : IsComplete(S)} IN
  IF whole = {} THEN {} ELSE CHOOSE S \in whole : \A o \in whole : Max(o) <= Max(S)

\* current_rows and list: the scenes of c and the sheets of its characters.
Shown(c) == Gallery(c) \cup {i \in UNION {LatestSheet(k, c) : k \in Keys} : ArtShown(i)}

----------------------------------------------------------------------------
\* --- Requests ---------------------------------------------------------------

MayChange == left.changes > 0 /\ left' = [left EXCEPT !.changes = @ - 1]

Active(j) == job[j].status \in {"queued", "running"}

\* work.create_job: an active job with the same idempotency key is returned.
Schedule(options) ==
  /\ \A j \in Jobs : Active(j) => job[j].options # options
  /\ \E j \in Jobs :
       /\ job[j] = NoJob /\ \A o \in 1..(j - 1) : job[o] # NoJob
       /\ job' = [job EXCEPT ![j] =
            [status |-> "queued", options |-> options, attempts |-> 0, started |-> FALSE, dropped |-> FALSE]]

\* generate: count 0 leaves the number of scenes to the planner.
Generate(c, count, force) ==
  /\ force \/ Gallery(c) = {} \/ (count # 0 /\ Cardinality(Gallery(c)) < count)
  /\ Schedule([range |-> FALSE, chapters |-> <<[ch |-> c, hash |-> text[c]]>>,
               count |-> count, force |-> FALSE])
  /\ UNCHANGED <<text, art, plan, run, left>>

\* generate_range over all chapters.
GenerateRange(force) ==
  /\ Schedule([range |-> TRUE, chapters |-> [c \in Chapters |-> [ch |-> c, hash |-> text[c]]],
               count |-> 0, force |-> force])
  /\ UNCHANGED <<text, art, plan, run, left>>

Cancel(j) ==
  /\ Active(j) /\ MayChange
  /\ job' = [job EXCEPT ![j].status = "canceled"]
  /\ UNCHANGED <<text, art, plan, run>>

\* --- Attempts ---------------------------------------------------------------

At(a, pc) == run[a].pc = pc
Target(a) == run[a].options.chapters[run[a].at]
Ch(a) == Target(a).ch
MyPlan(a) == plan[run[a].job].of[Ch(a)]

\* current(): not canceled, the chapter and its context unchanged, and a plan
\* that was saved still there. A lost lease is not looked at.
Current(a) ==
  /\ job[run[a].job].status # "canceled"
  /\ text[Ch(a)] = Target(a).hash
  /\ IsCurrent(run[a].ctx)
  /\ run[a].planned => MyPlan(a).n # 0

\* The attempt raises. The worker that holds the lease requeues the job or fails it.
Raise(a) ==
  LET j == run[a].job IN
  /\ run' = [run EXCEPT ![a] = Off]
  /\ IF run[a].lost \/ job[j].status # "running" THEN UNCHANGED job
     ELSE \E s \in {"failed"} \cup (IF job[j].attempts < 2 THEN {"queued"} ELSE {}) :
            job' = [job EXCEPT ![j].status = s]

\* The host worker runs one job at a time; an attempt whose lease it lost may go on.
Start(a, j) ==
  /\ \A o \in Attempts : At(o, "idle") \/ run[o].lost
  /\ At(a, "idle") /\ job[j].status = "queued"
  /\ job' = [job EXCEPT ![j].status = "running", ![j].attempts = @ + 1]
  /\ run' = [run EXCEPT ![a] =
       [pc |-> IF job[j].options.range THEN "verify" ELSE "load", lost |-> FALSE,
        job |-> j, options |-> job[j].options, started |-> job[j].started, at |-> 1,
        ctx |-> {}, planned |-> FALSE, plan |-> NoPlan, sheets |-> <<>>, seen |-> {},
        done |-> {}, todo |-> <<>>]]
  /\ UNCHANGED <<text, art, plan, left>>

\* IllustrationBatchWorker.execute: every chapter's text, and the range header.
VerifyRange(a) ==
  LET j == run[a].job
      same == \A i \in DOMAIN run[a].options.chapters :
                text[run[a].options.chapters[i].ch] = run[a].options.chapters[i].hash IN
  /\ At(a, "verify")
  /\ IF /\ same /\ job[j].status # "canceled"
        /\ plan[j].parent \/ ~run[a].started
     THEN /\ plan' = [plan EXCEPT ![j].parent = TRUE]
          /\ run' = [run EXCEPT ![a].pc = "chapter"] /\ UNCHANGED job
     ELSE Raise(a) /\ UNCHANGED plan
  /\ UNCHANGED <<text, art, left>>

\* The attempt goes to its next chapter, or ends the job.
Advance(a) ==
  LET j == run[a].job IN
  IF run[a].at < Len(run[a].options.chapters)
  THEN /\ run' = [run EXCEPT ![a].at = @ + 1, ![a].pc = "chapter"]
       /\ job' = [job EXCEPT ![j].started = TRUE]
  ELSE /\ run' = [run EXCEPT ![a] = Off]
       /\ job' = IF run[a].lost \/ job[j].status # "running" THEN job
                 ELSE [job EXCEPT ![j].status = "done"]

\* A range skips a chapter that has art, unless it has begun to plan for it.
RangeChapter(a) ==
  LET j == run[a].job IN
  /\ At(a, "chapter")
  /\ IF job[j].status = "canceled" \/ ~plan[j].parent THEN Raise(a)
     ELSE IF ~run[a].options.force /\ MyPlan(a).n = 0 /\ Gallery(Ch(a)) # {} THEN Advance(a)
     ELSE /\ run' = [run EXCEPT ![a].pc = "load", ![a].ctx = {}, ![a].planned = FALSE]
          /\ job' = [job EXCEPT ![j].started = TRUE]
  /\ UNCHANGED <<text, art, plan, left>>

\* What tells of a chapter's story in a row or a plan (history).
SeenBy(I) == UNION {art[i].seen : i \in I}

\* previous_illustration_context: the n story chapters before c.
Preceding(c, n) == {p \in Chapters : p < c /\ p >= c - n}

\* store.context: a digest of each, with the hash of the text it was read from.
Context(c, n) == {<<p, text[p]>> : p \in Preceding(c, n)}

\* The context that the planner asked for, and the sheets it may reuse.
Decide(a, n) ==
  LET c == Ch(a)
      ctx == Context(c, n)
      usable == {i \in UNION {LatestSheet(k, c) : k \in Keys} : UsableSheet(i, c)} IN
  /\ At(a, "load") /\ MyPlan(a).n = 0
  /\ IF Current(a)
     THEN /\ run' = [run EXCEPT ![a].pc = "plan", ![a].ctx = ctx,
            ![a].sheets = [k \in {art[i].slot.of : i \in usable} |->
                                CHOOSE i \in usable : art[i].slot.of = k],
            ![a].seen = {c} \cup {s[1] : s \in ctx} \cup SeenBy(usable)]
          /\ UNCHANGED job
     ELSE Raise(a)
  /\ UNCHANGED <<text, art, plan, left>>

\* Mutant of the definition below.
Overwritten(saved, new) == new

\* INSERT ... ON CONFLICT DO NOTHING, and the row that is then there.
Winner(saved, new) == IF saved.n # 0 THEN saved ELSE new

\* validate_plan: the number of scenes asked for, and new names only for
\* sheets that exist; a scene's other characters are designed by the plan.
ValidPlan(a, scenes, renames) ==
  /\ run[a].options.count \in {0, Len(scenes)}
  /\ renames \subseteq DOMAIN run[a].sheets

\* A valid answer of the planner is saved. scenes: per scene its characters;
\* renames: keys with a new name or alias.
MakePlan(a, scenes, renames) ==
  LET j == run[a].job
      had == DOMAIN run[a].sheets
      used == UNION ToSet(scenes)
      new == [n |-> left.plans + 1, scenes |-> scenes, renames |-> renames, ctx |-> run[a].ctx,
              refs |-> [k \in had \cap (used \cup renames) |-> run[a].sheets[k]],
              told |-> {<<Ch(a), Target(a).hash>>} \cup run[a].ctx, seen |-> run[a].seen] IN
  /\ At(a, "plan") /\ left.plans < MaxPlans
  /\ ValidPlan(a, scenes, renames)
  /\ left' = [left EXCEPT !.plans = @ + 1]
  /\ IF Current(a) /\ (run[a].options.range => plan[j].parent)
     THEN /\ plan' = [plan EXCEPT ![j].parent = TRUE, ![j].of[Ch(a)] = Winner(@, new)]
          /\ run' = [run EXCEPT ![a].pc = "resume"] /\ UNCHANGED job
     ELSE Raise(a) /\ UNCHANGED plan
  /\ UNCHANGED <<text, art>>

\* plan_with_repair gives up after PLAN_ATTEMPTS.
PlanInvalid(a) ==
  /\ run[a].pc \in {"load", "plan"} /\ left.faults > 0
  /\ left' = [left EXCEPT !.faults = @ - 1]
  /\ Raise(a)
  /\ UNCHANGED <<text, art, plan>>

\* The turn ends without a usable image.
NoImage(a) ==
  /\ At(a, "paint") /\ left.faults > 0
  /\ left' = [left EXCEPT !.faults = @ - 1]
  /\ Raise(a)
  /\ UNCHANGED <<text, art, plan>>

----------------------------------------------------------------------------
\* --- Drawing ----------------------------------------------------------------

Slot(kind, c, x) == [kind |-> kind, ch |-> c, of |-> x]
RowOf(j, slot) == {i \in Rows : art[i].job = j /\ art[i].slot = slot}

\* The persisted winner is used, its sheets are checked again, and the rows
\* that earlier attempts finished are read.
Resume(a) ==
  LET j == run[a].job
      c == Ch(a)
      p == MyPlan(a)
      used == UNION ToSet(p.scenes)
      todo == SetToSeq({Slot("name", c, k) : k \in p.renames})
                \o SetToSeq({Slot("sheet", c, k) : k \in used \ DOMAIN p.refs})
                \o [i \in DOMAIN p.scenes |-> Slot("scene", c, i)] IN
  /\ At(a, "resume") \/ (At(a, "load") /\ MyPlan(a).n # 0)
  /\ IF /\ p.n # 0
        /\ Current(a) /\ IsCurrent(p.ctx)
        /\ \A k \in DOMAIN p.refs : UsableSheet(p.refs[k], c)
     THEN /\ run' = [run EXCEPT ![a].pc = "next", ![a].ctx = p.ctx, ![a].planned = TRUE,
                                ![a].plan = p, ![a].sheets = p.refs, ![a].todo = todo,
                                ![a].done = {i \in Rows : art[i].job = j /\ art[i].ch = c}]
          /\ UNCHANGED job
     ELSE Raise(a)
  /\ UNCHANGED <<text, art, plan, left>>

Finished(a, slot) == {i \in run[a].done : art[i].slot = slot}

SheetsFor(a, i) ==
  LET ks == SetToSeq(run[a].plan.scenes[i]) IN [x \in DOMAIN ks |-> run[a].sheets[ks[x]]]

\* Mutant of the definition below.
OwnSourcesOnly(a, prior) == art[prior].src \cup run[a].ctx

\* The sources that a renamed sheet records.
RenameSources(a, prior) ==
  art[prior].src \cup run[a].ctx \cup {<<art[prior].ch, art[prior].hash>>}

\* The row for a slot.
NewRow(a, slot) ==
  LET p == run[a].plan
      prior == run[a].sheets[slot.of]
      row(kind, src, refs, told, seen) ==
        [job |-> run[a].job, ch |-> Ch(a), kind |-> kind, slot |-> slot, hash |-> Target(a).hash,
         src |-> src, refs |-> refs, count |-> IF kind = "scene" THEN Len(p.scenes) ELSE 0,
         plan |-> p.n, gone |-> FALSE, told |-> p.told \cup told, seen |-> p.seen \cup seen] IN
  CASE slot.kind = "name" ->
         row("sheet", RenameSources(a, prior), <<>>, art[prior].told, art[prior].seen)
    [] slot.kind = "sheet" -> row("sheet", run[a].ctx, <<>>, {}, {})
    [] slot.kind = "scene" ->
         LET refs == SheetsFor(a, slot.of) IN
         row("scene", run[a].ctx, refs, UNION {art[s].told : s \in ToSet(refs)}, SeenBy(ToSet(refs)))

\* save: refused without the job's plan row; a taken slot keeps its row.
\* The row of a character becomes the sheet that the scenes use.
Save(a, slot) ==
  LET j == run[a].job
      taken == RowOf(j, slot)
      id == IF taken = {} THEN Len(art) + 1 ELSE CHOOSE i \in taken : TRUE IN
  IF ~PlanRow(j) THEN Raise(a) /\ UNCHANGED art
  ELSE /\ art' = IF taken = {} THEN Append(art, NewRow(a, slot)) ELSE art
       /\ run' = [run EXCEPT ![a].pc = "next", ![a].todo = Tail(@),
                             ![a].sheets = IF slot.kind = "scene" THEN @
                                           ELSE [k \in DOMAIN @ \cup {slot.of} |->
                                                   IF k = slot.of THEN id ELSE @[k]]]
       /\ UNCHANGED job

\* The next slot: a finished one is taken over if it is still usable (a scene:
\* if it was painted from the same sheets), a rename is saved at once, and an
\* image is asked for.
NextSlot(a) ==
  LET slot == Head(run[a].todo)
      row == Finished(a, slot)
      ok == (slot.kind = "sheet" /\ row # {}) \/ Current(a)
      usable == IF slot.kind = "scene" THEN \A s \in ToSet(SheetsFor(a, slot.of)) : UsableSheet(s, Ch(a))
                ELSE IF row # {} THEN \A i \in row : UsableCopy(i, Ch(a))
                ELSE slot.kind = "name" => UsableSheet(run[a].sheets[slot.of], Ch(a))
      same == slot.kind = "scene" => \A i \in row : art[i].refs = SheetsFor(a, slot.of) IN
  /\ At(a, "next") /\ run[a].todo # <<>>
  /\ IF ~ok \/ ~usable \/ ~same THEN Raise(a) /\ UNCHANGED art
     ELSE IF row # {}
     THEN /\ run' = [run EXCEPT ![a].todo = Tail(@),
                                ![a].sheets = IF slot.kind = "scene" THEN @
                                              ELSE [k \in DOMAIN @ \cup {slot.of} |->
                                                IF k = slot.of THEN CHOOSE i \in row : TRUE ELSE @[k]]]
          /\ UNCHANGED <<job, art>>
     ELSE IF slot.kind = "name" THEN Len(art) < MaxArt /\ Save(a, slot)
     ELSE run' = [run EXCEPT ![a].pc = "paint"] /\ UNCHANGED <<job, art>>
  /\ UNCHANGED <<text, plan, left>>

\* The image came back and is saved, if nothing has changed meanwhile.
Paint(a) ==
  LET slot == Head(run[a].todo) IN
  /\ At(a, "paint") /\ Len(art) < MaxArt
  /\ IF /\ Current(a)
        /\ slot.kind = "scene" => \A s \in ToSet(SheetsFor(a, slot.of)) : UsableCopy(s, Ch(a))
     THEN Save(a, slot)
     ELSE Raise(a) /\ UNCHANGED art
  /\ UNCHANGED <<text, plan, left>>

EndChapter(a) ==
  /\ At(a, "next") /\ run[a].todo = <<>>
  /\ IF Current(a) THEN Advance(a) ELSE Raise(a)
  /\ UNCHANGED <<text, art, plan, left>>

\* The lease expires: the job is queued again while the attempt goes on.
LoseLease(a) ==
  LET j == run[a].job IN
  /\ ~At(a, "idle") /\ ~run[a].lost /\ left.faults > 0
  /\ left' = [left EXCEPT !.faults = @ - 1]
  /\ job[j].status = "running"
  /\ job' = [job EXCEPT ![j].status = IF @ = "running" /\ job[j].attempts < 2 THEN "queued" ELSE "failed"]
  /\ \E dead \in BOOLEAN : run' = [run EXCEPT ![a] = IF dead THEN Off ELSE [@ EXCEPT !.lost = TRUE]]
  /\ UNCHANGED <<text, art, plan>>

----------------------------------------------------------------------------
\* --- Changes under the art --------------------------------------------------

\* A chapter is edited, possibly back to what it was.
Edit(c, v) ==
  /\ MayChange /\ v # text[c]
  /\ text' = [text EXCEPT ![c] = v]
  /\ UNCHANGED <<art, plan, job, run>>

Through(j) == Last(job[j].options.chapters).ch

\* The plans that reach chapter c are deleted (those of a range's chapters
\* with their header), then the art from c on. dropped is history.
Invalidated(c) ==
  /\ job' = [j \in Jobs |-> IF job[j] # NoJob /\ Through(j) >= c /\ plan[j].parent
                            THEN [job[j] EXCEPT !.dropped = TRUE] ELSE job[j]]
  /\ plan' = [j \in Jobs |-> IF job[j] # NoJob /\ Through(j) >= c
                             THEN [parent |-> FALSE, of |-> [d \in Chapters |-> NoPlan]] ELSE plan[j]]
  /\ art' = [i \in DOMAIN art |-> IF art[i].ch >= c THEN [art[i] EXCEPT !.gone = TRUE] ELSE art[i]]

\* An import replaces a chapter, possibly by the same text.
ReplaceChapter(c, v) ==
  /\ MayChange
  /\ text' = [text EXCEPT ![c] = v]
  /\ Invalidated(c)
  /\ UNCHANGED run

ResetCodex ==
  /\ MayChange
  /\ Invalidated(1)
  /\ UNCHANGED <<text, run>>

ArtNext ==
  \/ \E r \in ArtRequests : IF r.ch = 0 THEN GenerateRange(r.force) ELSE Generate(r.ch, r.count, r.force)
  \/ \E j \in Jobs : Cancel(j) \/ \E a \in Attempts : Start(a, j)
  \/ \E a \in Attempts :
       \/ VerifyRange(a) \/ RangeChapter(a)
       \/ \E n \in 0..MaxContext : Decide(a, n)
       \/ \E s \in ScenePlans, r \in SUBSET Keys : MakePlan(a, s, r)
       \/ Resume(a) \/ NextSlot(a) \/ Paint(a) \/ EndChapter(a) \/ PlanInvalid(a) \/ NoImage(a) \/ LoseLease(a)
  \/ \E c \in Chapters, v \in Versions : Edit(c, v) \/ ReplaceChapter(c, v)
  \/ ResetCodex

ArtSpec == ArtInit /\ [][ArtNext]_artVars

----------------------------------------------------------------------------
\* --- Properties -------------------------------------------------------------

\* The types of the tables, the attempts and the counters.
ArtTypeOK ==
  /\ text \in [Chapters -> Versions]
  /\ art \in Seq(Row) /\ Len(art) <= MaxArt
  /\ plan \in [Jobs -> [parent : BOOLEAN, of : [Chapters -> Plan \cup {NoPlan}]]]
  /\ job \in [Jobs -> Job \cup {NoJob}]
  /\ run \in [Attempts -> Attempt \cup {Off}]
  /\ left \in [plans : 0..MaxPlans, changes : 0..MaxChanges, faults : 0..MaxFaults]

\* A reader of a chapter sees only art whose every maker had been told of
\* nothing beyond that chapter, even while a range draws ahead of the readers:
\* the text, the context, and the sheets handed on from chapter to chapter.
NoSpoilerArt == \A c \in Chapters : \A i \in Shown(c) : \A d \in art[i].seen : d <= c

\* Art is shown only while every text that went into it, through renamed
\* sheets and the sheets of a scene too, is what the chapter says now.
ShownIsOfItsText == \A c \in Chapters : \A i \in Shown(c) : IsCurrent(art[i].told)

\* The scenes of a chapter's gallery were planned together, however many
\* attempts drew them, unless the job's plan was deleted under it.
GalleryIsOnePlan ==
  \A c \in Chapters :
    Cardinality({art[i].plan : i \in {o \in Gallery(c) : ~job[art[o].job].dropped}}) <= 1

============================================================================
