------------------------------- MODULE Codex -------------------------------
(***************************************************************************)
(* The codex of one novel: chunks and their vectors, the knowledge that    *)
(* extraction commits chapter by chapter, the caches of what readers were  *)
(* told, and everything that changes them at the same time: two attempts   *)
(* of a build, edits of the text, imports, merges, resets and questions.   *)
(***************************************************************************)
EXTENDS Integers, FiniteSets, FiniteSetsExt

CONSTANTS
  N,          \* chapters are 1..N
  Width,      \* CODEX_CHECKPOINT_CHAPTERS
  Entities,   \* ids of entities
  Builders,   \* processes that may run the build
  NoOne,      \* no process
  MaxJobs,    \* bound on build jobs
  MaxRuns,    \* bound on provider answers
  MaxActs,    \* bound on what is done besides building
  MaxFaults,  \* bound on crashes, lost leases and provider failures
  Ops         \* what else happens: "edit", "replace", "merge", "reset", "ask"

ASSUME CodexAssumptions ==
  /\ {N, Width, MaxJobs, MaxRuns, MaxActs, MaxFaults} \subseteq Nat
  /\ N > 0 /\ Width > 0 /\ NoOne \notin Builders
  /\ Ops \subseteq {"edit", "replace", "merge", "reset", "ask"}

VARIABLES
  text,      \* version of each chapter's text
  chunk,     \* table chunks: version of the text cut up, and of that embedded
  codex,     \* extraction_state and all that is derived from the prefix
  facts,     \* entities that a chapter's facts, relations and events name
  entity,    \* tables entities and entity_aliases
  cache,     \* query_cache and wiki_cache: per ceiling, the chapters told from
  job,       \* the build job with the active idempotency key
  build,     \* local state of each builder
  saved,     \* the answer in the run workspace of a subscription build
  lock,      \* the builder that holds the novel's advisory lock
  reader,    \* a question being answered
  raced,     \* history: an import invalidated rows during a commit
  left       \* counters of the bounds

vars == <<text, chunk, codex, facts, entity, cache, job, build, saved, lock,
          reader, raced, left>>

----------------------------------------------------------------------------
Chapters == 1..N

NoContext == [memory |-> <<>>, roster |-> {}]
NoRow == [run |-> 0, job |-> 0, src |-> 0, of |-> 0, ctx |-> NoContext, ents |-> {}]
NoEntity == [first |-> 0, named |-> 0, aliases |-> {}]
Idle == [pc |-> "idle", lost |-> FALSE]
NoAnswer == [c |-> 0]

\* A name of an entity: the chapter it may be shown from, and where it is told.
Alias == [at : Chapters, from : Chapters]

\* What a chapter is extracted with: the runs before it, and the known names.
Contexts == [memory : UNION {[1..(c - 1) -> 0..MaxRuns] : c \in Chapters},
             roster : SUBSET (Entities \X SUBSET Alias)]

\* The input of a chapter, the proposal for it, and what a commit takes of it.
Inputs == [c : Chapters, src : Nat, ctx : Contexts]
Answers == [c : Chapters, src : Nat, ctx : Contexts, run : 1..MaxRuns]
Anchored == [c : Chapters, src : Nat, ctx : Contexts, run : 1..MaxRuns, of : Nat]

\* What an attempt carries from one step to the next, texts sent to be embedded
\* included.
Carried == {NoAnswer} \cup [Chapters -> Nat] \cup Inputs \cup Answers \cup Anchored

\* The local state of an attempt.
Building ==
  [pc : {"chunk", "embed", "vectors", "resume", "plan", "extract", "call", "commit", "recommit"},
   lost : BOOLEAN, job : Nat, force : BOOLEAN, sub : BOOLEAN, c : 1..(N + 1),
   todo : SUBSET Chapters, in : Carried]

Init ==
  /\ text = [c \in Chapters |-> 1]
  /\ chunk = [c \in Chapters |-> [of |-> 0, vec |-> 0]]
  /\ codex = [c \in Chapters |-> NoRow]
  /\ facts = [c \in Chapters |-> {}]
  /\ entity = [e \in Entities |-> NoEntity]
  /\ cache = [k \in Chapters |-> {}]
  /\ job = [id |-> 0, active |-> FALSE, force |-> FALSE, sub |-> FALSE]
  /\ build = [b \in Builders |-> Idle]
  /\ saved = NoAnswer
  /\ lock = NoOne
  /\ reader = NoAnswer
  /\ raced = FALSE
  /\ left = [runs |-> 0, acts |-> MaxActs, faults |-> MaxFaults]

source == <<text, chunk>>
knowledge == <<codex, facts, entity, cache>>

At(b, pc) == build[b].pc = pc
Go(b, pc) == build' = [build EXCEPT ![b].pc = pc]

MayFail == left.faults > 0 /\ left' = [left EXCEPT !.faults = @ - 1]
MayAct == left.acts > 0 /\ left' = [left EXCEPT !.acts = @ - 1]

\* The attempt raises: the worker retries the job, or gives it up.
Raise(b) ==
  /\ build' = [build EXCEPT ![b] = Idle]
  /\ \/ UNCHANGED job
     \/ ~build[b].lost /\ job' = [job EXCEPT !.active = FALSE]

\* --- Scheduling and the attempts of a build --------------------------------

\* schedule_build: one active build per novel.
ScheduleBuild(force, sub) ==
  /\ ~job.active /\ job.id < MaxJobs
  /\ job' = [id |-> job.id + 1, active |-> TRUE, force |-> force, sub |-> sub]
  /\ saved' = NoAnswer
  /\ UNCHANGED <<source, knowledge, build, lock, reader, raced, left>>

\* The job is claimed again once its lease is lost.
StartAttempt(b) ==
  /\ job.active /\ At(b, "idle")
  /\ \A o \in Builders : At(o, "idle") \/ build[o].lost
  /\ build' = [build EXCEPT ![b] =
       [pc |-> "chunk", lost |-> FALSE, job |-> job.id, force |-> job.force, sub |-> job.sub,
        c |-> 1, todo |-> Chapters, in |-> NoAnswer]]
  /\ UNCHANGED <<source, knowledge, job, saved, lock, reader, raced, left>>

\* chunk_chapter: rows of unchanged text keep their vector, and the text of a
\* chapter with a checkpoint may not change.
ChunkChapter(b) ==
  LET c == build[b].c
      old == chunk[c].of
      skip == old # 0 /\ ~build[b].force
      refuse == ~skip /\ old \notin {0, text[c]} /\ codex[c].run # 0 IN
  /\ At(b, "chunk")
  /\ IF refuse THEN Raise(b) /\ UNCHANGED chunk
     ELSE /\ chunk' = IF skip THEN chunk
                      ELSE [chunk EXCEPT ![c] = [of |-> text[c],
                              vec |-> IF old = text[c] THEN @.vec ELSE 0]]
          /\ build' = [build EXCEPT ![b] = [@ EXCEPT
                         !.c = IF c = N THEN 1 ELSE c + 1,
                         !.pc = IF c = N THEN "embed" ELSE "chunk"]]
          /\ UNCHANGED job
  /\ UNCHANGED <<text, knowledge, saved, lock, reader, raced, left>>

\* embed_missing_chunks up to the answer of the provider.
ReadMissing(b) ==
  /\ At(b, "embed")
  /\ build' = [build EXCEPT ![b] = [@ EXCEPT !.pc = "vectors",
       !.in = [c \in Chapters |-> IF chunk[c].vec = 0 THEN chunk[c].of ELSE 0]]]
  /\ UNCHANGED <<source, knowledge, job, saved, lock, reader, raced, left>>

\* Mutant of the definition below.
Overwrite(row, t) == IF t # 0 /\ row.of # 0 THEN [row EXCEPT !.vec = t] ELSE row

\* UPDATE chunks SET embedding WHERE text = what was sent AND embedding IS NULL
Attach(row, t) == IF t # 0 /\ row.of = t /\ row.vec = 0 THEN [row EXCEPT !.vec = t] ELSE row

\* A batch that the provider fails is skipped.
WriteVectors(b) ==
  /\ At(b, "vectors")
  /\ \/ chunk' = [c \in Chapters |-> Attach(chunk[c], build[b].in[c])] /\ UNCHANGED left
     \/ MayFail /\ UNCHANGED chunk
  /\ build' = [build EXCEPT ![b] = [@ EXCEPT
                  !.pc = IF build[b].sub THEN "resume" ELSE "extract", !.in = NoAnswer]]
  /\ UNCHANGED <<text, knowledge, job, saved, lock, reader, raced>>

\* --- Extraction of a chapter -----------------------------------------------

\* The chapters before c that the states of entities and relationships and the
\* chapter memories are folded from.
Memory(c) == [d \in 1..(c - 1) |-> codex[d].run]

\* The entities that may be supplied with c, under the names known before it.
\* Which of them score high enough to be supplied is left out.
Roster(c) ==
  {<<e, {a \in entity[e].aliases : a.at < c}>> :
     e \in {e \in Entities : entity[e].first \in 1..(c - 1)}}

\* build_chapter_context: what is known before the chapter.
Context(c) == [memory |-> Memory(c), roster |-> Roster(c)]

\* The summaries of the open block and the checkpoint of the last one exist.
Prerequisites(c) ==
  LET start == ((c - 1) \div Width) * Width + 1 IN
  \A d \in (start - 1)..(c - 1) : d > 0 => codex[d].run # 0

\* _resume_ready_commits: a proposal that the run of a lost attempt left behind
\* is committed if its text and context are still the current ones.
Resume(b) ==
  LET c == saved.c
      ready == /\ c # 0
               /\ saved.src = text[c] /\ chunk[c].of # 0
               /\ Prerequisites(c) /\ saved.ctx = Context(c) IN
  /\ At(b, "resume")
  /\ IF ready
     THEN build' = [build EXCEPT ![b] = [@ EXCEPT !.pc = "recommit", !.c = c, !.in = saved]]
     ELSE Go(b, "plan")
  /\ saved' = IF ready THEN saved ELSE NoAnswer
  /\ UNCHANGED <<source, knowledge, job, lock, reader, raced, left>>

\* execute_codex_job lists the chapters once, without those that are done and
\* those that this job committed in an earlier attempt.
PlanChapters(b) ==
  /\ At(b, "plan")
  /\ build' = [build EXCEPT ![b] = [@ EXCEPT !.pc = "extract", !.c = 1, !.in = NoAnswer,
       !.todo = {c \in Chapters :
                   codex[c].run # 0 => build[b].force /\ codex[c].job # build[b].job}]]
  /\ UNCHANGED <<source, knowledge, job, saved, lock, reader, raced, left>>

\* extract_knowledge_for_chapter asks each time whether the chapter is done.
Done(b, c) ==
  IF build[b].sub THEN c \notin build[b].todo ELSE codex[c].run # 0 /\ ~build[b].force

SkipChapter(b) ==
  /\ At(b, "extract") /\ build[b].c <= N
  /\ Done(b, build[b].c)
  /\ build' = [build EXCEPT ![b].c = @ + 1]
  /\ UNCHANGED <<source, knowledge, job, saved, lock, reader, raced, left>>

\* clear_caches: what was told from this chapter on.
DropCache(c) == [k \in Chapters |-> IF k >= c THEN {} ELSE cache[k]]

\* _chapter_input
Input(c) == [c |-> c, src |-> text[c], ctx |-> Context(c)]

\* A direct build also clears the caches before it calls the provider.
ReadInput(b) ==
  LET c == build[b].c IN
  /\ At(b, "extract") /\ c <= N
  /\ ~Done(b, c)
  /\ cache' = IF build[b].sub THEN cache ELSE DropCache(c)
  /\ IF chunk[c].of # 0 /\ Prerequisites(c)
     THEN build' = [build EXCEPT ![b] = [@ EXCEPT !.pc = "call", !.in = Input(c)]]
          /\ UNCHANGED job
     ELSE Raise(b)
  /\ UNCHANGED <<source, codex, facts, entity, saved, lock, reader, raced, left>>

\* _extract_chapter: the proposal stays in the workspace of its run.
Keep(b, answer) == IF build[b].sub /\ build[b].job = job.id THEN answer ELSE saved

\* The provider's proposal passes the validators.
ProviderAnswers(b) ==
  LET run == left.runs + 1
      p == build[b].in
      answer == [c |-> p.c, src |-> p.src, ctx |-> p.ctx, run |-> run] IN
  /\ At(b, "call") /\ left.runs < MaxRuns
  /\ left' = [left EXCEPT !.runs = run]
  /\ build' = [build EXCEPT ![b] = [@ EXCEPT !.pc = "commit", !.in = answer]]
  /\ saved' = Keep(b, answer)
  /\ UNCHANGED <<source, knowledge, job, lock, reader, raced>>

ProviderFails(b) ==
  /\ At(b, "call")
  /\ MayFail /\ Raise(b)
  /\ UNCHANGED <<source, knowledge, saved, lock, reader, raced>>

\* The next chapter, or after a resumed commit the plan of the others.
Onward(b) ==
  build' = [build EXCEPT ![b] = [@ EXCEPT
              !.pc = IF At(b, "recommit") THEN "plan" ELSE "extract",
              !.c = build[b].c + 1, !.in = NoAnswer]]

\* Mutant of the definition below.
AcceptAnyContext(b, c, p) ==
  text[c] = p.src /\ (codex[c].run = 0 \/ build[b].force) /\ chunk[c].of # 0

\* What commit_extraction checks under the locks: the text, that nobody else
\* committed the chapter, that it has chunks, and the context.
MayCommit(b, c, p) ==
  /\ text[c] = p.src
  /\ codex[c].run = 0 \/ build[b].force
  /\ chunk[c].of # 0
  /\ Prerequisites(c) /\ Context(c) = p.ctx

\* The transaction locks the chapter's row and the novel. The run that is
\* refused is failed and its proposal is not used again. Claims without an
\* anchor in the chunks as they are now are put aside.
CommitBegins(b) ==
  LET p == build[b].in
      again == codex[p.c].run = p.run /\ text[p.c] = p.src
      failed == saved' = IF saved = p THEN NoAnswer ELSE saved IN
  /\ At(b, "commit") \/ At(b, "recommit")
  /\ lock = NoOne
  /\ \/ again /\ Onward(b) /\ UNCHANGED <<job, lock, saved>>
     \/ ~again /\ MayCommit(b, p.c, p) /\ lock' = b /\ UNCHANGED <<job, saved>>
          /\ build' = [build EXCEPT ![b].in = [c |-> p.c, src |-> p.src, ctx |-> p.ctx,
                                               run |-> p.run, of |-> chunk[p.c].of]]
     \/ ~again /\ ~MayCommit(b, p.c, p) /\ At(b, "commit") /\ Raise(b) /\ failed /\ UNCHANGED lock
     \/ ~again /\ ~MayCommit(b, p.c, p) /\ At(b, "recommit") /\ Onward(b) /\ failed
          /\ UNCHANGED <<job, lock>>
  /\ UNCHANGED <<source, knowledge, reader, raced, left>>

\* The rows that depend on chapter c, its own and those of the later ones.
DropSuffix(rows, c) == [d \in Chapters |-> IF d < c THEN rows[d] ELSE NoRow]
DropAliases(e, c) == [e EXCEPT !.aliases = {a \in @ : a.at # c}]

\* Mutant of the definition below.
PromoteAlways(e, c) == [e EXCEPT !.named = c]

\* promote_canonical_name_if_safe: only a name learned where the entity is
\* first seen may become the name it is shown by.
Promote(e, c) == IF e.first = c THEN [e EXCEPT !.named = c] ELSE e

\* A new alias, or one that is known from a later chapter and is now from c.
Reveal(e, c) ==
  LET known == {a \in e.aliases : a.at >= c} IN
  {Promote([e EXCEPT !.aliases = @ \cup {[at |-> c, from |-> c]}], c)} \cup
  {Promote([e EXCEPT !.aliases = (@ \ {a}) \cup {[at |-> c, from |-> c]}], c) : a \in known}

\* resolve_entity: a mention is one of the entities seen so far, or a new one.
Mentioned(e, c) == IF e.first = 0 THEN [first |-> c, named |-> c, aliases |-> {}] ELSE e

\* What the commit records of the chapter: activity, states, threads, summary,
\* memory, context and extraction_state.
Row(b, p, ents) == [run |-> p.run, job |-> build[b].job, src |-> p.src, of |-> p.of,
                    ctx |-> p.ctx, ents |-> ents]

CommitWrites(b) ==
  LET p == build[b].in
      c == p.c
      kept == [e \in Entities |-> DropAliases(entity[e], c)] IN
  /\ lock = b
  /\ \E e \in Entities :
       /\ entity[e].first <= c
       /\ \E known \in {Mentioned(kept[e], c)} \cup Reveal(Mentioned(kept[e], c), c) :
            entity' = [kept EXCEPT ![e] = known]
       /\ facts' = [facts EXCEPT ![c] = {e}]
       /\ codex' = [DropSuffix(codex, c) EXCEPT ![c] = Row(b, p, {e})]
  /\ cache' = DropCache(c)
  /\ lock' = NoOne
  /\ Onward(b)
  /\ UNCHANGED <<source, job, saved, reader, raced, left>>

\* prune_orphan_entities, after which the build is done.
PruneOrphans(b) ==
  LET used(e) == \E c \in Chapters : e \in facts[c] \cup codex[c].ents
      orphan(e) == entity[e].first # 0 /\ codex[entity[e].first].run # 0 /\ ~used(e) IN
  /\ At(b, "extract") /\ build[b].c > N
  /\ entity' = [e \in Entities |-> IF orphan(e) THEN NoEntity ELSE entity[e]]
  /\ build' = [build EXCEPT ![b] = Idle]
  /\ job' = IF build[b].lost THEN job ELSE [job EXCEPT !.active = FALSE]
  /\ UNCHANGED <<source, codex, facts, cache, saved, lock, reader, raced, left>>

Crash(b) ==
  /\ ~At(b, "idle")
  /\ MayFail
  /\ build' = [build EXCEPT ![b] = Idle]
  /\ lock' = IF lock = b THEN NoOne ELSE lock
  /\ UNCHANGED <<source, knowledge, job, saved, reader, raced>>

LoseLease(b) ==
  /\ ~At(b, "idle") /\ ~build[b].lost
  /\ MayFail
  /\ build' = [build EXCEPT ![b].lost = TRUE]
  /\ UNCHANGED <<source, knowledge, job, saved, lock, reader, raced>>

\* --- Everyone else -----------------------------------------------------------

\* The row of a chapter is locked by the commit of its knowledge.
Unlocked(c) == \A b \in Builders : lock = b => build[b].in.c # c

Change(c) ==
  /\ Unlocked(c) /\ MayAct
  /\ text' = [text EXCEPT ![c] = @ + 1]

\* An edit of the shared text, or a forced scrape, leaves the codex alone.
EditText(c) ==
  /\ "edit" \in Ops /\ Change(c)
  /\ UNCHANGED <<chunk, knowledge, job, build, saved, lock, reader, raced>>

\* An import that replaces the chapter: invalidate_chapter_range takes no lock.
ReplaceChapter(c) ==
  /\ "replace" \in Ops /\ Change(c)
  /\ chunk' = [chunk EXCEPT ![c] = [of |-> 0, vec |-> 0]]
  /\ codex' = DropSuffix(codex, c)
  /\ facts' = [facts EXCEPT ![c] = {}]
  /\ entity' = [e \in Entities |-> DropAliases(entity[e], c)]
  /\ cache' = [k \in Chapters |-> {}]
  /\ raced' = (raced \/ lock # NoOne)
  /\ UNCHANGED <<job, build, saved, lock, reader>>

\* merge_entities folds the one entity into the other, under the lock.
MergeEntities(keep, drop) ==
  LET into(ents) == IF drop \in ents THEN (ents \ {drop}) \cup {keep} ELSE ents
      name == [at |-> entity[drop].first, from |-> entity[drop].named] IN
  /\ "merge" \in Ops /\ keep # drop /\ lock = NoOne /\ MayAct
  /\ entity[keep].first # 0 /\ entity[drop].first # 0
  /\ entity' = [entity EXCEPT
                  ![keep].aliases = @ \cup entity[drop].aliases \cup {name},
                  ![drop] = NoEntity]
  /\ facts' = [c \in Chapters |-> into(facts[c])]
  /\ codex' = [c \in Chapters |-> [codex[c] EXCEPT !.ents = into(@)]]
  /\ UNCHANGED <<source, cache, job, build, saved, lock, reader, raced>>

\* reset_structured_codex, refused while a build is active.
ResetCodex ==
  /\ "reset" \in Ops /\ ~job.active /\ lock = NoOne /\ MayAct
  /\ \E c \in Chapters : codex[c].run # 0
  /\ codex' = [c \in Chapters |-> NoRow]
  /\ facts' = [c \in Chapters |-> {}]
  /\ entity' = [e \in Entities |-> NoEntity]
  /\ cache' = [k \in Chapters |-> {}]
  /\ UNCHANGED <<source, job, build, saved, lock, reader, raced>>

\* What the retrieval tools return under a ceiling, by the chapters it is from.
VisibleAt(k) ==
  LET seen == {e \in Entities : entity[e].first \in 1..k} IN
  {c \in 1..k : facts[c] # {}}
    \cup {entity[e].named : e \in seen}
    \cup UNION {{a.from : a \in {a \in entity[e].aliases : a.at <= k}} : e \in seen}

\* effective_ceiling: what is asked for, within max_chapter_read.
EffectiveCeiling(requested, progress) == Max({1, Min({requested, progress})})

\* ask, recap or a profile: an answer that is not cached is worked out over
\* several calls and cached afterwards.
Ask(requested, progress) ==
  LET k == EffectiveCeiling(requested, progress) IN
  /\ "ask" \in Ops /\ reader.c = 0 /\ MayAct
  /\ cache[k] = {} /\ VisibleAt(k) # {}
  /\ reader' = [c |-> k, told |-> VisibleAt(k), read |-> progress]
  /\ UNCHANGED <<source, knowledge, job, build, saved, lock, raced>>

Answer ==
  /\ reader.c # 0
  /\ cache' = [cache EXCEPT ![reader.c] = reader.told]
  /\ reader' = NoAnswer
  /\ UNCHANGED <<source, codex, facts, entity, job, build, saved, lock, raced, left>>

----------------------------------------------------------------------------
BuilderStep(b) ==
  \/ StartAttempt(b) \/ ChunkChapter(b) \/ ReadMissing(b) \/ WriteVectors(b)
  \/ Resume(b) \/ PlanChapters(b) \/ SkipChapter(b) \/ ReadInput(b) \/ ProviderAnswers(b)
  \/ CommitBegins(b) \/ CommitWrites(b) \/ PruneOrphans(b)

Next ==
  \/ \E force, sub \in BOOLEAN : ScheduleBuild(force, sub)
  \/ \E b \in Builders : BuilderStep(b) \/ ProviderFails(b) \/ Crash(b) \/ LoseLease(b)
  \/ \E c \in Chapters : EditText(c) \/ ReplaceChapter(c) \/ \E read \in Chapters : Ask(c, read)
  \/ \E keep, drop \in Entities : MergeEntities(keep, drop)
  \/ ResetCodex \/ Answer

Spec == Init /\ [][Next]_vars

----------------------------------------------------------------------------
TypeOK ==
  /\ text \in [Chapters -> Nat]
  /\ chunk \in [Chapters -> [of : Nat, vec : Nat]]
  /\ codex \in [Chapters -> [run : 0..MaxRuns, job : Nat, src : Nat, of : Nat,
                             ctx : Contexts, ents : SUBSET Entities]]
  /\ facts \in [Chapters -> SUBSET Entities]
  /\ entity \in [Entities -> [first : 0..N, named : 0..N, aliases : SUBSET Alias]]
  /\ cache \in [Chapters -> SUBSET Chapters]
  /\ job \in [id : 0..MaxJobs, active : BOOLEAN, force : BOOLEAN, sub : BOOLEAN]
  /\ build \in [Builders -> {Idle} \cup Building]
  /\ saved \in {NoAnswer} \cup Answers
  /\ lock \in Builders \cup {NoOne}
  /\ reader \in {NoAnswer} \cup [c : Chapters, told : SUBSET Chapters, read : Chapters]
  /\ raced \in BOOLEAN
  /\ left \in [runs : 0..MaxRuns, acts : 0..MaxActs, faults : 0..MaxFaults]

\* A vector always belongs to the text of its chunk: it is not attached to a
\* text that was cut anew while the provider was at work (embed_missing_chunks).
VectorIsOfItsText == \A c \in Chapters : chunk[c].vec \in {0, chunk[c].of}

\* The knowledge of a chapter was extracted on top of exactly the memory that
\* the earlier chapters have now: a build never leaves a checkpoint behind that
\* stands on knowledge since rebuilt or removed (commit_extraction).
MemoryIsCurrent ==
  \A c \in Chapters : codex[c].run # 0 /\ ~raced =>
    \A d \in 1..(c - 1) : codex[d].run # 0 /\ codex[c].ctx.memory[d] = codex[d].run

\* Whatever a reader is shown or was told under a ceiling comes from chapters
\* up to it, names and aliases included.
NoSpoilers ==
  /\ \A k \in Chapters : VisibleAt(k) \subseteq 1..k /\ cache[k] \subseteq 1..k
  /\ reader.c # 0 => reader.told \subseteq 1..reader.read

=============================================================================
