---------------------------- MODULE Codex_proofs ----------------------------
(***************************************************************************)
(* Proofs about the codex of a novel: the types of its state, that vectors *)
(* belong to the text of their chunk, that every chapter's knowledge rests *)
(* on the memory the earlier chapters have now, and that no reader is told *)
(* of chapters beyond the ceiling.                                         *)
(***************************************************************************)
EXTENDS Codex, TLAPS

----------------------------------------------------------------------------
(* The bounds, and the records that attempts carry.                        *)

LEMMA Bounds == /\ N \in Nat /\ Width \in Nat /\ MaxJobs \in Nat /\ MaxRuns \in Nat
                /\ MaxActs \in Nat /\ MaxFaults \in Nat
                /\ N > 0 /\ Width > 0 /\ NoOne \notin Builders
  BY CodexAssumptions

LEMMA ChapterBounds == /\ Chapters \subseteq Nat /\ 1 \in Chapters
                       /\ \A c \in Chapters : /\ c \in 1..(N + 1) /\ c + 1 \in 1..(N + 1)
                                              /\ c # 0 /\ c >= 1 /\ c <= N
                                              /\ c # N => c + 1 \in Chapters
  BY Bounds DEF Chapters

Pcs == {"chunk", "embed", "vectors", "resume", "plan", "extract", "call", "commit", "recommit"}

LEMMA BuildingFields ==
  ASSUME NEW s \in {Idle} \cup Building
  PROVE  /\ s.pc # "idle" => /\ s \in Building /\ s.pc \in Pcs /\ s.c \in 1..(N + 1)
                             /\ s.job \in Nat /\ s.force \in BOOLEAN /\ s.sub \in BOOLEAN
                             /\ s.todo \in SUBSET Chapters /\ s.in \in Carried
         /\ s.pc = "idle" => s = Idle
         /\ s.lost \in BOOLEAN
<1>1. CASE s = Idle
  BY <1>1 DEF Idle
<1>2. CASE s \in Building
  BY <1>2 DEF Building, Pcs
<1> QED
  BY <1>1, <1>2

(* The ways in which an attempt's state is updated.                        *)
LEMMA MoveToPc ==
  ASSUME NEW s \in Building, NEW pc \in Pcs
  PROVE  /\ [s EXCEPT !.pc = pc] \in Building
         /\ [s EXCEPT !.pc = pc].pc = pc
         /\ [s EXCEPT !.pc = pc].c = s.c
         /\ [s EXCEPT !.pc = pc].in = s.in
  BY DEF Building, Pcs

LEMMA MoveToChapter ==
  ASSUME NEW s \in Building, NEW c \in 1..(N + 1)
  PROVE  /\ [s EXCEPT !.c = c] \in Building
         /\ [s EXCEPT !.c = c].pc = s.pc
         /\ [s EXCEPT !.c = c].c = c
         /\ [s EXCEPT !.c = c].in = s.in
  BY DEF Building, Pcs

LEMMA MoveWith ==
  ASSUME NEW s \in Building, NEW in \in Carried
  PROVE  /\ [s EXCEPT !.in = in] \in Building
         /\ [s EXCEPT !.in = in].pc = s.pc
         /\ [s EXCEPT !.in = in].c = s.c
         /\ [s EXCEPT !.in = in].in = in
  BY DEF Building, Pcs

LEMMA MoveLost ==
  ASSUME NEW s \in Building
  PROVE  /\ [s EXCEPT !.lost = TRUE] \in Building
         /\ [s EXCEPT !.lost = TRUE].pc = s.pc
         /\ [s EXCEPT !.lost = TRUE].c = s.c
         /\ [s EXCEPT !.lost = TRUE].in = s.in
  BY DEF Building, Pcs

LEMMA NewAttempt ==
  ASSUME NEW id \in Nat, NEW force \in BOOLEAN, NEW sub \in BOOLEAN
  PROVE  [pc |-> "chunk", lost |-> FALSE, job |-> id, force |-> force, sub |-> sub,
          c |-> 1, todo |-> Chapters, in |-> NoAnswer] \in Building
  BY ChapterBounds DEF Building, Carried

LEMMA AnswerFields ==
  /\ \A p \in Inputs : p.c \in Chapters /\ p.src \in Nat /\ p.ctx \in Contexts
  /\ \A p \in Answers : /\ p.c \in Chapters /\ p.src \in Nat /\ p.ctx \in Contexts
                        /\ p.run \in 1..MaxRuns
  /\ \A p \in Anchored : /\ p.c \in Chapters /\ p.src \in Nat /\ p.ctx \in Contexts
                         /\ p.run \in 1..MaxRuns /\ p.of \in Nat
  BY DEF Inputs, Answers, Anchored

LEMMA AnswerStates ==
  ASSUME NEW c \in Chapters, NEW src \in Nat, NEW ctx \in Contexts
  PROVE  /\ [c |-> c, src |-> src, ctx |-> ctx] \in Inputs
         /\ \A run \in 1..MaxRuns :
              /\ [c |-> c, src |-> src, ctx |-> ctx, run |-> run] \in Answers
              /\ \A of \in Nat :
                   [c |-> c, src |-> src, ctx |-> ctx, run |-> run, of |-> of] \in Anchored
  BY DEF Inputs, Answers, Anchored

----------------------------------------------------------------------------
(* The steps.                                                              *)

ProcessStep(b) == BuilderStep(b) \/ ProviderFails(b) \/ Crash(b) \/ LoseLease(b)

ReaderStep == (\E c, read \in Chapters : Ask(c, read)) \/ Answer

EditorStep ==
  \/ \E c \in Chapters : EditText(c) \/ ReplaceChapter(c)
  \/ \E keep, drop \in Entities : MergeEntities(keep, drop)
  \/ ResetCodex

ScheduleStep == \E force, sub \in BOOLEAN : ScheduleBuild(force, sub)

LEMMA NextCases ==
  ASSUME [Next]_vars
  PROVE  \/ ScheduleStep \/ EditorStep \/ ReaderStep
         \/ \E b \in Builders : ProcessStep(b)
         \/ UNCHANGED vars
  BY DEF Next, ProcessStep, ReaderStep, EditorStep, ScheduleStep

(* Who changes what.                                                       *)
LEMMA ProcessFrame ==
  ASSUME NEW b \in Builders, ProcessStep(b)
  PROVE  /\ UNCHANGED <<text, reader, raced>>
         /\ UNCHANGED chunk \/ ChunkChapter(b) \/ WriteVectors(b)
         /\ UNCHANGED <<codex, facts>> \/ CommitWrites(b)
         /\ UNCHANGED entity \/ CommitWrites(b) \/ PruneOrphans(b)
         /\ UNCHANGED cache \/ CommitWrites(b) \/ ReadInput(b)
         /\ UNCHANGED saved \/ Resume(b) \/ ProviderAnswers(b) \/ CommitBegins(b)
<1>1. CASE StartAttempt(b) \/ SkipChapter(b) \/ PlanChapters(b) \/ ReadMissing(b)
  BY <1>1 DEF StartAttempt, SkipChapter, PlanChapters, ReadMissing, source, knowledge
<1>2. CASE ChunkChapter(b) \/ WriteVectors(b)
  BY <1>2 DEF ChunkChapter, WriteVectors, source, knowledge
<1>3. CASE Resume(b) \/ ProviderAnswers(b) \/ CommitBegins(b)
  BY <1>3 DEF Resume, ProviderAnswers, CommitBegins, source, knowledge
<1>4. CASE ReadInput(b)
  BY <1>4 DEF ReadInput, source
<1>5. CASE CommitWrites(b)
  BY <1>5 DEF CommitWrites, source
<1>6. CASE PruneOrphans(b)
  BY <1>6 DEF PruneOrphans, source
<1>7. CASE ProviderFails(b) \/ Crash(b) \/ LoseLease(b)
  BY <1>7 DEF ProviderFails, Crash, LoseLease, source, knowledge
<1> QED
  BY <1>1, <1>2, <1>3, <1>4, <1>5, <1>6, <1>7 DEF ProcessStep, BuilderStep

LEMMA OthersFrame ==
  ASSUME ScheduleStep \/ EditorStep \/ ReaderStep \/ UNCHANGED vars
  PROVE  /\ UNCHANGED <<build, lock>>
         /\ UNCHANGED text \/ \E c \in Chapters : Change(c)
         /\ UNCHANGED chunk \/ \E c \in Chapters : ReplaceChapter(c)
         /\ \/ UNCHANGED <<codex, facts, entity, raced>>
            \/ \E c \in Chapters : ReplaceChapter(c)
            \/ \E keep, drop \in Entities : MergeEntities(keep, drop)
            \/ ResetCodex
         /\ UNCHANGED cache \/ (\E c \in Chapters : ReplaceChapter(c)) \/ ResetCodex \/ Answer
         /\ UNCHANGED saved \/ saved' = NoAnswer
         /\ UNCHANGED reader \/ (\E c, read \in Chapters : Ask(c, read)) \/ Answer
<1>1. CASE ScheduleStep
  BY <1>1 DEF ScheduleStep, ScheduleBuild, source, knowledge
<1>2. ASSUME NEW c \in Chapters, EditText(c)
      PROVE  UNCHANGED <<build, lock, chunk, codex, facts, entity, raced, cache, saved, reader>>
  BY <1>2 DEF EditText, knowledge
<1>3. ASSUME NEW c \in Chapters, ReplaceChapter(c)
      PROVE  UNCHANGED <<build, lock, saved, reader>> /\ Change(c)
  BY <1>3 DEF ReplaceChapter
<1>4. ASSUME NEW keep \in Entities, NEW drop \in Entities, MergeEntities(keep, drop)
      PROVE  UNCHANGED <<build, lock, text, chunk, cache, saved, reader, raced>>
  BY <1>4 DEF MergeEntities, source
<1>5. ASSUME ResetCodex
      PROVE  UNCHANGED <<build, lock, text, chunk, saved, reader, raced>>
  BY <1>5 DEF ResetCodex, source
<1>6. ASSUME NEW c \in Chapters, NEW read \in Chapters, Ask(c, read)
      PROVE  UNCHANGED <<build, lock, text, chunk, codex, facts, entity, raced, cache, saved>>
  BY <1>6 DEF Ask, source, knowledge
<1>7. ASSUME Answer
      PROVE  UNCHANGED <<build, lock, text, chunk, codex, facts, entity, raced, saved>>
  BY <1>7 DEF Answer, source
<1>8. CASE UNCHANGED vars
  BY <1>8 DEF vars
<1>9. CASE EditorStep
  <2>1. ASSUME NEW c \in Chapters, EditText(c) PROVE Change(c)
    BY <2>1 DEF EditText
  <2> QED
    BY <1>2, <1>3, <1>4, <1>5, <1>9, <2>1 DEF EditorStep
<1>10. CASE ReaderStep
  BY <1>6, <1>7, <1>10 DEF ReaderStep
<1> QED
  BY <1>1, <1>8, <1>9, <1>10
----------------------------------------------------------------------------
(* What an attempt carries, by the stage it is in, and whether it is the   *)
(* one that holds the novel's lock.                                        *)

AttemptOK(s, held) ==
  /\ s.pc \in Pcs \ {"plan", "extract"} => s.c \in Chapters
  /\ s.pc = "vectors" => s.in \in [Chapters -> Nat]
  /\ s.pc = "call" => s.in \in Inputs
  /\ s.pc \in {"commit", "recommit"} =>
       IF held THEN s.in \in Anchored ELSE s.in \in Answers
  /\ held => s.pc \in {"commit", "recommit"}

(* An entity is shown by a name from where it is first seen, and an alias  *)
(* is told no later than where it may be shown.                            *)
EntitySet == [first : 0..N, named : 0..N, aliases : SUBSET Alias]
NameOK(e) == e.named = e.first /\ \A a \in e.aliases : a.from <= a.at
NamesAreSafe == \A e \in Entities : NameOK(entity[e])

TypeInv == /\ TypeOK /\ NamesAreSafe
           /\ \A b \in Builders : AttemptOK(build[b], lock = b)

LEMMA IdleIsOK == AttemptOK(Idle, FALSE) /\ Idle.pc = "idle"
  BY DEF AttemptOK, Idle, Pcs

LEMMA ContextType ==
  ASSUME TypeOK, NEW c \in Chapters
  PROVE  Context(c) \in Contexts /\ Context(c).memory = Memory(c)
<1>1. Memory(c) \in [1..(c - 1) -> 0..MaxRuns]
  <2>1. \A d \in 1..(c - 1) : d \in Chapters
    BY ChapterBounds, Bounds DEF Chapters
  <2> QED
    BY <2>1 DEF Memory, TypeOK
<1>2. Memory(c) \in UNION {[1..(d - 1) -> 0..MaxRuns] : d \in Chapters}
  BY <1>1
<1>3. Roster(c) \in SUBSET (Entities \X SUBSET Alias)
  <2>1. \A e \in Entities : entity[e].aliases \subseteq Alias
    BY DEF TypeOK
  <2> QED
    BY <2>1 DEF Roster
<1> HIDE DEF Memory, Roster
<1> QED
  BY <1>2, <1>3 DEF Context, Contexts

LEMMA NoContextType == NoContext \in Contexts
<1>1. <<>> \in [1..(1 - 1) -> 0..MaxRuns] /\ 1 \in Chapters
  BY ChapterBounds
<1>2. <<>> \in UNION {[1..(d - 1) -> 0..MaxRuns] : d \in Chapters}
  BY <1>1
<1> QED
  BY <1>2 DEF NoContext, Contexts

(* A step of builder b moves b, to a state that fits the lock, and touches *)
(* the lock only to take it when it is free or to release its own.         *)
BuildMove(b) ==
  /\ \E s \in {Idle} \cup Building :
       build' = [build EXCEPT ![b] = s] /\ AttemptOK(s, lock' = b)
  /\ \/ UNCHANGED lock
     \/ lock = NoOne /\ lock' = b
     \/ lock = b /\ lock' = NoOne

LEMMA BuilderMove ==
  ASSUME TypeInv, NEW b \in Builders, ProcessStep(b)
  PROVE  BuildMove(b)
<1>0. /\ build[b] \in {Idle} \cup Building /\ AttemptOK(build[b], lock = b) /\ NoOne # b
      /\ build[b].pc # "idle" => /\ build[b] \in Building /\ build[b].pc \in Pcs
                                 /\ build[b].c \in 1..(N + 1) /\ build[b].in \in Carried
                                 /\ build[b].job \in Nat
  <2>1. build[b] \in {Idle} \cup Building /\ AttemptOK(build[b], lock = b)
    BY DEF TypeInv, TypeOK
  <2> QED
    BY <2>1, BuildingFields, Bounds
(* The attempt ends without the lock.                                      *)
<1>1. ASSUME build' = [build EXCEPT ![b] = Idle], lock' # b,
             UNCHANGED lock \/ (lock = b /\ lock' = NoOne)
      PROVE  BuildMove(b)
  BY <1>1, IdleIsOK DEF BuildMove
(* The attempt goes on without the lock.                                   *)
<1>2. ASSUME NEW s \in Building, build' = [build EXCEPT ![b] = s], AttemptOK(s, FALSE), lock' # b,
             UNCHANGED lock \/ (lock = b /\ lock' = NoOne)
      PROVE  BuildMove(b)
  BY <1>2 DEF BuildMove
<1>3. ASSUME build[b].pc \notin {"commit", "recommit"} PROVE lock # b
  BY <1>0, <1>3 DEF AttemptOK
<1>4. CASE StartAttempt(b)
  <2> DEFINE s == [pc |-> "chunk", lost |-> FALSE, job |-> job.id, force |-> job.force,
                   sub |-> job.sub, c |-> 1, todo |-> Chapters, in |-> NoAnswer]
  <2>1. job.id \in Nat /\ job.force \in BOOLEAN /\ job.sub \in BOOLEAN
    BY Bounds DEF TypeInv, TypeOK
  <2>2. s \in Building
    BY <2>1, NewAttempt
  <2>3. AttemptOK(s, FALSE)
    BY ChapterBounds DEF AttemptOK
  <2>4. build' = [build EXCEPT ![b] = s] /\ UNCHANGED lock /\ build[b].pc = "idle"
    BY <1>4 DEF StartAttempt, At
  <2> HIDE DEF s
  <2> QED
    BY <1>2, <1>3, <2>2, <2>3, <2>4
<1>5. CASE ChunkChapter(b)
  <2>1. build[b].pc = "chunk" /\ UNCHANGED lock
    BY <1>5 DEF ChunkChapter, At
  <2>2. build[b] \in Building /\ build[b].c \in Chapters
    BY <1>0, <2>1 DEF AttemptOK, Pcs
  <2>3. CASE build' = [build EXCEPT ![b] = Idle]
    BY <1>1, <1>3, <2>1, <2>3
  <2> DEFINE c == IF build[b].c = N THEN 1 ELSE build[b].c + 1
             pc == IF build[b].c = N THEN "embed" ELSE "chunk"
             s == [build[b] EXCEPT !.c = c, !.pc = pc]
  <2>4. CASE build' = [build EXCEPT ![b] = s]
    <3>1. c \in Chapters /\ c \in 1..(N + 1) /\ pc \in {"embed", "chunk"} /\ pc \in Pcs
      BY <2>2, ChapterBounds DEF Pcs
    <3> HIDE DEF c, pc
    <3>2. s \in Building /\ s.pc = pc /\ s.c = c
      BY <2>2, <3>1 DEF Building, Pcs
    <3> HIDE DEF s
    <3>3. AttemptOK(s, FALSE)
      BY <3>1, <3>2 DEF AttemptOK
    <3> QED
      BY <1>2, <1>3, <2>1, <2>4, <3>2, <3>3
  <2> QED
    BY <1>5, <2>3, <2>4 DEF ChunkChapter, Raise
<1>6. CASE ReadMissing(b)
  <2> DEFINE in == [c \in Chapters |-> IF chunk[c].vec = 0 THEN chunk[c].of ELSE 0]
             s == [build[b] EXCEPT !.pc = "vectors", !.in = in]
  <2>1. build[b].pc = "embed" /\ UNCHANGED lock /\ build' = [build EXCEPT ![b] = s]
    BY <1>6 DEF ReadMissing, At
  <2>2. build[b] \in Building /\ build[b].c \in Chapters
    BY <1>0, <2>1 DEF AttemptOK, Pcs
  <2>3. in \in [Chapters -> Nat]
    BY DEF TypeInv, TypeOK
  <2> HIDE DEF in
  <2>4. in \in Carried /\ "vectors" \in Pcs
    BY <2>3 DEF Carried, Pcs
  <2>5. s \in Building /\ s.pc = "vectors" /\ s.c = build[b].c /\ s.in = in
    BY <2>2, <2>4 DEF Building, Pcs
  <2> HIDE DEF s
  <2>6. AttemptOK(s, FALSE)
    BY <2>2, <2>3, <2>5 DEF AttemptOK
  <2> QED
    BY <1>2, <1>3, <2>1, <2>5, <2>6
<1>7. CASE WriteVectors(b)
  <2> DEFINE pc == IF build[b].sub THEN "resume" ELSE "extract"
             s == [build[b] EXCEPT !.pc = pc, !.in = NoAnswer]
  <2>1. build[b].pc = "vectors" /\ UNCHANGED lock /\ build' = [build EXCEPT ![b] = s]
    BY <1>7 DEF WriteVectors, At
  <2>2. build[b] \in Building /\ build[b].c \in Chapters
    BY <1>0, <2>1 DEF AttemptOK, Pcs
  <2>3. pc \in {"resume", "extract"} /\ pc \in Pcs /\ NoAnswer \in Carried
    BY DEF Pcs, Carried
  <2> HIDE DEF pc
  <2>4. s \in Building /\ s.pc = pc /\ s.c = build[b].c
    BY <2>2, <2>3 DEF Building, Pcs
  <2> HIDE DEF s
  <2>5. AttemptOK(s, FALSE)
    BY <2>2, <2>3, <2>4 DEF AttemptOK
  <2> QED
    BY <1>2, <1>3, <2>1, <2>4, <2>5
<1>8. CASE Resume(b)
  <2>1. build[b].pc = "resume" /\ UNCHANGED lock
    BY <1>8 DEF Resume, At
  <2>2. build[b] \in Building /\ build[b].c \in Chapters
    BY <1>0, <2>1 DEF AttemptOK, Pcs
  <2> DEFINE s == [build[b] EXCEPT !.pc = "recommit", !.c = saved.c, !.in = saved]
  <2>3. CASE saved.c # 0 /\ build' = [build EXCEPT ![b] = s]
    <3>1. saved \in Answers
      BY <2>3 DEF TypeInv, TypeOK, NoAnswer
    <3>2. saved.c \in Chapters /\ saved.c \in 1..(N + 1) /\ saved \in Carried
      BY <3>1, AnswerFields, ChapterBounds DEF Carried
    <3>3. s \in Building /\ s.pc = "recommit" /\ s.c = saved.c /\ s.in = saved
      BY <2>2, <3>2 DEF Building, Pcs
    <3> HIDE DEF s
    <3>4. AttemptOK(s, FALSE)
      BY <3>1, <3>2, <3>3 DEF AttemptOK
    <3> QED
      BY <1>2, <1>3, <2>1, <2>3, <3>3, <3>4
  <2> DEFINE r == [build[b] EXCEPT !.pc = "plan"]
  <2>4. CASE build' = [build EXCEPT ![b] = r]
    <3>1. r \in Building /\ r.pc = "plan" /\ r.c = build[b].c
      BY <2>2, MoveToPc, ChapterBounds DEF Carried, Pcs
    <3> HIDE DEF r
    <3>2. AttemptOK(r, FALSE)
      BY <3>1 DEF AttemptOK
    <3> QED
      BY <1>2, <1>3, <2>1, <2>4, <3>1, <3>2
  <2> QED
    BY <1>8, <2>3, <2>4 DEF Resume, Go
<1>9. CASE PlanChapters(b)
  <2> DEFINE todo == {c \in Chapters : codex[c].run # 0 =>
                        build[b].force /\ codex[c].job # build[b].job}
             s == [build[b] EXCEPT !.pc = "extract", !.c = 1, !.in = NoAnswer, !.todo = todo]
  <2>1. build[b].pc = "plan" /\ UNCHANGED lock /\ build' = [build EXCEPT ![b] = s]
    BY <1>9 DEF PlanChapters, At
  <2>2. todo \in SUBSET Chapters /\ NoAnswer \in Carried /\ "extract" \in Pcs /\ 1 \in 1..(N + 1)
    BY ChapterBounds DEF Carried, Pcs
  <2> HIDE DEF todo
  <2>3. s \in Building /\ s.pc = "extract"
    BY <1>0, <2>1, <2>2 DEF Building, Pcs
  <2> HIDE DEF s
  <2>4. AttemptOK(s, FALSE)
    BY <2>3 DEF AttemptOK
  <2> QED
    BY <1>2, <1>3, <2>1, <2>3, <2>4
<1>10. CASE SkipChapter(b)
  <2> DEFINE s == [build[b] EXCEPT !.c = build[b].c + 1]
  <2>1. /\ build[b].pc = "extract" /\ UNCHANGED lock /\ build' = [build EXCEPT ![b] = s]
        /\ build[b].c <= N
    BY <1>10 DEF SkipChapter, At
  <2>2. build[b].c + 1 \in 1..(N + 1)
    BY <1>0, <2>1, Bounds
  <2>3. s \in Building /\ s.pc = "extract"
    BY <1>0, <2>1, <2>2, MoveToChapter
  <2> HIDE DEF s
  <2>4. AttemptOK(s, FALSE)
    BY <2>3 DEF AttemptOK
  <2> QED
    BY <1>2, <1>3, <2>1, <2>3, <2>4
<1>11. CASE ReadInput(b)
  <2> DEFINE in == Input(build[b].c)
             s == [build[b] EXCEPT !.pc = "call", !.in = in]
  <2>1. build[b].pc = "extract" /\ UNCHANGED lock /\ build[b].c <= N
    BY <1>11 DEF ReadInput, At
  <2>2. build[b] \in Building /\ build[b].c \in Chapters
    BY <1>0, <2>1, Bounds DEF Chapters
  <2>3. CASE build' = [build EXCEPT ![b] = s]
    <3>1. in \in Inputs
      <4>1. Context(build[b].c) \in Contexts /\ text[build[b].c] \in Nat
        BY <2>2, ContextType DEF TypeInv, TypeOK
      <4> QED
        BY <2>2, <4>1, AnswerStates DEF Input
    <3> HIDE DEF in
    <3>2. in \in Carried /\ "call" \in Pcs
      BY <3>1 DEF Carried, Pcs
    <3>3. s \in Building /\ s.pc = "call" /\ s.c = build[b].c /\ s.in = in
      BY <2>2, <3>2 DEF Building, Pcs
    <3> HIDE DEF s
    <3>4. AttemptOK(s, FALSE)
      BY <2>2, <3>1, <3>3 DEF AttemptOK
    <3> QED
      BY <1>2, <1>3, <2>1, <2>3, <3>3, <3>4
  <2>4. CASE build' = [build EXCEPT ![b] = Idle]
    BY <1>1, <1>3, <2>1, <2>4
  <2> QED
    BY <1>11, <2>3, <2>4 DEF ReadInput, Raise
<1>12. CASE ProviderAnswers(b)
  <2> DEFINE p == build[b].in
             in == [c |-> p.c, src |-> p.src, ctx |-> p.ctx, run |-> left.runs + 1]
             s == [build[b] EXCEPT !.pc = "commit", !.in = in]
  <2>1. /\ build[b].pc = "call" /\ UNCHANGED lock /\ build' = [build EXCEPT ![b] = s]
        /\ left.runs < MaxRuns
    BY <1>12 DEF ProviderAnswers, At
  <2>2. build[b] \in Building /\ build[b].c \in Chapters /\ p \in Inputs
    BY <1>0, <2>1 DEF AttemptOK, Pcs
  <2>3. left.runs + 1 \in 1..MaxRuns
    BY <2>1, Bounds DEF TypeInv, TypeOK
  <2>4. in \in Answers
    BY <2>2, <2>3, AnswerFields, AnswerStates
  <2> HIDE DEF in
  <2>5. in \in Carried /\ "commit" \in Pcs
    BY <2>4 DEF Carried, Pcs
  <2>6. s \in Building /\ s.pc = "commit" /\ s.c = build[b].c /\ s.in = in
    BY <2>2, <2>5 DEF Building, Pcs
  <2> HIDE DEF s
  <2>7. AttemptOK(s, FALSE)
    BY <2>2, <2>4, <2>6 DEF AttemptOK
  <2> QED
    BY <1>2, <1>3, <2>1, <2>6, <2>7
(* After a commit, or when there is nothing to commit.                     *)
<1>13. ASSUME build[b].pc \in {"commit", "recommit"}, Onward(b), lock' # b,
              UNCHANGED lock \/ (lock = b /\ lock' = NoOne)
       PROVE  BuildMove(b)
  <2> DEFINE pc == IF At(b, "recommit") THEN "plan" ELSE "extract"
             s == [build[b] EXCEPT !.pc = pc, !.c = build[b].c + 1, !.in = NoAnswer]
  <2>1. build' = [build EXCEPT ![b] = s]
    BY <1>13 DEF Onward
  <2>2. build[b] \in Building /\ build[b].c + 1 \in 1..(N + 1)
    BY <1>0, <1>13, ChapterBounds DEF AttemptOK, Pcs
  <2>3. pc \in {"plan", "extract"} /\ pc \in Pcs /\ NoAnswer \in Carried
    BY DEF Pcs, Carried
  <2> HIDE DEF pc
  <2>4. s \in Building /\ s.pc = pc
    BY <2>2, <2>3 DEF Building, Pcs
  <2> HIDE DEF s
  <2>5. AttemptOK(s, FALSE)
    BY <2>3, <2>4 DEF AttemptOK
  <2> QED
    BY <1>2, <1>13, <2>1, <2>4, <2>5
<1>14. CASE CommitBegins(b)
  <2> DEFINE p == build[b].in
             in == [c |-> p.c, src |-> p.src, ctx |-> p.ctx, run |-> p.run, of |-> chunk[p.c].of]
             s == [build[b] EXCEPT !.in = in]
  <2>1. build[b].pc \in {"commit", "recommit"} /\ lock = NoOne
    BY <1>14 DEF CommitBegins, At
  <2>2. build[b] \in Building /\ build[b].c \in Chapters /\ p \in Answers
    BY <1>0, <2>1 DEF AttemptOK, Pcs
  <2>3. CASE lock' = b /\ build' = [build EXCEPT ![b] = s]
    <3>1. in \in Anchored
      <4>1. p.c \in Chapters /\ p.src \in Nat /\ p.ctx \in Contexts /\ p.run \in 1..MaxRuns
        BY <2>2, AnswerFields
      <4>2. chunk[p.c].of \in Nat
        BY <4>1 DEF TypeInv, TypeOK
      <4> QED
        BY <4>1, <4>2, AnswerStates
    <3> HIDE DEF in
    <3>2. in \in Carried
      BY <3>1 DEF Carried
    <3>3. s \in Building /\ s.pc = build[b].pc /\ s.c = build[b].c /\ s.in = in
      BY <1>0, <2>1, <2>2, <3>2, MoveWith, ChapterBounds
    <3> HIDE DEF s
    <3>4. AttemptOK(s, TRUE)
      BY <2>1, <2>2, <3>1, <3>3 DEF AttemptOK
    <3> QED
      BY <2>1, <2>3, <3>3, <3>4 DEF BuildMove
  <2>4. CASE Onward(b) /\ UNCHANGED lock
    BY <1>0, <1>13, <2>1, <2>4
  <2>5. CASE build' = [build EXCEPT ![b] = Idle] /\ UNCHANGED lock
    BY <1>0, <1>1, <2>1, <2>5
  <2>6. \/ Onward(b) /\ UNCHANGED lock
        \/ lock' = b /\ build' = [build EXCEPT ![b].in = in]
        \/ Raise(b) /\ UNCHANGED lock
    BY <1>14 DEF CommitBegins
  <2> QED
    BY <2>3, <2>4, <2>5, <2>6 DEF Raise
<1>15. CASE CommitWrites(b)
  <2>1. lock = b /\ lock' = NoOne /\ Onward(b)
    BY <1>15 DEF CommitWrites
  <2>2. build[b].pc \in {"commit", "recommit"}
    BY <1>3, <2>1
  <2> QED
    BY <1>0, <1>13, <2>1, <2>2
<1>16. CASE PruneOrphans(b) \/ ProviderFails(b)
  <2>1. build' = [build EXCEPT ![b] = Idle] /\ UNCHANGED lock /\ build[b].pc \in {"extract", "call"}
    BY <1>16 DEF PruneOrphans, ProviderFails, Raise, At
  <2> QED
    BY <1>1, <1>3, <2>1
<1>17. CASE Crash(b)
  <2>1. build' = [build EXCEPT ![b] = Idle] /\ lock' = IF lock = b THEN NoOne ELSE lock
    BY <1>17 DEF Crash
  <2> QED
    BY <1>0, <1>1, <2>1
<1>18. CASE LoseLease(b)
  <2> DEFINE s == [build[b] EXCEPT !.lost = TRUE]
  <2>1. build[b].pc # "idle" /\ build' = [build EXCEPT ![b] = s] /\ UNCHANGED lock
    BY <1>18 DEF LoseLease, At
  <2>2. s \in Building /\ s.pc = build[b].pc /\ s.c = build[b].c /\ s.in = build[b].in
    BY <1>0, <2>1, MoveLost
  <2> HIDE DEF s
  <2>3. AttemptOK(s, lock = b)
    BY <1>0, <2>2 DEF AttemptOK
  <2> QED
    BY <2>1, <2>2, <2>3 DEF BuildMove
<1> QED
  BY <1>4, <1>5, <1>6, <1>7, <1>8, <1>9, <1>10, <1>11, <1>12, <1>14, <1>15, <1>16, <1>17, <1>18
  DEF ProcessStep, BuilderStep

LEMMA AttemptStep ==
  ASSUME TypeInv, [Next]_vars
  PROVE  /\ build' \in [Builders -> {Idle} \cup Building]
         /\ lock' \in Builders \cup {NoOne}
         /\ \A b \in Builders : AttemptOK(build'[b], lock' = b)
<1>0. /\ build \in [Builders -> {Idle} \cup Building] /\ lock \in Builders \cup {NoOne}
      /\ \A b \in Builders : AttemptOK(build[b], lock = b)
      /\ NoOne \notin Builders
  BY Bounds DEF TypeInv, TypeOK
<1>1. CASE UNCHANGED <<build, lock>>
  BY <1>0, <1>1
<1>2. ASSUME NEW b \in Builders, ProcessStep(b)
      PROVE  /\ build' \in [Builders -> {Idle} \cup Building]
             /\ lock' \in Builders \cup {NoOne}
             /\ \A o \in Builders : AttemptOK(build'[o], lock' = o)
  <2>1. BuildMove(b)
    BY <1>2, BuilderMove
  <2>2. PICK s \in {Idle} \cup Building :
          build' = [build EXCEPT ![b] = s] /\ AttemptOK(s, lock' = b)
    BY <2>1 DEF BuildMove
  <2>3. /\ build' \in [Builders -> {Idle} \cup Building]
        /\ build'[b] = s /\ \A o \in Builders : o # b => build'[o] = build[o]
    BY <1>0, <2>2
  <2>4. /\ lock' \in Builders \cup {NoOne}
        /\ \A o \in Builders : o # b => (lock' = o <=> lock = o)
    BY <1>0, <2>1 DEF BuildMove
  <2>5. ASSUME NEW o \in Builders, o # b PROVE AttemptOK(build'[o], lock' = o)
    <3>1. build'[o] = build[o] /\ (lock' = o) = (lock = o)
      BY <2>3, <2>4, <2>5
    <3> QED
      BY <1>0, <3>1
  <2> QED
    BY <2>2, <2>3, <2>4, <2>5
<1> QED
  BY <1>1, <1>2, NextCases, OthersFrame

(* The text of chapters, and the chunks cut from it.                       *)
LEMMA SourceStep ==
  ASSUME TypeInv, [Next]_vars
  PROVE  /\ text' \in [Chapters -> Nat]
         /\ chunk' \in [Chapters -> [of : Nat, vec : Nat]]
         /\ VectorIsOfItsText => VectorIsOfItsText'
<1>0. text \in [Chapters -> Nat] /\ chunk \in [Chapters -> [of : Nat, vec : Nat]]
  BY DEF TypeInv, TypeOK
<1> DEFINE ChunkOK == /\ chunk' \in [Chapters -> [of : Nat, vec : Nat]]
                      /\ VectorIsOfItsText => VectorIsOfItsText'
<1>1. ASSUME NEW c \in Chapters, Change(c) PROVE text' \in [Chapters -> Nat]
  BY <1>0, <1>1 DEF Change
<1>2. ASSUME UNCHANGED chunk PROVE ChunkOK
  BY <1>0, <1>2 DEF VectorIsOfItsText
<1>3. ASSUME NEW c \in Chapters, ReplaceChapter(c) PROVE ChunkOK
  BY <1>0, <1>3 DEF ReplaceChapter, VectorIsOfItsText
<1>4. ASSUME NEW b \in Builders, ChunkChapter(b) PROVE ChunkOK
  <2> DEFINE c == build[b].c
             row == [of |-> text[c], vec |-> IF chunk[c].of = text[c] THEN chunk[c].vec ELSE 0]
  <2>1. c \in Chapters
    BY <1>4 DEF ChunkChapter, At, TypeInv, AttemptOK, Pcs
  <2>2. UNCHANGED chunk \/ chunk' = [chunk EXCEPT ![c] = row]
    BY <1>4 DEF ChunkChapter
  <2>3. row \in [of : Nat, vec : Nat] /\ (VectorIsOfItsText => row.vec \in {0, row.of})
    BY <1>0, <2>1 DEF VectorIsOfItsText
  <2> HIDE DEF row, c
  <2>4. CASE chunk' = [chunk EXCEPT ![c] = row]
    BY <1>0, <2>1, <2>3, <2>4 DEF VectorIsOfItsText
  <2> QED
    BY <1>2, <2>2, <2>4
<1>5. ASSUME NEW b \in Builders, WriteVectors(b) PROVE ChunkOK
  <2> DEFINE in == build[b].in
  <2>1. in \in [Chapters -> Nat]
    BY <1>5 DEF WriteVectors, At, TypeInv, AttemptOK
  <2>2. UNCHANGED chunk \/ chunk' = [c \in Chapters |-> Attach(chunk[c], in[c])]
    BY <1>5 DEF WriteVectors
  <2> HIDE DEF in
  <2>3. \A c \in Chapters : /\ Attach(chunk[c], in[c]) \in [of : Nat, vec : Nat]
                            /\ chunk[c].vec \in {0, chunk[c].of} =>
                                 Attach(chunk[c], in[c]).vec \in {0, Attach(chunk[c], in[c]).of}
    BY <1>0, <2>1 DEF Attach
  <2>4. CASE chunk' = [c \in Chapters |-> Attach(chunk[c], in[c])]
    BY <2>3, <2>4 DEF VectorIsOfItsText
  <2> QED
    BY <1>2, <2>2, <2>4
<1>6. CASE \E b \in Builders : ProcessStep(b)
  BY <1>0, <1>2, <1>4, <1>5, <1>6, ProcessFrame
<1>7. CASE ScheduleStep \/ EditorStep \/ ReaderStep \/ UNCHANGED vars
  BY <1>0, <1>1, <1>2, <1>3, <1>7, OthersFrame
<1> QED
  BY <1>6, <1>7, NextCases

(* What is extracted from the chapters.                                    *)
RowSet == [run : 0..MaxRuns, job : Nat, src : Nat, of : Nat, ctx : Contexts, ents : SUBSET Entities]

LEMMA NoRowType == NoRow \in RowSet
  BY NoContextType, Bounds DEF NoRow, RowSet

(* The proposal of the builder inside the lock.                            *)
LEMMA Committing ==
  ASSUME TypeInv, NEW b \in Builders, CommitWrites(b)
  PROVE  /\ build[b].in \in Anchored /\ build[b].in.c \in Chapters
         /\ build[b].job \in Nat
<1>1. build[b].in \in Anchored /\ build[b].pc # "idle"
  BY DEF CommitWrites, TypeInv, AttemptOK
<1> QED
  BY <1>1, AnswerFields, BuildingFields DEF TypeInv, TypeOK

LEMMA KnowledgeStep ==
  ASSUME TypeInv, [Next]_vars
  PROVE  codex' \in [Chapters -> RowSet] /\ facts' \in [Chapters -> SUBSET Entities]
<1>0. codex \in [Chapters -> RowSet] /\ facts \in [Chapters -> SUBSET Entities]
  BY DEF TypeInv, TypeOK, RowSet
<1> DEFINE OK == codex' \in [Chapters -> RowSet] /\ facts' \in [Chapters -> SUBSET Entities]
<1>1. ASSUME NEW c PROVE DropSuffix(codex, c) \in [Chapters -> RowSet]
  BY <1>0, NoRowType DEF DropSuffix
<1>2. ASSUME NEW b \in Builders, CommitWrites(b) PROVE OK
  <2> DEFINE p == build[b].in
  <2>1. PICK e \in Entities : /\ facts' = [facts EXCEPT ![p.c] = {e}]
                              /\ codex' = [DropSuffix(codex, p.c) EXCEPT ![p.c] = Row(b, p, {e})]
    BY <1>2 DEF CommitWrites
  <2>2. Row(b, p, {e}) \in RowSet
    <3>1. p \in Anchored /\ build[b].job \in Nat
      BY <1>2, Committing
    <3>2. p.src \in Nat /\ p.ctx \in Contexts /\ p.run \in 0..MaxRuns /\ p.of \in Nat
      BY <3>1, AnswerFields, Bounds
    <3> HIDE DEF p
    <3> QED
      BY <3>1, <3>2 DEF Row, RowSet
  <2> QED
    BY <1>0, <1>1, <2>1, <2>2
<1>3. ASSUME NEW c \in Chapters, ReplaceChapter(c) PROVE OK
  BY <1>0, <1>1, <1>3 DEF ReplaceChapter
<1>4. ASSUME NEW keep \in Entities, NEW drop \in Entities, MergeEntities(keep, drop) PROVE OK
  <2> DEFINE into(ents) == IF drop \in ents THEN (ents \ {drop}) \cup {keep} ELSE ents
  <2>1. /\ facts' = [c \in Chapters |-> into(facts[c])]
        /\ codex' = [c \in Chapters |-> [codex[c] EXCEPT !.ents = into(codex[c].ents)]]
    BY <1>4 DEF MergeEntities
  <2>2. \A ents \in SUBSET Entities : into(ents) \in SUBSET Entities
    OBVIOUS
  <2> HIDE DEF into
  <2>3. \A c \in Chapters : /\ into(facts[c]) \in SUBSET Entities
                            /\ into(codex[c].ents) \in SUBSET Entities
    BY <1>0, <2>2 DEF RowSet
  <2>4. \A c \in Chapters : [codex[c] EXCEPT !.ents = into(codex[c].ents)] \in RowSet
    BY <1>0, <2>3 DEF RowSet
  <2> QED
    BY <2>1, <2>3, <2>4
<1>5. ASSUME ResetCodex PROVE OK
  BY <1>5, NoRowType DEF ResetCodex
<1>6. CASE \E b \in Builders : ProcessStep(b)
  BY <1>0, <1>2, <1>6, ProcessFrame
<1>7. CASE ScheduleStep \/ EditorStep \/ ReaderStep \/ UNCHANGED vars
  BY <1>0, <1>3, <1>4, <1>5, <1>7, OthersFrame
<1> QED
  BY <1>6, <1>7, NextCases

(* Entities and their names.                                               *)
LEMMA NoEntityOK == NoEntity \in EntitySet /\ NameOK(NoEntity)
  BY Bounds DEF NoEntity, EntitySet, NameOK

LEMMA DropAliasesOK ==
  ASSUME NEW e \in EntitySet, NEW c
  PROVE  /\ DropAliases(e, c) \in EntitySet /\ (NameOK(e) => NameOK(DropAliases(e, c)))
         /\ DropAliases(e, c).first = e.first
  BY DEF EntitySet, NameOK, DropAliases

LEMMA PromoteOK ==
  ASSUME NEW e \in EntitySet, NEW c \in Chapters
  PROVE  Promote(e, c) \in EntitySet /\ (NameOK(e) => NameOK(Promote(e, c)))
<1>1. c \in 0..N
  BY ChapterBounds, Bounds DEF Chapters
<1> QED
  BY <1>1 DEF EntitySet, NameOK, Promote

LEMMA MentionedOK ==
  ASSUME NEW e \in EntitySet, NEW c \in Chapters
  PROVE  Mentioned(e, c) \in EntitySet /\ (NameOK(e) => NameOK(Mentioned(e, c)))
<1>1. c \in 0..N
  BY ChapterBounds, Bounds DEF Chapters
<1>2. CASE e.first = 0
  BY <1>1, <1>2 DEF Mentioned, EntitySet, NameOK
<1>3. CASE e.first # 0
  BY <1>3 DEF Mentioned
<1> QED
  BY <1>2, <1>3

LEMMA RevealOK ==
  ASSUME NEW e \in EntitySet, NEW c \in Chapters, NEW r \in Reveal(e, c)
  PROVE  r \in EntitySet /\ (NameOK(e) => NameOK(r))
<1> DEFINE new == [at |-> c, from |-> c]
<1>1. new \in Alias /\ new.from <= new.at
  BY ChapterBounds DEF Alias
<1>2. ASSUME NEW kept \in SUBSET e.aliases
      PROVE  LET x == [e EXCEPT !.aliases = kept \cup {new}] IN
               x \in EntitySet /\ (NameOK(e) => NameOK(x))
  BY <1>1, <1>2 DEF EntitySet, NameOK
<1>3. PICK kept \in SUBSET e.aliases : r = Promote([e EXCEPT !.aliases = kept \cup {new}], c)
  BY DEF Reveal
<1> HIDE DEF new
<1> DEFINE x == [e EXCEPT !.aliases = kept \cup {new}]
<1>4. x \in EntitySet /\ (NameOK(e) => NameOK(x))
  BY <1>2
<1> HIDE DEF x
<1> QED
  BY <1>3, <1>4, PromoteOK DEF x

LEMMA EntityStep ==
  ASSUME TypeInv, [Next]_vars
  PROVE  entity' \in [Entities -> EntitySet] /\ NamesAreSafe'
<1>0. entity \in [Entities -> EntitySet] /\ \A e \in Entities : NameOK(entity[e])
  BY DEF TypeInv, TypeOK, EntitySet, NamesAreSafe
<1> DEFINE OK == entity' \in [Entities -> EntitySet] /\ NamesAreSafe'
<1>1. ASSUME entity' \in [Entities -> EntitySet], \A e \in Entities : NameOK(entity'[e]) PROVE OK
  BY <1>1 DEF NamesAreSafe, NameOK
<1>2. ASSUME NEW b \in Builders, CommitWrites(b) PROVE OK
  <2> DEFINE c == build[b].in.c
             kept == [e \in Entities |-> DropAliases(entity[e], c)]
  <2>1. c \in Chapters
    BY <1>2, Committing
  <2>5. PICK e \in Entities :
          \E known \in {Mentioned(kept[e], c)} \cup Reveal(Mentioned(kept[e], c), c) :
            entity' = [kept EXCEPT ![e] = known]
    BY <1>2 DEF CommitWrites
  <2>2. PICK known \in {Mentioned(kept[e], c)} \cup Reveal(Mentioned(kept[e], c), c) :
          entity' = [kept EXCEPT ![e] = known]
    BY <2>5
  <2> HIDE DEF c
  <2>3. kept \in [Entities -> EntitySet] /\ \A f \in Entities : NameOK(kept[f])
    BY <1>0, DropAliasesOK
  <2> HIDE DEF kept
  <2>4. known \in EntitySet /\ NameOK(known)
    <3> DEFINE m == Mentioned(kept[e], c)
    <3>1. m \in EntitySet /\ NameOK(m)
      BY <2>1, <2>3, MentionedOK
    <3>2. known = m \/ known \in Reveal(m, c)
      BY <2>2
    <3> HIDE DEF m
    <3> QED
      BY <2>1, <3>1, <3>2, RevealOK
  <2> QED
    BY <1>1, <2>2, <2>3, <2>4
<1>3. ASSUME NEW b \in Builders, PruneOrphans(b) PROVE OK
  <2> DEFINE orphans == {e \in Entities : /\ entity[e].first # 0 /\ codex[entity[e].first].run # 0
                                          /\ ~\E c \in Chapters : e \in facts[c] \cup codex[c].ents}
  <2>1. entity' = [e \in Entities |-> IF e \in orphans THEN NoEntity ELSE entity[e]]
    BY <1>3 DEF PruneOrphans
  <2> HIDE DEF orphans
  <2> QED
    BY <1>0, <1>1, <2>1, NoEntityOK
<1>4. ASSUME NEW c \in Chapters, ReplaceChapter(c) PROVE OK
  <2>1. entity' = [e \in Entities |-> DropAliases(entity[e], c)]
    BY <1>4 DEF ReplaceChapter
  <2> QED
    BY <1>0, <1>1, <2>1, DropAliasesOK
<1>5. ASSUME NEW keep \in Entities, NEW drop \in Entities, MergeEntities(keep, drop) PROVE OK
  <2> DEFINE name == [at |-> entity[drop].first, from |-> entity[drop].named]
             names == entity[keep].aliases \cup entity[drop].aliases \cup {name}
             x == [entity[keep] EXCEPT !.aliases = names]
  <2>1. /\ keep # drop /\ entity[drop].first # 0
        /\ entity' = [[entity EXCEPT ![keep] = x] EXCEPT ![drop] = NoEntity]
    BY <1>5 DEF MergeEntities
  <2>2. /\ entity[keep] \in EntitySet /\ entity[drop] \in EntitySet
        /\ NameOK(entity[keep]) /\ NameOK(entity[drop])
    BY <1>0
  <2>3. name \in Alias /\ name.from <= name.at
    <3>1. entity[drop].first \in Chapters /\ entity[drop].named = entity[drop].first
      BY <2>1, <2>2, Bounds DEF EntitySet, NameOK, Chapters
    <3>2. entity[drop].named \in Chapters /\ entity[drop].first <= entity[drop].first
      <4>1. entity[drop].first \in Int
        BY <2>2 DEF EntitySet
      <4> QED
        BY <3>1, <4>1
    <3>3. name \in Alias
      BY <3>1, <3>2 DEF Alias
    <3>4. name.from <= name.at
      BY <3>1, <3>2
    <3> QED
      BY <3>3, <3>4
  <2>4. names \in SUBSET Alias /\ \A a \in names : a.from <= a.at
    BY <2>2, <2>3 DEF EntitySet, NameOK
  <2> HIDE DEF names
  <2>5. x \in EntitySet /\ NameOK(x)
    BY <2>2, <2>4 DEF EntitySet, NameOK
  <2> HIDE DEF x
  <2> QED
    BY <1>0, <1>1, <2>1, <2>5, NoEntityOK
<1>6. ASSUME ResetCodex PROVE OK
  BY <1>1, <1>6, NoEntityOK DEF ResetCodex
<1>7. ASSUME UNCHANGED entity PROVE OK
  BY <1>0, <1>1, <1>7
<1>8. CASE \E b \in Builders : ProcessStep(b)
  BY <1>2, <1>3, <1>7, <1>8, ProcessFrame
<1>9. CASE ScheduleStep \/ EditorStep \/ ReaderStep \/ UNCHANGED vars
  BY <1>4, <1>5, <1>6, <1>7, <1>9, OthersFrame
<1> QED
  BY <1>8, <1>9, NextCases

(* The proposal that a run left behind.                                    *)
LEMMA SavedStep ==
  ASSUME TypeInv, [Next]_vars
  PROVE  saved' \in {NoAnswer} \cup Answers
<1>0. saved \in {NoAnswer} \cup Answers
  BY DEF TypeInv, TypeOK
<1>1. ASSUME UNCHANGED saved \/ saved' = NoAnswer PROVE saved' \in {NoAnswer} \cup Answers
  BY <1>0, <1>1
<1>2. ASSUME NEW b \in Builders, Resume(b) \/ CommitBegins(b)
      PROVE  UNCHANGED saved \/ saved' = NoAnswer
  <2>1. CASE Resume(b)
    BY <2>1 DEF Resume
  <2>2. CASE CommitBegins(b)
    BY <2>2 DEF CommitBegins
  <2> QED
    BY <1>2, <2>1, <2>2
<1>3. ASSUME NEW b \in Builders, ProviderAnswers(b) PROVE saved' \in {NoAnswer} \cup Answers
  <2> DEFINE p == build[b].in
             in == [c |-> p.c, src |-> p.src, ctx |-> p.ctx, run |-> left.runs + 1]
  <2>1. build[b].pc = "call" /\ left.runs < MaxRuns /\ saved' = Keep(b, in)
    BY <1>3 DEF ProviderAnswers, At
  <2>2. p \in Inputs /\ left.runs + 1 \in 1..MaxRuns
    BY <2>1, Bounds DEF AttemptOK, TypeInv, TypeOK
  <2>3. in \in Answers
    BY <2>2, AnswerFields, AnswerStates
  <2> HIDE DEF in
  <2> QED
    BY <1>0, <2>1, <2>3 DEF Keep
<1>4. CASE \E b \in Builders : ProcessStep(b)
  BY <1>1, <1>2, <1>3, <1>4, ProcessFrame
<1>5. CASE ScheduleStep \/ EditorStep \/ ReaderStep \/ UNCHANGED vars
  BY <1>1, <1>5, OthersFrame
<1> QED
  BY <1>4, <1>5, NextCases

(* The job and the counters of the bounds.                                 *)
LEMMA JobStep ==
  ASSUME TypeInv, [Next]_vars
  PROVE  /\ job' \in [id : 0..MaxJobs, active : BOOLEAN, force : BOOLEAN, sub : BOOLEAN]
         /\ left' \in [runs : 0..MaxRuns, acts : 0..MaxActs, faults : 0..MaxFaults]
         /\ raced' \in BOOLEAN
<1> DEFINE Jobs == [id : 0..MaxJobs, active : BOOLEAN, force : BOOLEAN, sub : BOOLEAN]
           Lefts == [runs : 0..MaxRuns, acts : 0..MaxActs, faults : 0..MaxFaults]
<1>0. job \in Jobs /\ left \in Lefts /\ raced \in BOOLEAN
  BY DEF TypeInv, TypeOK
<1>1. ASSUME MayFail \/ MayAct \/ UNCHANGED left PROVE left' \in Lefts
  BY <1>0, <1>1, Bounds DEF MayFail, MayAct
<1>2. ASSUME UNCHANGED job \/ job' = [job EXCEPT !.active = FALSE] PROVE job' \in Jobs
  BY <1>0, <1>2
<1>3. ASSUME NEW b \in Builders, ProcessStep(b) PROVE job' \in Jobs /\ left' \in Lefts
  <2>1. CASE ProviderAnswers(b)
    <3>1. UNCHANGED job /\ left.runs < MaxRuns /\ left' = [left EXCEPT !.runs = left.runs + 1]
      BY <2>1 DEF ProviderAnswers
    <3> QED
      BY <1>0, <3>1, Bounds
  <2>2. CASE ~ProviderAnswers(b)
    <3>1. UNCHANGED job \/ job' = [job EXCEPT !.active = FALSE]
      BY <1>3, <2>2 DEF ProcessStep, BuilderStep, StartAttempt, ChunkChapter, ReadMissing,
           WriteVectors, Resume, PlanChapters, SkipChapter, ReadInput, CommitBegins,
           CommitWrites, PruneOrphans, ProviderFails, Crash, LoseLease, Raise
    <3>2. MayFail \/ UNCHANGED left
      BY <1>3, <2>2 DEF ProcessStep, BuilderStep, StartAttempt, ChunkChapter, ReadMissing,
           WriteVectors, Resume, PlanChapters, SkipChapter, ReadInput, CommitBegins,
           CommitWrites, PruneOrphans, ProviderFails, Crash, LoseLease
    <3> QED
      BY <1>1, <1>2, <3>1, <3>2
  <2> QED
    BY <2>1, <2>2
<1>4. CASE ScheduleStep
  <2>1. PICK force \in BOOLEAN, sub \in BOOLEAN :
          /\ job.id < MaxJobs /\ UNCHANGED <<left, raced>>
          /\ job' = [id |-> job.id + 1, active |-> TRUE, force |-> force, sub |-> sub]
    BY <1>4 DEF ScheduleStep, ScheduleBuild
  <2>2. job.id + 1 \in 0..MaxJobs
    BY <1>0, <2>1, Bounds
  <2> QED
    BY <1>0, <2>1, <2>2
<1>5. CASE EditorStep
  <2>1. UNCHANGED job /\ MayAct /\ (UNCHANGED raced \/ raced' = (raced \/ lock # NoOne))
    BY <1>5 DEF EditorStep, EditText, ReplaceChapter, Change, MergeEntities, ResetCodex
  <2> QED
    BY <1>0, <1>1, <2>1
<1>6. CASE ReaderStep
  <2>1. UNCHANGED <<job, raced>> /\ (MayAct \/ UNCHANGED left)
    BY <1>6 DEF ReaderStep, Ask, Answer
  <2> QED
    BY <1>0, <1>1, <2>1
<1>7. CASE UNCHANGED vars
  BY <1>0, <1>7 DEF vars
<1>8. CASE \E b \in Builders : ProcessStep(b)
  BY <1>0, <1>3, <1>8, ProcessFrame
<1> QED
  BY <1>4, <1>5, <1>6, <1>7, <1>8, NextCases

(* What the retrieval tools return under a ceiling is from the chapters up *)
(* to it, and the ceiling is never beyond what the reader has read.        *)
LEMMA VisibleIsBelow ==
  ASSUME TypeInv, NEW k \in Chapters
  PROVE  VisibleAt(k) \subseteq 1..k
<1> SUFFICES ASSUME NEW c \in VisibleAt(k) PROVE c \in 1..k
  OBVIOUS
<1>0. k \in Nat
  BY ChapterBounds
<1>1. CASE \E d \in 1..k : c = d
  BY <1>1
<1>2. CASE \E e \in Entities : entity[e].first \in 1..k /\ c = entity[e].named
  BY <1>2 DEF TypeInv, NamesAreSafe, NameOK
<1>3. CASE \E e \in Entities : \E a \in entity[e].aliases : a.at <= k /\ c = a.from
  <2>1. PICK e \in Entities : \E a \in entity[e].aliases : a.at <= k /\ c = a.from
    BY <1>3
  <2>2. PICK a \in entity[e].aliases : a.at <= k /\ c = a.from
    BY <2>1
  <2>3. a \in Alias /\ a.from <= a.at
    BY <2>1, <2>2 DEF TypeInv, TypeOK, NamesAreSafe, NameOK
  <2>4. a.from \in Nat /\ a.at \in Nat /\ a.from >= 1
    BY <2>3, ChapterBounds DEF Alias
  <2> QED
    BY <1>0, <2>2, <2>3, <2>4
<1> QED
  BY <1>1, <1>2, <1>3 DEF VisibleAt

LEMMA MaxOfTwo ==
  ASSUME NEW a \in Int, NEW b \in Int
  PROVE  Max({a, b}) = (IF a >= b THEN a ELSE b) /\ Min({a, b}) = (IF a <= b THEN a ELSE b)
<1> DEFINE m == IF a >= b THEN a ELSE b
           n == IF a <= b THEN a ELSE b
<1>1. m \in {a, b} /\ (\A y \in {a, b} : m >= y) /\ n \in {a, b} /\ \A y \in {a, b} : n <= y
  OBVIOUS
<1>2. \A x \in {a, b} : /\ (\A y \in {a, b} : x >= y) => x = m
                        /\ (\A y \in {a, b} : x <= y) => x = n
  OBVIOUS
<1> HIDE DEF m, n
<1>3. (CHOOSE x \in {a, b} : \A y \in {a, b} : x >= y) = m
  BY <1>1, <1>2
<1>4. (CHOOSE x \in {a, b} : \A y \in {a, b} : x =< y) = n
  BY <1>1, <1>2
<1> QED
  BY <1>3, <1>4 DEF Max, Min, m, n

LEMMA CeilingIsRead ==
  ASSUME NEW requested \in Chapters, NEW progress \in Chapters
  PROVE  /\ EffectiveCeiling(requested, progress) \in Chapters
         /\ EffectiveCeiling(requested, progress) <= progress
<1>1. requested \in Int /\ progress \in Int /\ requested >= 1 /\ progress >= 1
  BY ChapterBounds
<1> DEFINE m == IF requested <= progress THEN requested ELSE progress
<1>2. Min({requested, progress}) = m /\ m \in Int /\ m >= 1 /\ m <= progress /\ m \in Chapters
  BY <1>1, MaxOfTwo
<1> HIDE DEF m
<1>3. Max({1, m}) = m
  BY <1>2, MaxOfTwo
<1> QED
  BY <1>2, <1>3 DEF EffectiveCeiling

(* What readers are told and what is cached of it.                         *)
ReaderSet == [c : Chapters, told : SUBSET Chapters, read : Chapters]

ToldIsBelow == /\ \A k \in Chapters : cache[k] \subseteq 1..k
               /\ reader.c # 0 => reader.told \subseteq 1..reader.c /\ reader.c <= reader.read

LEMMA UpToChapter ==
  ASSUME NEW k \in Chapters
  PROVE  1..k \subseteq Chapters
  BY Bounds DEF Chapters

LEMMA ReaderStepOK ==
  ASSUME TypeInv, [Next]_vars
  PROVE  /\ cache' \in [Chapters -> SUBSET Chapters]
         /\ reader' \in {NoAnswer} \cup ReaderSet
         /\ ToldIsBelow => ToldIsBelow'
<1>0. cache \in [Chapters -> SUBSET Chapters] /\ reader \in {NoAnswer} \cup ReaderSet
  BY DEF TypeInv, TypeOK, ReaderSet
<1>1. NoAnswer.c = 0
  BY DEF NoAnswer
<1> DEFINE CacheOK == cache' \in [Chapters -> SUBSET Chapters]
           OK == CacheOK /\ reader' \in {NoAnswer} \cup ReaderSet /\ (ToldIsBelow => ToldIsBelow')
(* Some of what is cached is dropped.                                      *)
<1>2. ASSUME UNCHANGED reader,
             UNCHANGED cache \/ \E dropped : cache' = [k \in Chapters |-> IF k \in dropped THEN {} ELSE cache[k]]
      PROVE  OK
  BY <1>0, <1>2 DEF ToldIsBelow
<1>3. ASSUME NEW c
      PROVE  \E dropped : DropCache(c) = [k \in Chapters |-> IF k \in dropped THEN {} ELSE cache[k]]
  <2> DEFINE dropped == {k \in Chapters : k >= c}
  <2>1. DropCache(c) = [k \in Chapters |-> IF k \in dropped THEN {} ELSE cache[k]]
    BY DEF DropCache
  <2> QED
    BY <2>1
<1>4. ASSUME UNCHANGED reader, cache' = [k \in Chapters |-> {}] PROVE OK
  BY <1>0, <1>4 DEF ToldIsBelow
<1>5. ASSUME NEW c \in Chapters, NEW read \in Chapters, Ask(c, read) PROVE OK
  <2> DEFINE k == EffectiveCeiling(c, read)
             r == [c |-> k, told |-> VisibleAt(k), read |-> read]
  <2>1. UNCHANGED cache /\ reader' = r
    BY <1>5 DEF Ask, knowledge
  <2>2. k \in Chapters /\ k <= read
    BY CeilingIsRead
  <2>3. VisibleAt(k) \subseteq 1..k /\ VisibleAt(k) \subseteq Chapters
    BY <2>2, VisibleIsBelow, UpToChapter
  <2> HIDE DEF k
  <2>4. r \in ReaderSet /\ r.c = k /\ r.told = VisibleAt(k) /\ r.read = read
    BY <2>2, <2>3 DEF ReaderSet
  <2> HIDE DEF r
  <2> QED
    BY <1>0, <2>1, <2>2, <2>3, <2>4 DEF ToldIsBelow
<1>6. ASSUME Answer PROVE OK
  <2>1. /\ reader.c # 0 /\ reader' = NoAnswer
        /\ cache' = [cache EXCEPT ![reader.c] = reader.told]
    BY <1>6 DEF Answer
  <2>2. reader.c \in Chapters /\ reader.told \in SUBSET Chapters
    BY <1>0, <1>1, <2>1 DEF ReaderSet
  <2> QED
    BY <1>0, <1>1, <2>1, <2>2 DEF ToldIsBelow
<1>7. ASSUME NEW b \in Builders, ProcessStep(b) PROVE OK
  <2>1. UNCHANGED reader
    BY <1>7, ProcessFrame
  <2>2. \/ UNCHANGED cache
        \/ \E c : cache' = DropCache(c)
    BY <1>7, ProcessFrame DEF CommitWrites, ReadInput
  <2> QED
    BY <1>2, <1>3, <2>1, <2>2
<1>8. CASE ScheduleStep \/ EditorStep \/ ReaderStep \/ UNCHANGED vars
  <2>1. ASSUME (\E c \in Chapters : ReplaceChapter(c)) \/ ResetCodex
        PROVE  UNCHANGED reader /\ cache' = [k \in Chapters |-> {}]
    BY <2>1 DEF ReplaceChapter, ResetCodex
  <2> QED
    BY <1>2, <1>4, <1>5, <1>6, <1>8, <2>1, OthersFrame
<1> QED
  BY <1>7, <1>8, NextCases

LEMMA TypeStep ==
  ASSUME TypeInv, [Next]_vars
  PROVE  TypeInv'
<1>1. TypeOK'
  BY AttemptStep, SourceStep, KnowledgeStep, EntityStep, SavedStep, JobStep, ReaderStepOK
  DEF TypeOK, RowSet, EntitySet, ReaderSet
<1> QED
  BY <1>1, AttemptStep, EntityStep DEF TypeInv

LEMMA TypeInit == Init => TypeInv
<1> SUFFICES ASSUME Init PROVE TypeInv
  OBVIOUS
<1>1. /\ text \in [Chapters -> Nat] /\ chunk \in [Chapters -> [of : Nat, vec : Nat]]
      /\ facts \in [Chapters -> SUBSET Entities] /\ cache \in [Chapters -> SUBSET Chapters]
  BY DEF Init
<1>2. codex \in [Chapters -> RowSet] /\ entity \in [Entities -> EntitySet] /\ NamesAreSafe
  BY NoRowType, NoEntityOK DEF Init, NamesAreSafe
<1>3. /\ job \in [id : 0..MaxJobs, active : BOOLEAN, force : BOOLEAN, sub : BOOLEAN]
      /\ left \in [runs : 0..MaxRuns, acts : 0..MaxActs, faults : 0..MaxFaults]
  BY Bounds DEF Init
<1>4. /\ raced \in BOOLEAN /\ saved \in {NoAnswer} \cup Answers
      /\ reader \in {NoAnswer} \cup ReaderSet
  BY DEF Init
<1>5. /\ build \in [Builders -> {Idle} \cup Building] /\ lock \in Builders \cup {NoOne}
      /\ \A b \in Builders : AttemptOK(build[b], lock = b)
  <2>1. \A b \in Builders : build[b] = Idle /\ (lock = b) = FALSE
    BY Bounds DEF Init
  <2> QED
    BY <2>1, IdleIsOK DEF Init
<1> QED
  BY <1>1, <1>2, <1>3, <1>4, <1>5 DEF TypeInv, TypeOK, RowSet, EntitySet, ReaderSet

LEMMA TypeInvariant == Spec => []TypeInv
  BY TypeInit, TypeStep, PTL DEF Spec

(* The state of the codex has its types; in particular what an attempt     *)
(* carries always fits its stage, whoever else builds, edits or merges.    *)
THEOREM TypeCorrect == Spec => []TypeOK
  BY TypeInvariant, PTL DEF TypeInv

(* A vector belongs to the text of its chunk, also when the chapter was    *)
(* cut anew while the provider was embedding it (embed_missing_chunks).    *)
THEOREM VectorsAreTrue == Spec => []VectorIsOfItsText
<1>1. Init => VectorIsOfItsText
  BY DEF Init, VectorIsOfItsText
<1>2. TypeInv /\ VectorIsOfItsText /\ [Next]_vars => VectorIsOfItsText'
  BY SourceStep
<1> QED
  BY <1>1, <1>2, TypeInvariant, PTL DEF Spec

(* Nothing that a reader is shown, was told or finds cached is from beyond *)
(* the ceiling, whatever is extracted, merged, pruned or edited meanwhile  *)
(* (promote_canonical_name_if_safe, effective_ceiling).                    *)
THEOREM ReadersAreSafe == Spec => []NoSpoilers
<1>1. Init => ToldIsBelow
  BY DEF Init, ToldIsBelow, NoAnswer
<1>2. TypeInv /\ ToldIsBelow /\ [Next]_vars => ToldIsBelow'
  BY ReaderStepOK
<1>3. TypeInv /\ ToldIsBelow => NoSpoilers
  <2> SUFFICES ASSUME TypeInv, ToldIsBelow PROVE NoSpoilers
    OBVIOUS
  <2>1. ASSUME reader.c # 0 PROVE reader.told \subseteq 1..reader.read
    <3>1. reader \in ReaderSet
      BY <2>1 DEF TypeInv, TypeOK, ReaderSet, NoAnswer
    <3>2. reader.c \in Nat /\ reader.read \in Nat
      BY <3>1, ChapterBounds DEF ReaderSet
    <3>3. reader.told \subseteq 1..reader.c /\ reader.c <= reader.read
      BY <2>1 DEF ToldIsBelow
    <3>4. 1..reader.c \subseteq 1..reader.read
      BY <3>2, <3>3
    <3> QED
      BY <3>3, <3>4
  <2> QED
    BY <2>1, VisibleIsBelow DEF ToldIsBelow, NoSpoilers
<1> QED
  BY <1>1, <1>2, <1>3, TypeInvariant, PTL DEF Spec

----------------------------------------------------------------------------
(* The memory that a chapter's knowledge rests on.                         *)

(* The rows of a prefix: every one is there, and rests on those before it. *)
Rests(rows, c) ==
  rows[c].run # 0 =>
    \A d \in 1..(c - 1) : rows[d].run # 0 /\ rows[c].ctx.memory[d] = rows[d].run
AllRest(rows) == \A c \in Chapters : Rests(rows, c)

(* The checks of a commit, as functions of the rows.                       *)
Ready(rows, c) ==
  \A d \in ((((c - 1) \div Width) * Width + 1) - 1)..(c - 1) : d > 0 => rows[d].run # 0
Runs(rows, c) == [d \in 1..(c - 1) |-> rows[d].run]

LEMMA ReadyIsPrerequisites ==
  ASSUME NEW c
  PROVE  (Prerequisites(c) <=> Ready(codex, c)) /\ Memory(c) = Runs(codex, c)
<1>1. Memory(c) = Runs(codex, c)
  BY DEF Memory, Runs
<1>2. Prerequisites(c) <=> Ready(codex, c)
  BY Zenon DEF Prerequisites, Ready
<1> QED
  BY <1>1, <1>2

(* While a commit holds the lock, what it checked stays true, unless an    *)
(* import, which takes no lock, invalidates rows under it.                 *)
LockedIsCurrent ==
  \A b \in Builders : lock = b /\ ~raced =>
    /\ Ready(codex, build[b].in.c)
    /\ build[b].in.ctx.memory = Runs(codex, build[b].in.c)

MemoryInv == MemoryIsCurrent /\ LockedIsCurrent

LEMMA RestsIsCurrent == MemoryIsCurrent <=> (~raced => AllRest(codex))
  BY DEF MemoryIsCurrent, AllRest, Rests

(* The block of a chapter starts at or before it.                          *)
LEMMA BlockStart ==
  ASSUME NEW c \in Chapters
  PROVE  ((c - 1) \div Width) * Width \in 0..(c - 1)
<1> DEFINE n == c - 1
           q == n \div Width
<1>1. n \in Nat /\ Width \in Nat /\ Width > 0
  BY ChapterBounds, Bounds
<1>2. q \in Nat /\ n = Width * q + (n % Width) /\ n % Width \in Nat
  BY <1>1
<1> DEFINE m == n % Width
           p == Width * q
<1> HIDE DEF q
<1>4. q * Width = p /\ p \in Int
  BY <1>1, <1>2
<1>7. n = p + m /\ m \in Nat
  BY <1>2
<1>8. \A i, k \in Nat : i * k >= 0
  OBVIOUS
<1>9. p >= 0
  BY <1>1, <1>2, <1>8
<1> HIDE DEF m, p
<1>3. n \in Int /\ p \in Int /\ p >= 0 /\ n = p + m /\ m \in Nat
  BY <1>1, <1>4, <1>7, <1>9
<1>5. p <= n
  BY <1>3
<1>6. p \in 0..n
  BY <1>3, <1>5
<1> QED
  BY <1>4, <1>6 DEF q

(* The prerequisites look at the block of the chapter and at the last      *)
(* checkpoint before it; the latter rests on all the chapters before.      *)
LEMMA PrefixIsThere ==
  ASSUME TypeInv, AllRest(codex), NEW c \in Chapters, Prerequisites(c)
  PROVE  \A d \in 1..(c - 1) : codex[d].run # 0
<1> DEFINE s == ((c - 1) \div Width) * Width
<1>1. s \in 0..(c - 1) /\ c \in Nat /\ c <= N /\ N \in Nat
  BY BlockStart, ChapterBounds, Bounds
<1>2. \A d \in ((s + 1) - 1)..(c - 1) : d > 0 => codex[d].run # 0
  BY DEF Prerequisites
<1> HIDE DEF s
<1>3. \A d \in s..(c - 1) : d > 0 => codex[d].run # 0
  BY <1>1, <1>2
<1> TAKE d \in 1..(c - 1)
<1>4. CASE d >= s
  BY <1>1, <1>3, <1>4
<1>5. CASE d < s
  <2>1. s \in Chapters /\ codex[s].run # 0 /\ d \in 1..(s - 1)
    BY <1>1, <1>3, <1>5 DEF Chapters
  <2> QED
    BY <2>1 DEF AllRest, Rests
<1> QED
  BY <1>1, <1>4, <1>5

LEMMA DropKeepsRest ==
  ASSUME AllRest(codex), NEW c \in Chapters
  PROVE  AllRest(DropSuffix(codex, c))
<1> DEFINE rows == DropSuffix(codex, c)
<1>1. \A d \in Chapters : rows[d] = IF d < c THEN codex[d] ELSE NoRow
  BY DEF DropSuffix
<1>2. NoRow.run = 0
  BY DEF NoRow
<1> HIDE DEF rows
<1> SUFFICES ASSUME NEW x \in Chapters, rows[x].run # 0, NEW d \in 1..(x - 1)
             PROVE  rows[d].run # 0 /\ rows[x].ctx.memory[d] = rows[d].run
  BY DEF AllRest, Rests, rows
<1>3. x < c /\ rows[x] = codex[x]
  BY <1>1, <1>2
<1>4. d \in Chapters /\ d < c
  BY <1>3, ChapterBounds, Bounds DEF Chapters
<1> QED
  BY <1>1, <1>3, <1>4 DEF AllRest, Rests

LEMMA CommitKeepsRest ==
  ASSUME TypeInv, AllRest(codex), NEW c \in Chapters, NEW row,
         Prerequisites(c), row.ctx.memory = Memory(c)
  PROVE  AllRest([DropSuffix(codex, c) EXCEPT ![c] = row])
<1> DEFINE rows == [DropSuffix(codex, c) EXCEPT ![c] = row]
<1>1. \A d \in Chapters : rows[d] = IF d < c THEN codex[d] ELSE IF d = c THEN row ELSE NoRow
  BY ChapterBounds DEF DropSuffix
<1>2. NoRow.run = 0
  BY DEF NoRow
<1> HIDE DEF rows
<1> SUFFICES ASSUME NEW x \in Chapters, rows[x].run # 0, NEW d \in 1..(x - 1)
             PROVE  rows[d].run # 0 /\ rows[x].ctx.memory[d] = rows[d].run
  BY DEF AllRest, Rests, rows
<1>3. x <= c /\ x \in Nat /\ c \in Nat /\ (x < c => rows[x] = codex[x]) /\ (x = c => rows[x] = row)
  BY <1>1, <1>2, ChapterBounds
<1>4. d \in Chapters /\ d < c /\ d \in Nat /\ rows[d] = codex[d]
  BY <1>1, <1>3, ChapterBounds, Bounds DEF Chapters
<1>5. CASE x < c
  BY <1>3, <1>4, <1>5 DEF AllRest, Rests
<1>6. CASE x = c
  <2>1. codex[d].run # 0
    BY <1>6, PrefixIsThere
  <2>2. Memory(c)[d] = codex[d].run
    BY <1>6 DEF Memory
  <2> QED
    BY <1>3, <1>4, <1>6, <2>1, <2>2
<1> QED
  BY <1>3, <1>5, <1>6

(* A builder that holds the lock commits, dies or loses its lease; the     *)
(* others leave the lock and what it carries alone.                        *)
LEMMA HolderStep ==
  ASSUME TypeInv, NEW b \in Builders, ProcessStep(b), lock = b
  PROVE  \/ CommitWrites(b) \/ lock' = NoOne
         \/ lock' = b /\ build'[b].in = build[b].in
<1>1. build[b].pc \in {"commit", "recommit"} /\ lock # NoOne
  BY Bounds DEF TypeInv, AttemptOK
<1>2. CASE Crash(b)
  BY <1>2 DEF Crash
<1>3. CASE LoseLease(b)
  <2>1. build' = [build EXCEPT ![b].lost = TRUE] /\ UNCHANGED lock
    BY <1>3 DEF LoseLease
  <2> DEFINE s == [build[b] EXCEPT !.lost = TRUE]
  <2>2. build[b] \in Building
    BY <1>1, BuildingFields DEF TypeInv, TypeOK
  <2>3. s.in = build[b].in
    BY <2>2, MoveLost
  <2>4. build' = [build EXCEPT ![b] = s]
    BY <2>1
  <2> HIDE DEF s
  <2> QED
    BY <2>1, <2>3, <2>4 DEF TypeInv, TypeOK
<1>4. CASE CommitBegins(b)
  BY <1>1, <1>4 DEF CommitBegins
<1> QED
  BY <1>1, <1>2, <1>3, <1>4 DEF ProcessStep, BuilderStep, StartAttempt, ChunkChapter, ReadMissing,
     WriteVectors, Resume, PlanChapters, SkipChapter, ReadInput, ProviderAnswers, ProviderFails,
     PruneOrphans, At

(* A builder takes the lock only on what it has just checked.              *)
LEMMA LockingStep ==
  ASSUME TypeInv, NEW b \in Builders, ProcessStep(b), lock # b, lock' = b
  PROVE  /\ UNCHANGED <<codex, raced>> /\ build'[b].in.c = build[b].in.c
         /\ build'[b].in.ctx = build[b].in.ctx /\ build[b].in.c \in Chapters
         /\ Prerequisites(build[b].in.c) /\ Context(build[b].in.c) = build[b].in.ctx
<1> DEFINE p == build[b].in
           in == [c |-> p.c, src |-> p.src, ctx |-> p.ctx, run |-> p.run, of |-> chunk[p.c].of]
<1>1. CommitBegins(b)
  <2>1. ~UNCHANGED lock /\ lock' # NoOne
    BY Bounds
  <2>2. ASSUME Crash(b) PROVE FALSE
    BY <2>1, <2>2, Bounds DEF Crash
  <2> QED
    BY <2>1, <2>2 DEF ProcessStep, BuilderStep, StartAttempt, ChunkChapter, ReadMissing,
       WriteVectors, Resume, PlanChapters, SkipChapter, ReadInput, ProviderAnswers, ProviderFails,
       CommitWrites, PruneOrphans, LoseLease
<1>2. /\ MayCommit(b, p.c, p) /\ UNCHANGED <<codex, raced>>
      /\ build' = [build EXCEPT ![b].in = in] /\ build[b].pc \in {"commit", "recommit"}
  BY <1>1 DEF CommitBegins, knowledge, At
<1>3. build[b] \in Building /\ p \in Answers
  BY <1>2, BuildingFields DEF TypeInv, TypeOK, AttemptOK
<1>4. build'[b].in = in
  BY <1>2, <1>3 DEF TypeInv, TypeOK, Building
<1>5. p.c \in Chapters
  BY <1>3, AnswerFields
<1> QED
  BY <1>2, <1>4, <1>5 DEF MayCommit

LEMMA MemoryStep ==
  ASSUME TypeInv, MemoryInv, [Next]_vars
  PROVE  MemoryInv'
<1>0. /\ (~raced => AllRest(codex)) /\ LockedIsCurrent
      /\ codex \in [Chapters -> RowSet]
  BY RestsIsCurrent DEF MemoryInv, TypeInv, TypeOK, RowSet
<1>1. ASSUME ~raced' => AllRest(codex'), LockedIsCurrent' PROVE MemoryInv'
  BY <1>1 DEF MemoryInv, MemoryIsCurrent, AllRest, Rests
(* The steps of those who do not build.                                    *)
<1>2. CASE ScheduleStep \/ EditorStep \/ ReaderStep \/ UNCHANGED vars
  <2>0. UNCHANGED <<build, lock>>
    BY <1>2, OthersFrame
  <2>1. CASE UNCHANGED <<codex, raced>>
    <3>1. LockedIsCurrent'
      BY <1>0, <2>0, <2>1 DEF LockedIsCurrent
    <3> QED
      BY <1>0, <1>1, <2>1, <3>1
  <2>2. ASSUME NEW c \in Chapters, ReplaceChapter(c) PROVE MemoryInv'
    <3>1. codex' = DropSuffix(codex, c) /\ raced' = (raced \/ lock # NoOne)
      BY <2>2 DEF ReplaceChapter
    <3>2. LockedIsCurrent'
      BY <2>0, <3>1, Bounds DEF LockedIsCurrent
    <3>3. ~raced' => AllRest(codex')
      BY <1>0, <3>1, DropKeepsRest
    <3> QED
      BY <1>1, <3>2, <3>3
  <2>3. ASSUME NEW keep \in Entities, NEW drop \in Entities, MergeEntities(keep, drop)
        PROVE  MemoryInv'
    <3>1. lock = NoOne /\ UNCHANGED raced
      BY <2>3 DEF MergeEntities
    <3>2. \A c \in Chapters : codex'[c].run = codex[c].run /\ codex'[c].ctx = codex[c].ctx
      BY <1>0, <2>3 DEF MergeEntities, RowSet
    <3>3. LockedIsCurrent'
      BY <2>0, <3>1, Bounds DEF LockedIsCurrent
    <3>4. AllRest(codex) => AllRest(codex')
      <4> SUFFICES ASSUME AllRest(codex), NEW c \in Chapters, codex'[c].run # 0, NEW d \in 1..(c - 1)
                   PROVE  codex'[d].run # 0 /\ codex'[c].ctx.memory[d] = codex'[d].run
        BY DEF AllRest, Rests
      <4>1. d \in Chapters
        BY Bounds DEF Chapters
      <4> QED
        BY <3>2, <4>1 DEF AllRest, Rests
    <3> QED
      BY <1>0, <1>1, <3>1, <3>3, <3>4
  <2>4. ASSUME ResetCodex PROVE MemoryInv'
    <3>1. lock = NoOne /\ \A c \in Chapters : codex'[c].run = 0
      BY <2>4 DEF ResetCodex, NoRow
    <3>2. LockedIsCurrent'
      BY <2>0, <3>1, Bounds DEF LockedIsCurrent
    <3> QED
      BY <1>1, <3>1, <3>2 DEF AllRest, Rests
  <2> QED
    BY <1>2, <2>1, <2>2, <2>3, <2>4, OthersFrame
(* A step of builder b.                                                    *)
<1>3. ASSUME NEW b \in Builders, ProcessStep(b) PROVE MemoryInv'
  <2>0. UNCHANGED raced
    BY <1>3, ProcessFrame
  <2>1. \A o \in Builders : o # b => build'[o] = build[o] /\ (lock' = o <=> lock = o)
    <3>1. BuildMove(b)
      BY <1>3, BuilderMove
    <3>2. PICK s \in {Idle} \cup Building : build' = [build EXCEPT ![b] = s]
      BY <3>1 DEF BuildMove
    <3> QED
      BY <3>1, <3>2, Bounds DEF BuildMove, TypeInv, TypeOK
  <2>2. CASE CommitWrites(b)
    <3> DEFINE p == build[b].in
    <3>1. p \in Anchored /\ p.c \in Chapters /\ lock = b /\ lock' = NoOne
      BY <2>2, Committing DEF CommitWrites
    <3>2. PICK e \in Entities : codex' = [DropSuffix(codex, p.c) EXCEPT ![p.c] = Row(b, p, {e})]
      BY <2>2 DEF CommitWrites
    <3>3. Row(b, p, {e}).ctx = p.ctx
      BY DEF Row
    <3>4. ASSUME ~raced PROVE AllRest(codex')
      <4>1. Prerequisites(p.c) /\ p.ctx.memory = Memory(p.c)
        BY <1>0, <3>1, <3>4, ReadyIsPrerequisites DEF LockedIsCurrent
      <4> DEFINE row == Row(b, p, {e})
      <4>2. row.ctx.memory = Memory(p.c)
        BY <3>3, <4>1
      <4> HIDE DEF p, row
      <4> QED
        BY <1>0, <3>1, <3>2, <3>4, <4>1, <4>2, CommitKeepsRest DEF row
    <3>5. LockedIsCurrent'
      BY <3>1, Bounds DEF LockedIsCurrent
    <3> QED
      BY <1>1, <2>0, <3>4, <3>5
  <2>3. CASE UNCHANGED codex
    <3>1. ASSUME NEW o \in Builders, lock' = o, ~raced'
          PROVE  /\ Ready(codex, build'[o].in.c)
                 /\ build'[o].in.ctx.memory = Runs(codex, build'[o].in.c)
      <4>1. CASE o # b
        BY <1>0, <2>0, <2>1, <3>1, <4>1 DEF LockedIsCurrent
      <4>2. CASE o = b /\ lock = b
        <5>1. build'[b].in = build[b].in \/ CommitWrites(b)
          BY <1>3, <3>1, <4>2, HolderStep, Bounds
        <5>2. ~CommitWrites(b)
          BY <3>1, <4>2, Bounds DEF CommitWrites
        <5> QED
          BY <1>0, <2>0, <3>1, <4>2, <5>1, <5>2 DEF LockedIsCurrent
      <4>3. CASE o = b /\ lock # b
        <5>1. /\ build'[b].in.c = build[b].in.c /\ build'[b].in.ctx = build[b].in.ctx
              /\ build[b].in.c \in Chapters
              /\ Prerequisites(build[b].in.c) /\ Context(build[b].in.c) = build[b].in.ctx
          BY <1>3, <3>1, <4>3, LockingStep
        <5>2. build[b].in.ctx.memory = Memory(build[b].in.c)
          BY <5>1, ContextType DEF TypeInv
        <5> QED
          BY <4>3, <5>1, <5>2, ReadyIsPrerequisites
      <4> QED
        BY <4>1, <4>2, <4>3
    <3>2. LockedIsCurrent'
      BY <2>3, <3>1 DEF LockedIsCurrent
    <3> QED
      BY <1>0, <1>1, <2>0, <2>3, <3>2
  <2> QED
    BY <1>3, <2>2, <2>3, ProcessFrame
<1> QED
  BY <1>2, <1>3, NextCases

(* The knowledge of every chapter was extracted on top of exactly the      *)
(* memory that the chapters before it have now, for any number of builders *)
(* and chapters, through lost leases, crashes, retries and resumed commits *)
(* (commit_extraction).  The one exception is the import that invalidates  *)
(* rows without the lock while a commit is under way.                      *)
THEOREM MemoryStaysCurrent == Spec => []MemoryIsCurrent
<1>1. Init => MemoryInv
  <2> SUFFICES ASSUME Init PROVE MemoryInv
    OBVIOUS
  <2>1. \A c \in Chapters : codex[c].run = 0
    BY DEF Init, NoRow
  <2>2. \A b \in Builders : lock # b
    BY Bounds DEF Init
  <2> QED
    BY <2>1, <2>2 DEF MemoryInv, MemoryIsCurrent, LockedIsCurrent
<1> QED
  BY <1>1, MemoryStep, TypeInvariant, PTL DEF Spec, MemoryInv
=============================================================================
