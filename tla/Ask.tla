-------------------------------- MODULE Ask --------------------------------
(***************************************************************************)
(* The read side of the Codex: questions (Ask, Recap) and entity profiles  *)
(* answered by models from retrieved rows, and the lexical index they      *)
(* search.                                                                 *)
(*                                                                         *)
(*  - BM25Manager (retrieval/bm25.py), one per process: the corpus read    *)
(*    from the chunks table, the index built over it, the cached prefix    *)
(*    indexes of partial ceilings, the asyncio lock that serialises load,  *)
(*    rebuild and search, the threads a cancelled caller drains, and the   *)
(*    copy on disk with its signature, which survives the process;         *)
(*  - answer_question (agent.py): cache, plan, bounded tool loop, draft,   *)
(*    verifier, machine grounding, one repair, citations, cache;           *)
(*  - synthesize_profile (agent_bridge.py) and entity_profile              *)
(*    (application/services.py): the same discipline over wiki_cache.      *)
(*                                                                         *)
(* A retriever is the corpus it indexed: a function from chunk ids to the  *)
(* version of the text, 0 for no row.  Its positions mean rows of that     *)
(* corpus, so it may only be used with that corpus.  An answer is the set  *)
(* of rows it cites; NoRow is a citation a model made up.  What a build    *)
(* does to the rows is module Codex; here it is CodexChanges.              *)
(***************************************************************************)
EXTENDS Integers, Sequences, FiniteSets, SequencesExt

CONSTANTS ChunkIds,        \* ids of the rows of chunks
          Facts,           \* ids of entity_facts, relationships and events
          ChapOf,          \* the chapter of each row
          Ceilings,        \* the readers' chapter ceilings
          Requests,        \* requests of the web process
          Procs, Web,      \* processes with a BM25Manager; the web process
          NoRow,           \* an id that no table has
          None,
          MaxText,         \* bounds the versions of a text
          MaxIterations,   \* settings.MAX_ITERATIONS
          MaxCalls,        \* settings.ASK_MAX_TOOL_CALLS_PER_ITER
          EvidenceTokens,  \* settings.CODEX_ASK_TOTAL_EVIDENCE_TOKENS, in units
          DigestTokens,    \* settings.CODEX_ASK_MAX_DIGEST_TOKENS, in units
          PrefixSize       \* settings.BM25_PREFIX_CACHE_SIZE

ASSUME AskAssumption ==
    /\ Web \in Procs /\ None \notin Requests
    /\ IsFiniteSet(ChunkIds) /\ ChapOf \in [ChunkIds \cup Facts -> Int]
    /\ Ceilings \subseteq Int /\ None \notin [ChunkIds -> 0..MaxText]
    /\ {MaxText, MaxIterations, MaxCalls, EvidenceTokens, DigestTokens, PrefixSize} \subseteq Nat
    /\ MaxText > 0

VARIABLES chunks,   \* the chunks table: version of each row's text, 0: no row
          facts,    \* the claim tables: "in" or "gone" (ids are not reused)
          mgr,      \* the BM25Manager of each process
          disk,     \* the persisted index and its signature file
          req,      \* the requests
          cache,    \* query_cache by ceiling, of one question
          wiki      \* wiki_cache by ceiling, of one entity

askVars == <<chunks, facts, mgr, disk, req, cache, wiki>>

RowIds == ChunkIds \cup Facts
Corpora == [ChunkIds -> 0..MaxText]
EmptyCorpus == [i \in ChunkIds |-> 0]
Count(corpus) == Cardinality({i \in ChunkIds : corpus[i] # 0})
UpTo(corpus, c) == [i \in ChunkIds |-> IF ChapOf[i] <= c THEN corpus[i] ELSE 0]
IdsOf(corpus) == {i \in ChunkIds : corpus[i] # 0}

FreshManager == [loaded |-> FALSE, corpus |-> EmptyCorpus, retriever |-> None,
                 prefix |-> <<>>, queue |-> <<>>, at |-> "free", drop |-> FALSE]

Fresh == [pc |-> "new", kind |-> "ask", ceil |-> 0, iter |-> 0, calls |-> 0,
          seen |-> 0, told |-> 0, evidence |-> {}, refs |-> {}, checked |-> FALSE]

\* A request that has been answered, refused or cut off; requests are not reused.
Ended == [Fresh EXCEPT !.pc = "ended"]

AskInit == /\ chunks \in {[i \in ChunkIds |-> v] : v \in {0, 1}}
        /\ facts = [f \in Facts |-> "in"]
        /\ mgr = [p \in Procs |-> FreshManager]
        /\ disk = [index |-> None, meta |-> None]
        /\ req = [r \in Requests |-> Fresh]
        /\ cache = [c \in Ceilings |-> None]
        /\ wiki = [c \in Ceilings |-> None]

-----------------------------------------------------------------------------
(* The tables.                                                             *)

\* clear_caches(novel_id, chapter_number): what was told from there on.
Cleared(told, n) == [c \in Ceilings |-> IF c >= n THEN None ELSE told[c]]

\* A build cuts chapter n again and drops what was claimed from there on;
\* bounded to one change after which the texts have different versions.
CodexChanges(n) ==
    /\ \E i \in ChunkIds : ChapOf[i] = n
    /\ \A i, j \in ChunkIds : chunks[i] = chunks[j] /\ chunks[i] < MaxText
    /\ chunks' = [i \in ChunkIds |-> IF ChapOf[i] = n
                                   THEN chunks[i] + 1 ELSE chunks[i]]
    /\ facts' = [f \in Facts |-> IF ChapOf[f] >= n /\ facts[f] = "in"
                                 THEN "gone" ELSE facts[f]]
    /\ cache' = Cleared(cache, n)
    /\ wiki' = Cleared(wiki, n)
    /\ UNCHANGED <<mgr, disk, req>>

\* get_chunk, dense_search: rows of chunks at or below the ceiling.
ChunksAt(c) == {i \in ChunkIds : chunks[i] # 0 /\ ChapOf[i] <= c}

\* get_entity_profile, get_relationships, get_timeline: claims at or below the
\* ceiling, the timeline being cut to its newest; resolve_entity and
\* list_entities return entities, which no answer can cite.
FactsAt(c) == {f \in Facts : facts[f] = "in" /\ ChapOf[f] <= c}
TimelineAt(c) == {f \in FactsAt(c) : \A g \in FactsAt(c) : ChapOf[g] <= ChapOf[f]}
EntitiesOnly == {}

\* build_citations: the ids that the tables still have at the ceiling.
Resolvable(c) == ChunksAt(c) \cup FactsAt(c)

-----------------------------------------------------------------------------
(* BM25Manager.  queue is the waiters of the asyncio lock, its head the    *)
(* holder; `at` is the step the holder is in; drop says that the holder    *)
(* was cancelled and only drains its thread.                               *)

Op(what, r) == [what |-> what, by |-> r]
Holder(m) == Head(m.queue)

\* The manager after its holder leaves the lock.
Released(m) == [m EXCEPT !.queue = Tail(@), !.at = "free", !.drop = FALSE]

\* ensure_loaded returned to the request: the question starts, or the tool
\* queues for its search with no await in between.
Resume(m, op) ==
    IF op.what = "ensure" /\ req[op.by].pc = "ensure"
    THEN [m EXCEPT !.queue = Append(@, Op("search", op.by))] ELSE m

ResumedReq(op) ==
    IF op.what = "rebuild" THEN req
    ELSE [req EXCEPT ![op.by].pc = IF @ = "loading" THEN "lookup" ELSE "search"]

\* The holder is done, and its caller goes on.
Finish(p, m) ==
    /\ mgr' = [mgr EXCEPT ![p] = Resume(Released([m EXCEPT !.loaded = TRUE]), Holder(m))]
    /\ req' = ResumedReq(Holder(m))

\* The holder was cancelled in a thread, which has now ended.
Drained(p, m) == /\ mgr' = [mgr EXCEPT ![p] = Released(m)]
                 /\ UNCHANGED req

\* The holder got an exception: _loaded stays false, the request is an error.
Raised(p, m) ==
    /\ mgr' = [mgr EXCEPT ![p] = Released(m)]
    /\ req' = IF Holder(m).what = "rebuild" \/ m.drop THEN req
              ELSE [req EXCEPT ![Holder(m).by] = Ended]

\* rebuild() by a job of this process, or of the host worker.
Rebuild(p) ==
    /\ \A k \in DOMAIN mgr[p].queue : mgr[p].queue[k].what # "rebuild"
    /\ mgr' = [mgr EXCEPT ![p].queue = Append(@, Op("rebuild", None))]
    /\ UNCHANGED <<chunks, facts, disk, req, cache, wiki>>

\* The lock is taken: the double check of ensure_loaded, or _loaded = False.
Enter(p) ==
    LET m == mgr[p] IN
    /\ m.queue # <<>> /\ m.at = "free" /\ Holder(m).what # "search"
    /\ IF Holder(m).what = "ensure" /\ m.loaded
       THEN Finish(p, m)
       ELSE /\ mgr' = [mgr EXCEPT ![p].loaded = FALSE, ![p].at = "rows"]
            /\ UNCHANGED req
    /\ UNCHANGED <<chunks, facts, disk, cache, wiki>>

\* _load_corpus_rows, and the early return on an empty corpus.
LoadCorpusRows(p) ==
    LET m == [mgr[p] EXCEPT !.corpus = chunks, !.prefix = <<>>] IN
    /\ mgr[p].at = "rows"
    /\ IF Count(chunks) = 0
       THEN Finish(p, [m EXCEPT !.retriever = None])
       ELSE /\ mgr' = [mgr EXCEPT ![p] = [m EXCEPT !.at =
                         IF Holder(m).what = "rebuild" THEN "build" ELSE "disk"]]
            /\ UNCHANGED req
    /\ UNCHANGED <<chunks, facts, disk, cache, wiki>>

\* _try_load_from_disk: only an index whose signature is that of the corpus.
TryLoadFromDisk(p) ==
    LET m == mgr[p]
        fresh == disk.meta = m.corpus
        loaded == IF fresh THEN [m EXCEPT !.retriever = disk.index] ELSE m
    IN
    /\ m.at = "disk"
    /\ IF m.drop THEN Drained(p, loaded)
       ELSE IF fresh THEN Finish(p, loaded)
       ELSE mgr' = [mgr EXCEPT ![p].at = "build"] /\ UNCHANGED req
    /\ UNCHANGED <<chunks, facts, disk, cache, wiki>>

\* _build_retriever over the whole corpus.
BuildRetriever(p) ==
    LET m == [mgr[p] EXCEPT !.retriever = mgr[p].corpus, !.prefix = <<>>] IN
    /\ m.at = "build"
    /\ IF m.drop THEN Drained(p, m)
       ELSE mgr' = [mgr EXCEPT ![p] = [m EXCEPT !.at = "index"]] /\ UNCHANGED req
    /\ UNCHANGED <<chunks, facts, disk, cache, wiki>>

\* _save, the index files; the thread goes on to the signature even when
\* its caller was cancelled.
SaveIndex(p) ==
    /\ mgr[p].at = "index"
    /\ disk' = [disk EXCEPT !.index = mgr[p].retriever]
    /\ mgr' = [mgr EXCEPT ![p].at = "meta"]
    /\ UNCHANGED <<chunks, facts, req, cache, wiki>>

\* _save, the signature file.
SaveMeta(p) ==
    LET m == mgr[p] IN
    /\ m.at = "meta"
    /\ disk' = [disk EXCEPT !.meta = m.corpus]
    /\ IF m.drop THEN Drained(p, m) ELSE Finish(p, m)
    /\ UNCHANGED <<chunks, facts, cache, wiki>>

\* The database or the disk fails under the holder.
LoadFails(p) ==
    LET m == mgr[p] IN
    /\ m.at \in {"rows", "index", "meta"}
    /\ Raised(p, m)
    /\ UNCHANGED <<chunks, facts, disk, cache, wiki>>

\* Mutant of the definition below.
MaskOnly(m, c) == m.retriever

\* _retriever_for_ceiling: an index over exactly the visible rows.
RetrieverForCeiling(m, c) ==
    LET eligible == UpTo(m.corpus, c)
        key == Count(eligible)
        hit == SelectInSeq(m.prefix, LAMBDA e : e[1] = key)
    IN IF m.retriever = None \/ key = 0 THEN None
       ELSE IF key = Count(m.corpus) THEN m.retriever
       ELSE IF hit # 0 THEN m.prefix[hit][2] ELSE eligible

\* ... and the bounded LRU of prefix indexes after it.
PrefixesAfter(m, c) ==
    LET key == Count(UpTo(m.corpus, c))
        others == RemoveFirstMatch(m.prefix, LAMBDA e : e[1] = key)
        all == Append(others, <<key, RetrieverForCeiling(m, c)>>)
    IN IF m.retriever = None \/ key \in {0, Count(m.corpus)} THEN m.prefix
       ELSE IF Len(all) > PrefixSize THEN Tail(all) ELSE all

-----------------------------------------------------------------------------
(* The requests.                                                           *)

AskUnchanged == UNCHANGED <<chunks, facts, disk>>
Goto(r, s) == req' = [req EXCEPT ![r].pc = s]

\* CodexQueryService.ask and recap: a cached answer costs nothing; a miss
\* passes the gates.
Ask(r, c) ==
    /\ req[r].pc = "new" /\ cache[c] = None
    /\ req' = [req EXCEPT ![r] = [Fresh EXCEPT !.pc = "index", !.ceil = c]]
    /\ UNCHANGED <<mgr, cache, wiki>> /\ AskUnchanged

\* ensure_index: nothing to do, or the queue for the lock.
EnsureIndex(r) ==
    /\ req[r].pc = "index"
    /\ IF mgr[Web].loaded
       THEN Goto(r, "lookup") /\ UNCHANGED mgr
       ELSE /\ Goto(r, "loading")
            /\ mgr' = [mgr EXCEPT ![Web].queue = Append(@, Op("ensure", r))]
    /\ UNCHANGED <<cache, wiki>> /\ AskUnchanged

\* answer_question looks into the cache again, then has the question planned;
\* a failed plan is no plan.
LookUp(r) ==
    /\ req[r].pc = "lookup"
    /\ req' = IF cache[req[r].ceil] # None THEN [req EXCEPT ![r] = Ended]
              ELSE [req EXCEPT ![r].pc = "decide"]
    /\ UNCHANGED <<mgr, cache, wiki>> /\ AskUnchanged

\* The planner asks for n tool calls, of which at most MaxCalls are run; no
\* call, "DONE", nonsense, an error or the last iteration end the loop.
Decide(r) ==
    /\ req[r].pc = "decide"
    /\ \E n \in 0..(MaxCalls + 1) :
         IF n = 0 \/ req[r].iter = MaxIterations THEN Goto(r, "gathered")
         ELSE req' = [req EXCEPT ![r].pc = "tool", ![r].iter = @ + 1,
                                 ![r].calls = IF n > MaxCalls THEN MaxCalls ELSE n]
    /\ UNCHANGED <<mgr, cache, wiki>> /\ AskUnchanged

\* What a tool returned, of some length, within the evidence budget; a cut
\* result no longer parses and names no evidence.  Then the digest, within
\* its own.  The loop goes on to the next call, or stops at a budget.
Gathered(r, ids, tokens) ==
    LET q == req[r]
        left == EvidenceTokens - q.seen
        cut == tokens > left
        room == DigestTokens - q.told
        Least(a, b) == IF a < b THEN a ELSE b
    IN
    IF left <= 0 THEN [q EXCEPT !.pc = "gathered"]
    ELSE LET s == [q EXCEPT !.seen = @ + Least(tokens, left),
                            !.evidence = IF cut THEN @ ELSE @ \cup ids]
         IN IF room <= 0 THEN [s EXCEPT !.pc = "gathered"]
            ELSE [s EXCEPT !.told = @ + 1,
                           !.calls = @ - 1,
                           !.pc = IF q.calls = 1 THEN "decide" ELSE "tool"]


ToolResults(c) == {ChunksAt(c), FactsAt(c), TimelineAt(c), EntitiesOnly}

\* execute_tool, other than hybrid_search: rows read from the tables, or an
\* error text; then the distilling call.
ReadTool(r) ==
    /\ req[r].pc = "tool"
    /\ \E ids \in ToolResults(req[r].ceil), tokens \in 1..2 :
         req' = [req EXCEPT ![r] = Gathered(r, ids, tokens)]
    /\ UNCHANGED <<mgr, cache, wiki>> /\ AskUnchanged

\* hybrid_search: ensure_loaded, then the queue for the lock.
HybridSearch(r) ==
    /\ req[r].pc = "tool"
    /\ IF mgr[Web].loaded
       THEN /\ Goto(r, "search")
            /\ mgr' = [mgr EXCEPT ![Web].queue = Append(@, Op("search", r))]
       ELSE /\ Goto(r, "ensure")
            /\ mgr' = [mgr EXCEPT ![Web].queue = Append(@, Op("ensure", r))]
    /\ UNCHANGED <<cache, wiki>> /\ AskUnchanged

\* A search has the lock and runs next.
Searching(m) == m.queue # <<>> /\ m.at = "free" /\ Holder(m).what = "search"

\* search: rows of the corpus in memory; dense_search: rows of the table, or
\* none when the embedding or the query fails.
SparseHits(m, c) == IF RetrieverForCeiling(m, c) = None THEN {} ELSE IdsOf(UpTo(m.corpus, c))
DenseHits(c) == {ChunksAt(c), {}}

\* reciprocal_rank_fusion: the hits of both, here within the result limit.
Fused(sparse, dense) == sparse \cup dense

\* rerank: all candidates or the best one; a failing reranker changes nothing.
Reranked(hits) == {hits} \cup {{i} : i \in hits}

\* hybrid_search under the lock, then reranking and the distilling call.
Search(r) ==
    LET m == mgr[Web]
        c == req[r].ceil
    IN
    /\ Searching(m) /\ Holder(m).by = r
    /\ mgr' = [mgr EXCEPT ![Web] = Released([m EXCEPT !.prefix = PrefixesAfter(m, c)])]
    /\ \E dense \in DenseHits(c), tokens \in 1..2 :
         \E ids \in Reranked(Fused(SparseHits(m, c), dense)) :
           req' = [req EXCEPT ![r] = Gathered(r, ids, tokens)]
    /\ UNCHANGED <<cache, wiki>> /\ AskUnchanged

\* What a model may cite: all that was retrieved or nothing of it, and with it
\* rows that were not, an id it made up, or neither.
Drafts(q) == {own \cup other : own \in {{}, q.evidence},
                               other \in {{}, {NoRow}, RowIds \ q.evidence}}

\* grounding_issues with require_each_block=False.
GroundingIssues(q, refs) == ~(refs \subseteq q.evidence) \/ refs \cap q.evidence = {}

\* The text refs goes to the final check.
Final(q, refs, checked) == [Fresh EXCEPT !.pc = "final", !.kind = q.kind, !.ceil = q.ceil,
                              !.evidence = q.evidence, !.refs = refs, !.checked = checked]

\* The verifier's verdict on a draft and the machine check; anything flagged is
\* repaired once, by another draft or a failure.  A verifier that fails or
\* answers nonsense ends the request with the fixed answer, or an error.
AfterVerdict(q, draft, verdict) ==
    IF verdict = "failed" THEN {Ended}
    ELSE IF verdict = "flagged" \/ GroundingIssues(q, draft)
         THEN {Ended} \cup {Final(q, refs, TRUE) : refs \in Drafts(q)}
         ELSE {Final(q, draft, TRUE)}

\* Without a digest or an id to cite there is the fixed answer, or the fixed
\* profile; else a draft, its verdict and its repair.  The calls are the
\* request's own and touch nothing shared, so they are one step.
Synthesize(r) ==
    LET q == req[r] IN
    /\ q.pc = "gathered"
    /\ IF q.evidence = {} \/ (q.kind = "ask" /\ q.told = 0)
       THEN req' = [req EXCEPT ![r] = IF q.kind = "ask" THEN Ended
                      ELSE [Final(q, {}, TRUE) EXCEPT !.pc = "save"]]
       ELSE \E draft \in Drafts(q), verdict \in {"supported", "flagged", "failed"} :
              \E after \in AfterVerdict(q, draft, verdict) : req' = [req EXCEPT ![r] = after]
    /\ UNCHANGED <<mgr, cache, wiki>> /\ AskUnchanged

\* Mutant of the definition below.
TrustTheRepair(r) ==
    /\ req[r].pc = "final"
    /\ Goto(r, "save")
    /\ UNCHANGED <<mgr, cache, wiki>> /\ AskUnchanged

\* The machine check of the final text, and, for a question, the citations,
\* every one of which must resolve in the tables.
FinalCheck(r) ==
    LET q == req[r] IN
    /\ q.pc = "final"
    /\ req' = IF GroundingIssues(q, q.refs) \/ (q.kind = "ask" /\ ~(q.refs \subseteq Resolvable(q.ceil)))
              THEN [req EXCEPT ![r] = Ended] ELSE [req EXCEPT ![r].pc = "save"]
    /\ UNCHANGED <<mgr, cache, wiki>> /\ AskUnchanged

\* save_cached_answer, save_profile.
Save(r) ==
    LET q == req[r]
        row == [refs |-> q.refs, evidence |-> q.evidence, checked |-> q.checked]
    IN
    /\ q.pc = "save"
    /\ cache' = IF q.kind = "ask" THEN [cache EXCEPT ![q.ceil] = row] ELSE cache
    /\ wiki' = IF q.kind = "profile" THEN [wiki EXCEPT ![q.ceil] = row] ELSE wiki
    /\ req' = [req EXCEPT ![r] = Ended]
    /\ UNCHANGED mgr /\ AskUnchanged

\* entity_profile on a cache miss: the rows are read before the gates, and
\* everything visible is evidence.
Profile(r, c) ==
    /\ req[r].pc = "new" /\ wiki[c] = None
    /\ req' = [req EXCEPT ![r] = [Fresh EXCEPT !.pc = "gathered", !.kind = "profile",
                                  !.ceil = c, !.evidence = FactsAt(c)]]
    /\ UNCHANGED <<mgr, cache, wiki>> /\ AskUnchanged

\* A provider call of the distilling or drafting model fails: an error.
ProviderFails(r) ==
    /\ req[r].pc \in {"tool", "gathered"}
    /\ req' = [req EXCEPT ![r] = Ended]
    /\ UNCHANGED <<mgr, cache, wiki>> /\ AskUnchanged

\* Mutant of the definition below.
ForgetTheLock(r) ==
    LET m == mgr[Web]
        mine == m.queue # <<>> /\ Holder(m).by = r
        without == RemoveFirstMatch(m.queue, LAMBDA op : op.by = r)
    IN
    /\ req[r].pc \notin {"new", "ended"}
    /\ req' = [req EXCEPT ![r] = Ended]
    /\ mgr' = [mgr EXCEPT ![Web] = IF ~mine THEN [m EXCEPT !.queue = without]
                ELSE IF m.at \in {"free", "rows"} THEN [m EXCEPT !.at = "dead"]
                ELSE [m EXCEPT !.drop = TRUE, !.queue[1].by = None]]
    /\ UNCHANGED <<cache, wiki>> /\ AskUnchanged

\* The reader closes the stream.  A waiter leaves the queue; a holder leaves
\* the lock at an await of its own, and after the end of its thread otherwise.
Cancel(r) ==
    LET m == mgr[Web]
        mine == m.queue # <<>> /\ Holder(m).by = r
        without == RemoveFirstMatch(m.queue, LAMBDA op : op.by = r)
    IN
    /\ req[r].pc \notin {"new", "ended"}
    /\ req' = [req EXCEPT ![r] = Ended]
    /\ mgr' = [mgr EXCEPT ![Web] = IF ~mine THEN [m EXCEPT !.queue = without]
                ELSE IF m.at \in {"free", "rows"} THEN Released(m)
                ELSE [m EXCEPT !.drop = TRUE, !.queue[1].by = None]]
    /\ UNCHANGED <<cache, wiki>> /\ AskUnchanged

\* A process dies with its index and its requests; the disk stays.
Crash(p) ==
    /\ mgr' = [mgr EXCEPT ![p] = FreshManager]
    /\ req' = IF p = Web THEN [r \in Requests |-> IF req[r].pc = "new" THEN Fresh ELSE Ended] ELSE req
    /\ UNCHANGED <<cache, wiki>> /\ AskUnchanged

-----------------------------------------------------------------------------
ManagerStep(p) == \/ Enter(p) \/ LoadCorpusRows(p) \/ TryLoadFromDisk(p)
                  \/ BuildRetriever(p) \/ SaveIndex(p) \/ SaveMeta(p)

RequestStep(r) == \/ EnsureIndex(r) \/ LookUp(r) \/ Decide(r) \/ ReadTool(r) \/ Search(r)
                  \/ Synthesize(r) \/ FinalCheck(r) \/ Save(r)

AskNext == \/ \E n \in Ceilings : CodexChanges(n)
        \/ \E p \in Procs : ManagerStep(p) \/ Rebuild(p) \/ LoadFails(p) \/ Crash(p)
        \/ \E r \in Requests : \/ RequestStep(r) \/ HybridSearch(r)
                               \/ ProviderFails(r) \/ Cancel(r)
                               \/ \E c \in Ceilings : Ask(r, c) \/ Profile(r, c)

AskSpec == AskInit /\ [][AskNext]_askVars

-----------------------------------------------------------------------------
Waiter == [what : {"ensure", "rebuild", "search"}, by : Requests \cup {None}]

Manager == [loaded : BOOLEAN, corpus : Corpora, retriever : Corpora \cup {None},
            prefix : Seq(Nat \X Corpora), queue : Seq(Waiter),
            at : {"free", "rows", "disk", "build", "index", "meta"}, drop : BOOLEAN]

Request == [pc : {"new", "index", "loading", "lookup", "decide", "tool", "ensure", "search",
                  "gathered", "final", "save", "ended"},
            kind : {"ask", "profile"}, ceil : Ceilings \cup {0}, iter : 0..MaxIterations,
            calls : Int, seen : 0..EvidenceTokens, told : 0..DigestTokens,
            evidence : SUBSET RowIds, refs : SUBSET (RowIds \cup {NoRow}), checked : BOOLEAN]

Cached == [refs : SUBSET (RowIds \cup {NoRow}), evidence : SUBSET RowIds, checked : BOOLEAN]

\* The types of the tables, the managers, the index on disk and the requests.
AskTypeOK ==
    /\ chunks \in Corpora
    /\ facts \in [Facts -> {"in", "gone"}]
    /\ mgr \in [Procs -> Manager]
    /\ \A p \in Procs : Len(mgr[p].prefix) <= PrefixSize
    /\ disk \in [index : Corpora \cup {None}, meta : Corpora \cup {None}]
    /\ req \in [Requests -> Request]
    /\ cache \in [Ceilings -> Cached \cup {None}]
    /\ wiki \in [Ceilings -> Cached \cup {None}]

\* The index of the reader's ceiling is over exactly the rows of the corpus
\* that the reader may see: no chapter beyond the ceiling weighs in its scores,
\* and its positions mean the rows of this corpus.
Aligned(m) == LET c == req[Holder(m).by].ceil
              IN RetrieverForCeiling(m, c) \in {None, UpTo(m.corpus, c)}

\* Whatever was loaded, rebuilt, cancelled or lost before, a search of a loaded
\* manager uses an index aligned with its corpus and its reader's ceiling.
LoadedIsAligned == \A p \in Procs :
                     Searching(mgr[p]) /\ mgr[p].loaded => Aligned(mgr[p])

\* An answer or a profile is cached only when a verifier saw a draft of it and
\* its citations are all rows that this request retrieved below its ceiling;
\* an answer without any is never cached, a profile only as the placeholder of
\* an entity about which nothing is known.
CachedIsGrounded ==
    \A c \in Ceilings :
      /\ cache[c] # None => cache[c].refs # {}
      /\ wiki[c] # None => (wiki[c].refs = {} => wiki[c].evidence = {})
      /\ \A row \in {cache[c], wiki[c]} \ {None} :
           /\ row.checked
           /\ row.refs \subseteq row.evidence
           /\ \A i \in row.evidence : ChapOf[i] <= c

\* Nobody is forgotten at the lock and no dead caller holds it: a request that
\* waits for the index is in the queue exactly once, and whoever is in the queue
\* still waits, except a cancelled holder whose thread is running out.
LockIsAttended ==
    /\ \A r \in Requests :
         Cardinality({k \in DOMAIN mgr[Web].queue : mgr[Web].queue[k].by = r}) =
             IF req[r].pc \in {"loading", "ensure", "search"} THEN 1 ELSE 0
    /\ \A p \in Procs : /\ (mgr[p].at = "free" => ~mgr[p].drop)
                        /\ (mgr[p].at # "free" => mgr[p].queue # <<>>)
                        /\ mgr[p].drop => mgr[p].at \in {"disk", "build", "index", "meta"}
=============================================================================
