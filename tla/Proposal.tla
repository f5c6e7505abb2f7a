------------------------------ MODULE Proposal ------------------------------
(***************************************************************************)
(* What the codex accepts of a provider's answer about a chapter: the      *)
(* repairs and checks of a proposal, the verifier's second answer, the     *)
(* quarantine of single claims, and the checks repeated by the commit.     *)
(* A new name is matched with the known entities before it becomes one.    *)
(* Chapters follow each other, and the threads and aliases that one        *)
(* commits are trusted by the checks of the next.                          *)
(***************************************************************************)
EXTENDS Integers, FiniteSets

CONSTANTS
  Chunks,          \* ids of the chapter's chunks
  Roster,          \* refs (eN) of the entities supplied with the chapter
  New,             \* the ref (mN) that a proposal may declare
  Later,           \* entities that later chapters introduced, when a chapter
                   \* is extracted again
  Matches,         \* how the name of New may match the known entities
  Titles,          \* titles of plot threads
  Surfaces,        \* what the mention of New may be, besides "none"
  Pool,            \* the claims a provider may make
  MaxClaims,       \* bound on the claims of a proposal
  MaxQuarantined,  \* _MAX_QUARANTINED_GROUNDING_ITEMS
  RatioNum,        \* _MAX_QUARANTINED_GROUNDING_RATIO as a fraction
  RatioDen,
  Paths            \* how a chapter is extracted: "api" and "api_verify" (direct
                   \* provider), "single" and "separate" (subscription)

Ops == {"open", "advance", "mark_dormant", "reopen"}

\* A claim: the entities it is about, those its text names by a trusted name
\* and those it names by an alias; the chunks it cites, those that hold its
\* evidence word for word and those that hold it with bounded gaps. A thread
\* update has a local number if its ref is new (0: the ref of a known thread),
\* and says whether the chapter is on the thread's topic and whether the
\* update shares enough participants with the thread.
Claim ==
  [kind : {"fact", "relationship", "event", "alias", "reveal", "identity", "thread"},
   refs : SUBSET (Roster \cup {New}), named : SUBSET (Roster \cup {New}),
   aka : SUBSET (Roster \cup {New}),
   cites : SUBSET (Nat \ {0}), exact : SUBSET Chunks, close : SUBSET Chunks,
   p : Nat, title : Titles, op : Ops,
   topic : BOOLEAN, kin : BOOLEAN]

\* Entities of the mention's type that have its name or alias, a similar one
\* (sure: similar enough for a lone candidate), a similar embedding.
Match == [same : SUBSET (Roster \cup Later), near : SUBSET (Roster \cup Later), sure : BOOLEAN,
          like : SUBSET (Roster \cup Later)]

ASSUME ProposalAssumptions ==
  /\ \A m \in Matches : m \in Match
  /\ New \notin Later /\ Roster \cap Later = {}
  /\ Chunks \subseteq Nat \ {0} /\ New \notin Roster
  /\ Surfaces \subseteq {"named", "generic", "absent"}
  /\ {MaxClaims, MaxQuarantined, RatioNum, RatioDen} \subseteq Nat
  /\ Paths \subseteq {"api", "api_verify", "single", "separate"}
  /\ \A c \in Pool : c \in Claim

VARIABLES
  stage,    \* "ask", "verify", "revise", "resolve", "commit" or "stored"
  path,     \* how the chapter is extracted
  prop,     \* the proposal at hand
  link,     \* the entity its mention was found to be, and the match
  alias,    \* entities that have a committed alias
  thread,   \* per title, the operation of its last committed update
  kept      \* the claims that the chapter has committed

vars == <<stage, path, prop, link, alias, thread, kept>>

Nothing == [claims |-> <<>>, mention |-> "none", memory |-> TRUE]

Init ==
  /\ stage = "ask" /\ path \in Paths
  /\ prop = Nothing /\ link = <<>>
  /\ alias = {} /\ kept = {}
  /\ thread = [t \in Titles |-> "none"]

----------------------------------------------------------------------------
\* --- Lists of claims --------------------------------------------------------

\* Proposals of claims at the positions D of the answer: what is removed leaves
\* a gap, and the order of the others stays. memory: the hierarchical summaries
\* match their targets, as _validate_memory_updates decides.
ProposalsAt(D, C) == [claims : [D -> C], mention : Surfaces \cup {"none"}, memory : BOOLEAN]

IsProposal(p) == \E D \in SUBSET (1..MaxClaims) : p \in ProposalsAt(D, Claim)

\* Everything a provider may answer.
Answers == UNION {ProposalsAt(1..k, Pool) : k \in 0..MaxClaims}

Without(s, I) == [i \in DOMAIN s \ I |-> s[i]]

Where(s, P(_)) == {i \in DOMAIN s : P(s[i])}

IsClaim(c) == c.kind \in {"fact", "relationship", "event"}

\* --- normalize_extraction_candidate ----------------------------------------

\* A mention that is not a name, or (the chapter's text being at hand) does
\* not occur in it, is removed with the claims about it.
Unusable(p, trusted) ==
  p.mention = "generic" \/ (trusted /\ p.mention = "absent")

OnlySupplied(c, trusted) ==
  IF trusted /\ c.cites \cap Chunks # {} THEN [c EXCEPT !.cites = @ \cap Chunks] ELSE c

Normal(p, trusted) ==
  LET bad == IF Unusable(p, trusted) THEN Where(p.claims, LAMBDA c : New \in c.refs) ELSE {}
      rest == Without(p.claims, bad)
  IN  [p EXCEPT !.mention = IF Unusable(p, trusted) THEN "none" ELSE @,
                !.claims = [i \in DOMAIN rest |-> OnlySupplied(rest[i], trusted)]]

\* --- Names: _claim_entity_alignment_issues ----------------------------------

\* _visible_ref_terms: an alias known before, or proposed with the claim.
HasAlias(s, r) == r \in alias \/ \E i \in DOMAIN s : s[i].kind = "alias" /\ r \in s[i].refs

Named(s, c, r) == r \in c.named \/ (r \in c.aka /\ HasAlias(s, r))

\* The claims of s that lack a name, the aliases of `all` being usable.
MisalignedBy(s, all) ==
  Where(s, LAMBDA c :
    \/ c.kind \in {"fact", "relationship"} /\ \E r \in c.refs : ~Named(all, c, r)
    \/ c.kind = "event" /\ c.refs # {} /\ \A r \in c.refs : ~Named(all, c, r))

Misaligned(s) == MisalignedBy(s, s)

\* --- Threads ----------------------------------------------------------------

IsThread(c) == c.kind = "thread"
IsKnown(c) == c.p = 0 /\ thread[c.title] # "none"
ThreadRef(c) == IF c.p = 0 THEN <<0, c.title>> ELSE <<c.p>>

\* _duplicate_thread_update_issues: every update after the first of a ref.
Duplicates(s) ==
  {i \in DOMAIN s : IsThread(s[i]) /\ \E j \in DOMAIN s :
     j < i /\ IsThread(s[j]) /\ ThreadRef(s[j]) = ThreadRef(s[i])}

\* _thread_relevance_issues: no keyword of the thread is in the chapter.
OffTopic(s) == Where(s, LAMBDA c : IsThread(c) /\ IsKnown(c) /\ ~c.topic)

DormantIsReopened(s) ==
  \A i \in DOMAIN s : IsThread(s[i]) /\ IsKnown(s[i]) /\ thread[s[i].title] = "mark_dormant"
                        => s[i].op = "reopen"

\* _accept_verified_thread_relevance_issues
AcceptableTopic(s) ==
  /\ Cardinality(OffTopic(s)) <= 1
  /\ \A i \in OffTopic(s) : s[i].kin

\* --- The reference graph ----------------------------------------------------

Opened(s) ==
  {ThreadRef(s[i]) : i \in Where(s, LAMBDA c : IsThread(c) /\ c.p # 0 /\ c.op = "open")}

Revealed(s) == {s[i].refs : i \in Where(s, LAMBDA c : c.kind = "reveal")}

\* An identity state of an entity that names another one.
IsCross(c) == c.kind = "identity" /\ \E r, q \in c.refs : r # q

\* Every ref is declared; a new thread is opened under a pN ref; an identity
\* is revealed of known entities, and an identity state has its reveal.
Declared(p) ==
  LET s == p.claims
      refs == Roster \cup IF p.mention = "none" THEN {} ELSE {New} IN
  \A i \in DOMAIN s :
    /\ s[i].refs \subseteq refs
    /\ IsThread(s[i]) => IsKnown(s[i]) \/ ThreadRef(s[i]) \in Opened(s)
    /\ s[i].kind = "reveal" => New \notin s[i].refs
    /\ IsCross(s[i]) => s[i].refs \in Revealed(s)

\* _validate_local_reference_graph: what `soft` names is left to the caller.
GraphOk(p, soft) ==
  /\ Declared(p)
  /\ "threads" \in soft \/ Duplicates(p.claims) = {}
  /\ "names" \in soft \/ Misaligned(p.claims) = {}
  /\ DormantIsReopened(p.claims)
  /\ "topic" \in soft \/ OffTopic(p.claims) = {}

Lenient == {"threads", "names", "topic"}

\* --- Evidence ---------------------------------------------------------------

\* The evidence, as a sequence of words, is in a cited chunk.
Anchored(c) == c.cites \cap c.exact # {}

\* _evidence_anchor_issues
Unanchored(s) == Where(s, LAMBDA c : ~Anchored(c))

Least(S) == CHOOSE x \in S : \A y \in S : x <= y

Distance(k, cited) ==
  IF cited = {} THEN 0 ELSE Least({IF j > k THEN j - k ELSE k - j : j \in cited})

\* The chunk with the words that is nearest to a cited one, the first of those.
Nearest(c) ==
  Least({k \in c.exact : \A j \in c.exact : Distance(k, c.cites) <= Distance(j, c.cites)})

\* _repair_verified_evidence_issues: the nearest chunk with the words, or else
\* the span of a chunk (a cited one if possible) that holds them with gaps.
Repair(c) ==
  IF Anchored(c) THEN c
  ELSE IF c.exact # {} THEN [c EXCEPT !.cites = {Nearest(c)}]
  ELSE IF c.close # {}
  THEN LET near == IF c.close \cap c.cites # {} THEN c.close \cap c.cites ELSE c.close
           k == CHOOSE k \in near : TRUE
       IN  [c EXCEPT !.cites = {k}, !.exact = {k}]
  ELSE c

\* More than an isolated failure: the chapter is tried again.
Broad(n, total) ==
  n > 1 /\ (n > MaxQuarantined \/ n * RatioDen >= RatioNum * total)

\* Mutant of the definition below.
NoCascade(s, bad) == Without(s, bad)

\* _quarantine_evidence_issues: without a reveal its identity states go too.
Quarantine(s, bad) ==
  LET unrevealed == {s[i].refs : i \in {i \in bad : s[i].kind = "reveal"}}
      rest == Without(s, bad)
  IN  Without(rest, Where(rest, LAMBDA c : c.kind = "identity" /\ c.refs \in unrevealed))

\* --- validate_extraction_output ---------------------------------------------

\* _clean_chunk_ids: a claim cites a chunk of the chapter.
Cited(p) == \A i \in DOMAIN p.claims : p.claims[i].cites \cap Chunks # {}

\* The policies of an extraction, alone or to be verified.
ValidExtraction(p, soft) == Cited(p) /\ p.memory /\ GraphOk(p, soft)

\* Mutant of the definition below.
StaleAlignment(p, s) == MisalignedBy(s, p.claims)

\* The misaligned claims, computed again on what the quarantine left.
AlignmentIssues(p, s) == Misaligned(s)

\* The policies of the verifier's answer: what it passes on, if anything.
Verified(p) ==
  LET s1 == [i \in DOMAIN p.claims |-> Repair(p.claims[i])]
      bad == Unanchored(s1)
      s2 == Quarantine(s1, bad)
      dups == Duplicates(s2)
      s3 == Without(s2, dups)
      mis == AlignmentIssues(p, s3)
      q == [p EXCEPT !.claims = Without(s3, mis)] IN
  {r \in {q} :
     /\ Cited(p) /\ p.memory /\ GraphOk(p, Lenient)
     /\ ~Broad(Cardinality(bad), Cardinality(DOMAIN s1))
     /\ bad # {} => GraphOk([p EXCEPT !.claims = s2], Lenient)
     /\ Cardinality(dups) <= 1
     /\ ~Broad(Cardinality(mis), Cardinality(Where(s3, IsClaim)))
     /\ AcceptableTopic(s3)
     /\ dups \cup mis # {} => GraphOk(q, {"topic"})}

\* extract_knowledge_for_chapter: nothing is quarantined.
ValidDirect(p) == p.memory /\ GraphOk(p, {}) /\ Cited(p) /\ Unanchored(p.claims) = {}

\* --- The entity of a new name -------------------------------------------------

\* What chapters up to this one have introduced.
Visible(S) == S \ Later

\* The first of these that finds one: the name, a lone sure candidate.
ByName(m) ==
  IF Visible(m.same) # {} THEN Visible(m.same)
  ELSE IF m.sure /\ Cardinality(Visible(m.near)) = 1 THEN Visible(m.near) ELSE {}

\* Entities found without a judge; the candidates for one are those near.
find_resolution_candidates(m) ==
  IF ByName(m) # {} THEN ByName(m) ELSE Visible(m.like)

\* Mutant of the definition below.
AnyDecision(m, answer) == answer # "failed"

\* The judge says NEW or chooses a candidate it was given.
ValidDecision(m, answer) == answer = New \/ answer \in Visible(m.near)

_run_disambiguation(m, answer) == IF ValidDecision(m, answer) THEN answer ELSE "failed"

\* Subscription: without an answer it can use, the mention is a new entity.
_resolve_mentions(m, answer) ==
  LET found == find_resolution_candidates(m)
      judged == _run_disambiguation(m, answer)
  IN  IF found # {} THEN found
      ELSE IF Visible(m.near) = {} \/ judged = "failed" THEN {New} ELSE {judged}

\* Direct path, in the commit: the judge comes before the embeddings, and what
\* it did not match they still may.
resolve_entity(m, answer) ==
  IF ByName(m) # {} THEN ByName(m)
  ELSE IF answer \in Visible(m.near) THEN {answer}
  ELSE IF Visible(m.like) # {} THEN Visible(m.like) ELSE {New}

\* A judge may answer anything, or fail.
Links(Resolution(_, _)) ==
  UNION {{[to |-> e, match |-> m] : e \in Resolution(m, a)} :
           m \in Matches, a \in Roster \cup Later \cup {New, "failed"}}

\* The claims about the mention become claims about the entity.
Rename(S, e) == IF New \in S THEN (S \ {New}) \cup {e} ELSE S

Resolved(s, e) ==
  [i \in DOMAIN s |-> [s[i] EXCEPT !.refs = Rename(@, e), !.named = Rename(@, e),
                                   !.aka = Rename(@, e)]]

\* --- The steps of a chapter -------------------------------------------------

\* The first answer. A refused one ends the attempt, and the chapter is asked
\* about again. A draft that will be verified is not used further, except by
\* the direct path when its verifier fails.
Answer ==
  /\ stage = "ask"
  /\ \E a \in Answers :
       LET p == Normal(a, path \in {"single", "separate"}) IN
       \/ /\ path = "api" /\ ValidDirect(p)
          /\ prop' = p /\ stage' = "commit"
       \/ /\ path = "api_verify"
          /\ prop' = p /\ stage' = "verify"
       \/ /\ path = "single" /\ ValidExtraction(p, {})
          /\ prop' = p /\ stage' = "resolve"
       \/ /\ path = "separate" /\ ValidExtraction(p, Lenient)
          /\ prop' = Nothing /\ stage' = "revise"
  /\ UNCHANGED <<path, link, alias, thread, kept>>

Retry == stage' = "ask" /\ prop' = Nothing /\ link' = <<>>

\* On the direct path the first answer stays when the verifier fails, or has
\* bad summaries; otherwise its answer will replace the first one.
ChooseAnswer ==
  /\ stage = "verify"
  /\ \/ stage' = "revise" /\ prop' = Nothing /\ UNCHANGED link
     \/ ValidDirect(prop) /\ stage' = "commit" /\ UNCHANGED <<prop, link>>
     \/ ~ValidDirect(prop) /\ Retry
  /\ UNCHANGED <<path, alias, thread, kept>>

\* The verifier's answer is used, or refused and the attempt ends.
Revise ==
  /\ stage = "revise"
  /\ \E a \in Answers :
       LET p == Normal(a, path = "separate")
           accepted == IF path = "separate" THEN Verified(p)
                       ELSE {q \in {p} : ValidDirect(q)} IN
       \/ accepted = {} /\ Retry
       \/ /\ \E q \in accepted : prop' = q
          /\ stage' = IF path = "separate" THEN "resolve" ELSE "commit"
          /\ UNCHANGED link
  /\ UNCHANGED <<path, alias, thread, kept>>

Resolve ==
  /\ stage = "resolve" /\ stage' = "commit"
  /\ IF prop.mention = "none" THEN UNCHANGED link ELSE link' \in Links(_resolve_mentions)
  /\ UNCHANGED <<path, prop, alias, thread, kept>>

\* The checks of commit_extraction_proposal and of the transaction.
Committable(p) ==
  /\ p.memory /\ Cited(p) /\ GraphOk(p, {"topic"})
  /\ IF path = "separate" THEN AcceptableTopic(p.claims) ELSE OffTopic(p.claims) = {}
  /\ ~Broad(Cardinality(Unanchored(p.claims)), Cardinality(DOMAIN p.claims))
  /\ p.mention # "absent"

\* The rows of the claims s, their mention being the entity of l.
Stored(s, l) == IF l = <<>> THEN s ELSE Resolved(s, l.to)

Rows(s, l) == {[Stored(s, l)[i] EXCEPT !.cites = @ \cap Chunks] : i \in DOMAIN s}

Updates(s, t) == Where(s, LAMBDA c : IsThread(c) /\ c.title = t)

\* commit_extraction: claims without an anchor are dropped, the others stored.
\* A new thread with the title of a stored one becomes an update of that one.
Commit ==
  LET p == Normal(prop, FALSE)
      s == Quarantine(p.claims, Unanchored(p.claims))
      Found == IF p.mention = "none" THEN {<<>>}
               ELSE IF link # <<>> THEN {link} ELSE Links(resolve_entity) IN
  /\ stage = "commit"
  /\ IF ~Committable(p) THEN Retry /\ UNCHANGED <<alias, thread, kept>>
     ELSE /\ \E l \in Found :
               /\ link' = l
               /\ kept' = Rows(s, l)
               /\ alias' = alias \cup UNION {Stored(s, l)[i].refs \cap Roster :
                                               i \in Where(s, LAMBDA c : c.kind = "alias")}
          /\ thread' = [t \in Titles |-> IF Updates(s, t) = {} THEN thread[t]
                          ELSE s[CHOOSE i \in Updates(s, t) : \A j \in Updates(s, t) : j <= i].op]
          /\ stage' = "stored" /\ prop' = Nothing
  /\ UNCHANGED path

NextChapter ==
  /\ stage = "stored"
  /\ stage' = "ask" /\ kept' = {} /\ link' = <<>> /\ path' \in Paths
  /\ UNCHANGED <<prop, alias, thread>>

Next == Answer \/ ChooseAnswer \/ Revise \/ Resolve \/ Commit \/ NextChapter

Spec == Init /\ [][Next]_vars

----------------------------------------------------------------------------
\* The state stays in its types: proposals and stored claims are of the pool,
\* repaired or resolved, the aliases are of known entities.
TypeOK ==
  /\ stage \in {"ask", "verify", "revise", "resolve", "commit", "stored"} /\ path \in Paths
  /\ IsProposal(prop)
  /\ link = <<>> \/ link \in [to : Roster \cup {New}, match : Matches]
  /\ alias \subseteq Roster
  /\ thread \in [Titles -> Ops \cup {"none"}]
  /\ kept \subseteq Claim

\* Whatever path a claim took, the words it gives as evidence are in a chunk
\* that it cites: no repair, relocation or quarantine lets one through without.
CommittedIsAnchored == \A c \in kept : c.cites \cap c.exact # {}

\* An identity between two entities is never stored without the reveal of it
\* in the same chapter, not even when the reveal was quarantined.
IdentityIsRevealed ==
  \A c \in kept : IsCross(c) =>
    \E d \in kept : d.kind = "reveal" /\ d.refs = c.refs

AliasIsKept(r) == \E d \in kept : d.kind = "alias" /\ r \in d.refs

\* A stored fact or relationship names its entities by names a reader has:
\* trusted ones, or aliases stored with it or before. (On the single pass the
\* commit drops aliases after the names were checked.)
CommittedIsNamed ==
  path # "single" =>
    \A c \in kept : c.kind \in {"fact", "relationship"} =>
      \A r \in c.refs \ c.named : r \in c.aka /\ (r \in alias \/ AliasIsKept(r))

\* What a chapter commits is sound: anchored, named and revealed, whichever of
\* the four ways it took and whatever was repaired or quarantined on the way.
CommittedIsSound == CommittedIsAnchored /\ CommittedIsNamed /\ IdentityIsRevealed

\* What a verifier's answer has become after repairs and quarantines passes
\* the checks that the commit repeats: the paid run is not thrown away.
VerifiedIsCommittable == stage \in {"resolve", "commit"} /\ path = "separate" => Committable(prop)

\* A mention becomes an entity of an earlier chapter only if its name, its
\* spelling or its meaning matched: whatever a judge answers, and however its
\* run fails, it is not merged with anything else, nor with an entity that only
\* later chapters introduce.
MergedIsOffered ==
  stage = "stored" /\ link # <<>> /\ link.to # New =>
    /\ link.to \notin Later
    /\ link.to \in link.match.same \cup link.match.near \cup link.match.like

=============================================================================
