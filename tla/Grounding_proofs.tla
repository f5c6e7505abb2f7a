--------------------------- MODULE Grounding_proofs ---------------------------
(***************************************************************************)
(* Proofs about what the codex accepts from a provider, and about what it  *)
(* tells its readers.                                                      *)
(*                                                                         *)
(* Proposal: whatever claims a provider may make, and however many, what a *)
(* chapter commits is anchored, named and revealed; what the verification  *)
(* left passes the commit; a name is merged only with an entity that it    *)
(* was matched with.                                                       *)
(*                                                                         *)
(* Ask: nobody is forgotten at the lock of the index; a search sees        *)
(* exactly the rows below its reader's ceiling; what is cached was         *)
(* verified and cites what its request retrieved.                          *)
(***************************************************************************)
EXTENDS Proposal, Ask, FiniteSetTheorems, WellFoundedInduction, TLAPS

----------------------------------------------------------------------------
\* --- Lists of claims --------------------------------------------------------

\* Claims at some positions of an answer.
IsList(s) == DOMAIN s \subseteq 1..MaxClaims /\ s \in [DOMAIN s -> Claim]

\* A proposal is a record of a list of claims, a mention and a verdict on the
\* summaries.
LEMMA ProposalIs ==
  ASSUME NEW p, IsProposal(p)
  PROVE  /\ IsList(p.claims) /\ p.mention \in Surfaces \cup {"none"} /\ p.memory \in BOOLEAN
         /\ p = [claims |-> p.claims, mention |-> p.mention, memory |-> p.memory]
<1>1. PICK D \in SUBSET (1..MaxClaims) : p \in ProposalsAt(D, Claim)  BY DEF IsProposal
<1> QED  BY <1>1 DEF ProposalsAt, IsList

LEMMA IsAProposal ==
  ASSUME NEW s, IsList(s), NEW m \in Surfaces \cup {"none"}, NEW b \in BOOLEAN
  PROVE  IsProposal([claims |-> s, mention |-> m, memory |-> b])
BY DEF IsProposal, ProposalsAt, IsList

\* Replacing the claims of a proposal.
LEMMA ReplaceClaims ==
  ASSUME NEW p, IsProposal(p), NEW s, IsList(s)
  PROVE  /\ IsProposal([p EXCEPT !.claims = s]) /\ [p EXCEPT !.claims = s].claims = s
         /\ [p EXCEPT !.claims = s].mention = p.mention
         /\ [p EXCEPT !.claims = s].memory = p.memory
<1>1. [p EXCEPT !.claims = s] = [claims |-> s, mention |-> p.mention, memory |-> p.memory]
  BY ProposalIs
<1> QED  BY <1>1, ProposalIs, IsAProposal

\* What Without leaves stays at its position.
LEMMA WithoutIs ==
  ASSUME NEW s, IsList(s), NEW I
  PROVE  /\ IsList(Without(s, I)) /\ DOMAIN Without(s, I) = DOMAIN s \ I
         /\ \A i \in DOMAIN s \ I : Without(s, I)[i] = s[i]
         /\ I \cap DOMAIN s = {} => Without(s, I) = s
BY DEF IsList, Without

\* A quarantine removes the bad claims, and identities of removed reveals.
LEMMA QuarantineIs ==
  ASSUME NEW s, IsList(s), NEW bad
  PROVE  /\ IsList(Quarantine(s, bad)) /\ DOMAIN Quarantine(s, bad) \subseteq DOMAIN s \ bad
         /\ \A i \in DOMAIN Quarantine(s, bad) : Quarantine(s, bad)[i] = s[i]
         /\ \A i \in DOMAIN s \ bad :
              \/ i \in DOMAIN Quarantine(s, bad)
              \/ /\ s[i].kind = "identity"
                 /\ \E j \in bad : s[j].kind = "reveal" /\ s[i].refs = s[j].refs
         /\ \A i \in DOMAIN Quarantine(s, bad), j \in bad :
              s[i].kind = "identity" /\ s[j].kind = "reveal" => s[i].refs # s[j].refs
         /\ bad = {} => Quarantine(s, bad) = s
<1> DEFINE unrevealed == {s[i].refs : i \in {i \in bad : s[i].kind = "reveal"}}
           rest == Without(s, bad)
           gone == Where(rest, LAMBDA c : c.kind = "identity" /\ c.refs \in unrevealed)
<1>1. Quarantine(s, bad) = Without(rest, gone)  BY DEF Quarantine
<1>2. /\ IsList(rest) /\ DOMAIN rest = DOMAIN s \ bad /\ \A i \in DOMAIN rest : rest[i] = s[i]
      /\ bad = {} => rest = s
  BY WithoutIs
<1>3. gone = {i \in DOMAIN rest : s[i].kind = "identity" /\ s[i].refs \in unrevealed}
  BY <1>2 DEF Where
<1>4. bad = {} => gone = {}  BY <1>3
<1> HIDE DEF rest, gone
<1>5. /\ IsList(Without(rest, gone)) /\ DOMAIN Without(rest, gone) = DOMAIN rest \ gone
      /\ \A i \in DOMAIN rest \ gone : Without(rest, gone)[i] = rest[i]
      /\ gone = {} => Without(rest, gone) = rest
  BY <1>2, WithoutIs
<1> DEFINE q == Quarantine(s, bad)
<1>6. /\ IsList(q) /\ DOMAIN q = (DOMAIN s \ bad) \ gone /\ \A i \in DOMAIN q : q[i] = s[i]
      /\ bad = {} => q = s
  BY <1>1, <1>2, <1>4, <1>5
<1> HIDE DEF q
<1>7. \A i \in DOMAIN s \ bad : i \in gone <=>
        s[i].kind = "identity" /\ \E j \in bad : s[j].kind = "reveal" /\ s[i].refs = s[j].refs
  BY <1>2, <1>3
<1>8. \A i \in DOMAIN s \ bad :
        \/ i \in DOMAIN q
        \/ s[i].kind = "identity" /\ \E j \in bad : s[j].kind = "reveal" /\ s[i].refs = s[j].refs
  BY <1>6, <1>7
<1>9. \A i \in DOMAIN q, j \in bad :
        s[i].kind = "identity" /\ s[j].kind = "reveal" => s[i].refs # s[j].refs
  BY <1>6, <1>7
<1> QED  BY <1>6, <1>8, <1>9, Zenon DEF q


\* --- Repairs ----------------------------------------------------------------

\* Normalization removes a mention that is not a name, and claims with it.
LEMMA NormalIs ==
  ASSUME NEW a, IsProposal(a), NEW t \in BOOLEAN
  PROVE  /\ IsProposal(Normal(a, t))
         /\ Normal(a, t).mention # "generic" /\ (t => Normal(a, t).mention # "absent")
         /\ DOMAIN Normal(a, t).claims \subseteq DOMAIN a.claims
         /\ \A i \in DOMAIN Normal(a, t).claims :
              Normal(a, t).claims[i] = OnlySupplied(a.claims[i], t)
<1> DEFINE bad == IF Unusable(a, t) THEN Where(a.claims, LAMBDA c : New \in c.refs) ELSE {}
           rest == Without(a.claims, bad)
           s == [i \in DOMAIN rest |-> OnlySupplied(rest[i], t)]
           m == IF Unusable(a, t) THEN "none" ELSE a.mention
<1>1. /\ IsList(a.claims) /\ a.mention \in Surfaces \cup {"none"} /\ a.memory \in BOOLEAN
      /\ a = [claims |-> a.claims, mention |-> a.mention, memory |-> a.memory]
  BY ProposalIs
<1>2. IsList(rest) /\ DOMAIN rest = DOMAIN a.claims \ bad /\ \A i \in DOMAIN rest : rest[i] = a.claims[i]
  <2>1. IsList(a.claims)  BY <1>1
  <2> HIDE DEF bad
  <2> QED  BY <2>1, WithoutIs
<1>3. Normal(a, t) = [claims |-> s, mention |-> m, memory |-> a.memory]
  <2>1. Normal(a, t) = [a EXCEPT !.mention = m, !.claims = s]  BY DEF Normal
  <2> HIDE DEF s, m
  <2> QED  BY <1>1, <2>1
<1>4. m \in Surfaces \cup {"none"} /\ m # "generic" /\ (t => m # "absent")
  BY <1>1 DEF Unusable
<1> HIDE DEF bad, rest, m
<1>5. ASSUME NEW c \in Claim PROVE OnlySupplied(c, t) \in Claim
  BY ProposalAssumptions DEF OnlySupplied, Claim
<1>6. IsList(s)  BY <1>2, <1>5 DEF IsList
<1>7. \A i \in DOMAIN s : s[i] = OnlySupplied(a.claims[i], t)  BY <1>2
<1> HIDE DEF s
<1>8. DOMAIN s = DOMAIN rest  BY DEF s
<1> QED  BY <1>1, <1>2, <1>3, <1>4, <1>6, <1>7, <1>8, IsAProposal

\* A set of numbers has a least one.
LEMMA LeastIs ==
  ASSUME NEW S \in SUBSET Nat, S # {}
  PROVE  Least(S) \in S /\ \A y \in S : Least(S) <= y
<1> DEFINE below == {ss \in Nat \X Nat : ss[1] < ss[2]}
<1>1. IsWellFoundedOn(below, Nat)  BY NatLessThanWellFounded DEF OpToRel
<1> HIDE DEF below
<1>2. PICK x \in S : \A y \in S : ~(<<y, x>> \in below)  BY <1>1, WFMin
<1>3. ASSUME NEW y \in S PROVE x <= y
  <2>1. <<y, x>> \in Nat \X Nat /\ <<y, x>>[1] = y /\ <<y, x>>[2] = x  OBVIOUS
  <2>2. ~(y < x)  BY <1>2, <2>1 DEF below
  <2> QED  BY <2>2
<1> QED  BY <1>3 DEF Least

\* Evidence that is somewhere in the chapter is found in one of its chunks.
LEMMA NearestIs ==
  ASSUME NEW c \in Claim, c.exact # {}
  PROVE  Nearest(c) \in c.exact
<1> DEFINE d(k) == Distance(k, c.cites)
           near == {k \in c.exact : \A j \in c.exact : d(k) <= d(j)}
<1>1. c.exact \subseteq Nat /\ c.cites \subseteq Nat  BY ProposalAssumptions DEF Claim
<1>2. ASSUME NEW k \in c.exact PROVE d(k) \in Nat
  <2> DEFINE gaps == {IF j > k THEN j - k ELSE k - j : j \in c.cites}
  <2>1. gaps \in SUBSET Nat  BY <1>1
  <2>2. c.cites # {} => gaps # {}  OBVIOUS
  <2>3. d(k) = IF c.cites = {} THEN 0 ELSE Least(gaps)  BY DEF Distance
  <2> HIDE DEF gaps
  <2>4. c.cites # {} => Least(gaps) \in Nat  BY <2>1, <2>2, LeastIs
  <2> QED  BY <2>3, <2>4
<1> HIDE DEF d
<1> DEFINE ds == {d(k) : k \in c.exact}
<1>3. ds \in SUBSET Nat /\ ds # {}  BY <1>2
<1>4. Least(ds) \in ds /\ \A y \in ds : Least(ds) <= y
  <2> HIDE DEF ds
  <2> QED  BY <1>3, LeastIs
<1>5. PICK k \in c.exact : Least(ds) = d(k)  BY <1>4
<1>6. \A j \in c.exact : d(k) <= d(j)  BY <1>4, <1>5
<1>7. near # {} /\ near \in SUBSET Nat  BY <1>1, <1>5, <1>6
<1>8. Nearest(c) = Least(near)  BY DEF Nearest, d
<1>9. near \subseteq c.exact  OBVIOUS
<1> HIDE DEF near
<1> QED  BY <1>7, <1>8, <1>9, LeastIs

\* A repair changes the chunk and the words of a claim and nothing else.
LEMMA RepairIs ==
  ASSUME NEW c \in Claim
  PROVE  /\ Repair(c) \in Claim
         /\ Repair(c).kind = c.kind /\ Repair(c).refs = c.refs
         /\ Repair(c).p = c.p /\ Repair(c).title = c.title /\ Repair(c).op = c.op
         /\ c.cites \cap Chunks # {} => Repair(c).cites \cap Chunks # {}
<1>1. Chunks \subseteq Nat \ {0}  BY ProposalAssumptions
<1>2. CASE Anchored(c)  BY <1>2 DEF Repair
<1>3. CASE ~Anchored(c) /\ c.exact # {}
  <2>1. Nearest(c) \in Chunks  BY <1>3, NearestIs DEF Claim
  <2>2. Repair(c) = [c EXCEPT !.cites = {Nearest(c)}]  BY <1>3 DEF Repair
  <2> QED  BY <1>1, <2>1, <2>2 DEF Claim
<1>4. CASE ~Anchored(c) /\ c.exact = {} /\ c.close # {}
  <2> DEFINE near == IF c.close \cap c.cites # {} THEN c.close \cap c.cites ELSE c.close
             k == CHOOSE k \in near : TRUE
  <2>1. near # {} /\ near \subseteq Chunks  BY <1>4 DEF Claim
  <2>2. Repair(c) = [c EXCEPT !.cites = {k}, !.exact = {k}]  BY <1>4 DEF Repair
  <2>3. k \in Chunks  BY <2>1
  <2> HIDE DEF k
  <2> DEFINE c1 == [c EXCEPT !.cites = {k}]
  <2>4. c1 \in Claim /\ Repair(c) = [c1 EXCEPT !.exact = {k}]  BY <1>1, <2>2, <2>3 DEF Claim
  <2> HIDE DEF c1
  <2>5. Repair(c) \in Claim  BY <2>3, <2>4 DEF Claim
  <2> QED  BY <2>2, <2>3, <2>5 DEF Claim
<1>5. CASE ~Anchored(c) /\ c.exact = {} /\ c.close = {}  BY <1>5 DEF Repair
<1> QED  BY <1>2, <1>3, <1>4, <1>5

\* --- What the verification passes on ----------------------------------------

\* The reference graph is about kinds, refs and threads: a repair keeps it.
LEMMA SameGraph ==
  ASSUME NEW p, NEW q, q.mention = p.mention, DOMAIN q.claims = DOMAIN p.claims,
         \A i \in DOMAIN p.claims :
           LET c == p.claims[i] d == q.claims[i] IN
           d.kind = c.kind /\ d.refs = c.refs /\ d.p = c.p /\ d.title = c.title /\ d.op = c.op,
         GraphOk(p, Lenient)
  PROVE  GraphOk(q, Lenient)
<1> DEFINE s == p.claims
           u == q.claims
<1>1. Declared(p) /\ DormantIsReopened(s)  BY DEF GraphOk
<1>2. \A i \in DOMAIN s : /\ u[i].kind = s[i].kind /\ u[i].refs = s[i].refs
                          /\ u[i].p = s[i].p /\ u[i].title = s[i].title /\ u[i].op = s[i].op
  OBVIOUS
<1>3. \A i \in DOMAIN s : /\ IsThread(u[i]) <=> IsThread(s[i])
                          /\ IsKnown(u[i]) <=> IsKnown(s[i])
                          /\ ThreadRef(u[i]) = ThreadRef(s[i])
                          /\ IsCross(u[i]) <=> IsCross(s[i])
  BY <1>2 DEF IsThread, IsKnown, ThreadRef, IsCross
<1>4. DOMAIN u = DOMAIN s  OBVIOUS
<1> HIDE DEF s, u
<1>5. \A x \in Opened(s) : x \in Opened(u)
  BY <1>2, <1>3, <1>4 DEF Opened, Where
<1>6. \A x \in Revealed(s) : x \in Revealed(u)
  BY <1>2, <1>4 DEF Revealed, Where
<1>7. Declared(q)
  <2> DEFINE refs == Roster \cup IF p.mention = "none" THEN {} ELSE {New}
  <2>1. ASSUME NEW i \in DOMAIN s
        PROVE  /\ s[i].refs \subseteq refs
               /\ IsThread(s[i]) => IsKnown(s[i]) \/ ThreadRef(s[i]) \in Opened(s)
               /\ s[i].kind = "reveal" => New \notin s[i].refs
               /\ IsCross(s[i]) => s[i].refs \in Revealed(s)
    BY <1>1 DEF Declared, s
  <2>2. ASSUME NEW i \in DOMAIN u
        PROVE  /\ u[i].refs \subseteq refs
               /\ IsThread(u[i]) => IsKnown(u[i]) \/ ThreadRef(u[i]) \in Opened(u)
               /\ u[i].kind = "reveal" => New \notin u[i].refs
               /\ IsCross(u[i]) => u[i].refs \in Revealed(u)
    <3> HIDE DEF refs
    <3>1. i \in DOMAIN s  BY <1>4
    <3> QED  BY <1>2, <1>3, <1>5, <1>6, <2>1, <3>1
  <2> QED  BY <2>2 DEF Declared, u
<1>8. DormantIsReopened(u)  BY <1>1, <1>2, <1>3, <1>4 DEF DormantIsReopened
<1> QED  BY <1>7, <1>8 DEF GraphOk, Lenient, u

\* Removing facts, relationships and events leaves the threads that are off
\* their topic as they were.
LEMMA OffTopicStays ==
  ASSUME NEW s, IsList(s)
  PROVE  OffTopic(Without(s, Misaligned(s))) = OffTopic(s)
<1> DEFINE mis == Misaligned(s)
           u == Without(s, mis)
<1>1. \A i \in mis : ~IsThread(s[i])  BY DEF Misaligned, MisalignedBy, Where, IsThread
<1> HIDE DEF mis
<1>2. DOMAIN u = DOMAIN s \ mis /\ \A i \in DOMAIN u : u[i] = s[i]  BY WithoutIs
<1>3. OffTopic(s) = {i \in DOMAIN s : IsThread(s[i]) /\ IsKnown(s[i]) /\ ~s[i].topic}
  BY DEF OffTopic, Where
<1> HIDE DEF u
<1>4. OffTopic(u) = {i \in DOMAIN u : IsThread(u[i]) /\ IsKnown(u[i]) /\ ~u[i].topic}
  BY DEF OffTopic, Where
<1>5. OffTopic(u) = OffTopic(s)  BY <1>1, <1>2, <1>3, <1>4
<1> QED  BY <1>5 DEF u, mis

\* Removing nothing, or no thread more than the quarantine did, the answer of a
\* verifier is anchored and passes every check of the commit.
LEMMA VerifiedIs ==
  ASSUME NEW p, IsProposal(p), p.mention # "absent", path = "separate", NEW q \in Verified(p)
  PROVE  IsProposal(q) /\ Unanchored(q.claims) = {} /\ Committable(q)
<1> DEFINE s1 == [i \in DOMAIN p.claims |-> Repair(p.claims[i])]
           bad == Unanchored(s1)
           s2 == Quarantine(s1, bad)
           dups == Duplicates(s2)
           s3 == Without(s2, dups)
           mis == Misaligned(s3)
           s4 == Without(s3, mis)
           p1 == [p EXCEPT !.claims = s1]
           p2 == [p EXCEPT !.claims = s2]
<1>1. /\ q = [p EXCEPT !.claims = s4]
      /\ Cited(p) /\ p.memory /\ GraphOk(p, Lenient)
      /\ bad # {} => GraphOk(p2, Lenient)
      /\ AcceptableTopic(s3)
      /\ dups \cup mis # {} => GraphOk(q, {"topic"})
  BY DEF Verified, AlignmentIssues
<1>2. IsList(p.claims)  BY ProposalIs
<1>3. ASSUME NEW i \in DOMAIN p.claims
      PROVE  /\ s1[i] \in Claim /\ s1[i].cites \cap Chunks # {}
             /\ s1[i].kind = p.claims[i].kind /\ s1[i].refs = p.claims[i].refs
             /\ s1[i].p = p.claims[i].p /\ s1[i].title = p.claims[i].title
             /\ s1[i].op = p.claims[i].op
  <2>1. p.claims[i] \in Claim  BY <1>2 DEF IsList
  <2>2. p.claims[i].cites \cap Chunks # {}  BY <1>1 DEF Cited
  <2> QED  BY <2>1, <2>2, RepairIs
<1>4. IsList(s1) /\ DOMAIN s1 = DOMAIN p.claims  BY <1>2, <1>3 DEF IsList
<1> HIDE DEF s1
<1>5. bad = {i \in DOMAIN s1 : ~Anchored(s1[i])}  BY DEF Unanchored, Where
<1> HIDE DEF bad
<1>6. /\ IsList(s2) /\ DOMAIN s2 \subseteq DOMAIN s1 \ bad
      /\ \A i \in DOMAIN s2 : s2[i] = s1[i]
      /\ bad = {} => s2 = s1
  BY <1>4, QuarantineIs
<1> HIDE DEF s2
<1>7. /\ IsList(s3) /\ DOMAIN s3 \subseteq DOMAIN s2 /\ \A i \in DOMAIN s3 : s3[i] = s2[i]
      /\ dups = {} => s3 = s2
  <2> HIDE DEF dups
  <2>1. IsList(s2)  BY <1>6
  <2>2. /\ IsList(s3) /\ DOMAIN s3 = DOMAIN s2 \ dups
        /\ \A i \in DOMAIN s2 \ dups : s3[i] = s2[i]
        /\ dups \cap DOMAIN s2 = {} => s3 = s2
    BY <2>1, WithoutIs
  <2> HIDE DEF s3
  <2> QED  BY <2>2
<1> HIDE DEF s3
<1>8. OffTopic(s4) = OffTopic(s3)  BY <1>7, OffTopicStays
<1>9. /\ IsList(s4) /\ DOMAIN s4 \subseteq DOMAIN s3 /\ \A i \in DOMAIN s4 : s4[i] = s3[i]
      /\ mis = {} => s4 = s3
  <2> HIDE DEF mis
  <2>1. IsList(s3)  BY <1>7
  <2>2. /\ IsList(s4) /\ DOMAIN s4 = DOMAIN s3 \ mis
        /\ \A i \in DOMAIN s3 \ mis : s4[i] = s3[i]
        /\ mis \cap DOMAIN s3 = {} => s4 = s3
    BY <2>1, WithoutIs
  <2> HIDE DEF s4
  <2> QED  BY <2>2
<1> HIDE DEF s4
<1>10. /\ IsProposal(q) /\ q.claims = s4 /\ q.mention = p.mention /\ q.memory = p.memory
  BY <1>1, <1>9, ReplaceClaims
<1>11. \A i \in DOMAIN s4 : i \in DOMAIN s1 /\ i \notin bad /\ s4[i] = s1[i]
  BY <1>6, <1>7, <1>9
<1>12. Unanchored(s4) = {}  BY <1>5, <1>11 DEF Unanchored, Where
<1>13. Cited(q)  BY <1>3, <1>4, <1>10, <1>11 DEF Cited
<1>14. AcceptableTopic(s4)
  <2>1. \A i \in OffTopic(s4) : i \in DOMAIN s4  BY DEF OffTopic, Where
  <2> QED  BY <1>1, <1>8, <1>9, <2>1 DEF AcceptableTopic
<1>15. GraphOk(q, {"topic"})
  <2>1. CASE dups \cup mis # {}  BY <1>1, <2>1
  <2>2. CASE dups = {} /\ mis = {}
    <3>1. s4 = s2 /\ s4 = s3  BY <1>7, <1>9, <2>2
    <3>2. GraphOk(p2, Lenient)
      <4>1. CASE bad # {}  BY <1>1, <4>1
      <4>2. CASE bad = {}
        <5>1. s2 = s1  BY <1>6, <4>2
        <5>2. p1.claims = s1 /\ p1.mention = p.mention  BY <1>4, ReplaceClaims
        <5>3. GraphOk(p1, Lenient)
          <6> HIDE DEF p1
          <6> QED  BY <1>1, <1>3, <1>4, <5>2, SameGraph
        <5> QED  BY <5>1, <5>3
      <4> QED  BY <4>1, <4>2
    <3>3. p2 = q /\ q.claims = s2  BY <1>1, <1>10, <3>1
    <3>4. Duplicates(q.claims) = {} /\ Misaligned(q.claims) = {}  BY <1>10, <2>2, <3>1
    <3> HIDE DEF p2
    <3> QED  BY <3>2, <3>3, <3>4 DEF GraphOk
  <2> QED  BY <2>1, <2>2
<1>16. ~Broad(Cardinality(Unanchored(q.claims)), Cardinality(DOMAIN q.claims))
  <2>1. Cardinality(Unanchored(q.claims)) = 0  BY <1>10, <1>12, FS_EmptySet
  <2> QED  BY <2>1 DEF Broad
<1> QED  BY <1>1, <1>10, <1>12, <1>13, <1>14, <1>15, <1>16 DEF Committable

----------------------------------------------------------------------------
\* --- Entities ---------------------------------------------------------------

\* The mention is a new entity, or one that its name, spelling or meaning
\* matched and that no later chapter introduced.
Offered(l) ==
  /\ l \in [to : Roster \cup {New}, match : Matches]
  /\ l.to = New \/ l.to \in l.match.same \cup l.match.near \cup l.match.like

LEMMA MatchIs ==
  ASSUME NEW m \in Matches
  PROVE  /\ Visible(m.same) \subseteq Roster /\ Visible(m.near) \subseteq Roster
         /\ Visible(m.like) \subseteq Roster
         /\ Visible(m.same) \subseteq m.same /\ Visible(m.near) \subseteq m.near
         /\ Visible(m.like) \subseteq m.like
BY ProposalAssumptions DEF Match, Visible

LEMMA ByNameIs ==
  ASSUME NEW m \in Matches, NEW e \in ByName(m)
  PROVE  e \in Roster /\ e \in m.same \cup m.near
<1>1. e \in Visible(m.same) \/ e \in Visible(m.near)  BY DEF ByName
<1> QED  BY <1>1, MatchIs

\* Whatever the judge of either path answers, or if it fails.
LEMMA ResolutionIs ==
  ASSUME NEW m \in Matches, NEW a, NEW e, e \in _resolve_mentions(m, a) \/ e \in resolve_entity(m, a)
  PROVE  Offered([to |-> e, match |-> m])
<1>1. e = New \/ (e \in Roster /\ e \in m.same \cup m.near \cup m.like)
  <2>1. CASE e \in _resolve_mentions(m, a)
    <3>1. \/ e \in ByName(m) \/ e \in Visible(m.like)
          \/ e = New
          \/ e \in Visible(m.near)
      BY <2>1 DEF _resolve_mentions, find_resolution_candidates, _run_disambiguation, ValidDecision
    <3> QED  BY <3>1, MatchIs, ByNameIs
  <2>2. CASE e \in resolve_entity(m, a)
    <3>1. e \in ByName(m) \/ e \in Visible(m.like) \/ e = New \/ e \in Visible(m.near)
      BY <2>2 DEF resolve_entity
    <3> QED  BY <3>1, MatchIs, ByNameIs
  <2> QED  BY <2>1, <2>2
<1> QED  BY <1>1 DEF Offered

LEMMA LinksAreOffered ==
  /\ \A l \in Links(_resolve_mentions) : Offered(l)
  /\ \A l \in Links(resolve_entity) : Offered(l)
<1>1. ASSUME NEW l \in Links(_resolve_mentions) PROVE Offered(l)
  <2>1. PICK m \in Matches, a \in Roster \cup Later \cup {New, "failed"} :
          l \in {[to |-> e, match |-> m] : e \in _resolve_mentions(m, a)}
    BY DEF Links
  <2> QED  BY <2>1, ResolutionIs
<1>2. ASSUME NEW l \in Links(resolve_entity) PROVE Offered(l)
  <2>1. PICK m \in Matches, a \in Roster \cup Later \cup {New, "failed"} :
          l \in {[to |-> e, match |-> m] : e \in resolve_entity(m, a)}
    BY DEF Links
  <2> QED  BY <2>1, ResolutionIs
<1> QED  BY <1>1, <1>2

\* The entity that the claims about the mention are stored for.
Target(l) == IF l = <<>> THEN New ELSE l.to

\* A stored claim is the claim, about the entity instead of the mention.
LEMMA StoredIs ==
  ASSUME NEW s, IsList(s), NEW l, l = <<>> \/ Offered(l), NEW i \in DOMAIN s
  PROVE  LET c == [Stored(s, l)[i] EXCEPT !.cites = @ \cap Chunks] IN
         /\ c \in Claim /\ c.kind = s[i].kind
         /\ c.cites = s[i].cites \cap Chunks /\ c.exact = s[i].exact
         /\ c.refs = Rename(s[i].refs, Target(l)) /\ c.named = Rename(s[i].named, Target(l))
         /\ c.aka = Rename(s[i].aka, Target(l)) /\ Stored(s, l)[i].refs = c.refs
<1> DEFINE e == Target(l)
           R(S) == Rename(S, e)
           d == Stored(s, l)[i]
<1>1. e \in Roster \cup {New}  BY DEF Target, Offered
<1>2. \A S \in SUBSET (Roster \cup {New}) : R(S) \in SUBSET (Roster \cup {New})
  BY <1>1 DEF Rename
<1>3. s[i] \in Claim  BY DEF IsList
<1>4. d \in Claim /\ d.kind = s[i].kind /\ d.cites = s[i].cites /\ d.exact = s[i].exact
      /\ d.refs = R(s[i].refs) /\ d.named = R(s[i].named) /\ d.aka = R(s[i].aka)
  <2>1. CASE l = <<>>
    <3>1. d = s[i] /\ e = New  BY <2>1 DEF Stored, Target
    <3>2. \A S : R(S) = S  BY <3>1 DEF Rename
    <3> QED  BY <1>3, <3>1, <3>2
  <2>2. CASE l # <<>>
    <3>1. e = l.to  BY <2>2 DEF Target
    <3>2. d = [s[i] EXCEPT !.refs = R(s[i].refs), !.named = R(s[i].named), !.aka = R(s[i].aka)]
      BY <2>2, <3>1 DEF Stored, Resolved
    <3> DEFINE f == R(s[i].refs)
               g == R(s[i].named)
               h == R(s[i].aka)
               c == s[i]
    <3>3. /\ f \in SUBSET (Roster \cup {New}) /\ g \in SUBSET (Roster \cup {New})
          /\ h \in SUBSET (Roster \cup {New})
      BY <1>2, <1>3 DEF Claim
    <3>4. c \in Claim /\ d = [c EXCEPT !.refs = f, !.named = g, !.aka = h]  BY <1>3, <3>2
    <3> HIDE DEF d, f, g, h, c, R, e
    <3>5. /\ d = [kind |-> c.kind, refs |-> f, named |-> g, aka |-> h, cites |-> c.cites,
                   exact |-> c.exact, close |-> c.close, p |-> c.p, title |-> c.title,
                   op |-> c.op, topic |-> c.topic, kin |-> c.kin]
      BY <3>4 DEF Claim
    <3>6. /\ c.kind \in {"fact", "relationship", "event", "alias", "reveal", "identity", "thread"}
          /\ c.cites \in SUBSET (Nat \ {0}) /\ c.exact \in SUBSET Chunks
          /\ c.close \in SUBSET Chunks /\ c.p \in Nat /\ c.title \in Titles /\ c.op \in Ops
          /\ c.topic \in BOOLEAN /\ c.kin \in BOOLEAN
      BY <3>4 DEF Claim
    <3>7. d \in Claim  BY <3>3, <3>5, <3>6 DEF Claim
    <3>8. d.kind = c.kind /\ d.cites = c.cites /\ d.exact = c.exact
          /\ d.refs = f /\ d.named = g /\ d.aka = h
      BY <3>5
    <3> QED  BY <3>7, <3>8 DEF c, f, g, h
  <2> QED  BY <2>1, <2>2
<1> HIDE DEF d, R, e
<1>5. [d EXCEPT !.cites = @ \cap Chunks] \in Claim  BY <1>4 DEF Claim
<1>6. LET c == [d EXCEPT !.cites = @ \cap Chunks] IN
      /\ c.kind = d.kind /\ c.cites = d.cites \cap Chunks /\ c.exact = d.exact
      /\ c.refs = d.refs /\ c.named = d.named /\ c.aka = d.aka
  BY <1>4 DEF Claim
<1> QED  BY <1>4, <1>5, <1>6 DEF d, R, e

\* The last of some positions of an answer.
LEMMA LastIs ==
  ASSUME NEW S \in SUBSET (1..MaxClaims), S # {}
  PROVE  \E i \in S : \A j \in S : j <= i
<1> DEFINE T == {MaxClaims - i : i \in S}
<1>1. MaxClaims \in Nat  BY ProposalAssumptions
<1>2. T \in SUBSET Nat /\ T # {}
  <2>1. \A i \in S : MaxClaims - i \in Nat  BY <1>1
  <2> QED  BY <2>1
<1>3. Least(T) \in T /\ \A y \in T : Least(T) <= y
  <2> HIDE DEF T
  <2> QED  BY <1>2, LeastIs
<1>4. PICK i \in S : Least(T) = MaxClaims - i  BY <1>3
<1>5. ASSUME NEW j \in S PROVE j <= i
  <2>1. MaxClaims - j \in T  OBVIOUS
  <2>2. MaxClaims - i <= MaxClaims - j  BY <1>3, <1>4, <2>1
  <2> QED  BY <1>1, <2>2
<1> QED  BY <1>5

----------------------------------------------------------------------------
\* --- The inductive invariant ------------------------------------------------

\* What waits for its commit, but from a single pass, is anchored: nothing will
\* be quarantined after the names were checked.
AnchoredBefore ==
  stage \in {"resolve", "commit"} /\ path # "single" => Unanchored(prop.claims) = {}

LinkIsOffered == link = <<>> \/ Offered(link)

\* Only a direct provider's first answer waits for its verifier.
VerifyIsDirect == stage = "verify" => path = "api_verify"

IInv ==
  /\ TypeOK /\ LinkIsOffered /\ VerifyIsDirect /\ AnchoredBefore
  /\ VerifiedIsCommittable /\ CommittedIsSound

LEMMA NothingIs == IsProposal(Nothing)
<1>1. IsList(<<>>)  BY DEF IsList
<1> QED  BY <1>1, IsAProposal DEF Nothing

LEMMA InitHolds == Init => IInv
<1> SUFFICES ASSUME Init PROVE IInv  OBVIOUS
<1>1. TypeOK  BY NothingIs DEF Init, TypeOK
<1> QED
  BY <1>1 DEF Init, IInv, LinkIsOffered, VerifyIsDirect, AnchoredBefore, VerifiedIsCommittable, CommittedIsSound,
     CommittedIsAnchored, CommittedIsNamed, IdentityIsRevealed

\* A provider's answer is a proposal.
LEMMA AnswerIs == \A a \in Answers : IsProposal(a)
<1> SUFFICES ASSUME NEW k \in 0..MaxClaims, NEW a \in ProposalsAt(1..k, Pool) PROVE IsProposal(a)
  BY DEF Answers
<1>1. 1..k \in SUBSET (1..MaxClaims)  BY ProposalAssumptions
<1>2. Pool \subseteq Claim  BY ProposalAssumptions
<1>3. a \in ProposalsAt(1..k, Claim)  BY <1>2 DEF ProposalsAt
<1> QED  BY <1>1, <1>3 DEF IsProposal

\* What a chapter has stored stays sound while nothing is stored.
LEMMA SoundStays ==
  ASSUME CommittedIsSound, UNCHANGED <<path, alias, kept>>
  PROVE  CommittedIsSound'
BY DEF CommittedIsSound, CommittedIsAnchored, CommittedIsNamed, IdentityIsRevealed, AliasIsKept,
   IsCross

\* An attempt that ends leaves what is stored.
LEMMA RetryKeeps ==
  ASSUME IInv, Retry, UNCHANGED <<path, alias, thread, kept>>
  PROVE  IInv'
<1>1. TypeOK'  BY NothingIs DEF IInv, TypeOK, Retry
<1>2. CommittedIsSound'  BY SoundStays DEF IInv
<1> QED
  BY <1>1, <1>2 DEF IInv, Retry, LinkIsOffered, VerifyIsDirect, AnchoredBefore, VerifiedIsCommittable

LEMMA AnswerKeeps ==
  ASSUME IInv, Answer
  PROVE  IInv'
<1> DEFINE t == path \in {"single", "separate"}
<1>1. PICK a \in Answers :
        LET p == Normal(a, t) IN
        \/ /\ path = "api" /\ ValidDirect(p)
           /\ prop' = p /\ stage' = "commit"
        \/ /\ path = "api_verify"
           /\ prop' = p /\ stage' = "verify"
        \/ /\ path = "single" /\ ValidExtraction(p, {})
           /\ prop' = p /\ stage' = "resolve"
        \/ /\ path = "separate" /\ ValidExtraction(p, Lenient)
           /\ prop' = Nothing /\ stage' = "revise"
  BY DEF Answer
<1>2. IsProposal(Normal(a, t))
  <2>1. IsProposal(a) /\ t \in BOOLEAN  BY AnswerIs
  <2> HIDE DEF t
  <2> QED  BY <2>1, NormalIs
<1> HIDE DEF t
<1> DEFINE p == Normal(a, t)
<1>3. UNCHANGED <<path, link, alias, thread, kept>>  BY DEF Answer
<1>4. TypeOK'  BY <1>1, <1>2, <1>3, NothingIs DEF IInv, TypeOK
<1>5. CommittedIsSound'  BY <1>3, SoundStays DEF IInv
<1>6. LinkIsOffered'  BY <1>3 DEF IInv, LinkIsOffered, Offered
<1>7. stage' \in {"resolve", "commit"} =>
        path' # "separate" /\ (path' # "single" => Unanchored(prop'.claims) = {})
  BY <1>1, <1>3 DEF ValidDirect
<1>8. AnchoredBefore' /\ VerifiedIsCommittable' /\ VerifyIsDirect'
  BY <1>1, <1>3, <1>7 DEF AnchoredBefore, VerifiedIsCommittable, VerifyIsDirect, Unanchored,
     Where, Anchored
<1> QED  BY <1>4, <1>5, <1>6, <1>8 DEF IInv

LEMMA ChooseAnswerKeeps ==
  ASSUME IInv, ChooseAnswer
  PROVE  IInv'
<1>1. UNCHANGED <<path, alias, thread, kept>> /\ stage = "verify" /\ path = "api_verify"
  BY DEF ChooseAnswer, IInv, VerifyIsDirect
<1>2. CASE stage' = "revise" /\ prop' = Nothing /\ UNCHANGED link
  <2>1. TypeOK'  BY <1>1, <1>2, NothingIs DEF IInv, TypeOK
  <2>2. CommittedIsSound'  BY <1>1, SoundStays DEF IInv
  <2> QED
    BY <1>1, <1>2, <2>1, <2>2 DEF IInv, LinkIsOffered, Offered, VerifyIsDirect, AnchoredBefore,
       VerifiedIsCommittable
<1>3. CASE ValidDirect(prop) /\ stage' = "commit" /\ UNCHANGED <<prop, link>>
  <2>1. TypeOK'  BY <1>1, <1>3 DEF IInv, TypeOK
  <2>2. CommittedIsSound'  BY <1>1, SoundStays DEF IInv
  <2>3. Unanchored(prop'.claims) = {}  BY <1>3 DEF ValidDirect
  <2>4. AnchoredBefore' /\ VerifiedIsCommittable'
    BY <1>1, <1>3, <2>3 DEF AnchoredBefore, VerifiedIsCommittable, Unanchored, Where, Anchored
  <2> QED  BY <1>3, <2>1, <2>2, <2>4 DEF IInv, LinkIsOffered, Offered, VerifyIsDirect
<1>4. CASE Retry  BY <1>1, <1>4, RetryKeeps
<1> QED  BY <1>2, <1>3, <1>4 DEF ChooseAnswer

\* The checks of the commit read the committed aliases and threads, and only
\* a commit changes those.
LEMMA CommittableStays ==
  ASSUME UNCHANGED <<path, alias, thread>>, NEW q, prop' = q, Committable(q)
  PROVE  Committable(prop)'
<1> DEFINE s == q.claims
<1>1. Declared(prop)' <=> Declared(q)
  BY DEF Declared, Opened, Revealed, Where, IsThread, IsKnown, ThreadRef, IsCross
<1>2. Misaligned(prop.claims)' = Misaligned(s)
  BY DEF Misaligned, MisalignedBy, Where, Named, HasAlias
<1>3. DormantIsReopened(prop.claims)' <=> DormantIsReopened(s)
  BY DEF DormantIsReopened, IsThread, IsKnown
<1>4. OffTopic(prop.claims)' = OffTopic(s)  BY DEF OffTopic, Where, IsThread, IsKnown
<1>5. AcceptableTopic(prop.claims)' <=> AcceptableTopic(s)  BY <1>4 DEF AcceptableTopic
<1>6. Duplicates(prop.claims)' = Duplicates(s)  BY DEF Duplicates
<1>7. GraphOk(prop, {"topic"})'  BY <1>1, <1>2, <1>3, <1>6 DEF GraphOk, Committable
<1> QED  BY <1>4, <1>5, <1>7 DEF Committable

LEMMA ReviseKeeps ==
  ASSUME IInv, Revise
  PROVE  IInv'
<1> DEFINE t == path = "separate"
<1>1. UNCHANGED <<path, alias, thread, kept>>  BY DEF Revise
<1>2. PICK a \in Answers :
        LET p == Normal(a, t)
            accepted == IF path = "separate" THEN Verified(p) ELSE {q \in {p} : ValidDirect(q)} IN
        \/ accepted = {} /\ Retry
        \/ /\ \E q \in accepted : prop' = q
           /\ stage' = IF path = "separate" THEN "resolve" ELSE "commit"
           /\ UNCHANGED link
  BY DEF Revise
<1>3. IsProposal(a) /\ t \in BOOLEAN  BY AnswerIs
<1>4. t <=> path = "separate"  OBVIOUS
<1> HIDE DEF t
<1> DEFINE p == Normal(a, t)
<1>5. IsProposal(p) /\ (path = "separate" => p.mention # "absent")  BY <1>3, <1>4, NormalIs
<1> HIDE DEF p
<1>6. CASE Retry  BY <1>1, <1>6, RetryKeeps
<1>7. CASE path = "separate" /\ prop' \in Verified(p) /\ stage' = "resolve" /\ UNCHANGED link
  <2>1. PICK q \in Verified(p) : prop' = q  BY <1>7
  <2>2. IsProposal(q) /\ Unanchored(q.claims) = {} /\ Committable(q)  BY <1>5, <1>7, VerifiedIs
  <2>3. TypeOK'  BY <1>1, <1>7, <2>1, <2>2 DEF IInv, TypeOK
  <2>4. CommittedIsSound'  BY <1>1, SoundStays DEF IInv
  <2>5. AnchoredBefore'  BY <2>1, <2>2 DEF AnchoredBefore
  <2>6. Committable(prop)'  BY <1>1, <2>1, <2>2, CommittableStays
  <2> QED
    BY <1>7, <2>3, <2>4, <2>5, <2>6 DEF IInv, LinkIsOffered, Offered, VerifyIsDirect,
       VerifiedIsCommittable
<1>8. CASE path # "separate" /\ prop' = p /\ ValidDirect(p) /\ stage' = "commit" /\ UNCHANGED link
  <2>1. TypeOK'  BY <1>1, <1>5, <1>8 DEF IInv, TypeOK
  <2>2. CommittedIsSound'  BY <1>1, SoundStays DEF IInv
  <2>3. Unanchored(p.claims) = {}  BY <1>8 DEF ValidDirect
  <2>4. AnchoredBefore' /\ VerifiedIsCommittable'
    BY <1>1, <1>8, <2>3 DEF AnchoredBefore, VerifiedIsCommittable, Unanchored, Where, Anchored
  <2> QED  BY <1>8, <2>1, <2>2, <2>4 DEF IInv, LinkIsOffered, Offered, VerifyIsDirect
<1> QED  BY <1>2, <1>6, <1>7, <1>8 DEF p

LEMMA ResolveKeeps ==
  ASSUME IInv, Resolve
  PROVE  IInv'
<1>1. UNCHANGED <<path, prop, alias, thread, kept>> /\ stage = "resolve" /\ stage' = "commit"
  BY DEF Resolve
<1>2. link' = link \/ link' \in Links(_resolve_mentions)  BY DEF Resolve
<1>3. link' = <<>> \/ Offered(link')
  BY <1>2, LinksAreOffered DEF IInv, LinkIsOffered
<1>4. LinkIsOffered'  BY <1>3 DEF LinkIsOffered, Offered
<1>5. TypeOK'  BY <1>1, <1>3 DEF IInv, TypeOK, Offered
<1>6. CommittedIsSound'  BY <1>1, SoundStays DEF IInv
<1>7. AnchoredBefore'
  BY <1>1 DEF IInv, AnchoredBefore, Unanchored, Where, Anchored
<1>8. VerifiedIsCommittable'
  <2>1. CASE path = "separate"
    <3>1. PICK q : q = prop  OBVIOUS
    <3>2. Committable(q) /\ prop' = q  BY <1>1, <2>1, <3>1 DEF IInv, VerifiedIsCommittable
    <3> QED  BY <1>1, <3>2, CommittableStays DEF VerifiedIsCommittable
  <2>2. CASE path # "separate"  BY <1>1, <2>2 DEF VerifiedIsCommittable
  <2> QED  BY <2>1, <2>2
<1> QED  BY <1>1, <1>4, <1>5, <1>6, <1>7, <1>8 DEF IInv, VerifyIsDirect

\* A claim that is about two entities once the mention is renamed was about
\* two before, and what it is about is renamed and nothing else.
LEMMA RenameIs ==
  ASSUME NEW S, NEW e
  PROVE  /\ (\E r, q \in Rename(S, e) : r # q) => \E r, q \in S : r # q
         /\ \A r \in Rename(S, e) : (r \in S /\ r # New) \/ (New \in S /\ r = e)
         /\ \A r \in S : r # New => r \in Rename(S, e)
         /\ New \in S => e \in Rename(S, e)
BY DEF Rename

\* What a commit stores: K(i) is the row of the claim s[i].
LEMMA CommitIsSound ==
  ASSUME IInv, NEW p, IsProposal(p), Committable(p),
         path # "single" => Unanchored(p.claims) = {},
         NEW s, s = Quarantine(p.claims, Unanchored(p.claims)),
         NEW l, l = <<>> \/ Offered(l),
         kept' = Rows(s, l),
         alias \subseteq alias', path' = path
  PROVE  kept' \subseteq Claim /\ CommittedIsSound'
<1> DEFINE K(i) == [Stored(s, l)[i] EXCEPT !.cites = @ \cap Chunks]
           e == Target(l)
           bad == Unanchored(p.claims)
<1>1. IsList(p.claims)  BY ProposalIs
<1>2. bad = {i \in DOMAIN p.claims : ~Anchored(p.claims[i])}  BY DEF Unanchored, Where
<1> HIDE DEF bad
<1>3. /\ IsList(s) /\ DOMAIN s \subseteq DOMAIN p.claims \ bad
      /\ \A i \in DOMAIN s : s[i] = p.claims[i]
      /\ \A i \in DOMAIN p.claims \ bad :
           \/ i \in DOMAIN s
           \/ p.claims[i].kind = "identity"
      /\ \A i \in DOMAIN s, j \in bad :
           s[i].kind = "identity" /\ p.claims[j].kind = "reveal" => s[i].refs # p.claims[j].refs
      /\ bad = {} => s = p.claims
  <2>1. s = Quarantine(p.claims, bad)  BY DEF bad
  <2>2. /\ IsList(s) /\ DOMAIN s \subseteq DOMAIN p.claims \ bad
        /\ \A i \in DOMAIN s : s[i] = p.claims[i]
        /\ \A i \in DOMAIN p.claims \ bad : i \in DOMAIN s \/ p.claims[i].kind = "identity"
        /\ \A i \in DOMAIN s, j \in bad :
             p.claims[i].kind = "identity" /\ p.claims[j].kind = "reveal"
               => p.claims[i].refs # p.claims[j].refs
        /\ bad = {} => s = p.claims
    BY <1>1, <2>1, QuarantineIs
  <2> QED  BY <2>2
<1>4. ASSUME NEW i \in DOMAIN s
      PROVE  /\ K(i) \in Claim /\ K(i).kind = s[i].kind
             /\ K(i).cites = s[i].cites \cap Chunks /\ K(i).exact = s[i].exact
             /\ K(i).refs = Rename(s[i].refs, e) /\ K(i).named = Rename(s[i].named, e)
             /\ K(i).aka = Rename(s[i].aka, e)
  BY <1>3, StoredIs
<1>5. kept' = {K(i) : i \in DOMAIN s}  BY DEF Rows
<1> HIDE DEF K, e
<1>6. CommittedIsAnchored'
  <2>1. ASSUME NEW i \in DOMAIN s PROVE K(i).cites \cap K(i).exact # {}
    <3>1. s[i].cites \cap s[i].exact # {}  BY <1>2, <1>3 DEF Anchored
    <3>2. s[i].exact \subseteq Chunks  BY <1>3 DEF IsList, Claim
    <3> QED  BY <1>4, <3>1, <3>2
  <2> QED  BY <1>5, <2>1 DEF CommittedIsAnchored
<1>7. IdentityIsRevealed'
  <2>1. ASSUME NEW i \in DOMAIN s, IsCross(K(i))
        PROVE  \E j \in DOMAIN s : K(j).kind = "reveal" /\ K(j).refs = K(i).refs
    <3>1. s[i].kind = "identity" /\ \E r, q \in s[i].refs : r # q
      BY <1>4, <2>1, RenameIs DEF IsCross
    <3>2. IsCross(p.claims[i]) /\ i \in DOMAIN p.claims  BY <1>3, <3>1 DEF IsCross
    <3>3. p.claims[i].refs \in Revealed(p.claims)  BY <3>2 DEF Committable, GraphOk, Declared
    <3>4. PICK j \in DOMAIN p.claims : /\ p.claims[j].kind = "reveal"
                                       /\ p.claims[j].refs = p.claims[i].refs
      BY <3>3 DEF Revealed, Where
    <3>5. s[i].refs = p.claims[j].refs  BY <1>3, <3>4
    <3>6. j \notin bad  BY <1>3, <3>1, <3>4, <3>5
    <3>7. j \in DOMAIN s  BY <1>3, <3>4, <3>6
    <3> QED  BY <1>3, <1>4, <3>4, <3>5, <3>7
  <2> QED  BY <1>5, <2>1 DEF IdentityIsRevealed, IsCross
<1>8. CommittedIsNamed'
  <2>1. SUFFICES ASSUME path # "single", NEW i \in DOMAIN s,
                        K(i).kind \in {"fact", "relationship"}, NEW r \in K(i).refs \ K(i).named
                 PROVE  /\ r \in K(i).aka
                        /\ r \in alias \/ \E j \in DOMAIN s : K(j).kind = "alias" /\ r \in K(j).refs
    BY <1>5 DEF CommittedIsNamed, AliasIsKept
  <2>2. s = p.claims  BY <1>3, <2>1 DEF bad
  <2>3. Misaligned(s) = {}  BY <2>2 DEF Committable, GraphOk
  <2>4. \A x \in s[i].refs : Named(s, s[i], x)
    <3>1. s[i].kind \in {"fact", "relationship"}  BY <1>4, <2>1
    <3> QED  BY <2>3, <3>1 DEF Misaligned, MisalignedBy, Where
  <2>5. PICK x \in s[i].refs : (x = r /\ x # New) \/ (x = New /\ r = e)
    BY <1>4, <2>1, RenameIs
  <2>6. \A S : x \in S => r \in Rename(S, e)  BY <2>5, RenameIs
  <2>7. x \notin s[i].named  BY <1>4, <2>1, <2>6
  <2>8. x \in s[i].aka /\ HasAlias(s, x)  BY <2>4, <2>7 DEF Named
  <2>9. CASE x \in alias
    <3>1. x \in Roster  BY <2>9 DEF IInv, TypeOK
    <3>2. x = r  BY <2>5, <3>1, ProposalAssumptions
    <3> QED  BY <1>4, <2>6, <2>8, <2>9, <3>2
  <2>10. CASE \E j \in DOMAIN s : s[j].kind = "alias" /\ x \in s[j].refs
    BY <1>4, <2>6, <2>8, <2>10
  <2> QED  BY <2>8, <2>9, <2>10 DEF HasAlias
<1> QED  BY <1>4, <1>5, <1>6, <1>7, <1>8 DEF CommittedIsSound

LEMMA CommitKeeps ==
  ASSUME IInv, Commit
  PROVE  IInv'
<1> DEFINE p == Normal(prop, FALSE)
           s == Quarantine(p.claims, Unanchored(p.claims))
           Found == IF p.mention = "none" THEN {<<>>}
                    ELSE IF link # <<>> THEN {link} ELSE Links(resolve_entity)
           last(t) == CHOOSE i \in Updates(s, t) : \A j \in Updates(s, t) : j <= i
<1>1. stage = "commit" /\ path' = path /\ IsProposal(prop)  BY DEF Commit, IInv, TypeOK
<1>2. CASE Retry /\ UNCHANGED <<alias, thread, kept>>  BY <1>1, <1>2, RetryKeeps
<1>3. CASE /\ Committable(p)
           /\ \E l \in Found :
                /\ link' = l
                /\ kept' = Rows(s, l)
                /\ alias' = alias \cup UNION {Stored(s, l)[i].refs \cap Roster :
                                                i \in Where(s, LAMBDA c : c.kind = "alias")}
           /\ thread' = [t \in Titles |-> IF Updates(s, t) = {} THEN thread[t] ELSE s[last(t)].op]
           /\ stage' = "stored" /\ prop' = Nothing
  <2>1. IsProposal(p) /\ DOMAIN p.claims \subseteq DOMAIN prop.claims
        /\ \A i \in DOMAIN p.claims : p.claims[i] = prop.claims[i]
    <3>1. \A c : OnlySupplied(c, FALSE) = c  BY DEF OnlySupplied
    <3>2. FALSE \in BOOLEAN  OBVIOUS
    <3> QED  BY <1>1, <3>1, <3>2, NormalIs
  <2> HIDE DEF p
  <2>2. path # "single" => Unanchored(p.claims) = {}
    BY <1>1, <2>1 DEF IInv, AnchoredBefore, Unanchored, Where
  <2>3. IsList(s)
    <3>1. IsList(p.claims)  BY <2>1, ProposalIs
    <3> QED  BY <3>1, QuarantineIs
  <2>4. PICK l \in Found :
          /\ link' = l
          /\ kept' = Rows(s, l)
          /\ alias' = alias \cup UNION {Stored(s, l)[i].refs \cap Roster :
                                          i \in Where(s, LAMBDA c : c.kind = "alias")}
    BY <1>3
  <2>5. l = <<>> \/ Offered(l)
    BY LinksAreOffered DEF IInv, LinkIsOffered
  <2>6. alias \subseteq alias' /\ alias' \subseteq Roster  BY <2>4 DEF IInv, TypeOK
  <2>7. kept' \subseteq Claim /\ CommittedIsSound'
    <3>1. Committable(p)  BY <1>3
    <3> HIDE DEF Found, last
    <3> QED  BY <1>1, <2>1, <2>2, <2>4, <2>5, <2>6, <3>1, CommitIsSound
  <2> HIDE DEF s
  <2>8. thread' \in [Titles -> Ops \cup {"none"}]
    <3>1. ASSUME NEW t \in Titles, Updates(s, t) # {} PROVE s[last(t)].op \in Ops
      <4>1. Updates(s, t) \subseteq DOMAIN s /\ DOMAIN s \subseteq 1..MaxClaims
        BY <2>3 DEF Updates, Where, IsList
      <4>2. \E i \in Updates(s, t) : \A j \in Updates(s, t) : j <= i  BY <3>1, <4>1, LastIs
      <4>3. last(t) \in DOMAIN s  BY <4>1, <4>2
      <4> HIDE DEF last
      <4>4. s[last(t)] \in Claim  BY <2>3, <4>3 DEF IsList
      <4> QED  BY <4>4 DEF Claim
    <3> HIDE DEF last
    <3> QED  BY <1>3, <3>1 DEF IInv, TypeOK
  <2>9. TypeOK'
    BY <1>1, <1>3, <2>4, <2>5, <2>6, <2>7, <2>8, NothingIs DEF IInv, TypeOK, Offered
  <2>10. LinkIsOffered'  BY <2>4, <2>5 DEF LinkIsOffered, Offered
  <2> QED
    BY <1>3, <2>7, <2>9, <2>10 DEF IInv, VerifyIsDirect, AnchoredBefore, VerifiedIsCommittable
<1> QED  BY <1>2, <1>3 DEF Commit

LEMMA NextChapterKeeps ==
  ASSUME IInv, NextChapter
  PROVE  IInv'
<1>1. TypeOK'  BY DEF IInv, TypeOK, NextChapter
<1>2. CommittedIsSound'
  BY DEF NextChapter, CommittedIsSound, CommittedIsAnchored, CommittedIsNamed, IdentityIsRevealed
<1> QED
  BY <1>1, <1>2 DEF IInv, NextChapter, LinkIsOffered, VerifyIsDirect, AnchoredBefore,
     VerifiedIsCommittable

\* Nothing happens.
LEMMA StutterKeeps ==
  ASSUME IInv, UNCHANGED vars
  PROVE  IInv'
<1>1. UNCHANGED <<stage, path, prop, link, alias, thread, kept>>  BY DEF vars
<1>2. TypeOK'  BY <1>1 DEF IInv, TypeOK
<1>3. CommittedIsSound'  BY <1>1, SoundStays DEF IInv
<1>4. LinkIsOffered' /\ VerifyIsDirect'  BY <1>1 DEF IInv, LinkIsOffered, Offered, VerifyIsDirect
<1>5. AnchoredBefore'  BY <1>1 DEF IInv, AnchoredBefore, Unanchored, Where, Anchored
<1>6. VerifiedIsCommittable'
  <2>1. PICK q : q = prop  OBVIOUS
  <2>2. Committable(q) => Committable(prop)'  BY <1>1, <2>1, CommittableStays
  <2> QED  BY <1>1, <2>1, <2>2 DEF IInv, VerifiedIsCommittable
<1> QED  BY <1>2, <1>3, <1>4, <1>5, <1>6 DEF IInv

\* What the four paths keep, whatever is answered, judged, repaired and dropped.
THEOREM Inductive == Spec => []IInv
<1>1. IInv /\ [Next]_vars => IInv'
  BY AnswerKeeps, ChooseAnswerKeeps, ReviseKeeps, ResolveKeeps, CommitKeeps, NextChapterKeeps,
     StutterKeeps DEF Next
<1> QED  BY <1>1, InitHolds, PTL DEF Spec

\* The state stays in its types: the CHOOSEs of the repairs and of the last
\* thread update always find what they choose.
THEOREM TypeCorrect == Spec => []TypeOK
<1>1. IInv => TypeOK  BY DEF IInv
<1> QED  BY <1>1, Inductive, PTL

\* What a chapter commits is anchored, named and revealed, for every pool of
\* claims and every number of them in an answer.
THEOREM CommitIsAlwaysSound == Spec => []CommittedIsSound
<1>1. IInv => CommittedIsSound  BY DEF IInv
<1> QED  BY <1>1, Inductive, PTL

\* What the repairs and quarantines of a verified answer left passes the checks
\* that the commit repeats, for every limit on what may be quarantined.
THEOREM NoPaidRunIsLost == Spec => []VerifiedIsCommittable
<1>1. IInv => VerifiedIsCommittable  BY DEF IInv
<1> QED  BY <1>1, Inductive, PTL

\* A mention is merged only with an entity that it was matched with, and never
\* with one that later chapters introduce.
THEOREM MergesAreOffered == Spec => []MergedIsOffered
<1>1. IInv => MergedIsOffered
  <2> SUFFICES ASSUME IInv, link # <<>>, link.to # New
               PROVE  /\ link.to \notin Later
                      /\ link.to \in link.match.same \cup link.match.near \cup link.match.like
    BY DEF MergedIsOffered
  <2>1. Offered(link)  BY DEF IInv, LinkIsOffered
  <2>2. link.to \in Roster  BY <2>1 DEF Offered
  <2> QED  BY <2>1, <2>2, ProposalAssumptions DEF Offered
<1> QED  BY <1>1, Inductive, PTL

----------------------------------------------------------------------------
\* --- Questions ---------------------------------------------------------------

LEMMA AskConstants ==
  /\ Web \in Procs /\ None \notin Requests /\ IsFiniteSet(ChunkIds)
  /\ ChapOf \in [ChunkIds \cup Facts -> Int] /\ Ceilings \subseteq Int /\ None \notin Corpora
  /\ MaxText \in Nat /\ MaxIterations \in Nat /\ MaxCalls \in Nat /\ EvidenceTokens \in Nat
  /\ DigestTokens \in Nat /\ PrefixSize \in Nat /\ MaxText > 0
BY AskAssumption DEF Corpora

(* What happens to a queue.                                                *)

LEMMA HeadIs ==
  ASSUME NEW S, NEW q \in Seq(S), q # <<>>
  PROVE  Head(q) \in S /\ Head(q) = q[1] /\ 1 \in DOMAIN q
OBVIOUS

LEMMA TailIs ==
  ASSUME NEW S, NEW q \in Seq(S), q # <<>>
  PROVE  /\ Tail(q) \in Seq(S) /\ Len(Tail(q)) = Len(q) - 1
         /\ \A k \in DOMAIN Tail(q) : k + 1 \in DOMAIN q /\ Tail(q)[k] = q[k + 1]
         /\ \A k \in DOMAIN q : k # 1 => k - 1 \in DOMAIN Tail(q) /\ Tail(q)[k - 1] = q[k]
OBVIOUS

LEMMA AppendIs ==
  ASSUME NEW S, NEW q \in Seq(S), NEW x \in S
  PROVE  /\ Append(q, x) \in Seq(S) /\ Len(Append(q, x)) = Len(q) + 1
         /\ DOMAIN Append(q, x) = DOMAIN q \cup {Len(q) + 1} /\ Len(q) + 1 \notin DOMAIN q
         /\ Append(q, x)[Len(q) + 1] = x
         /\ \A k \in DOMAIN q : Append(q, x)[k] = q[k]
OBVIOUS

LEMMA RemoveAtIs ==
  ASSUME NEW S, NEW q \in Seq(S), NEW n \in DOMAIN q
  PROVE  LET w == RemoveAt(q, n)
         IN  /\ w \in Seq(S) /\ Len(w) = Len(q) - 1
             /\ \A k \in DOMAIN w : IF k < n THEN k \in DOMAIN q /\ w[k] = q[k]
                                    ELSE k + 1 \in DOMAIN q /\ w[k] = q[k + 1]
             /\ \A k \in DOMAIN q : /\ k < n => k \in DOMAIN w /\ w[k] = q[k]
                                    /\ k > n => k - 1 \in DOMAIN w /\ w[k - 1] = q[k]
<1> DEFINE a == SubSeq(q, 1, n - 1)
           b == SubSeq(q, n + 1, Len(q))
           w == a \o b
<1>1. n \in 1..Len(q) /\ Len(q) \in Nat  OBVIOUS
<1>2. a \in Seq(S) /\ Len(a) = n - 1 /\ \A k \in 1..(n - 1) : a[k] = q[k]  BY <1>1
<1>3. b \in Seq(S) /\ Len(b) = Len(q) - n /\ \A k \in 1..(Len(q) - n) : b[k] = q[n + k]  BY <1>1
<1> HIDE DEF a, b
<1>4. /\ w \in Seq(S) /\ Len(w) = Len(q) - 1
      /\ \A k \in 1..Len(w) : w[k] = IF k <= n - 1 THEN a[k] ELSE b[k - (n - 1)]
  BY <1>1, <1>2, <1>3
<1> HIDE DEF w
<1>5. DOMAIN w = 1..(Len(q) - 1) /\ DOMAIN q = 1..Len(q)  BY <1>1, <1>4
<1>6. \A k \in 1..(Len(q) - 1) : w[k] = IF k < n THEN q[k] ELSE q[k + 1]
  <2> TAKE k \in 1..(Len(q) - 1)
  <2>1. CASE k < n  BY <1>1, <1>2, <1>4, <2>1
  <2>2. CASE ~(k < n)
    <3>1. k - (n - 1) \in 1..(Len(q) - n)  BY <1>1, <2>2
    <3>2. b[k - (n - 1)] = q[n + (k - (n - 1))]  BY <1>3, <3>1
    <3>3. n + (k - (n - 1)) = k + 1  BY <1>1
    <3> QED  BY <1>1, <1>4, <2>2, <3>2, <3>3
  <2> QED  BY <2>1, <2>2
<1>7. \A k \in DOMAIN w : IF k < n THEN k \in DOMAIN q /\ w[k] = q[k]
                          ELSE k + 1 \in DOMAIN q /\ w[k] = q[k + 1]
  BY <1>1, <1>5, <1>6
<1>8. \A k \in DOMAIN q : /\ k < n => k \in DOMAIN w /\ w[k] = q[k]
                          /\ k > n => k - 1 \in DOMAIN w /\ w[k - 1] = q[k]
  BY <1>1, <1>5, <1>6
<1>9. RemoveAt(q, n) = w  BY DEF RemoveAt, a, b, w
<1> QED  BY <1>4, <1>7, <1>8, <1>9

----------------------------------------------------------------------------
(* The lock.  pc is the state of each request.                             *)

Waiting == {"loading", "ensure", "search"}

\* Every waiter is a request that waits for what it queued for, or a rebuild, or
\* the holder of the lock that was cancelled; nobody is in the queue twice; and
\* who waits is in the queue.
Attends(q, drop, pc) ==
  /\ \A k \in DOMAIN q :
       /\ q[k].by = None => q[k].what = "rebuild" \/ (k = 1 /\ drop)
       /\ q[k].by # None => \/ q[k].what = "ensure" /\ pc[q[k].by] \in {"loading", "ensure"}
                            \/ q[k].what = "search" /\ pc[q[k].by] = "search"
  /\ \A k, l \in DOMAIN q : q[k].by = q[l].by /\ q[k].by # None => k = l
  /\ \A r \in Requests : pc[r] \in Waiting => \E k \in DOMAIN q : q[k].by = r

LEMMA ElementIs == ASSUME NEW S, NEW q \in Seq(S), NEW k \in DOMAIN q PROVE q[k] \in S
OBVIOUS

LEMMA WaiterIs ==
  ASSUME NEW q \in Seq(Waiter), NEW k \in DOMAIN q
  PROVE  q[k] \in Waiter /\ q[k].by \in Requests \cup {None}
<1>1. q[k] \in Waiter  BY ElementIs
<1> QED  BY <1>1 DEF Waiter

\* A request that is not in the queue goes on.
LEMMA OthersAttend ==
  ASSUME NEW q, NEW d, NEW p1, NEW p2, Attends(q, d, p1),
         q \in Seq(Waiter),
         \A r \in Requests : p2[r] = p1[r] \/ (p1[r] \notin Waiting /\ p2[r] \notin Waiting)
  PROVE  Attends(q, d, p2)
<1>1. \A k \in DOMAIN q : q[k].by \in Requests \cup {None}  BY WaiterIs
<1>2. \A k \in DOMAIN q : q[k].by # None => p2[q[k].by] = p1[q[k].by]
  BY <1>1 DEF Attends, Waiting
<1> QED  BY <1>2 DEF Attends, Waiting

\* The holder leaves, and does not wait any more.
LEMMA HolderLeaves ==
  ASSUME NEW q \in Seq(Waiter), q # <<>>, NEW d, NEW p1, NEW p2, Attends(q, d, p1),
         \A r \in Requests : IF r = Head(q).by THEN p2[r] \notin Waiting ELSE p2[r] = p1[r]
  PROVE  Attends(Tail(q), FALSE, p2)
<1> DEFINE t == Tail(q)
<1>1. /\ t \in Seq(Waiter)
      /\ \A k \in DOMAIN t : k + 1 \in DOMAIN q /\ t[k] = q[k + 1]
      /\ \A k \in DOMAIN q : k # 1 => k - 1 \in DOMAIN t /\ t[k - 1] = q[k]
  BY TailIs
<1>2. Head(q) = q[1] /\ 1 \in DOMAIN q  BY HeadIs
<1>3. \A k \in DOMAIN t : k \in Nat /\ k # 0  BY <1>1
<1> HIDE DEF t
<1>4. \A k \in DOMAIN t : t[k].by \in Requests \cup {None}  BY <1>1, WaiterIs
<1>5. \A k \in DOMAIN t : t[k].by # None => t[k].by # q[1].by
  BY <1>1, <1>2, <1>3 DEF Attends
<1>6. \A k \in DOMAIN t : t[k].by # None => p2[t[k].by] = p1[t[k].by]
  BY <1>2, <1>4, <1>5
<1>7. ASSUME NEW k \in DOMAIN t, t[k].by = None PROVE t[k].what = "rebuild"
  BY <1>1, <1>3, <1>7 DEF Attends
<1>8. ASSUME NEW r \in Requests, p2[r] \in Waiting PROVE \E k \in DOMAIN t : t[k].by = r
  <2>1. r # q[1].by /\ p1[r] \in Waiting  BY <1>2, <1>8
  <2>2. PICK k \in DOMAIN q : q[k].by = r  BY <2>1 DEF Attends
  <2> QED  BY <1>1, <2>1, <2>2
<1>9. ASSUME NEW k \in DOMAIN t, NEW l \in DOMAIN t, t[k].by = t[l].by, t[k].by # None
      PROVE  k = l
  <2>1. k + 1 \in DOMAIN q /\ l + 1 \in DOMAIN q /\ t[k] = q[k + 1] /\ t[l] = q[l + 1]  BY <1>1
  <2>2. k + 1 = l + 1  BY <1>9, <2>1 DEF Attends
  <2> QED  BY <1>3, <2>2
<1>10. \A k \in DOMAIN t : t[k].by # None =>
          \/ t[k].what = "ensure" /\ p2[t[k].by] \in {"loading", "ensure"}
          \/ t[k].what = "search" /\ p2[t[k].by] = "search"
  BY <1>1, <1>6 DEF Attends
<1> QED  BY <1>7, <1>8, <1>9, <1>10 DEF Attends, t

\* A request, or a rebuild, joins the queue.
LEMMA RequestJoins ==
  ASSUME NEW q \in Seq(Waiter), NEW d, NEW p1, NEW p2, Attends(q, d, p1),
         NEW r \in Requests, p1[r] \notin Waiting, NEW x \in Waiter, x.by = r,
         \/ x.what = "ensure" /\ p2[r] \in {"loading", "ensure"}
         \/ x.what = "search" /\ p2[r] = "search",
         \A s \in Requests : s # r => p2[s] = p1[s]
  PROVE  Attends(Append(q, x), d, p2)
<1> DEFINE w == Append(q, x)
           n == Len(q) + 1
<1>1. /\ DOMAIN w = DOMAIN q \cup {n} /\ n \notin DOMAIN q /\ w[n] = x
      /\ \A k \in DOMAIN q : w[k] = q[k]
  BY AppendIs
<1> HIDE DEF w, n
<1>2. r # None  BY AskConstants
<1>3. \A k \in DOMAIN q : q[k].by \in Requests \cup {None}  BY WaiterIs
<1>4. \A k \in DOMAIN q : q[k].by # r  BY <1>2 DEF Attends, Waiting
<1>5. \A k \in DOMAIN q : q[k].by # None => p2[q[k].by] = p1[q[k].by]  BY <1>3, <1>4
<1>6. ASSUME NEW k \in DOMAIN w
      PROVE  /\ w[k].by = None => w[k].what = "rebuild" \/ (k = 1 /\ d)
             /\ w[k].by # None => \/ w[k].what = "ensure" /\ p2[w[k].by] \in {"loading", "ensure"}
                                  \/ w[k].what = "search" /\ p2[w[k].by] = "search"
  BY <1>1, <1>2, <1>5 DEF Attends
<1>7. \A k, l \in DOMAIN w : w[k].by = w[l].by /\ w[k].by # None => k = l
  BY <1>1, <1>4 DEF Attends
<1>8. \A s \in Requests : p2[s] \in Waiting => \E k \in DOMAIN w : w[k].by = s
  BY <1>1 DEF Attends
<1> QED  BY <1>6, <1>7, <1>8 DEF Attends, w

LEMMA RebuildJoins ==
  ASSUME NEW q \in Seq(Waiter), NEW d, NEW p1, Attends(q, d, p1)
  PROVE  Attends(Append(q, Op("rebuild", None)), d, p1)
<1> DEFINE x == Op("rebuild", None)
           w == Append(q, x)
           n == Len(q) + 1
<1>1. x \in Waiter /\ x.by = None /\ x.what = "rebuild"  BY DEF Op, Waiter
<1> HIDE DEF x
<1>2. /\ DOMAIN w = DOMAIN q \cup {n} /\ n \notin DOMAIN q /\ w[n] = x
      /\ \A k \in DOMAIN q : w[k] = q[k]
  BY <1>1, AppendIs
<1> HIDE DEF w, n
<1> QED  BY <1>1, <1>2 DEF Attends, w, x

\* A waiter that does not hold the lock leaves the queue.
LEMMA WaiterLeaves ==
  ASSUME NEW q \in Seq(Waiter), NEW d, NEW p1, NEW p2, Attends(q, d, p1),
         NEW n \in DOMAIN q, n # 1, NEW r \in Requests, q[n].by = r, p2[r] \notin Waiting,
         \A s \in Requests : s # r => p2[s] = p1[s]
  PROVE  Attends(RemoveAt(q, n), d, p2)
<1> DEFINE w == RemoveAt(q, n)
<1>1. /\ w \in Seq(Waiter)
      /\ \A k \in DOMAIN w : IF k < n THEN k \in DOMAIN q /\ w[k] = q[k]
                             ELSE k + 1 \in DOMAIN q /\ w[k] = q[k + 1]
      /\ \A k \in DOMAIN q : /\ k < n => k \in DOMAIN w /\ w[k] = q[k]
                             /\ k > n => k - 1 \in DOMAIN w /\ w[k - 1] = q[k]
  BY RemoveAtIs
<1> HIDE DEF w
<1>2. r # None /\ n \in Nat /\ n > 1 /\ DOMAIN w \subseteq Nat /\ DOMAIN q \subseteq Nat
  BY <1>1, AskConstants
<1> DEFINE o(k) == IF k < n THEN k ELSE k + 1
<1>3. \A k \in DOMAIN w : /\ o(k) \in DOMAIN q /\ w[k] = q[o(k)] /\ o(k) # n
                          /\ (o(k) = 1 => k = 1)
  BY <1>1, <1>2
<1>4. \A k, l \in DOMAIN w : o(k) = o(l) => k = l  BY <1>2
<1> HIDE DEF o
<1>5. \A k \in DOMAIN w : w[k].by # r  BY <1>2, <1>3 DEF Attends
<1>6. \A k \in DOMAIN w : w[k].by \in Requests \cup {None}  BY <1>1, WaiterIs
<1>7. \A k \in DOMAIN w : w[k].by # None => p2[w[k].by] = p1[w[k].by]  BY <1>5, <1>6
<1>8. ASSUME NEW k \in DOMAIN w
      PROVE  /\ w[k].by = None => w[k].what = "rebuild" \/ (k = 1 /\ d)
             /\ w[k].by # None => \/ w[k].what = "ensure" /\ p2[w[k].by] \in {"loading", "ensure"}
                                  \/ w[k].what = "search" /\ p2[w[k].by] = "search"
  BY <1>3, <1>7 DEF Attends
<1>9. \A k, l \in DOMAIN w : w[k].by = w[l].by /\ w[k].by # None => k = l
  BY <1>3, <1>4 DEF Attends
<1>10. ASSUME NEW s \in Requests, p2[s] \in Waiting PROVE \E k \in DOMAIN w : w[k].by = s
  <2>1. s # r /\ p1[s] \in Waiting  BY <1>10
  <2>2. PICK k \in DOMAIN q : q[k].by = s  BY <2>1 DEF Attends
  <2>3. k # n /\ k \in Nat  BY <1>2, <2>1, <2>2
  <2> QED  BY <1>1, <1>2, <2>2, <2>3
<1> QED  BY <1>8, <1>9, <1>10 DEF Attends, w

\* The holder is cancelled while its thread works.
Dropped(q) == [q EXCEPT ![1].by = None]

LEMMA DroppedIs ==
  ASSUME NEW q \in Seq(Waiter), q # <<>>
  PROVE  LET w == Dropped(q)
         IN  /\ w \in Seq(Waiter) /\ w # <<>> /\ DOMAIN w = DOMAIN q
             /\ w[1] \in Waiter /\ w[1].by = None /\ w[1].what = q[1].what
             /\ \A k \in DOMAIN q : k # 1 => w[k] = q[k]
<1> DEFINE w == [q EXCEPT ![1].by = None]
           x == [q[1] EXCEPT !.by = None]
<1>1. q[1] \in Waiter /\ 1 \in DOMAIN q  BY HeadIs
<1>2. x \in Waiter /\ x.by = None /\ x.what = q[1].what  BY <1>1 DEF Waiter
<1>3. w = [q EXCEPT ![1] = x]  OBVIOUS
<1> HIDE DEF w, x
<1>4. w \in Seq(Waiter) /\ DOMAIN w = DOMAIN q /\ w[1] = x /\ \A k \in DOMAIN q : k # 1 => w[k] = q[k]
  BY <1>1, <1>2, <1>3
<1>5. w # <<>>  BY <1>1, <1>4
<1> QED  BY <1>2, <1>4, <1>5 DEF w, Dropped

LEMMA HolderDrops ==
  ASSUME NEW q \in Seq(Waiter), q # <<>>, NEW d, NEW p1, NEW p2, Attends(q, d, p1),
         NEW r \in Requests, Head(q).by = r, p2[r] \notin Waiting,
         \A s \in Requests : s # r => p2[s] = p1[s]
  PROVE  Attends(Dropped(q), TRUE, p2)
<1> DEFINE w == Dropped(q)
<1>1. q[1] \in Waiter /\ 1 \in DOMAIN q /\ q[1].by = r  BY HeadIs
<1>2. /\ DOMAIN w = DOMAIN q /\ w[1].by = None
      /\ \A k \in DOMAIN q : k # 1 => w[k] = q[k]
  BY DroppedIs
<1> HIDE DEF w
<1>5. r # None  BY AskConstants
<1>6. \A k \in DOMAIN q : k # 1 => q[k].by # r  BY <1>1, <1>5 DEF Attends
<1>7. \A k \in DOMAIN q : q[k].by \in Requests \cup {None}  BY WaiterIs
<1>8. \A k \in DOMAIN q : k # 1 /\ q[k].by # None => p2[q[k].by] = p1[q[k].by]  BY <1>6, <1>7
<1>9. ASSUME NEW k \in DOMAIN w
      PROVE  /\ w[k].by = None => w[k].what = "rebuild" \/ k = 1
             /\ w[k].by # None => \/ w[k].what = "ensure" /\ p2[w[k].by] \in {"loading", "ensure"}
                                  \/ w[k].what = "search" /\ p2[w[k].by] = "search"
  BY <1>2, <1>8 DEF Attends
<1>10. \A k, l \in DOMAIN w : w[k].by = w[l].by /\ w[k].by # None => k = l
  BY <1>2 DEF Attends
<1>11. \A s \in Requests : p2[s] \in Waiting => \E k \in DOMAIN w : w[k].by = s
  BY <1>1, <1>2 DEF Attends
<1>12. Attends(w, TRUE, p2)  BY <1>9, <1>10, <1>11 DEF Attends
<1> QED  BY <1>12 DEF w


----------------------------------------------------------------------------
(* The invariant of the lock.                                              *)

\* Who is in a step holds the lock and is no search; only the holder is
\* cancelled, in a thread; a rebuild is nobody's request.
Steady(m) ==
  /\ m.at # "free" => m.queue # <<>> /\ Head(m.queue).what # "search"
  /\ m.drop => m.at \in {"disk", "build", "index", "meta"} /\ Head(m.queue).by = None
  /\ \A k \in DOMAIN m.queue : m.queue[k].what = "rebuild" => m.queue[k].by = None

RebuildsOnly(q) == \A k \in DOMAIN q : q[k].what = "rebuild"

Pcs == [r \in Requests |-> req[r].pc]

LockInv ==
  /\ \A p \in Procs : Steady(mgr[p]) /\ (p # Web => RebuildsOnly(mgr[p].queue))
  /\ Attends(mgr[Web].queue, mgr[Web].drop, Pcs)

MgrReqOK == /\ mgr \in [Procs -> Manager]
            /\ \A p \in Procs : Len(mgr[p].prefix) <= PrefixSize
            /\ req \in [Requests -> Request]

\* A step of one manager.
LEMMA ManagerChanges ==
  ASSUME MgrReqOK, LockInv, NEW p \in Procs, NEW m2 \in Manager, Len(m2.prefix) <= PrefixSize,
         Steady(m2), mgr' = [mgr EXCEPT ![p] = m2], req' \in [Requests -> Request],
         p # Web => RebuildsOnly(m2.queue) /\ Pcs' = Pcs,
         p = Web => Attends(m2.queue, m2.drop, Pcs')
  PROVE  MgrReqOK' /\ LockInv'
<1>1. mgr \in [Procs -> Manager] /\ Web \in Procs  BY AskConstants DEF MgrReqOK
<1>2. mgr'[p] = m2 /\ (\A o \in Procs : o # p => mgr'[o] = mgr[o]) /\ mgr' \in [Procs -> Manager]
  BY <1>1
<1>3. \A o \in Procs : Len(mgr'[o].prefix) <= PrefixSize  BY <1>2 DEF MgrReqOK
<1>4. \A o \in Procs : Steady(mgr'[o]) /\ (o # Web => RebuildsOnly(mgr'[o].queue))
  BY <1>2 DEF LockInv
<1>5. Attends(mgr'[Web].queue, mgr'[Web].drop, Pcs')  BY <1>1, <1>2 DEF LockInv
<1>6. MgrReqOK'  BY <1>2, <1>3 DEF MgrReqOK
<1>7. LockInv'
  <2>1. \A o \in Procs : Steady(mgr[o])' /\ (o # Web => RebuildsOnly(mgr[o].queue)')  
    BY <1>4 DEF Steady, RebuildsOnly
  <2>2. Attends(mgr[Web].queue, mgr[Web].drop, Pcs)'  BY <1>5 DEF Attends
  <2> QED  BY <2>1, <2>2 DEF LockInv
<1> QED  BY <1>6, <1>7

\* A step of one request, outside the lock.
LEMMA RequestChanges ==
  ASSUME MgrReqOK, LockInv, UNCHANGED mgr, NEW r \in Requests, NEW q2 \in Request,
         req' = [req EXCEPT ![r] = q2], req[r].pc \notin Waiting, q2.pc \notin Waiting
  PROVE  MgrReqOK' /\ LockInv'
<1>1. /\ req' \in [Requests -> Request] /\ Pcs'[r] = q2.pc /\ Pcs[r] = req[r].pc
      /\ \A s \in Requests : s # r => Pcs'[s] = Pcs[s]
  BY DEF MgrReqOK, Pcs
<1>2. MgrReqOK'  BY <1>1 DEF MgrReqOK
<1>3. mgr[Web].queue \in Seq(Waiter)  BY AskConstants DEF MgrReqOK, Manager
<1>4. Attends(mgr[Web].queue, mgr[Web].drop, Pcs')
  <2>1. Attends(mgr[Web].queue, mgr[Web].drop, Pcs)  BY DEF LockInv
  <2>2. \A s \in Requests : Pcs'[s] = Pcs[s] \/ (Pcs[s] \notin Waiting /\ Pcs'[s] \notin Waiting)
    BY <1>1
  <2> HIDE DEF Pcs
  <2> QED  BY <1>3, <2>1, <2>2, OthersAttend
<1>5. LockInv'
  <2>1. \A o \in Procs : Steady(mgr[o])' /\ (o # Web => RebuildsOnly(mgr[o].queue)')
    BY DEF Steady, RebuildsOnly, LockInv
  <2>2. Attends(mgr[Web].queue, mgr[Web].drop, Pcs)'  BY <1>4 DEF Attends
  <2> QED  BY <2>1, <2>2 DEF LockInv
<1> QED  BY <1>2, <1>5

LEMMA ManagerIs ==
  ASSUME MgrReqOK, LockInv, NEW p \in Procs
  PROVE  /\ mgr[p] \in Manager /\ mgr[p].queue \in Seq(Waiter) /\ mgr[p].prefix \in Seq(Nat \X Corpora)
         /\ mgr[p].corpus \in Corpora /\ mgr[p].retriever \in Corpora \cup {None}
         /\ mgr[p].drop \in BOOLEAN /\ mgr[p].loaded \in BOOLEAN
         /\ Len(mgr[p].prefix) <= PrefixSize /\ Steady(mgr[p])
<1>1. mgr[p] \in Manager  BY DEF MgrReqOK
<1> QED  BY <1>1 DEF MgrReqOK, LockInv, Manager

LEMMA ReleasedIs ==
  ASSUME NEW m \in Manager, m.queue # <<>>
  PROVE  /\ Released(m) \in Manager
         /\ Released(m).loaded = m.loaded /\ Released(m).corpus = m.corpus
         /\ Released(m).retriever = m.retriever /\ Released(m).prefix = m.prefix
         /\ Released(m).queue = Tail(m.queue) /\ Released(m).at = "free" /\ Released(m).drop = FALSE
<1>1. m.queue \in Seq(Waiter)  BY DEF Manager
<1> DEFINE t == Tail(m.queue)
<1>2. t \in Seq(Waiter)  BY <1>1, TailIs
<1> HIDE DEF t
<1>3. Released(m) = [m EXCEPT !.queue = t, !.at = "free", !.drop = FALSE]  BY DEF Released, t
<1> QED  BY <1>2, <1>3 DEF Manager, t

\* Once the holder has left, the lock is free.
LEMMA ReleasedIsSteady ==
  ASSUME NEW m \in Manager, m.queue # <<>>,
         \A k \in DOMAIN m.queue : m.queue[k].what = "rebuild" => m.queue[k].by = None
  PROVE  Steady(Released(m)) /\ (RebuildsOnly(m.queue) => RebuildsOnly(Released(m).queue))
<1>1. m.queue \in Seq(Waiter)  BY DEF Manager
<1>2. \A k \in DOMAIN Tail(m.queue) :
         k + 1 \in DOMAIN m.queue /\ Tail(m.queue)[k] = m.queue[k + 1]
  BY <1>1, TailIs
<1>3. /\ Released(m).queue = Tail(m.queue) /\ Released(m).at = "free"
      /\ Released(m).drop = FALSE
  BY ReleasedIs
<1> QED  BY <1>2, <1>3 DEF Steady, RebuildsOnly

\* What the holder is: a request that waits for what it queued for, or a rebuild.
LEMMA HolderIs ==
  ASSUME MgrReqOK, LockInv, NEW p \in Procs, mgr[p].queue # <<>>
  PROVE  LET h == Head(mgr[p].queue)
         IN  /\ h \in Waiter /\ h = mgr[p].queue[1] /\ 1 \in DOMAIN mgr[p].queue
             /\ p # Web => h.what = "rebuild"
             /\ h.what = "rebuild" => h.by = None
             /\ h.what # "rebuild" /\ ~mgr[p].drop =>
                  /\ h.by \in Requests /\ h.by # None
                  /\ \/ h.what = "ensure" /\ req[h.by].pc \in {"loading", "ensure"}
                     \/ h.what = "search" /\ req[h.by].pc = "search"
<1> DEFINE h == Head(mgr[p].queue)
<1>1. mgr[p].queue \in Seq(Waiter) /\ Steady(mgr[p])  BY ManagerIs
<1>2. h \in Waiter /\ h = mgr[p].queue[1] /\ 1 \in DOMAIN mgr[p].queue  BY <1>1, HeadIs
<1> HIDE DEF h
<1>3. p # Web => h.what = "rebuild"  BY <1>2 DEF LockInv, RebuildsOnly
<1>4. h.what = "rebuild" => h.by = None  BY <1>1, <1>2 DEF Steady
<1>5. ASSUME h.what # "rebuild", ~mgr[p].drop
      PROVE  /\ h.by \in Requests /\ h.by # None
             /\ \/ h.what = "ensure" /\ req[h.by].pc \in {"loading", "ensure"}
                \/ h.what = "search" /\ req[h.by].pc = "search"
  <2>1. p = Web  BY <1>3, <1>5
  <2>2. Attends(mgr[Web].queue, FALSE, Pcs)
    <3>1. mgr[Web].drop = FALSE  BY <1>5, <2>1, ManagerIs
    <3> QED  BY <3>1 DEF LockInv
  <2>3. h.by # None  BY <1>2, <1>5, <2>1, <2>2 DEF Attends
  <2>4. h.by \in Requests  BY <1>2, <2>3 DEF Waiter
  <2>5. Pcs[h.by] = req[h.by].pc  BY <2>4 DEF Pcs
  <2>6. \/ h.what = "ensure" /\ Pcs[h.by] \in {"loading", "ensure"}
        \/ h.what = "search" /\ Pcs[h.by] = "search"
    BY <1>2, <2>1, <2>2, <2>3 DEF Attends
  <2> QED  BY <2>3, <2>4, <2>5, <2>6
<1> QED  BY <1>2, <1>3, <1>4, <1>5 DEF h

\* The holder leaves the lock without its caller: a rebuild or a cancelled one.
LEMMA NobodyLeaves ==
  ASSUME MgrReqOK, LockInv, NEW p \in Procs, NEW m \in Manager, m.queue = mgr[p].queue,
         m.queue # <<>>, Head(m.queue).by = None, Len(m.prefix) <= PrefixSize,
         mgr' = [mgr EXCEPT ![p] = Released(m)], UNCHANGED req
  PROVE  MgrReqOK' /\ LockInv'
<1> DEFINE n == Released(m)
<1>1. \A k \in DOMAIN m.queue : m.queue[k].what = "rebuild" => m.queue[k].by = None
  BY ManagerIs DEF Steady
<1>2. /\ n \in Manager /\ n.prefix = m.prefix /\ n.queue = Tail(m.queue)
      /\ n.drop = FALSE
  BY ReleasedIs
<1>3. Steady(n) /\ (RebuildsOnly(m.queue) => RebuildsOnly(n.queue))  BY <1>1, ReleasedIsSteady
<1> HIDE DEF n
<1>4. p # Web => RebuildsOnly(n.queue)  BY <1>3 DEF LockInv
<1>5. Pcs' = Pcs  BY DEF Pcs
<1>6. p = Web => Attends(n.queue, n.drop, Pcs')
  <2> SUFFICES ASSUME p = Web PROVE Attends(Tail(m.queue), FALSE, Pcs)  BY <1>2, <1>5
  <2>1. Attends(m.queue, mgr[p].drop, Pcs)  BY DEF LockInv
  <2>2. m.queue \in Seq(Waiter)  BY ManagerIs
  <2>3. \A r \in Requests : r # Head(m.queue).by  BY AskConstants
  <2> QED  BY <2>1, <2>2, <2>3, HolderLeaves
<1>7. req' \in [Requests -> Request]  BY DEF MgrReqOK
<1>8. mgr' = [mgr EXCEPT ![p] = n]  BY DEF n
<1> QED  BY <1>2, <1>3, <1>4, <1>5, <1>6, <1>7, <1>8, ManagerChanges

\* The holder leaves the lock and its caller goes on, not waiting.
LEMMA CallerLeaves ==
  ASSUME MgrReqOK, LockInv, NEW m \in Manager, m.queue = mgr[Web].queue,
         m.queue # <<>>, Len(m.prefix) <= PrefixSize,
         NEW r \in Requests, Head(m.queue).by = r, NEW q2 \in Request, q2.pc \notin Waiting,
         mgr' = [mgr EXCEPT ![Web] = Released(m)], req' = [req EXCEPT ![r] = q2]
  PROVE  MgrReqOK' /\ LockInv'
<1> DEFINE n == Released(m)
<1>0. Web \in Procs  BY AskConstants
<1>1. \A k \in DOMAIN m.queue : m.queue[k].what = "rebuild" => m.queue[k].by = None
  BY <1>0, ManagerIs DEF Steady
<1>2. /\ n \in Manager /\ n.prefix = m.prefix /\ n.queue = Tail(m.queue)
      /\ n.drop = FALSE
  BY ReleasedIs
<1>3. Steady(n)  BY <1>1, ReleasedIsSteady
<1> HIDE DEF n
<1>4. /\ req' \in [Requests -> Request] /\ Pcs'[r] = q2.pc
      /\ \A s \in Requests : s # r => Pcs'[s] = Pcs[s]
  BY DEF MgrReqOK, Pcs
<1>5. Attends(Tail(m.queue), FALSE, Pcs')
  <2>1. Attends(m.queue, mgr[Web].drop, Pcs)  BY DEF LockInv
  <2>2. m.queue \in Seq(Waiter)  BY <1>0, ManagerIs
  <2>3. \A s \in Requests :
           IF s = Head(m.queue).by THEN Pcs'[s] \notin Waiting ELSE Pcs'[s] = Pcs[s]
    BY <1>4
  <2> HIDE DEF Pcs
  <2> QED  BY <2>1, <2>2, <2>3, HolderLeaves
<1>8. mgr' = [mgr EXCEPT ![Web] = n]  BY DEF n
<1>9. Attends(n.queue, n.drop, Pcs')  BY <1>2, <1>5
<1> QED  BY <1>0, <1>2, <1>3, <1>4, <1>8, <1>9, ManagerChanges

\* The request r joins the queue of the web process.
LEMMA CallerJoins ==
  ASSUME MgrReqOK, LockInv, NEW r \in Requests, req[r].pc \notin Waiting,
         NEW q2 \in Request, NEW what,
         \/ what = "ensure" /\ q2.pc \in {"loading", "ensure"}
         \/ what = "search" /\ q2.pc = "search",
         mgr' = [mgr EXCEPT ![Web].queue = Append(@, Op(what, r))], req' = [req EXCEPT ![r] = q2]
  PROVE  MgrReqOK' /\ LockInv'
<1> DEFINE x == Op(what, r)
           q == mgr[Web].queue
           n == [mgr[Web] EXCEPT !.queue = Append(q, x)]
<1>0. Web \in Procs  BY AskConstants
<1>1. x \in Waiter /\ x.by = r /\ x.what = what  BY DEF Op, Waiter
<1>2. mgr[Web] \in Manager /\ q \in Seq(Waiter) /\ Steady(mgr[Web])
      /\ Len(mgr[Web].prefix) <= PrefixSize
  BY <1>0, ManagerIs
<1>3. mgr' = [mgr EXCEPT ![Web] = n]  BY DEF x, n
<1> HIDE DEF x
<1> DEFINE w == Append(q, x)
<1>4. /\ w \in Seq(Waiter) /\ DOMAIN w = DOMAIN q \cup {Len(q) + 1} /\ w[Len(q) + 1] = x
      /\ \A k \in DOMAIN q : w[k] = q[k]
  BY <1>1, <1>2, AppendIs
<1>5. /\ w # <<>> /\ Head(w) = w[1]  BY <1>4, <1>2, HeadIs
<1>6. q # <<>> => Head(w) = Head(q)  BY <1>2, <1>4, <1>5, HeadIs
<1>7. Attends(w, mgr[Web].drop, Pcs')
  <2>1. Attends(q, mgr[Web].drop, Pcs)  BY DEF LockInv
  <2>2. /\ Pcs'[r] = q2.pc /\ Pcs[r] = req[r].pc
        /\ \A s \in Requests : s # r => Pcs'[s] = Pcs[s]
    BY DEF MgrReqOK, Pcs
  <2> HIDE DEF Pcs, q, w
  <2>3. w = Append(q, x)  BY DEF w
  <2>4. \/ x.what = "ensure" /\ Pcs'[r] \in {"loading", "ensure"}
        \/ x.what = "search" /\ Pcs'[r] = "search"
    BY <1>1, <2>2
  <2> QED  BY <1>1, <1>2, <2>1, <2>2, <2>3, <2>4, RequestJoins
<1> HIDE DEF w
<1>8. /\ n \in Manager /\ n.prefix = mgr[Web].prefix /\ n.queue = w /\ n.at = mgr[Web].at
      /\ n.drop = mgr[Web].drop
  BY <1>2, <1>4 DEF Manager, w
<1> HIDE DEF n
<1>9. Steady(n)
  <2>1. n.at # "free" => Head(w).what # "search"  BY <1>2, <1>6, <1>8 DEF Steady
  <2>2. n.drop => /\ n.at \in {"disk", "build", "index", "meta"} /\ Head(w).by = None
    BY <1>2, <1>6, <1>8 DEF Steady
  <2>3. \A k \in DOMAIN w : w[k].what = "rebuild" => w[k].by = None
    <3>1. \A k \in DOMAIN q : q[k].what = "rebuild" => q[k].by = None  BY <1>2 DEF Steady
    <3> HIDE DEF q
    <3> QED  BY <1>1, <1>4, <3>1
  <2> QED  BY <1>5, <1>8, <2>1, <2>2, <2>3 DEF Steady
<1>10. req' \in [Requests -> Request]  BY DEF MgrReqOK
<1>11. Attends(n.queue, n.drop, Pcs')  BY <1>7, <1>8
<1>12. Len(n.prefix) <= PrefixSize  BY <1>2, <1>8
<1> QED  BY <1>0, <1>3, <1>8, <1>9, <1>10, <1>11, <1>12, ManagerChanges

LEMMA RequestIs ==
  ASSUME MgrReqOK, NEW r \in Requests
  PROVE  /\ req[r] \in Request
         /\ \A s \in {"lookup", "search", "ensure", "loading", "gathered", "decide", "save"} :
              [req[r] EXCEPT !.pc = s] \in Request /\ [req[r] EXCEPT !.pc = s].pc = s
<1>1. req[r] \in Request  BY DEF MgrReqOK
<1> QED  BY <1>1 DEF Request

\* The holder is done, and its caller goes on, or queues for its search.
LEMMA FinishAttends ==
  ASSUME MgrReqOK, LockInv, NEW p \in Procs, NEW m \in Manager, m.queue = mgr[p].queue,
         m.queue # <<>>, Head(m.queue).what # "search", ~mgr[p].drop,
         Len(m.prefix) <= PrefixSize, Finish(p, m)
  PROVE  MgrReqOK' /\ LockInv'
<1> DEFINE h == Head(m.queue)
           l == [m EXCEPT !.loaded = TRUE]
<1>1. /\ l \in Manager /\ l.queue = m.queue /\ l.prefix = m.prefix  BY DEF Manager
<1>2. /\ h \in Waiter /\ (p # Web => h.what = "rebuild") /\ (h.what = "rebuild" => h.by = None)
      /\ h.what # "rebuild" => /\ h.by \in Requests /\ h.by # None /\ h.what = "ensure"
                               /\ req[h.by].pc \in {"loading", "ensure"}
  BY HolderIs
<1>3. /\ mgr' = [mgr EXCEPT ![p] = Resume(Released(l), h)] /\ req' = ResumedReq(h)
  BY DEF Finish, Holder, l, h
<1> HIDE DEF l, h
<1>4. CASE h.what = "rebuild"
  <2>1. mgr' = [mgr EXCEPT ![p] = Released(l)]  BY <1>3, <1>4 DEF Resume
  <2>2. UNCHANGED req  BY <1>3, <1>4 DEF ResumedReq
  <2> QED  BY <1>1, <1>2, <1>4, <2>1, <2>2, NobodyLeaves DEF h
<1>5. CASE h.what # "rebuild" /\ req[h.by].pc = "loading"
  <2> DEFINE r == h.by
             q2 == [req[r] EXCEPT !.pc = "lookup"]
  <2>1. p = Web /\ r \in Requests /\ h.what = "ensure"  BY <1>2, <1>5
  <2>2. mgr' = [mgr EXCEPT ![Web] = Released(l)]  BY <1>3, <1>5, <2>1 DEF Resume
  <2>3. req' = [req EXCEPT ![r] = q2]  BY <1>3, <1>5, <2>1 DEF ResumedReq
  <2>4. q2 \in Request /\ q2.pc \notin Waiting  BY <2>1, RequestIs DEF Waiting
  <2> HIDE DEF q2
  <2> QED  BY <1>1, <2>1, <2>2, <2>3, <2>4, CallerLeaves DEF h
<1>6. CASE h.what # "rebuild" /\ req[h.by].pc = "ensure"
  <2> DEFINE r == h.by
             q2 == [req[r] EXCEPT !.pc = "search"]
             x == Op("search", r)
             e == Released(l)
             t == Tail(m.queue)
             n == [e EXCEPT !.queue = Append(t, x)]
  <2>1. p = Web /\ r \in Requests /\ h.what = "ensure"  BY <1>2, <1>6
  <2>2. /\ e \in Manager /\ e.prefix = m.prefix /\ e.queue = t /\ e.at = "free"
        /\ e.drop = FALSE
    BY <1>1, ReleasedIs
  <2>3. mgr' = [mgr EXCEPT ![Web] = n]  BY <1>3, <1>6, <2>1, <2>2 DEF Resume
  <2>4. req' = [req EXCEPT ![r] = q2]  BY <1>3, <1>6, <2>1 DEF ResumedReq
  <2>5. q2 \in Request /\ q2.pc = "search"  BY <2>1, RequestIs
  <2>6. /\ Pcs'[r] = "search" /\ Pcs[r] = "ensure" /\ req' \in [Requests -> Request]
        /\ \A s \in Requests : s # r => Pcs'[s] = Pcs[s]
    <3> HIDE DEF q2
    <3> QED  BY <1>6, <2>1, <2>4, <2>5 DEF MgrReqOK, Pcs
  <2>7. x \in Waiter /\ x.by = r /\ x.what = "search"  BY <2>1 DEF Op, Waiter
  <2> HIDE DEF q2, x, e
  <2>8. m.queue \in Seq(Waiter) /\ t \in Seq(Waiter)  BY ManagerIs, TailIs
  <2> DEFINE pc1 == [s \in Requests |-> IF s = r THEN "tool" ELSE Pcs[s]]
  <2>9. Attends(t, FALSE, pc1)
    <3>1. Attends(m.queue, mgr[Web].drop, Pcs)  BY <2>1 DEF LockInv
    <3>2. \A s \in Requests : IF s = Head(m.queue).by THEN pc1[s] \notin Waiting ELSE pc1[s] = Pcs[s]
      BY DEF h, Waiting
    <3> HIDE DEF pc1
    <3> QED  BY <2>8, <3>1, <3>2, HolderLeaves
  <2>10. Attends(Append(t, x), FALSE, Pcs')
    <3>1. pc1[r] \notin Waiting  BY <2>1 DEF Waiting
    <3>2. \A s \in Requests : s # r => Pcs'[s] = pc1[s]  BY <2>6
    <3> HIDE DEF pc1, Pcs, t
    <3> QED  BY <2>1, <2>6, <2>7, <2>8, <2>9, <3>1, <3>2, RequestJoins
  <2> DEFINE w == Append(t, x)
  <2>11. /\ w \in Seq(Waiter) /\ DOMAIN w = DOMAIN t \cup {Len(t) + 1} /\ w[Len(t) + 1] = x
         /\ \A k \in DOMAIN t : w[k] = t[k]
    BY <2>7, <2>8, AppendIs
  <2>12. \A k \in DOMAIN w : w[k].what = "rebuild" => w[k].by = None
    <3>1. \A k \in DOMAIN m.queue : m.queue[k].what = "rebuild" => m.queue[k].by = None
      BY ManagerIs DEF Steady
    <3>2. \A k \in DOMAIN t : k + 1 \in DOMAIN m.queue /\ t[k] = m.queue[k + 1]
      BY <2>8, TailIs
    <3> QED  BY <2>7, <2>11, <3>1, <3>2
  <2> HIDE DEF w, t
  <2>13. n \in Manager /\ n.queue = w /\ n.at = "free" /\ n.drop = FALSE /\ n.prefix = m.prefix
    BY <2>2, <2>11 DEF Manager, w
  <2> HIDE DEF n
  <2>14. Steady(n)  BY <2>12, <2>13 DEF Steady
  <2>15. Attends(n.queue, n.drop, Pcs')  BY <2>10, <2>13 DEF w
  <2> QED  BY <2>1, <2>3, <2>6, <2>13, <2>14, <2>15, ManagerChanges
<1> QED  BY <1>2, <1>4, <1>5, <1>6

LEMMA FreshIs ==
  /\ Fresh \in Request /\ Ended \in Request /\ Fresh.pc = "new" /\ Ended.pc = "ended"
  /\ Fresh.evidence = {} /\ Fresh.refs = {} /\ Ended.evidence = {} /\ Ended.refs = {}
<1>1. 0 \in 0..MaxIterations /\ 0 \in 0..EvidenceTokens /\ 0 \in 0..DigestTokens  BY AskConstants
<1>2. Fresh \in Request  BY <1>1 DEF Fresh, Request
<1>3. Ended \in Request /\ Ended.pc = "ended" /\ Ended.evidence = Fresh.evidence /\ Ended.refs = Fresh.refs
  BY <1>2 DEF Ended, Request
<1> QED  BY <1>2, <1>3 DEF Fresh

\* The holder got an exception.
LEMMA RaisedAttends ==
  ASSUME MgrReqOK, LockInv, NEW p \in Procs, mgr[p].at # "free", Raised(p, mgr[p])
  PROVE  MgrReqOK' /\ LockInv'
<1> DEFINE m == mgr[p]
           h == Head(m.queue)
<1>1. m \in Manager /\ m.queue # <<>> /\ h.what # "search" /\ Len(m.prefix) <= PrefixSize
  BY ManagerIs DEF Steady
<1>2. /\ h \in Waiter /\ (p # Web => h.what = "rebuild") /\ (h.what = "rebuild" => h.by = None)
      /\ h.what # "rebuild" /\ ~m.drop => h.by \in Requests
  BY <1>1, HolderIs
<1>3. m.drop => h.by = None  BY ManagerIs DEF Steady
<1>4. /\ mgr' = [mgr EXCEPT ![p] = Released(m)]
      /\ req' = IF h.what = "rebuild" \/ m.drop THEN req ELSE [req EXCEPT ![h.by] = Ended]
  BY DEF Raised, Holder
<1>5. CASE h.what = "rebuild" \/ m.drop
  <2>1. h.by = None /\ UNCHANGED req  BY <1>2, <1>3, <1>4, <1>5
  <2> QED  BY <1>1, <1>4, <2>1, NobodyLeaves
<1>6. CASE ~(h.what = "rebuild" \/ m.drop)
  <2>1. p = Web /\ h.by \in Requests /\ req' = [req EXCEPT ![h.by] = Ended]  BY <1>2, <1>4, <1>6
  <2>2. Ended \in Request /\ Ended.pc \notin Waiting  BY FreshIs DEF Waiting
  <2> QED  BY <1>1, <1>4, <2>1, <2>2, CallerLeaves
<1> QED  BY <1>5, <1>6

\* The thread of a cancelled holder has ended.
LEMMA DrainedAttends ==
  ASSUME MgrReqOK, LockInv, NEW p \in Procs, mgr[p].at # "free", mgr[p].drop,
         NEW m \in Manager, m.queue = mgr[p].queue, Len(m.prefix) <= PrefixSize, Drained(p, m)
  PROVE  MgrReqOK' /\ LockInv'
<1>1. m.queue # <<>> /\ Head(m.queue).by = None  BY ManagerIs DEF Steady
<1> QED  BY <1>1, NobodyLeaves DEF Drained

\* The holder goes on with its next step.
LEMMA HolderStays ==
  ASSUME MgrReqOK, LockInv, NEW p \in Procs, NEW m2 \in Manager, m2.queue = mgr[p].queue,
         m2.queue # <<>>, Head(m2.queue).what # "search", m2.drop = mgr[p].drop,
         m2.drop => m2.at \in {"disk", "build", "index", "meta"},
         Len(m2.prefix) <= PrefixSize, mgr' = [mgr EXCEPT ![p] = m2], UNCHANGED req
  PROVE  MgrReqOK' /\ LockInv'
<1>1. Steady(m2)  BY ManagerIs DEF Steady
<1>2. Pcs' = Pcs /\ req' \in [Requests -> Request]  BY DEF Pcs, MgrReqOK
<1>3. p # Web => RebuildsOnly(m2.queue)  BY DEF LockInv
<1>4. p = Web => Attends(m2.queue, m2.drop, Pcs')  BY <1>2 DEF LockInv
<1> QED  BY <1>1, <1>2, <1>3, <1>4, ManagerChanges

LEMMA EnterAttends ==
  ASSUME MgrReqOK, LockInv, NEW p \in Procs, Enter(p) PROVE MgrReqOK' /\ LockInv'
<1> DEFINE m == mgr[p]
           m2 == [m EXCEPT !.loaded = FALSE, !.at = "rows"]
<1>1. /\ m \in Manager /\ Len(m.prefix) <= PrefixSize /\ m.queue # <<>> /\ Head(m.queue).what # "search"
      /\ m.drop \in BOOLEAN /\ ~m.drop
  BY ManagerIs DEF Enter, Holder, Steady
<1>2. CASE Finish(p, m)  BY <1>1, <1>2, FinishAttends
<1>3. CASE mgr' = [mgr EXCEPT ![p].loaded = FALSE, ![p].at = "rows"] /\ UNCHANGED req
  <2>1. mgr' = [mgr EXCEPT ![p] = m2]  BY <1>3 DEF MgrReqOK
  <2> HIDE DEF m
  <2>2. m2 \in Manager /\ m2.queue = m.queue /\ m2.drop = m.drop /\ m2.prefix = m.prefix
    BY <1>1 DEF Manager
  <2> HIDE DEF m2
  <2> QED  BY <1>1, <1>3, <2>1, <2>2, HolderStays DEF m
<1> QED  BY <1>2, <1>3 DEF Enter

LEMMA LoadCorpusRowsAttends ==
  ASSUME MgrReqOK, LockInv, chunks \in Corpora, NEW p \in Procs, LoadCorpusRows(p)
  PROVE  MgrReqOK' /\ LockInv'
<1> DEFINE o == mgr[p]
           m == [o EXCEPT !.corpus = chunks, !.prefix = <<>>]
           m1 == [m EXCEPT !.retriever = None]
           at2 == IF Holder(m).what = "rebuild" THEN "build" ELSE "disk"
           m2 == [m EXCEPT !.at = at2]
<1>1. /\ o \in Manager /\ o.queue # <<>> /\ Head(o.queue).what # "search" /\ o.drop \in BOOLEAN /\ ~o.drop
  BY ManagerIs DEF LoadCorpusRows, Steady
<1>2. Finish(p, m1) \/ (mgr' = [mgr EXCEPT ![p] = m2] /\ UNCHANGED req)
  BY DEF LoadCorpusRows
<1>3. at2 \in {"build", "disk"}  OBVIOUS
<1> HIDE DEF at2, o
<1>4. m \in Manager /\ m.queue = o.queue /\ m.drop = o.drop /\ m.prefix = <<>>
  <2> DEFINE e == <<>>
  <2>1. e \in Seq(Nat \X Corpora) /\ m = [o EXCEPT !.corpus = chunks, !.prefix = e]  OBVIOUS
  <2> HIDE DEF e, m
  <2> QED  BY <1>1, <2>1 DEF Manager, e
<1> HIDE DEF m
<1>5. m1 \in Manager /\ m1.queue = o.queue /\ m1.prefix = <<>>  BY <1>4 DEF Manager
<1>6. m2 \in Manager /\ m2.queue = o.queue /\ m2.drop = o.drop /\ m2.prefix = <<>>
  BY <1>3, <1>4 DEF Manager
<1> HIDE DEF m1, m2
<1>7. Len(<<>>) <= PrefixSize  BY AskConstants
<1>8. CASE Finish(p, m1)  BY <1>1, <1>5, <1>7, <1>8, FinishAttends DEF o
<1>9. CASE mgr' = [mgr EXCEPT ![p] = m2] /\ UNCHANGED req
  BY <1>1, <1>6, <1>7, <1>9, HolderStays DEF o
<1> QED  BY <1>2, <1>8, <1>9

LEMMA TryLoadFromDiskAttends ==
  ASSUME MgrReqOK, LockInv, disk.index \in Corpora \cup {None}, NEW p \in Procs, TryLoadFromDisk(p)
  PROVE  MgrReqOK' /\ LockInv'
<1> DEFINE o == mgr[p]
           fresh == disk.meta = o.corpus
           l == IF fresh THEN [o EXCEPT !.retriever = disk.index] ELSE o
           m2 == [o EXCEPT !.at = "build"]
<1>1. /\ o \in Manager /\ o.queue # <<>> /\ Head(o.queue).what # "search" /\ o.at # "free"
      /\ Len(o.prefix) <= PrefixSize
  BY ManagerIs DEF TryLoadFromDisk, Steady
<1>2. \/ o.drop /\ Drained(p, l)
      \/ ~o.drop /\ Finish(p, l)
      \/ mgr' = [mgr EXCEPT ![p] = m2] /\ UNCHANGED req
  BY DEF TryLoadFromDisk
<1> HIDE DEF o, fresh
<1>3. l \in Manager /\ l.queue = o.queue /\ l.prefix = o.prefix  BY <1>1 DEF Manager
<1>4. /\ m2 \in Manager /\ m2.queue = o.queue /\ m2.prefix = o.prefix /\ m2.drop = o.drop
      /\ m2.at = "build"
  BY <1>1 DEF Manager
<1> HIDE DEF l, m2
<1>5. CASE o.drop /\ Drained(p, l)  BY <1>1, <1>3, <1>5, DrainedAttends DEF o
<1>6. CASE ~o.drop /\ Finish(p, l)  BY <1>1, <1>3, <1>6, FinishAttends DEF o
<1>7. CASE mgr' = [mgr EXCEPT ![p] = m2] /\ UNCHANGED req
  BY <1>1, <1>4, <1>7, HolderStays DEF o
<1> QED  BY <1>2, <1>5, <1>6, <1>7

LEMMA BuildRetrieverAttends ==
  ASSUME MgrReqOK, LockInv, NEW p \in Procs, BuildRetriever(p) PROVE MgrReqOK' /\ LockInv'
<1> DEFINE o == mgr[p]
           m == [o EXCEPT !.retriever = o.corpus, !.prefix = <<>>]
           m2 == [m EXCEPT !.at = "index"]
<1>1. o \in Manager /\ o.corpus \in Corpora  BY ManagerIs
<1>2. \/ m.drop /\ Drained(p, m)
      \/ mgr' = [mgr EXCEPT ![p] = m2] /\ UNCHANGED req
  BY DEF BuildRetriever
<1>3. m.at = "build"  BY DEF BuildRetriever
<1>4. m \in Manager /\ m.queue = o.queue /\ m.drop = o.drop /\ m.prefix = <<>> /\ m.at = o.at
  <2> DEFINE e == <<>>
  <2>1. e \in Seq(Nat \X Corpora) /\ m = [o EXCEPT !.retriever = o.corpus, !.prefix = e]  OBVIOUS
  <2> HIDE DEF o, e, m
  <2> QED  BY <1>1, <2>1 DEF Manager, e
<1>5. o.at # "free" /\ o.queue # <<>> /\ Head(o.queue).what # "search"
  BY <1>3, <1>4, ManagerIs DEF Steady
<1> HIDE DEF o, m
<1>6. /\ m2 \in Manager /\ m2.queue = o.queue /\ m2.prefix = <<>> /\ m2.drop = o.drop
      /\ m2.at = "index"
  BY <1>4 DEF Manager
<1> HIDE DEF m2
<1>7. Len(<<>>) <= PrefixSize  BY AskConstants
<1>8. CASE m.drop /\ Drained(p, m)  BY <1>4, <1>5, <1>7, <1>8, DrainedAttends DEF o
<1>9. CASE mgr' = [mgr EXCEPT ![p] = m2] /\ UNCHANGED req
  BY <1>5, <1>6, <1>7, <1>9, HolderStays DEF o
<1> QED  BY <1>2, <1>8, <1>9

LEMMA SaveIndexAttends ==
  ASSUME MgrReqOK, LockInv, NEW p \in Procs, SaveIndex(p) PROVE MgrReqOK' /\ LockInv'
<1> DEFINE o == mgr[p]
           m2 == [o EXCEPT !.at = "meta"]
<1>1. /\ o \in Manager /\ o.queue # <<>> /\ Head(o.queue).what # "search"
      /\ Len(o.prefix) <= PrefixSize
  BY ManagerIs DEF SaveIndex, Steady
<1>2. mgr' = [mgr EXCEPT ![p] = m2] /\ UNCHANGED req  BY DEF SaveIndex
<1> HIDE DEF o
<1>3. /\ m2 \in Manager /\ m2.queue = o.queue /\ m2.prefix = o.prefix /\ m2.drop = o.drop
      /\ m2.at = "meta"
  BY <1>1 DEF Manager
<1> HIDE DEF m2
<1> QED  BY <1>1, <1>2, <1>3, HolderStays DEF o

LEMMA SaveMetaAttends ==
  ASSUME MgrReqOK, LockInv, NEW p \in Procs, SaveMeta(p) PROVE MgrReqOK' /\ LockInv'
<1> DEFINE o == mgr[p]
<1>1. /\ o \in Manager /\ o.queue # <<>> /\ Head(o.queue).what # "search" /\ o.at # "free"
      /\ Len(o.prefix) <= PrefixSize
  BY ManagerIs DEF SaveMeta, Steady
<1>2. CASE o.drop /\ Drained(p, o)  BY <1>1, <1>2, DrainedAttends
<1>3. CASE ~o.drop /\ Finish(p, o)  BY <1>1, <1>3, FinishAttends
<1> QED  BY <1>2, <1>3 DEF SaveMeta

LEMMA LoadFailsAttends ==
  ASSUME MgrReqOK, LockInv, NEW p \in Procs, LoadFails(p) PROVE MgrReqOK' /\ LockInv'
<1>1. mgr[p].at # "free" /\ Raised(p, mgr[p])  BY DEF LoadFails
<1> QED  BY <1>1, RaisedAttends

LEMMA RebuildAttends ==
  ASSUME MgrReqOK, LockInv, NEW p \in Procs, Rebuild(p) PROVE MgrReqOK' /\ LockInv'
<1> DEFINE o == mgr[p]
           q == o.queue
           x == Op("rebuild", None)
           w == Append(q, x)
           n == [o EXCEPT !.queue = w]
<1>1. x \in Waiter /\ x.by = None /\ x.what = "rebuild"  BY DEF Op, Waiter
<1>2. o \in Manager /\ q \in Seq(Waiter) /\ Steady(o) /\ Len(o.prefix) <= PrefixSize
  BY ManagerIs
<1>3. mgr' = [mgr EXCEPT ![p] = n] /\ UNCHANGED req  BY DEF Rebuild
<1>4. p = Web => Attends(w, o.drop, Pcs)  BY <1>2, RebuildJoins DEF LockInv
<1>5. p # Web => RebuildsOnly(q)  BY DEF LockInv
<1> HIDE DEF x, o
<1>6. /\ w \in Seq(Waiter) /\ DOMAIN w = DOMAIN q \cup {Len(q) + 1} /\ w[Len(q) + 1] = x
      /\ \A k \in DOMAIN q : w[k] = q[k]
  BY <1>1, <1>2, AppendIs
<1>7. w # <<>> /\ Head(w) = w[1]  BY <1>6, <1>2, HeadIs
<1>8. q # <<>> => Head(w) = Head(q)  BY <1>2, <1>6, <1>7, HeadIs
<1> HIDE DEF w
<1>9. n \in Manager /\ n.prefix = o.prefix /\ n.queue = w /\ n.at = o.at /\ n.drop = o.drop
  BY <1>2, <1>6 DEF Manager
<1> HIDE DEF n
<1>10. Steady(n)
  <2>1. n.at # "free" => Head(w).what # "search"  BY <1>2, <1>8, <1>9 DEF Steady
  <2>2. n.drop => /\ n.at \in {"disk", "build", "index", "meta"} /\ Head(w).by = None
    BY <1>2, <1>8, <1>9 DEF Steady
  <2>3. \A k \in DOMAIN w : w[k].what = "rebuild" => w[k].by = None
    BY <1>1, <1>2, <1>6 DEF Steady
  <2> QED  BY <1>7, <1>9, <2>1, <2>2, <2>3 DEF Steady
<1>11. p # Web => RebuildsOnly(n.queue)  BY <1>1, <1>5, <1>6, <1>9 DEF RebuildsOnly
<1>12. Pcs' = Pcs /\ req' \in [Requests -> Request]  BY <1>3 DEF Pcs, MgrReqOK
<1>13. p = Web => Attends(n.queue, n.drop, Pcs')  BY <1>4, <1>9, <1>12
<1> QED  BY <1>2, <1>3, <1>9, <1>10, <1>11, <1>12, <1>13, ManagerChanges

LEMMA CrashAttends ==
  ASSUME MgrReqOK, LockInv, NEW p \in Procs, Crash(p) PROVE MgrReqOK' /\ LockInv'
<1> DEFINE n == FreshManager
<1>1. EmptyCorpus \in Corpora  BY AskConstants DEF EmptyCorpus, Corpora
<1>2. /\ n \in Manager /\ n.prefix = <<>> /\ n.queue = <<>> /\ n.at = "free" /\ n.drop = FALSE
  BY <1>1 DEF FreshManager, Manager
<1>3. mgr' = [mgr EXCEPT ![p] = n]  BY DEF Crash
<1> HIDE DEF n
<1>4. Steady(n) /\ RebuildsOnly(n.queue)  BY <1>2 DEF Steady, RebuildsOnly
<1>5. Len(n.prefix) <= PrefixSize  BY <1>2, AskConstants
<1>6. req' \in [Requests -> Request] /\ (p # Web => Pcs' = Pcs)
  BY FreshIs DEF Crash, MgrReqOK, Pcs
<1>7. ASSUME p = Web PROVE Attends(n.queue, n.drop, Pcs')
  <2>1. \A r \in Requests : Pcs'[r] \in {"new", "ended"}
    BY <1>7, FreshIs DEF Crash, Pcs
  <2> QED  BY <1>2, <2>1 DEF Attends, Waiting
<1> QED  BY <1>2, <1>3, <1>4, <1>5, <1>6, <1>7, ManagerChanges

----------------------------------------------------------------------------
(* The requests.                                                           *)

LEMMA FirstIs ==
  ASSUME NEW S \in SUBSET Nat, S # {}
  PROVE  Min(S) \in S
<1> DEFINE below == {ss \in Nat \X Nat : ss[1] < ss[2]}
<1>1. IsWellFoundedOn(below, Nat)  BY NatLessThanWellFounded DEF OpToRel
<1> HIDE DEF below
<1>2. PICK x \in S : \A y \in S : ~(<<y, x>> \in below)  BY <1>1, WFMin
<1>3. ASSUME NEW y \in S PROVE x <= y
  <2>1. <<y, x>> \in Nat \X Nat /\ <<y, x>>[1] = y /\ <<y, x>>[2] = x  OBVIOUS
  <2>2. ~(y < x)  BY <1>2, <2>1 DEF below
  <2> QED  BY <2>2
<1> QED  BY <1>3 DEF Min

\* The rows that a request has retrieved within its budgets.
LEMMA GatheredIs ==
  ASSUME NEW r \in Requests, req[r] \in Request, NEW ids \in SUBSET RowIds, NEW n \in Nat
  PROVE  LET g == Gathered(r, ids, n)
         IN  /\ g \in Request /\ g.pc \in {"gathered", "decide", "tool"}
             /\ g.evidence \subseteq req[r].evidence \cup ids /\ g.ceil = req[r].ceil
<1> DEFINE q == req[r]
           left == EvidenceTokens - q.seen
           room == DigestTokens - q.told
           seen2 == q.seen + IF n < left THEN n ELSE left
           evi2 == IF n > left THEN q.evidence ELSE q.evidence \cup ids
           pc2 == IF q.calls = 1 THEN "decide" ELSE "tool"
           stop == [q EXCEPT !.pc = "gathered"]
           s == [q EXCEPT !.seen = seen2, !.evidence = evi2]
           g == Gathered(r, ids, n)
<1>1. /\ q \in Request /\ q.evidence \in SUBSET RowIds /\ q.seen \in 0..EvidenceTokens
      /\ q.told \in 0..DigestTokens /\ q.calls \in Int
  BY DEF Request
<1>2. g = IF left <= 0 THEN stop
          ELSE IF room <= 0 THEN [s EXCEPT !.pc = "gathered"]
          ELSE [s EXCEPT !.told = @ + 1, !.calls = @ - 1, !.pc = pc2]
  BY DEF Gathered
<1>3. evi2 \in SUBSET RowIds /\ evi2 \subseteq q.evidence \cup ids  BY <1>1
<1>4. left > 0 => seen2 \in 0..EvidenceTokens  BY <1>1, AskConstants
<1>5. room > 0 => q.told + 1 \in 0..DigestTokens  BY <1>1, AskConstants
<1>6. pc2 \in {"decide", "tool"}  OBVIOUS
<1>7. left \in Int /\ room \in Int  BY <1>1, AskConstants
<1> HIDE DEF q, left, room, seen2, evi2, pc2, g
<1>8. /\ stop \in Request /\ stop.pc = "gathered" /\ stop.evidence = q.evidence
      /\ stop.ceil = q.ceil
  BY <1>1 DEF Request
<1>9. left > 0 => /\ s \in Request /\ s.evidence = evi2 /\ s.ceil = q.ceil
                  /\ s.told = q.told /\ s.calls = q.calls
  BY <1>1, <1>3, <1>4 DEF Request
<1> HIDE DEF s, stop
<1>10. CASE left <= 0  BY <1>2, <1>8, <1>10 DEF g, q
<1>11. CASE left > 0 /\ room <= 0
  <2>1. g = [s EXCEPT !.pc = "gathered"]  BY <1>2, <1>7, <1>11
  <2>2. g \in Request /\ g.pc = "gathered" /\ g.evidence = evi2 /\ g.ceil = q.ceil
    BY <1>9, <1>11, <2>1 DEF Request
  <2> QED  BY <1>3, <2>2 DEF g, q
<1>12. CASE left > 0 /\ room > 0
  <2> DEFINE told2 == s.told + 1
             calls2 == s.calls - 1
  <2>0. ~(left <= 0) /\ ~(room <= 0)  BY <1>7, <1>12
  <2>1. g = [s EXCEPT !.told = told2, !.calls = calls2, !.pc = pc2]
    BY <1>2, <2>0, Zenon
  <2>2. told2 \in 0..DigestTokens /\ calls2 \in Int  BY <1>1, <1>5, <1>9, <1>12
  <2> HIDE DEF told2, calls2
  <2>3. g \in Request /\ g.pc = pc2 /\ g.evidence = evi2 /\ g.ceil = q.ceil
    BY <1>6, <1>9, <1>12, <2>1, <2>2 DEF Request
  <2> QED  BY <1>3, <1>6, <2>3 DEF g, q
<1> QED  BY <1>7, <1>10, <1>11, <1>12

LEMMA FinalIs ==
  ASSUME NEW q \in Request, NEW refs \in SUBSET (RowIds \cup {NoRow}), NEW b \in BOOLEAN
  PROVE  LET f == Final(q, refs, b)
         IN  /\ f \in Request /\ f.pc = "final" /\ f.kind = q.kind /\ f.ceil = q.ceil
             /\ f.evidence = q.evidence /\ f.refs = refs /\ f.checked = b
<1>1. Fresh \in Request  BY FreshIs
<1>2. /\ q.kind \in {"ask", "profile"} /\ q.ceil \in Ceilings \cup {0} /\ q.evidence \in SUBSET RowIds
  BY DEF Request
<1> DEFINE f == Final(q, refs, b)
           k == q.kind
           c == q.ceil
           e == q.evidence
<1>3. f = [Fresh EXCEPT !.pc = "final", !.kind = k, !.ceil = c, !.evidence = e, !.refs = refs,
                        !.checked = b]
  BY DEF Final
<1> HIDE DEF f, k, c, e
<1>4. f \in Request /\ f.pc = "final" /\ f.kind = k /\ f.ceil = c /\ f.evidence = e
      /\ f.refs = refs /\ f.checked = b
  BY <1>1, <1>2, <1>3 DEF Request, k, c, e
<1> QED  BY <1>4 DEF f, k, c, e

LEMMA DraftsAre ==
  ASSUME NEW q \in Request, NEW d \in Drafts(q) PROVE d \in SUBSET (RowIds \cup {NoRow})
<1>1. q.evidence \in SUBSET RowIds  BY DEF Request
<1> QED  BY <1>1 DEF Drafts

\* What the verdict leaves is checked, and is of the request's own evidence.
LEMMA AfterVerdictIs ==
  ASSUME NEW q \in Request, NEW d \in Drafts(q), NEW v, NEW a \in AfterVerdict(q, d, v)
  PROVE  /\ a \in Request /\ a.pc \in {"final", "ended"}
         /\ a.pc = "final" => a.checked /\ a.evidence = q.evidence /\ a.ceil = q.ceil
<1>1. a = Ended \/ (\E refs \in Drafts(q) : a = Final(q, refs, TRUE))
  BY DEF AfterVerdict
<1>2. CASE a = Ended  BY <1>2, FreshIs
<1>3. ASSUME NEW refs \in Drafts(q), a = Final(q, refs, TRUE) PROVE a \in Request /\ a.pc = "final" /\ a.checked /\ a.evidence = q.evidence /\ a.ceil = q.ceil
  BY <1>3, DraftsAre, FinalIs
<1> QED  BY <1>1, <1>2, <1>3

\* The retriever of a ceiling indexes some corpus.
LEMMA RetrieverIs ==
  ASSUME NEW m \in Manager, NEW c \in Int
  PROVE  /\ UpTo(m.corpus, c) \in Corpora /\ Count(UpTo(m.corpus, c)) \in Nat /\ Count(m.corpus) \in Nat
         /\ m.retriever # None /\ Count(UpTo(m.corpus, c)) # 0 =>
               RetrieverForCeiling(m, c) \in Corpora
<1> DEFINE e == UpTo(m.corpus, c)
           key == Count(e)
<1>1. m.corpus \in Corpora /\ m.retriever \in Corpora \cup {None} /\ m.prefix \in Seq(Nat \X Corpora)
  BY DEF Manager
<1>2. e \in Corpora  BY <1>1, AskConstants DEF UpTo, Corpora
<1>3. \A v \in Corpora : Count(v) \in Nat
  <2> TAKE v \in Corpora
  <2>1. IsFiniteSet({i \in ChunkIds : v[i] # 0})  BY AskConstants, FS_Subset
  <2> QED  BY <2>1, FS_CardinalityType DEF Count
<1> HIDE DEF key
<1>4. ASSUME m.retriever # None, key # 0 PROVE RetrieverForCeiling(m, c) \in Corpora
  <2> DEFINE hits == {i \in 1..Len(m.prefix) : m.prefix[i][1] = key}
  <2>0. hits \in SUBSET Nat  OBVIOUS
  <2>1. hits # {} => Min(hits) \in hits
    <3> HIDE DEF hits
    <3> QED  BY <2>0, FirstIs
  <2>2. SelectInSeq(m.prefix, LAMBDA p : p[1] = key) = IF hits # {} THEN Min(hits) ELSE 0
    BY DEF SelectInSeq
  <2> HIDE DEF hits
  <2>3. RetrieverForCeiling(m, c) \in {m.retriever, e}
        \/ (hits # {} /\ RetrieverForCeiling(m, c) = m.prefix[Min(hits)][2])
    BY <1>4, <2>2 DEF RetrieverForCeiling, key
  <2>4. ASSUME hits # {} PROVE m.prefix[Min(hits)][2] \in Corpora
    <3>1. Min(hits) \in DOMAIN m.prefix  BY <1>1, <2>1, <2>4 DEF hits
    <3>2. m.prefix[Min(hits)] \in Nat \X Corpora  BY <1>1, <3>1, ElementIs
    <3> QED  BY <3>2
  <2> QED  BY <1>1, <1>2, <1>4, <2>3, <2>4
<1> QED  BY <1>1, <1>2, <1>3, <1>4 DEF key

LEMMA PrefixesAre ==
  ASSUME NEW m \in Manager, NEW c \in Int, Len(m.prefix) <= PrefixSize
  PROVE  PrefixesAfter(m, c) \in Seq(Nat \X Corpora) /\ Len(PrefixesAfter(m, c)) <= PrefixSize
<1> DEFINE S == Nat \X Corpora
           f == m.prefix
           key == Count(UpTo(m.corpus, c))
           hits == {i \in 1..Len(f) : f[i][1] = key}
           others == IF hits # {} THEN RemoveAt(f, Min(hits)) ELSE f
           x == <<key, RetrieverForCeiling(m, c)>>
           all == Append(others, x)
<1>1. f \in Seq(S) /\ PrefixSize \in Nat /\ Len(f) \in Nat  BY AskConstants DEF Manager
<1>2. CASE m.retriever = None \/ key \in {0, Count(m.corpus)}
  BY <1>1, <1>2 DEF PrefixesAfter
<1>3. CASE ~(m.retriever = None \/ key \in {0, Count(m.corpus)})
  <2>1. x \in S  BY <1>3, RetrieverIs
  <2>2. RemoveFirstMatch(f, LAMBDA e : e[1] = key) = others
    BY DEF RemoveFirstMatch, SelectInSeq
  <2>3. PrefixesAfter(m, c) = IF Len(all) > PrefixSize THEN Tail(all) ELSE all
    BY <1>3, <2>2 DEF PrefixesAfter
  <2>4. others \in Seq(S) /\ Len(others) <= Len(f) /\ Len(others) \in Nat
    <3>1. ASSUME hits # {} PROVE Min(hits) \in DOMAIN f
      <4>1. hits \in SUBSET Nat /\ hits \subseteq DOMAIN f  BY <1>1
      <4> HIDE DEF hits
      <4> QED  BY <3>1, <4>1, FirstIs
    <3> HIDE DEF f, hits, S
    <3>2. ASSUME hits # {} PROVE /\ RemoveAt(f, Min(hits)) \in Seq(S)
                                 /\ Len(RemoveAt(f, Min(hits))) = Len(f) - 1
      BY <1>1, <3>1, <3>2, RemoveAtIs
    <3> QED  BY <1>1, <3>2
  <2> HIDE DEF others, x, S, f
  <2>5. all \in Seq(S) /\ Len(all) = Len(others) + 1 /\ all # <<>>
    <3>1. all \in Seq(S) /\ Len(all) = Len(others) + 1  BY <2>1, <2>4, AppendIs
    <3>2. Len(all) # 0  BY <2>4, <3>1
    <3> HIDE DEF all
    <3> QED  BY <3>1, <3>2
  <2> HIDE DEF all
  <2>6. Tail(all) \in Seq(S) /\ Len(Tail(all)) = Len(all) - 1  BY <2>5
  <2>7. Len(f) <= PrefixSize  BY DEF f
  <2>8. CASE Len(all) > PrefixSize
    <3>1. PrefixesAfter(m, c) = Tail(all)  BY <2>3, <2>8
    <3>2. Len(Tail(all)) <= PrefixSize  BY <1>1, <2>4, <2>5, <2>6, <2>7
    <3> QED  BY <2>6, <3>1, <3>2 DEF S
  <2>9. CASE ~(Len(all) > PrefixSize)
    <3>1. PrefixesAfter(m, c) = all  BY <2>3, <2>9
    <3>2. Len(all) <= PrefixSize  BY <1>1, <2>4, <2>5, <2>9
    <3> QED  BY <2>5, <3>1, <3>2 DEF S
  <2> QED  BY <2>8, <2>9
<1> QED  BY <1>2, <1>3

LEMMA RowsAre ==
  ASSUME NEW c \in Int
  PROVE  /\ ChunksAt(c) \subseteq RowIds /\ FactsAt(c) \subseteq RowIds
         /\ \A ids \in ToolResults(c) : ids \in SUBSET RowIds
BY DEF ChunksAt, FactsAt, TimelineAt, EntitiesOnly, ToolResults, RowIds

LEMMA CeilingIs ==
  ASSUME NEW q \in Request PROVE q.ceil \in Int
<1> DEFINE c == q.ceil
<1>1. c \in Ceilings \cup {0}  BY DEF Request
<1>2. Ceilings \subseteq Int  BY AskConstants
<1> HIDE DEF c
<1>3. c \in Int  BY <1>1, <1>2
<1> QED  BY <1>3 DEF c

\* A search retrieves rows.
LEMMA HitsAre ==
  ASSUME NEW m \in Manager, NEW c \in Int, NEW dense \in DenseHits(c),
         NEW ids \in Reranked(Fused(SparseHits(m, c), dense))
  PROVE  /\ ids \in SUBSET RowIds
         /\ \A i \in ids : ChapOf[i] <= c
<1>1. \A i \in SparseHits(m, c) : i \in ChunkIds /\ ChapOf[i] <= c
  BY DEF SparseHits, IdsOf, UpTo
<1>2. \A i \in dense : i \in ChunkIds /\ ChapOf[i] <= c
  BY DEF DenseHits, ChunksAt
<1>3. ids \subseteq SparseHits(m, c) \cup dense  BY DEF Reranked, Fused
<1> QED  BY <1>1, <1>2, <1>3 DEF RowIds

LEMMA SearchAttends ==
  ASSUME MgrReqOK, LockInv, NEW r \in Requests, Search(r) PROVE MgrReqOK' /\ LockInv'
<1> DEFINE m == mgr[Web]
           c == req[r].ceil
           f == PrefixesAfter(m, c)
           l == [m EXCEPT !.prefix = f]
<1>0. Web \in Procs /\ req[r] \in Request /\ c \in Int
  BY AskConstants, RequestIs, CeilingIs
<1>1. m \in Manager /\ Len(m.prefix) <= PrefixSize  BY <1>0, ManagerIs
<1>2. m.queue # <<>> /\ Head(m.queue).by = r /\ mgr' = [mgr EXCEPT ![Web] = Released(l)]
  BY DEF Search, Searching, Holder
<1>3. PICK dense \in DenseHits(c), n \in 1..2 :
         \E ids \in Reranked(Fused(SparseHits(m, c), dense)) :
            req' = [req EXCEPT ![r] = Gathered(r, ids, n)]
  BY DEF Search
<1>4. PICK ids \in Reranked(Fused(SparseHits(m, c), dense)) :
         req' = [req EXCEPT ![r] = Gathered(r, ids, n)]
  BY <1>3
<1> HIDE DEF c
<1>5. ids \in SUBSET RowIds  BY <1>0, <1>1, HitsAre
<1>6. Gathered(r, ids, n) \in Request /\ Gathered(r, ids, n).pc \notin Waiting
  BY <1>0, <1>5, GatheredIs DEF Waiting
<1>7. f \in Seq(Nat \X Corpora) /\ Len(f) <= PrefixSize  BY <1>0, <1>1, PrefixesAre
<1> HIDE DEF m, f
<1>8. l \in Manager /\ l.queue = m.queue /\ l.prefix = f  BY <1>1, <1>7 DEF Manager
<1> HIDE DEF l
<1> QED  BY <1>2, <1>4, <1>6, <1>7, <1>8, CallerLeaves DEF m

LEMMA EnsureIndexAttends ==
  ASSUME MgrReqOK, LockInv, NEW r \in Requests, EnsureIndex(r) PROVE MgrReqOK' /\ LockInv'
<1>1. req[r].pc = "index" /\ req[r].pc \notin Waiting  BY DEF EnsureIndex, Waiting
<1>2. CASE Goto(r, "lookup") /\ UNCHANGED mgr
  <2> DEFINE q2 == [req[r] EXCEPT !.pc = "lookup"]
  <2>1. req' = [req EXCEPT ![r] = q2] /\ q2 \in Request /\ q2.pc \notin Waiting
    BY <1>2, RequestIs DEF Goto, Waiting
  <2> HIDE DEF q2
  <2> QED  BY <1>1, <1>2, <2>1, RequestChanges
<1>3. CASE /\ Goto(r, "loading")
           /\ mgr' = [mgr EXCEPT ![Web].queue = Append(@, Op("ensure", r))]
  <2> DEFINE q2 == [req[r] EXCEPT !.pc = "loading"]
  <2>1. req' = [req EXCEPT ![r] = q2] /\ q2 \in Request /\ q2.pc = "loading"
    BY <1>3, RequestIs DEF Goto
  <2> HIDE DEF q2
  <2> QED  BY <1>1, <1>3, <2>1, CallerJoins
<1> QED  BY <1>2, <1>3 DEF EnsureIndex

LEMMA HybridSearchAttends ==
  ASSUME MgrReqOK, LockInv, NEW r \in Requests, HybridSearch(r) PROVE MgrReqOK' /\ LockInv'
<1>1. req[r].pc \notin Waiting  BY DEF HybridSearch, Waiting
<1>2. ASSUME NEW s \in {"search", "ensure"}, Goto(r, s),
             mgr' = [mgr EXCEPT ![Web].queue = Append(@, Op(s, r))]
      PROVE  MgrReqOK' /\ LockInv'
  <2> DEFINE q2 == [req[r] EXCEPT !.pc = s]
  <2>1. req' = [req EXCEPT ![r] = q2] /\ q2 \in Request /\ q2.pc = s
    BY <1>2, RequestIs DEF Goto
  <2> HIDE DEF q2
  <2>2. \/ s = "ensure" /\ q2.pc \in {"loading", "ensure"}
        \/ s = "search" /\ q2.pc = "search"
    BY <2>1
  <2> QED  BY <1>1, <1>2, <2>1, <2>2, CallerJoins
<1> QED  BY <1>2 DEF HybridSearch

\* The steps of a request that are its own.
LEMMA OwnStepAttends ==
  ASSUME MgrReqOK, LockInv, NEW r \in Requests,
         \/ LookUp(r) \/ Decide(r) \/ ReadTool(r) \/ Synthesize(r) \/ FinalCheck(r) \/ Save(r)
         \/ ProviderFails(r) \/ \E c \in Ceilings : Ask(r, c) \/ Profile(r, c)
  PROVE  MgrReqOK' /\ LockInv'
<1> DEFINE q == req[r]
<1>1. q \in Request /\ q.ceil \in Int  BY RequestIs, CeilingIs
<1>2. SUFFICES ASSUME TRUE
      PROVE  /\ UNCHANGED mgr /\ q.pc \notin Waiting
             /\ \E q2 \in Request : req' = [req EXCEPT ![r] = q2] /\ q2.pc \notin Waiting
  BY RequestChanges
<1> HIDE DEF q
<1>3. Ended \in Request /\ Ended.pc \notin Waiting  BY FreshIs DEF Waiting
<1>4. \A s \in {"lookup", "gathered", "decide", "save"} :
         [q EXCEPT !.pc = s] \in Request /\ [q EXCEPT !.pc = s].pc \notin Waiting
  BY RequestIs DEF Waiting, q
<1>5. CASE LookUp(r)
  BY <1>3, <1>4, <1>5 DEF LookUp, Waiting, q
<1>6. CASE Decide(r)
  <2>1. PICK n \in 0..(MaxCalls + 1) :
           IF n = 0 \/ q.iter = MaxIterations THEN Goto(r, "gathered")
           ELSE req' = [req EXCEPT ![r].pc = "tool", ![r].iter = @ + 1,
                                   ![r].calls = IF n > MaxCalls THEN MaxCalls ELSE n]
    BY <1>6 DEF Decide, q
  <2>2. CASE Goto(r, "gathered")  BY <1>4, <1>6, <2>2 DEF Decide, Goto, Waiting, q
  <2>3. CASE q.iter # MaxIterations /\ ~Goto(r, "gathered")
    <3> DEFINE i2 == q.iter + 1
               c2 == IF n > MaxCalls THEN MaxCalls ELSE n
               q2 == [q EXCEPT !.pc = "tool", !.iter = i2, !.calls = c2]
    <3>1. req' = [req EXCEPT ![r] = q2]  BY <2>1, <2>3 DEF q, MgrReqOK
    <3>2. i2 \in 0..MaxIterations /\ c2 \in Int  BY <1>1, <2>3, AskConstants DEF Request
    <3> HIDE DEF i2, c2
    <3>3. q2 \in Request /\ q2.pc = "tool"  BY <1>1, <3>2 DEF Request
    <3> HIDE DEF q2
    <3> QED  BY <1>6, <3>1, <3>3 DEF Decide, Waiting, q
  <2> QED  BY <2>1, <2>2, <2>3
<1>7. CASE ReadTool(r)
  <2>1. PICK ids \in ToolResults(q.ceil), n \in 1..2 : req' = [req EXCEPT ![r] = Gathered(r, ids, n)]
    BY <1>7 DEF ReadTool, q
  <2>2. ids \in SUBSET RowIds  BY <1>1, RowsAre
  <2>3. Gathered(r, ids, n) \in Request /\ Gathered(r, ids, n).pc \notin Waiting
    <3>1. req[r] \in Request /\ n \in Nat  BY <1>1 DEF q
    <3>2. /\ Gathered(r, ids, n) \in Request
          /\ Gathered(r, ids, n).pc \in {"gathered", "decide", "tool"}
      BY <2>2, <3>1, GatheredIs
    <3> QED  BY <3>2 DEF Waiting
  <2>4. UNCHANGED mgr /\ q.pc \notin Waiting  BY <1>7 DEF ReadTool, Waiting, q
  <2> QED  BY <2>1, <2>3, <2>4
<1>8. CASE Synthesize(r)
  <2>1. \/ req' = [req EXCEPT ![r] = Ended]
        \/ req' = [req EXCEPT ![r] = [Final(q, {}, TRUE) EXCEPT !.pc = "save"]]
        \/ \E d \in Drafts(q), v \in {"supported", "flagged", "failed"} :
              \E a \in AfterVerdict(q, d, v) : req' = [req EXCEPT ![r] = a]
    BY <1>8 DEF Synthesize, q
  <2>2. UNCHANGED mgr /\ q.pc \notin Waiting  BY <1>8 DEF Synthesize, Waiting, q
  <2>3. CASE req' = [req EXCEPT ![r] = Ended]  BY <1>3, <2>2, <2>3
  <2>4. CASE req' = [req EXCEPT ![r] = [Final(q, {}, TRUE) EXCEPT !.pc = "save"]]
    <3>1. Final(q, {}, TRUE) \in Request  BY <1>1, FinalIs
    <3>2. /\ [Final(q, {}, TRUE) EXCEPT !.pc = "save"] \in Request
          /\ [Final(q, {}, TRUE) EXCEPT !.pc = "save"].pc = "save"
      BY <3>1 DEF Request
    <3> QED  BY <2>2, <2>4, <3>2 DEF Waiting
  <2>5. ASSUME NEW d \in Drafts(q), NEW v, NEW a \in AfterVerdict(q, d, v),
               req' = [req EXCEPT ![r] = a]
        PROVE  \E q2 \in Request : req' = [req EXCEPT ![r] = q2] /\ q2.pc \notin Waiting
    BY <1>1, <2>5, AfterVerdictIs DEF Waiting
  <2> QED  BY <2>1, <2>2, <2>3, <2>4, <2>5
<1>9. CASE FinalCheck(r)
  <2>1. req' = [req EXCEPT ![r] = Ended] \/ req' = [req EXCEPT ![r].pc = "save"]
    BY <1>9 DEF FinalCheck
  <2> QED  BY <1>3, <1>4, <1>9, <2>1 DEF FinalCheck, Waiting, q
<1>10. CASE Save(r)  BY <1>3, <1>10 DEF Save, Waiting, q
<1>11. CASE ProviderFails(r)  BY <1>3, <1>11 DEF ProviderFails, Waiting, q
<1>12. ASSUME NEW c \in Ceilings, Ask(r, c)
       PROVE  /\ UNCHANGED mgr /\ q.pc \notin Waiting
              /\ \E q2 \in Request : req' = [req EXCEPT ![r] = q2] /\ q2.pc \notin Waiting
  <2> DEFINE q2 == [Fresh EXCEPT !.pc = "index", !.ceil = c]
  <2>1. q2 \in Request /\ q2.pc = "index"  BY FreshIs DEF Request
  <2> QED  BY <1>12, <2>1 DEF Ask, Waiting, q
<1>13. ASSUME NEW c \in Ceilings, Profile(r, c)
       PROVE  /\ UNCHANGED mgr /\ q.pc \notin Waiting
              /\ \E q2 \in Request : req' = [req EXCEPT ![r] = q2] /\ q2.pc \notin Waiting
  <2> DEFINE e == FactsAt(c)
             q2 == [Fresh EXCEPT !.pc = "gathered", !.kind = "profile", !.ceil = c, !.evidence = e]
  <2>1. e \in SUBSET RowIds  BY RowsAre, AskConstants
  <2>2. req' = [req EXCEPT ![r] = q2]  BY <1>13 DEF Profile
  <2> HIDE DEF e
  <2>3. q2 \in Request /\ q2.pc = "gathered"  BY FreshIs, <2>1 DEF Request
  <2> QED  BY <1>13, <2>2, <2>3 DEF Profile, Waiting, q
<1> QED  BY <1>5, <1>6, <1>7, <1>8, <1>9, <1>10, <1>11, <1>12, <1>13

\* The reader closes the stream.
LEMMA CancelAttends ==
  ASSUME MgrReqOK, LockInv, NEW r \in Requests, Cancel(r) PROVE MgrReqOK' /\ LockInv'
<1> DEFINE m == mgr[Web]
           q == m.queue
           mine == q # <<>> /\ Head(q).by = r
           without == RemoveFirstMatch(q, LAMBDA op : op.by = r)
<1>0. Web \in Procs /\ Ended \in Request /\ Ended.pc \notin Waiting /\ r # None
  BY AskConstants, FreshIs DEF Waiting
<1>1. /\ m \in Manager /\ q \in Seq(Waiter) /\ Steady(m) /\ Len(m.prefix) <= PrefixSize
  BY <1>0, ManagerIs
<1>2. /\ req' = [req EXCEPT ![r] = Ended]
      /\ mgr' = [mgr EXCEPT ![Web] = IF ~mine THEN [m EXCEPT !.queue = without]
                   ELSE IF m.at \in {"free", "rows"} THEN Released(m)
                   ELSE [m EXCEPT !.drop = TRUE, !.queue[1].by = None]]
  BY DEF Cancel, Holder
<1>3. Attends(q, m.drop, Pcs)  BY DEF LockInv
<1>4. /\ req' \in [Requests -> Request] /\ Pcs'[r] \notin Waiting
      /\ \A s \in Requests : s # r => Pcs'[s] = Pcs[s]
  BY <1>0, <1>2 DEF MgrReqOK, Pcs
<1>5. CASE mine /\ m.at \in {"free", "rows"}
  <2>1. mgr' = [mgr EXCEPT ![Web] = Released(m)]  BY <1>2, <1>5
  <2> QED  BY <1>0, <1>1, <1>2, <1>5, <2>1, CallerLeaves
<1>6. CASE mine /\ m.at \notin {"free", "rows"}
  <2> DEFINE w == [q EXCEPT ![1].by = None]
             n == [m EXCEPT !.drop = TRUE, !.queue = w]
  <2>1. mgr' = [mgr EXCEPT ![Web] = n]
    <3>1. mgr' = [mgr EXCEPT ![Web] = [m EXCEPT !.drop = TRUE, !.queue[1].by = None]]
      BY <1>2, <1>6
    <3>2. [m EXCEPT !.drop = TRUE, !.queue[1].by = None] = n
      <4> HIDE DEF m
      <4> QED  BY <1>1 DEF Manager
    <3> QED  BY <3>1, <3>2
  <2>2. /\ w \in Seq(Waiter) /\ w # <<>> /\ Attends(w, TRUE, Pcs') /\ w[1].what = q[1].what
    <3> HIDE DEF q, Pcs, w
    <3>0. q \in Seq(Waiter) /\ q # <<>> /\ Head(q).by = r /\ Attends(q, m.drop, Pcs)
      BY <1>1, <1>3, <1>6
    <3>1. Attends(Dropped(q), TRUE, Pcs')  BY <1>4, <3>0, HolderDrops
    <3>3. Dropped(q) \in Seq(Waiter) /\ Dropped(q) # <<>> /\ Dropped(q)[1].what = q[1].what
      BY <3>0, DroppedIs
    <3>2. w = Dropped(q)  BY DEF w, Dropped
    <3> QED  BY <3>1, <3>2, <3>3
  <2>3. /\ DOMAIN w = DOMAIN q /\ w[1].by = None /\ \A k \in DOMAIN q : k # 1 => w[k] = q[k]
    <3>1. 1 \in DOMAIN q /\ q[1] \in Waiter  BY <1>1, <1>6, HeadIs
    <3> HIDE DEF q
    <3>2. DOMAIN w = DOMAIN q /\ w[1] = [q[1] EXCEPT !.by = None]
          /\ \A k \in DOMAIN q : k # 1 => w[k] = q[k]
      BY <3>1
    <3>3. [q[1] EXCEPT !.by = None].by = None  BY <3>1 DEF Waiter
    <3> QED  BY <3>2, <3>3
  <2>4. Head(w) = w[1] /\ Head(q) = q[1]  BY <1>1, <1>6, <2>2, HeadIs
  <2> HIDE DEF w
  <2>5. n \in Manager /\ n.drop = TRUE /\ n.queue = w /\ n.at = m.at /\ n.prefix = m.prefix
    <3> HIDE DEF m
    <3> QED  BY <1>1, <2>2 DEF Manager
  <2> HIDE DEF n
  <2>6. Steady(n)
    <3>1. m.at \in {"free", "rows", "disk", "build", "index", "meta"}
      <4> HIDE DEF m
      <4> QED  BY <1>1 DEF Manager
    <3>2. n.at \in {"disk", "build", "index", "meta"}  BY <1>6, <2>5, <3>1
    <3>3. Head(w).what # "search"  BY <1>1, <1>6, <2>2, <2>4 DEF Steady
    <3>4. \A k \in DOMAIN w : w[k].what = "rebuild" => w[k].by = None
      BY <1>1, <2>3 DEF Steady
    <3> QED  BY <2>2, <2>3, <2>4, <2>5, <3>2, <3>3, <3>4 DEF Steady
  <2>7. Attends(n.queue, n.drop, Pcs')  BY <2>2, <2>5
  <2>8. Len(n.prefix) <= PrefixSize  BY <1>1, <2>5
  <2> QED  BY <1>0, <1>4, <2>1, <2>5, <2>6, <2>7, <2>8, ManagerChanges
<1>7. CASE ~mine /\ \A k \in DOMAIN q : q[k].by # r
  <2>1. without = q  BY <1>1, <1>7 DEF RemoveFirstMatch
  <2>2. mgr' = mgr
    <3>1. [m EXCEPT !.queue = q] = m
      <4> HIDE DEF m
      <4> QED  BY <1>1 DEF Manager
    <3>2. mgr' = [mgr EXCEPT ![Web] = m]  BY <1>2, <1>7, <2>1, <3>1
    <3> QED  BY <1>0, <3>2 DEF MgrReqOK
  <2>3. req[r].pc \notin Waiting
    <3>1. Pcs[r] \notin Waiting  BY <1>3, <1>7 DEF Attends
    <3> QED  BY <3>1 DEF Pcs
  <2> QED  BY <1>0, <1>2, <2>2, <2>3, RequestChanges
<1>8. ASSUME ~mine, NEW k \in DOMAIN q, q[k].by = r PROVE MgrReqOK' /\ LockInv'
  <2>1. k # 1
    <3>1. q # <<>> => Head(q) = q[1]  BY <1>1, HeadIs
    <3>2. q # <<>>  BY <1>8
    <3> QED  BY <1>8, <3>1, <3>2
  <2>2. without = RemoveAt(q, k)
    <3>1. \A i \in DOMAIN q : q[i].by = r => i = k  BY <1>0, <1>3, <1>8 DEF Attends
    <3> HIDE DEF q
    <3>2. {i \in 1..Len(q) : q[i].by = r} = {k}  BY <1>1, <1>8, <3>1
    <3>3. Min({k}) = k  BY <1>1, <1>8 DEF Min
    <3> QED  BY <1>1, <1>8, <3>2, <3>3 DEF RemoveFirstMatch, SelectInSeq
  <2> DEFINE w == RemoveAt(q, k)
             n == [m EXCEPT !.queue = w]
  <2>3. mgr' = [mgr EXCEPT ![Web] = n]  BY <1>2, <1>8, <2>2
  <2>4. Attends(w, m.drop, Pcs')
    <3> HIDE DEF q, Pcs
    <3> QED  BY <1>1, <1>3, <1>4, <1>8, <2>1, WaiterLeaves
  <2>5. /\ w \in Seq(Waiter) /\ Len(w) = Len(q) - 1
        /\ \A i \in DOMAIN w : IF i < k THEN i \in DOMAIN q /\ w[i] = q[i]
                               ELSE i + 1 \in DOMAIN q /\ w[i] = q[i + 1]
        /\ \A i \in DOMAIN q : /\ i < k => i \in DOMAIN w /\ w[i] = q[i]
                               /\ i > k => i - 1 \in DOMAIN w /\ w[i - 1] = q[i]
    BY <1>1, <1>8, RemoveAtIs
  <2>6. q # <<>> /\ Head(q) = q[1] /\ 1 \in DOMAIN q
    <3>1. q # <<>>  BY <1>8
    <3> QED  BY <1>1, <3>1, HeadIs
  <2>7. 1 < k  BY <1>1, <1>8, <2>1
  <2> HIDE DEF w, q
  <2>8. w # <<>> /\ Head(w) = q[1]
    <3>1. 1 \in DOMAIN w /\ w[1] = q[1]  BY <2>5, <2>6, <2>7
    <3>2. w # <<>>  BY <3>1
    <3> QED  BY <2>5, <3>1, <3>2, HeadIs
  <2>9. n \in Manager /\ n.drop = m.drop /\ n.queue = w /\ n.at = m.at /\ n.prefix = m.prefix
    <3> HIDE DEF m
    <3> QED  BY <1>1, <2>5 DEF Manager
  <2> HIDE DEF n
  <2>10. Steady(n)
    <3>1. \A i \in DOMAIN w : w[i].what = "rebuild" => w[i].by = None
      <4>1. \A i \in DOMAIN q : q[i].what = "rebuild" => q[i].by = None  BY <1>1 DEF Steady, q
      <4> QED  BY <2>5, <4>1
    <3>2. n.at # "free" => Head(w).what # "search"  BY <1>1, <2>6, <2>8, <2>9 DEF Steady, q
    <3>3. n.drop => n.at \in {"disk", "build", "index", "meta"} /\ Head(w).by = None
      BY <1>1, <2>6, <2>8, <2>9 DEF Steady, q
    <3> QED  BY <2>8, <2>9, <3>1, <3>2, <3>3 DEF Steady
  <2>11. Attends(n.queue, n.drop, Pcs')  BY <2>4, <2>9
  <2>12. Len(n.prefix) <= PrefixSize  BY <1>1, <2>9
  <2> QED  BY <1>0, <1>4, <2>3, <2>9, <2>10, <2>11, <2>12, ManagerChanges
<1> QED  BY <1>5, <1>6, <1>7, <1>8

----------------------------------------------------------------------------
(* The types.                                                              *)

TablesOK ==
  /\ chunks \in Corpora /\ facts \in [Facts -> {"in", "gone"}]
  /\ disk \in [index : Corpora \cup {None}, meta : Corpora \cup {None}]
  /\ cache \in [Ceilings -> Cached \cup {None}] /\ wiki \in [Ceilings -> Cached \cup {None}]

AskInv == TablesOK /\ MgrReqOK /\ LockInv

LEMMA AskInvHolds == AskInit => AskInv
<1> SUFFICES ASSUME AskInit PROVE AskInv  OBVIOUS
<1>1. EmptyCorpus \in Corpora /\ Len(<<>>) <= PrefixSize /\ Web \in Procs
  BY AskConstants DEF EmptyCorpus, Corpora
<1>2. /\ FreshManager \in Manager /\ FreshManager.prefix = <<>> /\ FreshManager.queue = <<>>
      /\ FreshManager.at = "free" /\ FreshManager.drop = FALSE
  BY <1>1 DEF FreshManager, Manager
<1>3. mgr = [p \in Procs |-> FreshManager] /\ req = [r \in Requests |-> Fresh]  BY DEF AskInit
<1>4. MgrReqOK  BY <1>1, <1>2, <1>3, FreshIs DEF MgrReqOK
<1>5. \A p \in Procs : mgr[p] = FreshManager  BY <1>3
<1>6. Steady(FreshManager) /\ RebuildsOnly(FreshManager.queue)  BY <1>2 DEF Steady, RebuildsOnly
<1>7. \A r \in Requests : Pcs[r] = "new"  BY <1>3, FreshIs DEF Pcs
<1>8. Attends(FreshManager.queue, FreshManager.drop, Pcs)  BY <1>2, <1>7 DEF Attends, Waiting
<1>9. LockInv  BY <1>1, <1>5, <1>6, <1>8 DEF LockInv
<1>10. chunks \in Corpora
  <2>1. PICK v \in {0, 1} : chunks = [i \in ChunkIds |-> v]  BY DEF AskInit
  <2>2. v \in 0..MaxText  BY AskConstants
  <2> QED  BY <2>1, <2>2 DEF Corpora
<1>11. TablesOK  BY <1>10 DEF AskInit, TablesOK
<1> QED  BY <1>4, <1>9, <1>11 DEF AskInv

LEMMA ClearedIs ==
  ASSUME NEW t \in [Ceilings -> Cached \cup {None}], NEW n
  PROVE  Cleared(t, n) \in [Ceilings -> Cached \cup {None}]
BY DEF Cleared

LEMMA TablesStay ==
  ASSUME TablesOK, MgrReqOK, LockInv, AskNext PROVE TablesOK'
<1>1. ASSUME NEW n \in Ceilings, CodexChanges(n) PROVE TablesOK'
  <2>1. chunks' \in Corpora
    <3>1. \A i \in ChunkIds : chunks[i] \in 0..MaxText /\ chunks[i] < MaxText
      BY <1>1 DEF CodexChanges, TablesOK, Corpora
    <3>2. \A i \in ChunkIds : (IF ChapOf[i] = n THEN chunks[i] + 1 ELSE chunks[i]) \in 0..MaxText
      BY <3>1, AskConstants
    <3> QED  BY <1>1, <3>2 DEF CodexChanges, Corpora
  <2>2. facts' \in [Facts -> {"in", "gone"}]  BY <1>1 DEF CodexChanges, TablesOK
  <2>3. cache' \in [Ceilings -> Cached \cup {None}] /\ wiki' \in [Ceilings -> Cached \cup {None}]
    BY <1>1, ClearedIs DEF CodexChanges, TablesOK
  <2>4. UNCHANGED disk  BY <1>1 DEF CodexChanges
  <2> QED  BY <2>1, <2>2, <2>3, <2>4 DEF TablesOK
<1>2. ASSUME NEW p \in Procs, SaveIndex(p) PROVE TablesOK'
  <2>1. mgr[p].retriever \in Corpora \cup {None}  BY ManagerIs
  <2>2. disk' \in [index : Corpora \cup {None}, meta : Corpora \cup {None}]
    BY <1>2, <2>1 DEF SaveIndex, TablesOK
  <2> QED  BY <1>2, <2>2 DEF SaveIndex, TablesOK
<1>3. ASSUME NEW p \in Procs, SaveMeta(p) PROVE TablesOK'
  <2>1. mgr[p].corpus \in Corpora  BY ManagerIs
  <2>2. disk' \in [index : Corpora \cup {None}, meta : Corpora \cup {None}]
    BY <1>3, <2>1 DEF SaveMeta, TablesOK
  <2> QED  BY <1>3, <2>2 DEF SaveMeta, TablesOK
<1>4. ASSUME NEW r \in Requests, Save(r) PROVE TablesOK'
  <2> DEFINE q == req[r]
             row == [refs |-> q.refs, evidence |-> q.evidence, checked |-> q.checked]
  <2>1. q \in Request  BY RequestIs
  <2>2. row \in Cached  BY <2>1 DEF Cached, Request
  <2>3. /\ cache' \in {cache, [cache EXCEPT ![q.ceil] = row]}
        /\ wiki' \in {wiki, [wiki EXCEPT ![q.ceil] = row]}
        /\ UNCHANGED <<chunks, facts, disk>>
    BY <1>4 DEF Save, AskUnchanged
  <2> HIDE DEF row, q
  <2> QED  BY <2>2, <2>3 DEF TablesOK
<1>5. ASSUME UNCHANGED <<chunks, facts, disk, cache, wiki>> PROVE TablesOK'
  BY <1>5 DEF TablesOK
<1>6. ASSUME NEW p \in Procs,
             Enter(p) \/ LoadCorpusRows(p) \/ TryLoadFromDisk(p) \/ BuildRetriever(p)
             \/ Rebuild(p) \/ LoadFails(p) \/ Crash(p)
      PROVE  TablesOK'
  BY <1>5, <1>6 DEF Enter, LoadCorpusRows, TryLoadFromDisk, BuildRetriever, Rebuild, LoadFails,
     Crash, AskUnchanged
<1>7. ASSUME NEW r \in Requests,
             EnsureIndex(r) \/ LookUp(r) \/ Decide(r) \/ ReadTool(r) \/ Search(r)
             \/ Synthesize(r) \/ FinalCheck(r)
      PROVE  TablesOK'
  BY <1>5, <1>7 DEF EnsureIndex, LookUp, Decide, ReadTool, Search, Synthesize, FinalCheck, AskUnchanged
<1>8. ASSUME NEW r \in Requests,
             HybridSearch(r) \/ ProviderFails(r) \/ Cancel(r) \/ \E c \in Ceilings : Ask(r, c) \/ Profile(r, c)
      PROVE  TablesOK'
  BY <1>5, <1>8 DEF HybridSearch, ProviderFails, Cancel, Ask, Profile, AskUnchanged
<1> QED  BY <1>1, <1>2, <1>3, <1>4, <1>6, <1>7, <1>8 DEF AskNext, ManagerStep, RequestStep

\* Nothing moves at the lock while the managers and the requests stay as they are.
LEMMA LockFrame == LockInv /\ UNCHANGED <<mgr, req>> => LockInv'
<1> SUFFICES ASSUME LockInv, mgr' = mgr, req' = req PROVE LockInv'  OBVIOUS
<1>1. Pcs' = Pcs  BY DEF Pcs
<1>2. \A p \in Procs : Steady(mgr'[p]) /\ (p # Web => RebuildsOnly(mgr'[p].queue))
  BY DEF LockInv
<1>3. Attends(mgr'[Web].queue, mgr'[Web].drop, Pcs')
  <2>1. Attends(mgr[Web].queue, mgr[Web].drop, Pcs)  BY DEF LockInv
  <2> QED  BY <1>1, <2>1
<1> QED  BY <1>2, <1>3 DEF LockInv

LEMMA AskInvStays == AskInv /\ [AskNext]_askVars => AskInv'
<1> SUFFICES ASSUME AskInv, [AskNext]_askVars PROVE AskInv'  OBVIOUS
<1> USE DEF AskInv
<1>1. CASE UNCHANGED askVars
  <2>1. TablesOK' /\ MgrReqOK'  BY <1>1 DEF askVars, TablesOK, MgrReqOK
  <2>2. LockInv'
    <3>1. UNCHANGED <<mgr, req>>  BY <1>1 DEF askVars
    <3> QED  BY <3>1, LockFrame
  <2> QED  BY <2>1, <2>2
<1>2. CASE AskNext
  <2>1. TablesOK'  BY <1>2, TablesStay
  <2>2. chunks \in Corpora /\ disk.index \in Corpora \cup {None}  BY DEF TablesOK
  <2>3. ASSUME NEW n \in Ceilings, CodexChanges(n) PROVE MgrReqOK' /\ LockInv'
    <3>1. UNCHANGED <<mgr, req>>  BY <2>3 DEF CodexChanges
    <3>2. MgrReqOK'  BY <3>1 DEF MgrReqOK
    <3>3. LockInv'  BY <3>1, LockFrame
    <3> QED  BY <3>2, <3>3
  <2>4. ASSUME NEW p \in Procs, ManagerStep(p) \/ Rebuild(p) \/ LoadFails(p) \/ Crash(p)
        PROVE  MgrReqOK' /\ LockInv'
    BY <2>2, <2>4, EnterAttends, LoadCorpusRowsAttends, TryLoadFromDiskAttends, BuildRetrieverAttends,
       SaveIndexAttends, SaveMetaAttends, RebuildAttends, LoadFailsAttends, CrashAttends
       DEF ManagerStep
  <2>5. ASSUME NEW r \in Requests, RequestStep(r) \/ HybridSearch(r) \/ ProviderFails(r) \/ Cancel(r)
                                   \/ \E c \in Ceilings : Ask(r, c) \/ Profile(r, c)
        PROVE  MgrReqOK' /\ LockInv'
    BY <2>5, EnsureIndexAttends, SearchAttends, HybridSearchAttends, CancelAttends, OwnStepAttends
       DEF RequestStep
  <2> QED  BY <1>2, <2>1, <2>3, <2>4, <2>5 DEF AskNext
<1> QED  BY <1>1, <1>2

\* Whatever is asked, loaded, cancelled and lost, the tables, the managers and
\* the requests keep their types.
THEOREM AskTypes == AskSpec => []AskTypeOK
<1>1. AskInv => AskTypeOK  BY DEF AskInv, TablesOK, MgrReqOK, AskTypeOK
<1> QED  BY <1>1, AskInvHolds, AskInvStays, PTL DEF AskSpec

\* Nobody is forgotten at the lock of the index and no dead caller holds it,
\* for any number of requests and processes.
THEOREM LockAlwaysAttended == AskSpec => []LockIsAttended
<1>1. AskInv => LockIsAttended
  <2> SUFFICES ASSUME AskInv PROVE LockIsAttended  OBVIOUS
  <2> DEFINE q == mgr[Web].queue
  <2>1. ASSUME NEW r \in Requests
        PROVE  Cardinality({k \in DOMAIN q : q[k].by = r}) =
                 IF req[r].pc \in {"loading", "ensure", "search"} THEN 1 ELSE 0
    <3>1. Attends(q, mgr[Web].drop, Pcs) /\ Pcs[r] = req[r].pc /\ r # None
      BY AskConstants DEF AskInv, LockInv, Pcs
    <3> HIDE DEF q
    <3>2. CASE req[r].pc \in Waiting
      <4>1. PICK k \in DOMAIN q : q[k].by = r  BY <3>1, <3>2 DEF Attends
      <4>2. {l \in DOMAIN q : q[l].by = r} = {k}
        <5>1. \A l \in DOMAIN q : q[l].by = r => l = k  BY <3>1, <4>1 DEF Attends
        <5> QED  BY <4>1, <5>1
      <4>3. Cardinality({k}) = 1  BY FS_Singleton
      <4> QED  BY <3>2, <4>2, <4>3 DEF Waiting
    <3>3. CASE req[r].pc \notin Waiting
      <4>1. {l \in DOMAIN q : q[l].by = r} = {}  BY <3>1, <3>3 DEF Attends, Waiting
      <4>2. Cardinality({}) = 0  BY FS_EmptySet
      <4> QED  BY <3>3, <4>1, <4>2 DEF Waiting
    <3> QED  BY <3>2, <3>3
  <2>2. ASSUME NEW p \in Procs
        PROVE  /\ (mgr[p].at = "free" => ~mgr[p].drop)
               /\ (mgr[p].at # "free" => mgr[p].queue # <<>>)
               /\ mgr[p].drop => mgr[p].at \in {"disk", "build", "index", "meta"}
    BY DEF AskInv, LockInv, Steady
  <2> HIDE DEF q
  <2>3. \A r \in Requests : Cardinality({k \in DOMAIN q : q[k].by = r}) =
          IF req[r].pc \in {"loading", "ensure", "search"} THEN 1 ELSE 0
    BY <2>1
  <2> QED  BY <2>2, <2>3 DEF LockIsAttended, q
<1> QED  BY <1>1, AskInvHolds, AskInvStays, PTL DEF AskSpec

----------------------------------------------------------------------------
(* What is cached.                                                         *)

\* A request has retrieved rows at or below its ceiling only; what goes to the
\* final check was verified; what passes it cites those rows, and something,
\* unless it is the placeholder of a profile without evidence.
Grounded(q) ==
  /\ \A i \in q.evidence : ChapOf[i] <= q.ceil
  /\ q.pc \in {"final", "save"} => q.checked
  /\ q.pc = "save" => /\ q.refs \subseteq q.evidence
                      /\ q.refs = {} => q.kind = "profile" /\ q.evidence = {}

GroundedInv == (\A r \in Requests : Grounded(req[r])) /\ CachedIsGrounded

LEMMA RequestGrounded ==
  ASSUME MgrReqOK, GroundedInv, UNCHANGED <<cache, wiki>>, NEW r \in Requests, NEW q2, Grounded(q2),
         req' = [req EXCEPT ![r] = q2]
  PROVE  GroundedInv'
<1>1. \A s \in Requests : req'[s] = req[s] \/ req'[s] = q2  BY DEF MgrReqOK
<1>2. \A s \in Requests : Grounded(req'[s])  BY <1>1 DEF GroundedInv
<1>3. \A s \in Requests : Grounded(req[s])'  BY <1>2 DEF Grounded
<1>4. CachedIsGrounded'  BY DEF GroundedInv, CachedIsGrounded
<1> QED  BY <1>3, <1>4 DEF GroundedInv

LEMMA MovesGrounded ==
  ASSUME MgrReqOK, GroundedInv, NEW r \in Requests, NEW s, s \notin {"final", "save"}
  PROVE  Grounded([req[r] EXCEPT !.pc = s])
<1> DEFINE q == req[r]
           q2 == [q EXCEPT !.pc = s]
<1>1. q \in Request /\ Grounded(q)  BY RequestIs DEF GroundedInv
<1> HIDE DEF q
<1>2. q2.pc = s /\ q2.evidence = q.evidence /\ q2.ceil = q.ceil  BY <1>1 DEF Request
<1> HIDE DEF q2
<1>3. Grounded(q2)  BY <1>1, <1>2 DEF Grounded
<1> QED  BY <1>3 DEF q2, q

LEMMA NothingGrounded == Grounded(Fresh) /\ Grounded(Ended)
BY FreshIs DEF Grounded

LEMMA GatheredGrounded ==
  ASSUME MgrReqOK, GroundedInv, NEW r \in Requests, NEW n \in Nat,
         NEW ids \in SUBSET RowIds, \A i \in ids : ChapOf[i] <= req[r].ceil
  PROVE  Grounded(Gathered(r, ids, n))
<1> DEFINE g == Gathered(r, ids, n)
<1>1. req[r] \in Request /\ Grounded(req[r])  BY RequestIs DEF GroundedInv
<1>2. /\ g.pc \in {"gathered", "decide", "tool"} /\ g.evidence \subseteq req[r].evidence \cup ids
      /\ g.ceil = req[r].ceil
  BY <1>1, GatheredIs
<1> HIDE DEF g
<1>3. Grounded(g)  BY <1>1, <1>2 DEF Grounded
<1> QED  BY <1>3 DEF g

LEMMA ManagerGrounded ==
  ASSUME MgrReqOK, LockInv, GroundedInv, NEW p \in Procs,
         ManagerStep(p) \/ Rebuild(p) \/ LoadFails(p) \/ Crash(p)
  PROVE  GroundedInv'
<1>1. /\ UNCHANGED <<cache, wiki>>
      /\ \/ UNCHANGED req
         \/ \E m : req' = ResumedReq(Holder(m))
         \/ \E r : req' = [req EXCEPT ![r] = Ended]
         \/ req' = [r \in Requests |-> IF req[r].pc = "new" THEN Fresh ELSE Ended]
  <2>1. CASE ManagerStep(p)
    <3>1. CASE Enter(p)  BY <3>1 DEF Enter, Finish
    <3>2. CASE LoadCorpusRows(p)  BY <3>2 DEF LoadCorpusRows, Finish
    <3>3. CASE TryLoadFromDisk(p)  BY <3>3 DEF TryLoadFromDisk, Finish, Drained
    <3>4. CASE BuildRetriever(p)  BY <3>4 DEF BuildRetriever, Drained
    <3>5. CASE SaveIndex(p)  BY <3>5 DEF SaveIndex
    <3>6. CASE SaveMeta(p)  BY <3>6 DEF SaveMeta, Finish, Drained
    <3> QED  BY <2>1, <3>1, <3>2, <3>3, <3>4, <3>5, <3>6 DEF ManagerStep
  <2>2. CASE Rebuild(p)  BY <2>2 DEF Rebuild
  <2>3. CASE LoadFails(p)  BY <2>3 DEF LoadFails, Raised
  <2>4. CASE Crash(p)  BY <2>4 DEF Crash
  <2> QED  BY <2>1, <2>2, <2>3, <2>4
<1>2. \A r \in Requests : Grounded(req'[r])
  <2>1. CASE UNCHANGED req  BY <2>1 DEF GroundedInv
  <2>2. ASSUME NEW m, req' = ResumedReq(Holder(m)) PROVE \A r \in Requests : Grounded(req'[r])
    <3> DEFINE o == Holder(m).by
               s == IF req[o].pc = "loading" THEN "lookup" ELSE "search"
    <3>1. UNCHANGED req \/ req' = [req EXCEPT ![o].pc = s]  BY <2>2 DEF ResumedReq
    <3>2. s \in {"lookup", "search"}  OBVIOUS
    <3> HIDE DEF o, s
    <3>3. \A r \in Requests : req'[r] = req[r] \/ req'[r] = [req[r] EXCEPT !.pc = s]
      BY <3>1 DEF MgrReqOK
    <3>4. s \notin {"final", "save"}  BY <3>2
    <3>5. \A r \in Requests : Grounded([req[r] EXCEPT !.pc = s])  BY <3>4, MovesGrounded
    <3>6. \A r \in Requests : Grounded(req[r])  BY DEF GroundedInv
    <3> QED  BY <3>3, <3>5, <3>6, Zenon
  <2>3. ASSUME NEW r, req' = [req EXCEPT ![r] = Ended] PROVE \A t \in Requests : Grounded(req'[t])
    <3>1. \A t \in Requests : req'[t] = req[t] \/ req'[t] = Ended  BY <2>3 DEF MgrReqOK
    <3> QED  BY <3>1, NothingGrounded DEF GroundedInv
  <2>4. CASE req' = [r \in Requests |-> IF req[r].pc = "new" THEN Fresh ELSE Ended]
    BY <2>4, NothingGrounded
  <2> QED  BY <1>1, <2>1, <2>2, <2>3, <2>4
<1>3. \A r \in Requests : Grounded(req[r])'  BY <1>2 DEF Grounded
<1>4. CachedIsGrounded'  BY <1>1 DEF GroundedInv, CachedIsGrounded
<1> QED  BY <1>3, <1>4 DEF GroundedInv

LEMMA SaveGrounded ==
  ASSUME TablesOK, MgrReqOK, GroundedInv, NEW r \in Requests, Save(r) PROVE GroundedInv'
<1> DEFINE q == req[r]
           row == [refs |-> q.refs, evidence |-> q.evidence, checked |-> q.checked]
<1>1. q \in Request /\ Grounded(q) /\ q.pc = "save"  BY RequestIs DEF GroundedInv, Save
<1>2. /\ cache' = IF q.kind = "ask" THEN [cache EXCEPT ![q.ceil] = row] ELSE cache
      /\ wiki' = IF q.kind = "profile" THEN [wiki EXCEPT ![q.ceil] = row] ELSE wiki
      /\ req' = [req EXCEPT ![r] = Ended]
  BY DEF Save
<1>3. row.refs = q.refs /\ row.evidence = q.evidence /\ row.checked = q.checked  OBVIOUS
<1> HIDE DEF q, row
<1>4. /\ row.checked /\ row.refs \subseteq row.evidence /\ (\A i \in row.evidence : ChapOf[i] <= q.ceil)
      /\ row.refs = {} => q.kind = "profile" /\ row.evidence = {}
  BY <1>1, <1>3 DEF Grounded
<1>5. \A c \in Ceilings : /\ cache'[c] = cache[c] \/ (q.kind = "ask" /\ c = q.ceil /\ cache'[c] = row)
                          /\ wiki'[c] = wiki[c] \/ (q.kind = "profile" /\ c = q.ceil /\ wiki'[c] = row)
  BY <1>2 DEF TablesOK
<1>6. ASSUME NEW c \in Ceilings
      PROVE  /\ cache'[c] # None => cache'[c].refs # {}
             /\ wiki'[c] # None => (wiki'[c].refs = {} => wiki'[c].evidence = {})
             /\ \A w \in {cache'[c], wiki'[c]} \ {None} :
                  w.checked /\ w.refs \subseteq w.evidence /\ \A i \in w.evidence : ChapOf[i] <= c
  <2>1. /\ cache[c] # None => cache[c].refs # {}
        /\ wiki[c] # None => (wiki[c].refs = {} => wiki[c].evidence = {})
        /\ \A w \in {cache[c], wiki[c]} \ {None} :
             w.checked /\ w.refs \subseteq w.evidence /\ \A i \in w.evidence : ChapOf[i] <= c
    BY DEF GroundedInv, CachedIsGrounded
  <2>2. cache'[c] # None => cache'[c].refs # {}
    <3>1. CASE cache'[c] = cache[c]  BY <2>1, <3>1
    <3>2. CASE q.kind = "ask" /\ cache'[c] = row  BY <1>4, <3>2
    <3> QED  BY <1>5, <3>1, <3>2
  <2>3. wiki'[c] # None => (wiki'[c].refs = {} => wiki'[c].evidence = {})  BY <1>4, <1>5, <2>1
  <2>4. ASSUME NEW w \in {cache'[c], wiki'[c]} \ {None}
        PROVE  w.checked /\ w.refs \subseteq w.evidence /\ \A i \in w.evidence : ChapOf[i] <= c
    <3>1. w \in {cache[c], wiki[c]} \ {None} \/ (w = row /\ c = q.ceil)  BY <1>5
    <3> QED  BY <1>4, <2>1, <3>1
  <2> QED  BY <2>2, <2>3, <2>4
<1>7. CachedIsGrounded'  BY <1>6 DEF CachedIsGrounded
<1>8. \A s \in Requests : req'[s] = req[s] \/ req'[s] = Ended  BY <1>2 DEF MgrReqOK
<1>9. \A s \in Requests : Grounded(req'[s])  BY <1>8, NothingGrounded DEF GroundedInv
<1>10. \A s \in Requests : Grounded(req[s])'  BY <1>9 DEF Grounded
<1> QED  BY <1>7, <1>10 DEF GroundedInv

LEMMA RequestStepGrounded ==
  ASSUME TablesOK, MgrReqOK, LockInv, GroundedInv, NEW r \in Requests,
         \/ RequestStep(r) \/ HybridSearch(r) \/ ProviderFails(r) \/ Cancel(r)
         \/ \E c \in Ceilings : Ask(r, c) \/ Profile(r, c)
  PROVE  GroundedInv'
<1> DEFINE q == req[r]
<1>1. q \in Request /\ Grounded(q) /\ q.ceil \in Int  BY RequestIs, CeilingIs DEF GroundedInv
<1> HIDE DEF q
<1>2. CASE Save(r)  BY <1>2, SaveGrounded
<1>3. SUFFICES ASSUME ~Save(r)
      PROVE  UNCHANGED <<cache, wiki>> /\ \E q2 : Grounded(q2) /\ req' = [req EXCEPT ![r] = q2]
  BY <1>2, RequestGrounded
<1>4. \A s : s \notin {"final", "save"} => Grounded([q EXCEPT !.pc = s])  BY MovesGrounded DEF q
<1>5. CASE EnsureIndex(r) \/ LookUp(r) \/ HybridSearch(r)
  <2>1. /\ UNCHANGED <<cache, wiki>>
        /\ \/ req' = [req EXCEPT ![r] = Ended]
           \/ \E s \in {"lookup", "loading", "decide", "search", "ensure"} : Goto(r, s)
    BY <1>5 DEF EnsureIndex, LookUp, HybridSearch, Goto
  <2> QED  BY <1>4, <2>1, NothingGrounded DEF Goto, q
<1>6. CASE Decide(r)
  <2>1. PICK n \in 0..(MaxCalls + 1) :
           IF n = 0 \/ q.iter = MaxIterations THEN Goto(r, "gathered")
           ELSE req' = [req EXCEPT ![r].pc = "tool", ![r].iter = @ + 1,
                                   ![r].calls = IF n > MaxCalls THEN MaxCalls ELSE n]
    BY <1>6 DEF Decide, q
  <2>2. UNCHANGED <<cache, wiki>>  BY <1>6 DEF Decide
  <2>3. CASE Goto(r, "gathered")  BY <1>4, <2>2, <2>3 DEF Goto, q
  <2>4. CASE ~Goto(r, "gathered")
    <3> DEFINE i2 == q.iter + 1
               c2 == IF n > MaxCalls THEN MaxCalls ELSE n
               q2 == [q EXCEPT !.pc = "tool", !.iter = i2, !.calls = c2]
    <3>1. req' = [req EXCEPT ![r] = q2]  BY <2>1, <2>4 DEF q, MgrReqOK
    <3> HIDE DEF i2, c2
    <3>2. q2.pc = "tool" /\ q2.evidence = q.evidence /\ q2.ceil = q.ceil  BY <1>1 DEF Request
    <3> HIDE DEF q2
    <3>3. Grounded(q2)  BY <1>1, <3>2 DEF Grounded
    <3> QED  BY <2>2, <3>1, <3>3
  <2> QED  BY <2>3, <2>4
<1>7. CASE ReadTool(r)
  <2>1. PICK ids \in ToolResults(q.ceil), n \in 1..2 : req' = [req EXCEPT ![r] = Gathered(r, ids, n)]
    BY <1>7 DEF ReadTool, q
  <2>2. ids \in SUBSET RowIds  BY <1>1, RowsAre
  <2>3. \A i \in ids : ChapOf[i] <= q.ceil
    BY DEF ToolResults, ChunksAt, FactsAt, TimelineAt, EntitiesOnly
  <2>4. Grounded(Gathered(r, ids, n))
    <3>1. n \in Nat /\ \A i \in ids : ChapOf[i] <= req[r].ceil  BY <2>3 DEF q
    <3> QED  BY <2>2, <3>1, GatheredGrounded
  <2> QED  BY <1>7, <2>1, <2>4 DEF ReadTool
<1>8. CASE Search(r)
  <2> DEFINE m == mgr[Web]
  <2>1. m \in Manager  BY AskConstants, ManagerIs
  <2>2. PICK dense \in DenseHits(q.ceil), n \in 1..2 :
           \E ids \in Reranked(Fused(SparseHits(m, q.ceil), dense)) :
              req' = [req EXCEPT ![r] = Gathered(r, ids, n)]
    BY <1>8 DEF Search, q
  <2>3. PICK ids \in Reranked(Fused(SparseHits(m, q.ceil), dense)) :
           req' = [req EXCEPT ![r] = Gathered(r, ids, n)]
    BY <2>2
  <2> HIDE DEF m
  <2>4. ids \in SUBSET RowIds /\ \A i \in ids : ChapOf[i] <= q.ceil  BY <1>1, <2>1, HitsAre
  <2>5. Grounded(Gathered(r, ids, n))
    <3>1. n \in Nat /\ \A i \in ids : ChapOf[i] <= req[r].ceil  BY <2>4 DEF q
    <3> QED  BY <2>4, <3>1, GatheredGrounded
  <2> QED  BY <1>8, <2>3, <2>5 DEF Search
<1>9. CASE Synthesize(r)
  <2> DEFINE f == [Final(q, {}, TRUE) EXCEPT !.pc = "save"]
  <2>1. \/ req' = [req EXCEPT ![r] = Ended]
        \/ q.evidence = {} /\ q.kind # "ask" /\ req' = [req EXCEPT ![r] = f]
        \/ \E d \in Drafts(q), v \in {"supported", "flagged", "failed"} :
              \E a \in AfterVerdict(q, d, v) : req' = [req EXCEPT ![r] = a]
    BY <1>9 DEF Synthesize, q
  <2>2. UNCHANGED <<cache, wiki>>  BY <1>9 DEF Synthesize
  <2>3. CASE req' = [req EXCEPT ![r] = Ended]  BY <2>2, <2>3, NothingGrounded
  <2>4. CASE q.evidence = {} /\ q.kind # "ask" /\ req' = [req EXCEPT ![r] = f]
    <3> DEFINE e == Final(q, {}, TRUE)
    <3>1. /\ e \in Request /\ e.kind = q.kind /\ e.evidence = {} /\ e.refs = {} /\ e.checked = TRUE
      <4>1. {} \in SUBSET (RowIds \cup {NoRow}) /\ TRUE \in BOOLEAN  OBVIOUS
      <4>2. q.evidence = {}  BY <2>4
      <4> HIDE DEF q
      <4>3. /\ e \in Request /\ e.kind = q.kind /\ e.evidence = q.evidence
            /\ e.refs = {} /\ e.checked = TRUE
        BY <1>1, <4>1, FinalIs
      <4> QED  BY <4>2, <4>3
    <3>2. q.kind = "profile"  BY <1>1, <2>4 DEF Request
    <3>3. f = [e EXCEPT !.pc = "save"]  OBVIOUS
    <3> HIDE DEF e, f
    <3>4. /\ f.kind = e.kind /\ f.evidence = e.evidence /\ f.refs = e.refs /\ f.checked = e.checked
          /\ f.pc = "save"
      BY <3>1, <3>3 DEF Request
    <3>5. Grounded(f)  BY <3>1, <3>2, <3>4 DEF Grounded
    <3> QED  BY <2>2, <2>4, <3>5
  <2>5. ASSUME NEW d \in Drafts(q), NEW v, NEW a \in AfterVerdict(q, d, v), req' = [req EXCEPT ![r] = a]
        PROVE  \E q2 : Grounded(q2) /\ req' = [req EXCEPT ![r] = q2]
    <3>1. a = Ended \/ (\E refs \in Drafts(q) : a = Final(q, refs, TRUE))  BY DEF AfterVerdict
    <3>2. CASE a = Ended  BY <2>5, <3>2, NothingGrounded
    <3>3. ASSUME NEW refs \in Drafts(q), a = Final(q, refs, TRUE) PROVE Grounded(a)
      <4>1. a.pc = "final" /\ a.checked = TRUE /\ a.evidence = q.evidence /\ a.ceil = q.ceil
        BY <1>1, <3>3, DraftsAre, FinalIs
      <4> QED  BY <1>1, <4>1 DEF Grounded
    <3> QED  BY <2>5, <3>1, <3>2, <3>3
  <2> QED  BY <2>1, <2>2, <2>3, <2>4, <2>5
<1>10. CASE FinalCheck(r)
  <2>1. /\ UNCHANGED <<cache, wiki>> /\ q.pc = "final"
        /\ \/ req' = [req EXCEPT ![r] = Ended]
           \/ ~GroundingIssues(q, q.refs) /\ req' = [req EXCEPT ![r].pc = "save"]
    BY <1>10 DEF FinalCheck, q
  <2>2. CASE req' = [req EXCEPT ![r] = Ended]  BY <2>1, <2>2, NothingGrounded
  <2>3. CASE ~GroundingIssues(q, q.refs) /\ req' = [req EXCEPT ![r].pc = "save"]
    <3> DEFINE q2 == [q EXCEPT !.pc = "save"]
    <3>1. req' = [req EXCEPT ![r] = q2]  BY <2>3 DEF q
    <3>2. /\ q2.pc = "save" /\ q2.evidence = q.evidence /\ q2.ceil = q.ceil /\ q2.refs = q.refs
          /\ q2.checked = q.checked
      BY <1>1 DEF Request
    <3> HIDE DEF q2
    <3>3. Grounded(q2)  BY <1>1, <2>1, <2>3, <3>2 DEF Grounded, GroundingIssues
    <3> QED  BY <2>1, <3>1, <3>3
  <2> QED  BY <2>1, <2>2, <2>3
<1>11. CASE ProviderFails(r) \/ Cancel(r)
  BY <1>11, NothingGrounded DEF ProviderFails, Cancel
<1>12. ASSUME NEW c \in Ceilings, Ask(r, c)
       PROVE  UNCHANGED <<cache, wiki>> /\ \E q2 : Grounded(q2) /\ req' = [req EXCEPT ![r] = q2]
  <2> DEFINE q2 == [Fresh EXCEPT !.pc = "index", !.ceil = c]
  <2>1. q2.pc = "index" /\ q2.evidence = {}  BY FreshIs DEF Request
  <2>2. Grounded(q2)
    <3> HIDE DEF q2
    <3> QED  BY <2>1 DEF Grounded
  <2> QED  BY <1>12, <2>2 DEF Ask
<1>13. ASSUME NEW c \in Ceilings, Profile(r, c)
       PROVE  UNCHANGED <<cache, wiki>> /\ \E q2 : Grounded(q2) /\ req' = [req EXCEPT ![r] = q2]
  <2> DEFINE e == FactsAt(c)
             q2 == [Fresh EXCEPT !.pc = "gathered", !.kind = "profile", !.ceil = c, !.evidence = e]
  <2>1. \A i \in e : ChapOf[i] <= c  BY DEF FactsAt
  <2>2. req' = [req EXCEPT ![r] = q2] /\ UNCHANGED <<cache, wiki>>  BY <1>13 DEF Profile
  <2> HIDE DEF e
  <2>3. q2.pc = "gathered" /\ q2.evidence = e /\ q2.ceil = c  BY FreshIs DEF Request
  <2> HIDE DEF q2
  <2>4. Grounded(q2)  BY <2>1, <2>3 DEF Grounded
  <2> QED  BY <2>2, <2>4
<1> QED  BY <1>3, <1>5, <1>6, <1>7, <1>8, <1>9, <1>10, <1>11, <1>12, <1>13 DEF RequestStep

LEMMA GroundedStays == AskInv /\ GroundedInv /\ [AskNext]_askVars => GroundedInv'
<1> SUFFICES ASSUME AskInv, GroundedInv, [AskNext]_askVars PROVE GroundedInv'  OBVIOUS
<1> USE DEF AskInv
<1>1. CASE UNCHANGED askVars
  BY <1>1 DEF askVars, GroundedInv, Grounded, CachedIsGrounded
<1>2. ASSUME NEW n \in Ceilings, CodexChanges(n) PROVE GroundedInv'
  <2>1. UNCHANGED req  BY <1>2 DEF CodexChanges
  <2>2. \A r \in Requests : Grounded(req[r])'  BY <2>1 DEF GroundedInv, Grounded
  <2>3. \A c \in Ceilings : cache'[c] \in {None, cache[c]} /\ wiki'[c] \in {None, wiki[c]}
    BY <1>2 DEF CodexChanges, Cleared
  <2>4. ASSUME NEW c \in Ceilings
        PROVE  /\ cache'[c] # None => cache'[c].refs # {}
               /\ wiki'[c] # None => (wiki'[c].refs = {} => wiki'[c].evidence = {})
               /\ \A w \in {cache'[c], wiki'[c]} \ {None} :
                    w.checked /\ w.refs \subseteq w.evidence /\ \A i \in w.evidence : ChapOf[i] <= c
    <3>1. {cache'[c], wiki'[c]} \ {None} \subseteq {cache[c], wiki[c]} \ {None}  BY <2>3
    <3> QED  BY <2>3, <3>1 DEF GroundedInv, CachedIsGrounded
  <2>5. CachedIsGrounded'  BY <2>4 DEF CachedIsGrounded
  <2> QED  BY <2>2, <2>5 DEF GroundedInv
<1>3. CASE AskNext  BY <1>2, <1>3, ManagerGrounded, RequestStepGrounded DEF AskNext
<1> QED  BY <1>1, <1>3

\* An answer or a profile is cached only when it was verified and cites rows
\* that its own request retrieved below its ceiling, whatever the models draft.
THEOREM CachedAlwaysGrounded == AskSpec => []CachedIsGrounded
<1>1. AskInit => GroundedInv  BY NothingGrounded DEF AskInit, GroundedInv, CachedIsGrounded
<1>2. GroundedInv => CachedIsGrounded  BY DEF GroundedInv
<1> QED  BY <1>1, <1>2, AskInvHolds, AskInvStays, GroundedStays, PTL DEF AskSpec

----------------------------------------------------------------------------
(* The index.  A corpus may only grow: no chunk becomes older.             *)

NotNewer(a, b) == \A i \in ChunkIds : a[i] <= b[i]

\* The signature on disk was written after the index files it is beside.
DiskOK(d, ch) ==
  /\ d.meta # None => d.index # None /\ NotNewer(d.meta, d.index)
  /\ d.index # None => NotNewer(d.index, ch)

\* An entry of the prefix cache is the index of a ceiling, under its count.
PrefixOK(m) == \A k \in DOMAIN m.prefix :
  \E c \in Int : m.prefix[k] = <<Count(UpTo(m.corpus, c)), UpTo(m.corpus, c)>>

\* Nobody takes a manager for loaded while a holder is in a step; a retriever
\* that is taken for loaded, or is on its way to the disk, is of the corpus.
Kept(m, d, ch) ==
  /\ m.at # "free" => ~m.loaded
  /\ m.loaded => m.retriever \in {None, m.corpus}
  /\ m.at \in {"disk", "build", "index"} =>
       NotNewer(m.corpus, ch) /\ (d.index # None => NotNewer(d.index, m.corpus))
  /\ m.at \in {"index", "meta"} => m.retriever = m.corpus
  /\ m.at = "meta" => d.index = m.corpus
  /\ PrefixOK(m)

AlignInv == DiskOK(disk, chunks) /\ Kept(mgr[Web], disk, chunks)

LEMMA NotNewerIs ==
  ASSUME NEW a \in Corpora, NEW b \in Corpora, NEW c \in Corpora
  PROVE  /\ NotNewer(a, a)
         /\ NotNewer(a, b) /\ NotNewer(b, a) => a = b
         /\ NotNewer(a, b) /\ NotNewer(b, c) => NotNewer(a, c)
<1>1. \A i \in ChunkIds : a[i] \in Int /\ b[i] \in Int /\ c[i] \in Int  BY AskConstants DEF Corpora
<1>2. NotNewer(a, a)  BY <1>1 DEF NotNewer
<1>3. NotNewer(a, b) /\ NotNewer(b, c) => NotNewer(a, c)  BY <1>1 DEF NotNewer
<1>4. ASSUME NotNewer(a, b), NotNewer(b, a) PROVE a = b
  <2>1. \A i \in ChunkIds : a[i] = b[i]  BY <1>1, <1>4 DEF NotNewer
  <2> QED  BY <2>1 DEF Corpora
<1> QED  BY <1>2, <1>3, <1>4

\* The chapters up to a ceiling are told by how many rows they have.
LEMMA CountTells ==
  ASSUME NEW v \in Corpora, NEW c \in Int
  PROVE  /\ Count(UpTo(v, c)) = Count(v) => UpTo(v, c) = v
         /\ \A e \in Int : Count(UpTo(v, c)) = Count(UpTo(v, e)) => UpTo(v, c) = UpTo(v, e)
<1> DEFINE R(w) == {i \in ChunkIds : w[i] # 0}
<1>0. \A w : R(w) \subseteq ChunkIds  OBVIOUS
<1>1. \A w : IsFiniteSet(R(w)) /\ Count(w) = Cardinality(R(w))
  <2> TAKE w
  <2>1. R(w) \subseteq ChunkIds  OBVIOUS
  <2> HIDE DEF R
  <2>2. IsFiniteSet(R(w))  BY <2>1, AskConstants, FS_Subset
  <2>3. Count(w) = Cardinality(R(w))  BY DEF Count, R
  <2> QED  BY <2>2, <2>3
<1>2. ASSUME NEW a \in Corpora, NEW b \in Corpora, Count(a) = Count(b),
             \A i \in ChunkIds : a[i] = b[i] \/ a[i] = 0
      PROVE  a = b
  <2>1. R(a) \subseteq R(b)  BY <1>2
  <2> HIDE DEF R
  <2>2. R(a) = R(b)  BY <1>1, <1>2, <2>1, FS_Subset
  <2>3. \A i \in ChunkIds : a[i] = 0 <=> b[i] = 0  BY <2>2 DEF R
  <2>4. \A i \in ChunkIds : a[i] = b[i]  BY <1>2, <2>3
  <2> QED  BY <2>4 DEF Corpora
<1>3. \A e \in Int : UpTo(v, e) \in Corpora  BY AskConstants DEF UpTo, Corpora
<1>4. Count(UpTo(v, c)) = Count(v) => UpTo(v, c) = v
  <2>1. \A i \in ChunkIds : UpTo(v, c)[i] = v[i] \/ UpTo(v, c)[i] = 0  BY DEF UpTo
  <2> QED  BY <1>2, <1>3, <2>1
<1>5. ASSUME NEW e \in Int, Count(UpTo(v, c)) = Count(UpTo(v, e)) PROVE UpTo(v, c) = UpTo(v, e)
  <2>1. \A i \in ChunkIds : ChapOf[i] \in Int  BY AskConstants
  <2>2. CASE c <= e
    <3>1. \A i \in ChunkIds : UpTo(v, c)[i] = UpTo(v, e)[i] \/ UpTo(v, c)[i] = 0
      BY <2>1, <2>2 DEF UpTo
    <3> QED  BY <1>2, <1>3, <1>5, <3>1
  <2>3. CASE e <= c
    <3>1. \A i \in ChunkIds : UpTo(v, e)[i] = UpTo(v, c)[i] \/ UpTo(v, e)[i] = 0
      BY <2>1, <2>3 DEF UpTo
    <3> QED  BY <1>2, <1>3, <1>5, <3>1
  <2> QED  BY <2>2, <2>3
<1> QED  BY <1>4, <1>5

\* With a retriever of the corpus, the retriever of a ceiling is of its rows.
LEMMA RetrieverIsAligned ==
  ASSUME NEW m \in Manager, PrefixOK(m), NEW c \in Int
  PROVE  /\ m.retriever \in {None, m.corpus} => RetrieverForCeiling(m, c) \in {None, UpTo(m.corpus, c)}
         /\ m.retriever # None /\ Count(UpTo(m.corpus, c)) \notin {0, Count(m.corpus)} =>
               RetrieverForCeiling(m, c) = UpTo(m.corpus, c)
<1> DEFINE v == m.corpus
           key == Count(UpTo(v, c))
           hits == {i \in 1..Len(m.prefix) : m.prefix[i][1] = key}
           hit == IF hits # {} THEN Min(hits) ELSE 0
<1>1. v \in Corpora /\ m.prefix \in Seq(Nat \X Corpora)  BY DEF Manager
<1>2. SelectInSeq(m.prefix, LAMBDA p : p[1] = key) = hit  BY DEF SelectInSeq
<1>3. RetrieverForCeiling(m, c) =
         IF m.retriever = None \/ key = 0 THEN None
         ELSE IF key = Count(v) THEN m.retriever
         ELSE IF hit # 0 THEN m.prefix[hit][2] ELSE UpTo(v, c)
  BY <1>2 DEF RetrieverForCeiling
<1>4. ASSUME hit # 0 PROVE m.prefix[hit][2] = UpTo(v, c)
  <2>1. hits \in SUBSET Nat  OBVIOUS
  <2>2. hits # {} /\ hit = Min(hits)  BY <1>4
  <2>3. hit \in hits
    <3> HIDE DEF hits, hit
    <3> QED  BY <2>1, <2>2, FirstIs
  <2>4. hit \in DOMAIN m.prefix /\ m.prefix[hit][1] = key
    <3> HIDE DEF hit
    <3> QED  BY <1>1, <2>3
  <2> HIDE DEF hit, hits
  <2>5. PICK e \in Int : m.prefix[hit] = <<Count(UpTo(v, e)), UpTo(v, e)>>  BY <2>4 DEF PrefixOK
  <2>6. Count(UpTo(v, c)) = Count(UpTo(v, e)) /\ m.prefix[hit][2] = UpTo(v, e)  BY <2>4, <2>5
  <2> QED  BY <1>1, <2>6, CountTells
<1>5. key = Count(v) => UpTo(v, c) = v  BY <1>1, CountTells
<1> HIDE DEF key, hit
<1> QED  BY <1>3, <1>4, <1>5 DEF key

LEMMA PrefixesAligned ==
  ASSUME NEW m \in Manager, PrefixOK(m), NEW c \in Int
  PROVE  \A k \in DOMAIN PrefixesAfter(m, c) :
           \E e \in Int : PrefixesAfter(m, c)[k] = <<Count(UpTo(m.corpus, e)), UpTo(m.corpus, e)>>
<1> DEFINE S == Nat \X Corpora
           T == {<<Count(UpTo(m.corpus, e)), UpTo(m.corpus, e)>> : e \in Int}
           f == m.prefix
           key == Count(UpTo(m.corpus, c))
           hits == {i \in 1..Len(f) : f[i][1] = key}
           others == IF hits # {} THEN RemoveAt(f, Min(hits)) ELSE f
           x == <<key, RetrieverForCeiling(m, c)>>
           all == Append(others, x)
<1>1. f \in Seq(T)
  <2>1. f \in Seq(S)  BY DEF Manager
  <2>2. \A k \in DOMAIN f : f[k] \in T  BY DEF PrefixOK
  <2> HIDE DEF f, T, S
  <2> QED  BY <2>1, <2>2
<1>2. PrefixesAfter(m, c) \in Seq(T)
  <2>1. CASE m.retriever = None \/ key \in {0, Count(m.corpus)}
    BY <1>1, <2>1 DEF PrefixesAfter
  <2>2. CASE ~(m.retriever = None \/ key \in {0, Count(m.corpus)})
    <3>1. x = <<key, UpTo(m.corpus, c)>>  BY <2>2, RetrieverIsAligned
    <3>2. x \in T  BY <3>1
    <3>3. RemoveFirstMatch(f, LAMBDA e : e[1] = key) = others
      BY DEF RemoveFirstMatch, SelectInSeq
    <3>4. PrefixesAfter(m, c) = IF Len(all) > PrefixSize THEN Tail(all) ELSE all
      BY <2>2, <3>3 DEF PrefixesAfter
    <3>5. others \in Seq(T)
      <4>1. ASSUME hits # {} PROVE Min(hits) \in DOMAIN f
        <5>1. hits \in SUBSET Nat /\ hits \subseteq DOMAIN f
          <6> HIDE DEF f, T, key
          <6> QED  BY <1>1
        <5> HIDE DEF hits
        <5> QED  BY <4>1, <5>1, FirstIs
      <4> HIDE DEF f, hits, T
      <4>2. ASSUME hits # {} PROVE RemoveAt(f, Min(hits)) \in Seq(T)
        BY <1>1, <4>1, <4>2, RemoveAtIs
      <4> QED  BY <1>1, <4>2
    <3> HIDE DEF others, x, T
    <3>6. all \in Seq(T) /\ Len(all) = Len(others) + 1 /\ Len(others) \in Nat
      BY <3>2, <3>5, AppendIs
    <3> HIDE DEF all
    <3>7. all # <<>>  BY <3>6
    <3>8. Tail(all) \in Seq(T)  BY <3>6, <3>7, TailIs
    <3> QED  BY <3>4, <3>6, <3>8
  <2> QED  BY <2>1, <2>2
<1>3. \A k \in DOMAIN PrefixesAfter(m, c) : PrefixesAfter(m, c)[k] \in T
  <2> HIDE DEF T
  <2> QED  BY <1>2, ElementIs
<1> QED  BY <1>3

LEMMA SameKept ==
  ASSUME NEW m, NEW m2, NEW d, NEW ch, Kept(m, d, ch),
         m2.loaded = m.loaded, m2.retriever = m.retriever, m2.corpus = m.corpus,
         m2.at = m.at, m2.prefix = m.prefix
  PROVE  Kept(m2, d, ch)
BY DEF Kept, PrefixOK

\* The holder leaves the lock, and its manager is as loaded as before.
LEMMA ReleasedKept ==
  ASSUME NEW m \in Manager, m.queue # <<>>, m.loaded => m.retriever \in {None, m.corpus}, PrefixOK(m),
         NEW d, NEW ch
  PROVE  Kept(Released(m), d, ch)
<1>1. /\ Released(m).loaded = m.loaded /\ Released(m).corpus = m.corpus
      /\ Released(m).retriever = m.retriever /\ Released(m).prefix = m.prefix
      /\ Released(m).at = "free"
  BY ReleasedIs
<1> QED  BY <1>1 DEF Kept, PrefixOK

\* The holder is done, with a retriever of the corpus.
LEMMA FinishKept ==
  ASSUME NEW m \in Manager, m.queue # <<>>, m.retriever \in {None, m.corpus}, PrefixOK(m),
         Web \in DOMAIN mgr, Finish(Web, m), NEW d, NEW ch
  PROVE  Kept(mgr'[Web], d, ch)
<1> DEFINE l == [m EXCEPT !.loaded = TRUE]
           e == Released(l)
           n == Resume(e, Holder(m))
<1>1. /\ l \in Manager /\ l.queue = m.queue /\ l.retriever = m.retriever /\ l.corpus = m.corpus
      /\ l.prefix = m.prefix
  BY DEF Manager
<1>2. mgr'[Web] = n  BY DEF Finish
<1> HIDE DEF l
<1>3. e \in Manager /\ Kept(e, d, ch)
  <2>1. PrefixOK(l) /\ l.queue # <<>> /\ l.retriever \in {None, l.corpus}  BY <1>1 DEF PrefixOK
  <2> QED  BY <1>1, <2>1, ReleasedIs, ReleasedKept
<1> HIDE DEF e
<1>4. /\ n.loaded = e.loaded /\ n.retriever = e.retriever /\ n.corpus = e.corpus
      /\ n.at = e.at /\ n.prefix = e.prefix
  BY <1>3 DEF Resume, Manager
<1> HIDE DEF n
<1>5. Kept(n, d, ch)  BY <1>3, <1>4, SameKept
<1> QED  BY <1>2, <1>5

LEMMA ManagerKept ==
  ASSUME AskInv, AlignInv, ManagerStep(Web) \/ Rebuild(Web) \/ LoadFails(Web) \/ Crash(Web)
  PROVE  AlignInv'
<1> DEFINE m == mgr[Web]
<1>0. Web \in Procs /\ MgrReqOK /\ LockInv /\ TablesOK  BY AskConstants DEF AskInv
<1>1. /\ m \in Manager /\ m.corpus \in Corpora /\ m.retriever \in Corpora \cup {None} /\ Steady(m)
  BY <1>0, ManagerIs
<1>2. Web \in DOMAIN mgr /\ mgr \in [Procs -> Manager]  BY <1>0 DEF MgrReqOK
<1>3. chunks \in Corpora /\ disk.index \in Corpora \cup {None} /\ disk.meta \in Corpora \cup {None}
  BY <1>0 DEF TablesOK
<1>4. DiskOK(disk, chunks) /\ Kept(m, disk, chunks) /\ PrefixOK(m)  BY DEF AlignInv, Kept
<1>5. ASSUME UNCHANGED <<disk, chunks>>, Kept(mgr'[Web], disk, chunks) PROVE AlignInv'
  <2>1. Kept(mgr'[Web], disk', chunks') /\ DiskOK(disk', chunks')  BY <1>4, <1>5
  <2> QED  BY <2>1 DEF AlignInv, Kept, DiskOK, PrefixOK, NotNewer, Count, UpTo
<1>6. CASE Enter(Web)
  <2>1. UNCHANGED <<disk, chunks>> /\ m.queue # <<>> /\ m.at = "free"  BY <1>6 DEF Enter
  <2>2. CASE m.loaded /\ Finish(Web, m)
    <3>1. m.retriever \in {None, m.corpus}  BY <1>4, <2>2 DEF Kept
    <3>2. Kept(mgr'[Web], disk, chunks)  BY <1>1, <1>2, <1>4, <2>1, <2>2, <3>1, FinishKept
    <3> QED  BY <1>5, <2>1, <3>2
  <2>3. CASE mgr' = [mgr EXCEPT ![Web].loaded = FALSE, ![Web].at = "rows"]
    <3> DEFINE m2 == [m EXCEPT !.loaded = FALSE, !.at = "rows"]
    <3>1. mgr'[Web] = m2  BY <1>2, <2>3
    <3> HIDE DEF m
    <3>2. m2.loaded = FALSE /\ m2.at = "rows" /\ m2.corpus = m.corpus /\ m2.prefix = m.prefix
      BY <1>1 DEF Manager
    <3> HIDE DEF m2
    <3>3. Kept(m2, disk, chunks)  BY <1>4, <3>2 DEF Kept, PrefixOK
    <3> QED  BY <1>5, <2>1, <3>1, <3>3
  <2> QED  BY <1>6, <2>2, <2>3 DEF Enter
<1>7. CASE LoadCorpusRows(Web)
  <2> DEFINE o == [m EXCEPT !.corpus = chunks, !.prefix = <<>>]
             o1 == [o EXCEPT !.retriever = None]
             at2 == IF Holder(o).what = "rebuild" THEN "build" ELSE "disk"
             m2 == [o EXCEPT !.at = at2]
  <2>1. /\ UNCHANGED <<disk, chunks>> /\ m.at = "rows"
        /\ Finish(Web, o1) \/ mgr' = [mgr EXCEPT ![Web] = m2]
    BY <1>7 DEF LoadCorpusRows
  <2>2. m.queue # <<>> /\ ~m.loaded  BY <1>1, <1>4, <2>1 DEF Steady, Kept
  <2>3. at2 \in {"build", "disk"}  OBVIOUS
  <2>4. mgr' = [mgr EXCEPT ![Web] = m2] => mgr'[Web] = m2  BY <1>2
  <2> HIDE DEF m, at2
  <2>5. /\ o \in Manager /\ o.corpus = chunks /\ o.prefix = <<>> /\ o.queue = m.queue
        /\ o.loaded = m.loaded /\ o.at = m.at
    <3> DEFINE e == <<>>
    <3>1. e \in Seq(Nat \X Corpora) /\ o = [m EXCEPT !.corpus = chunks, !.prefix = e]  OBVIOUS
    <3> HIDE DEF e, o
    <3> QED  BY <1>1, <1>3, <3>1 DEF Manager, e
  <2> HIDE DEF o
  <2>6. o1 \in Manager /\ o1.retriever = None /\ o1.prefix = <<>> /\ o1.queue = m.queue
    BY <2>5 DEF Manager
  <2>7. /\ m2.corpus = chunks /\ m2.prefix = <<>> /\ m2.loaded = m.loaded /\ m2.at = at2
    BY <2>3, <2>5 DEF Manager
  <2> HIDE DEF o1, m2
  <2>8. CASE Finish(Web, o1)
    <3>1. PrefixOK(o1)  BY <2>6 DEF PrefixOK
    <3>2. Kept(mgr'[Web], disk, chunks)  BY <1>2, <2>2, <2>6, <2>8, <3>1, FinishKept
    <3> QED  BY <1>5, <2>1, <3>2
  <2>9. CASE mgr' = [mgr EXCEPT ![Web] = m2]
    <3>1. NotNewer(chunks, chunks) /\ (disk.index # None => NotNewer(disk.index, chunks))
      BY <1>3, <1>4, NotNewerIs DEF DiskOK
    <3>2. Kept(m2, disk, chunks)  BY <2>2, <2>3, <2>7, <3>1 DEF Kept, PrefixOK
    <3> QED  BY <1>5, <2>1, <2>4, <2>9, <3>2
  <2> QED  BY <2>1, <2>8, <2>9
<1>8. CASE TryLoadFromDisk(Web)
  <2> DEFINE fresh == disk.meta = m.corpus
             l == IF fresh THEN [m EXCEPT !.retriever = disk.index] ELSE m
             m2 == [m EXCEPT !.at = "build"]
  <2>1. /\ UNCHANGED <<disk, chunks>> /\ m.at = "disk"
        /\ \/ mgr' = [mgr EXCEPT ![Web] = Released(l)]
           \/ fresh /\ Finish(Web, l)
           \/ mgr' = [mgr EXCEPT ![Web] = m2]
    BY <1>8 DEF TryLoadFromDisk, Drained
  <2>2. m.queue # <<>> /\ ~m.loaded  BY <1>1, <1>4, <2>1 DEF Steady, Kept
  <2>3. /\ mgr' = [mgr EXCEPT ![Web] = Released(l)] => mgr'[Web] = Released(l)
        /\ mgr' = [mgr EXCEPT ![Web] = m2] => mgr'[Web] = m2
    BY <1>2
  <2>4. fresh => disk.index = m.corpus
    <3>1. SUFFICES ASSUME disk.meta = m.corpus PROVE disk.index = m.corpus  OBVIOUS
    <3>2. disk.meta # None  BY <1>1, <3>1, AskConstants
    <3>3. disk.index # None /\ NotNewer(m.corpus, disk.index)  BY <1>4, <3>1, <3>2 DEF DiskOK
    <3>4. NotNewer(disk.index, m.corpus)  BY <1>4, <2>1, <3>3 DEF Kept
    <3>5. disk.index \in Corpora  BY <1>3, <3>3
    <3> QED  BY <1>1, <3>3, <3>4, <3>5, NotNewerIs
  <2> HIDE DEF m, fresh
  <2>5. /\ l \in Manager /\ l.queue = m.queue /\ l.loaded = m.loaded /\ l.corpus = m.corpus
        /\ l.prefix = m.prefix /\ (fresh => l.retriever = disk.index)
    BY <1>1, <1>3 DEF Manager
  <2>6. /\ m2.corpus = m.corpus /\ m2.prefix = m.prefix /\ m2.loaded = m.loaded /\ m2.at = "build"
    BY <1>1 DEF Manager
  <2> HIDE DEF l, m2
  <2>7. PrefixOK(l)  BY <1>4, <2>5 DEF PrefixOK
  <2>8. Kept(Released(l), disk, chunks)  BY <2>2, <2>5, <2>7, ReleasedKept
  <2>9. ASSUME fresh, Finish(Web, l) PROVE Kept(mgr'[Web], disk, chunks)
    <3>1. l.retriever \in {None, l.corpus}  BY <2>4, <2>5, <2>9
    <3> QED  BY <1>2, <2>2, <2>5, <2>7, <2>9, <3>1, FinishKept
  <2>10. Kept(m2, disk, chunks)  BY <1>4, <2>1, <2>2, <2>6 DEF Kept, PrefixOK
  <2> QED  BY <1>5, <2>1, <2>3, <2>8, <2>9, <2>10
<1>9. CASE BuildRetriever(Web)
  <2> DEFINE o == [m EXCEPT !.retriever = m.corpus, !.prefix = <<>>]
             m2 == [o EXCEPT !.at = "index"]
  <2>1. /\ UNCHANGED <<disk, chunks>> /\ o.at = "build"
        /\ mgr' = [mgr EXCEPT ![Web] = Released(o)] \/ mgr' = [mgr EXCEPT ![Web] = m2]
    BY <1>9 DEF BuildRetriever, Drained
  <2>2. /\ mgr' = [mgr EXCEPT ![Web] = Released(o)] => mgr'[Web] = Released(o)
        /\ mgr' = [mgr EXCEPT ![Web] = m2] => mgr'[Web] = m2
    BY <1>2
  <2> HIDE DEF m
  <2>3. /\ o \in Manager /\ o.corpus = m.corpus /\ o.prefix = <<>> /\ o.queue = m.queue
        /\ o.loaded = m.loaded /\ o.at = m.at /\ o.retriever = m.corpus
    <3> DEFINE e == <<>>
    <3>1. e \in Seq(Nat \X Corpora) /\ o = [m EXCEPT !.retriever = m.corpus, !.prefix = e]  OBVIOUS
    <3> HIDE DEF e, o
    <3> QED  BY <1>1, <3>1 DEF Manager, e
  <2> HIDE DEF o
  <2>4. m.queue # <<>> /\ ~m.loaded /\ m.at = "build"  BY <1>1, <1>4, <2>1, <2>3 DEF Steady, Kept
  <2>5. /\ m2.corpus = m.corpus /\ m2.prefix = <<>> /\ m2.loaded = m.loaded /\ m2.at = "index"
        /\ m2.retriever = m.corpus
    BY <2>3 DEF Manager
  <2> HIDE DEF m2
  <2>6. PrefixOK(o)  BY <2>3 DEF PrefixOK
  <2>7. Kept(Released(o), disk, chunks)  BY <2>3, <2>4, <2>6, ReleasedKept
  <2>8. Kept(m2, disk, chunks)  BY <1>4, <2>4, <2>5 DEF Kept, PrefixOK
  <2> QED  BY <1>5, <2>1, <2>2, <2>7, <2>8
<1>10. CASE SaveIndex(Web)
  <2> DEFINE m2 == [m EXCEPT !.at = "meta"]
  <2>1. /\ UNCHANGED chunks /\ m.at = "index" /\ disk' = [disk EXCEPT !.index = m.retriever]
        /\ mgr'[Web] = m2
    BY <1>2, <1>10 DEF SaveIndex
  <2>2. /\ ~m.loaded /\ m.retriever = m.corpus /\ NotNewer(m.corpus, chunks)
        /\ disk.index # None => NotNewer(disk.index, m.corpus)
    BY <1>4, <2>1 DEF Kept
  <2> HIDE DEF m
  <2>3. /\ m2.corpus = m.corpus /\ m2.prefix = m.prefix /\ m2.loaded = m.loaded /\ m2.at = "meta"
        /\ m2.retriever = m.retriever
    BY <1>1 DEF Manager
  <2> HIDE DEF m2
  <2>4. disk'.index = m.corpus /\ disk'.meta = disk.meta  BY <1>0, <2>1, <2>2 DEF TablesOK
  <2>5. m.corpus # None  BY <1>1, AskConstants
  <2>6. DiskOK(disk', chunks)
    <3>1. ASSUME disk.meta # None PROVE NotNewer(disk.meta, m.corpus)
      <4>1. disk.index # None /\ NotNewer(disk.meta, disk.index)  BY <1>4, <3>1 DEF DiskOK
      <4>2. disk.meta \in Corpora /\ disk.index \in Corpora  BY <1>3, <3>1, <4>1
      <4> QED  BY <1>1, <2>2, <4>1, <4>2, NotNewerIs
    <3> QED  BY <2>2, <2>4, <2>5, <3>1 DEF DiskOK
  <2>7. Kept(m2, disk', chunks)  BY <1>4, <2>2, <2>3, <2>4 DEF Kept, PrefixOK
  <2>8. DiskOK(disk', chunks') /\ Kept(mgr'[Web], disk', chunks')  BY <2>1, <2>6, <2>7
  <2> QED  BY <2>8 DEF AlignInv, Kept, DiskOK, PrefixOK, NotNewer, Count, UpTo
<1>11. CASE SaveMeta(Web)
  <2>1. /\ UNCHANGED chunks /\ m.at = "meta" /\ disk' = [disk EXCEPT !.meta = m.corpus]
        /\ Finish(Web, m) \/ mgr' = [mgr EXCEPT ![Web] = Released(m)]
    BY <1>11 DEF SaveMeta, Drained
  <2>2. /\ ~m.loaded /\ m.retriever = m.corpus /\ disk.index = m.corpus /\ m.queue # <<>>
    BY <1>1, <1>4, <2>1 DEF Kept, Steady
  <2>3. disk'.index = disk.index /\ disk'.meta = m.corpus  BY <1>0, <2>1 DEF TablesOK
  <2>4. m.corpus # None  BY <1>1, AskConstants
  <2>5. DiskOK(disk', chunks)  BY <1>1, <1>4, <2>2, <2>3, <2>4, NotNewerIs DEF DiskOK
  <2>6. Kept(mgr'[Web], disk', chunks)
    <3>1. CASE Finish(Web, m)  BY <1>1, <1>2, <1>4, <2>2, <3>1, FinishKept
    <3>2. CASE mgr' = [mgr EXCEPT ![Web] = Released(m)]
      <4>1. mgr'[Web] = Released(m)  BY <1>2, <3>2
      <4> QED  BY <1>1, <1>4, <2>2, <4>1, ReleasedKept
    <3> QED  BY <2>1, <3>1, <3>2
  <2>7. DiskOK(disk', chunks') /\ Kept(mgr'[Web], disk', chunks')  BY <2>1, <2>5, <2>6
  <2> QED  BY <2>7 DEF AlignInv, Kept, DiskOK, PrefixOK, NotNewer, Count, UpTo
<1>12. CASE LoadFails(Web)
  <2>1. UNCHANGED <<disk, chunks>> /\ m.at # "free" /\ mgr'[Web] = Released(m)
    BY <1>2, <1>12 DEF LoadFails, Raised
  <2>2. ~m.loaded /\ m.queue # <<>>  BY <1>1, <1>4, <2>1 DEF Kept, Steady
  <2>3. Kept(Released(m), disk, chunks)  BY <1>1, <1>4, <2>2, ReleasedKept
  <2> QED  BY <1>5, <2>1, <2>3
<1>13. CASE Rebuild(Web)
  <2> DEFINE m2 == [m EXCEPT !.queue = Append(@, Op("rebuild", None))]
  <2>1. UNCHANGED <<disk, chunks>> /\ mgr'[Web] = m2  BY <1>2, <1>13 DEF Rebuild
  <2> HIDE DEF m
  <2>2. /\ m2.loaded = m.loaded /\ m2.retriever = m.retriever /\ m2.corpus = m.corpus
        /\ m2.at = m.at /\ m2.prefix = m.prefix
    BY <1>1 DEF Manager
  <2> HIDE DEF m2
  <2>3. Kept(m2, disk, chunks)  BY <1>4, <2>2, SameKept
  <2> QED  BY <1>5, <2>1, <2>3
<1>14. CASE Crash(Web)
  <2>1. UNCHANGED <<disk, chunks>> /\ mgr'[Web] = FreshManager
    BY <1>2, <1>14 DEF Crash, AskUnchanged
  <2>2. Kept(FreshManager, disk, chunks)  BY DEF FreshManager, Kept, PrefixOK
  <2> QED  BY <1>5, <2>1, <2>2
<1> QED  BY <1>6, <1>7, <1>8, <1>9, <1>10, <1>11, <1>12, <1>13, <1>14 DEF ManagerStep

LEMMA RequestStepKept ==
  ASSUME AskInv, AlignInv, NEW r \in Requests,
         \/ RequestStep(r) \/ HybridSearch(r) \/ ProviderFails(r) \/ Cancel(r)
         \/ \E c \in Ceilings : Ask(r, c) \/ Profile(r, c)
  PROVE  AlignInv'
<1> DEFINE m == mgr[Web]
<1>0. Web \in Procs /\ MgrReqOK /\ LockInv  BY AskConstants DEF AskInv
<1>1. m \in Manager /\ Web \in DOMAIN mgr /\ Steady(m)  BY <1>0, ManagerIs DEF MgrReqOK
<1>2. UNCHANGED <<disk, chunks>>
  BY DEF RequestStep, EnsureIndex, LookUp, Decide, ReadTool, Search, Synthesize, FinalCheck, Save,
     HybridSearch, ProviderFails, Cancel, Ask, Profile, AskUnchanged
<1>3. DiskOK(disk, chunks) /\ Kept(m, disk, chunks) /\ PrefixOK(m)  BY DEF AlignInv, Kept
<1>4. ASSUME Kept(mgr'[Web], disk, chunks) PROVE AlignInv'
  <2>1. Kept(mgr'[Web], disk', chunks') /\ DiskOK(disk', chunks')  BY <1>2, <1>3, <1>4
  <2> QED  BY <2>1 DEF AlignInv, Kept, DiskOK, PrefixOK, NotNewer, Count, UpTo
<1>5. ASSUME UNCHANGED mgr PROVE AlignInv'  BY <1>3, <1>4, <1>5
<1>6. ASSUME NEW x, mgr' = [mgr EXCEPT ![Web].queue = x] PROVE AlignInv'
  <2> DEFINE m2 == [m EXCEPT !.queue = x]
  <2>1. mgr'[Web] = m2  BY <1>1, <1>6
  <2> HIDE DEF m
  <2>2. /\ m2.loaded = m.loaded /\ m2.retriever = m.retriever /\ m2.corpus = m.corpus
        /\ m2.at = m.at /\ m2.prefix = m.prefix
    BY <1>1 DEF Manager
  <2> HIDE DEF m2
  <2>3. Kept(m2, disk, chunks)  BY <1>3, <2>2, SameKept
  <2> QED  BY <1>4, <2>1, <2>3
<1>7. CASE \/ LookUp(r) \/ Decide(r) \/ ReadTool(r) \/ Synthesize(r) \/ FinalCheck(r) \/ Save(r)
           \/ ProviderFails(r) \/ \E c \in Ceilings : Ask(r, c) \/ Profile(r, c)
  <2>1. UNCHANGED mgr
    BY <1>7 DEF LookUp, Decide, ReadTool, Synthesize, FinalCheck, Save, ProviderFails, Ask, Profile
  <2> QED  BY <1>5, <2>1
<1>8. CASE EnsureIndex(r) \/ HybridSearch(r)
  <2>1. UNCHANGED mgr \/ \E x : mgr' = [mgr EXCEPT ![Web].queue = Append(@, x)]
    BY <1>8 DEF EnsureIndex, HybridSearch
  <2> QED  BY <1>5, <1>6, <2>1
<1>9. CASE Search(r)
  <2> DEFINE c == req[r].ceil
             f == PrefixesAfter(m, c)
             l == [m EXCEPT !.prefix = f]
  <2>1. c \in Int /\ Len(m.prefix) <= PrefixSize  BY <1>0, RequestIs, CeilingIs, ManagerIs
  <2>2. m.queue # <<>> /\ mgr'[Web] = Released(l)  BY <1>1, <1>9 DEF Search, Searching
  <2> HIDE DEF c
  <2>3. f \in Seq(Nat \X Corpora)  BY <1>1, <2>1, PrefixesAre
  <2>4. \A k \in DOMAIN f : \E e \in Int : f[k] = <<Count(UpTo(m.corpus, e)), UpTo(m.corpus, e)>>
    BY <1>1, <1>3, <2>1, PrefixesAligned
  <2> HIDE DEF m, f
  <2>5. /\ l \in Manager /\ l.queue = m.queue /\ l.loaded = m.loaded /\ l.corpus = m.corpus
        /\ l.retriever = m.retriever /\ l.prefix = f
    BY <1>1, <2>3 DEF Manager
  <2> HIDE DEF l
  <2>6. PrefixOK(l)  BY <2>4, <2>5 DEF PrefixOK
  <2>7. l.loaded => l.retriever \in {None, l.corpus}  BY <1>3, <2>5 DEF Kept
  <2>8. Kept(Released(l), disk, chunks)  BY <2>2, <2>5, <2>6, <2>7, ReleasedKept
  <2> QED  BY <1>4, <2>2, <2>8
<1>10. CASE Cancel(r)
  <2>1. \/ \E x : mgr' = [mgr EXCEPT ![Web].queue = x]
        \/ m.queue # <<>> /\ mgr' = [mgr EXCEPT ![Web] = Released(m)]
        \/ mgr' = [mgr EXCEPT ![Web] = [m EXCEPT !.drop = TRUE, !.queue[1].by = None]]
    BY <1>10 DEF Cancel
  <2>2. CASE m.queue # <<>> /\ mgr' = [mgr EXCEPT ![Web] = Released(m)]
    <3>1. mgr'[Web] = Released(m)  BY <1>1, <2>2
    <3>2. m.loaded => m.retriever \in {None, m.corpus}  BY <1>3 DEF Kept
    <3>3. Kept(Released(m), disk, chunks)  BY <1>1, <1>3, <2>2, <3>2, ReleasedKept
    <3> QED  BY <1>4, <3>1, <3>3
  <2>3. CASE mgr' = [mgr EXCEPT ![Web] = [m EXCEPT !.drop = TRUE, !.queue[1].by = None]]
    <3> DEFINE m2 == [m EXCEPT !.drop = TRUE, !.queue[1].by = None]
    <3>1. mgr'[Web] = m2  BY <1>1, <2>3
    <3> HIDE DEF m
    <3>2. /\ m2.loaded = m.loaded /\ m2.retriever = m.retriever /\ m2.corpus = m.corpus
          /\ m2.at = m.at /\ m2.prefix = m.prefix
      BY <1>1 DEF Manager
    <3> HIDE DEF m2
    <3>3. Kept(m2, disk, chunks)  BY <1>3, <3>2, SameKept
    <3> QED  BY <1>4, <3>1, <3>3
  <2> QED  BY <1>6, <2>1, <2>2, <2>3
<1> QED  BY <1>7, <1>8, <1>9, <1>10 DEF RequestStep

\* A new version of a text makes no signature on disk newer than its index.
LEMMA ChangesKept ==
  ASSUME AskInv, AlignInv, NEW n \in Ceilings, CodexChanges(n) PROVE AlignInv'
<1>1. chunks \in Corpora /\ disk.index \in Corpora \cup {None} /\ disk.meta \in Corpora \cup {None}
  BY DEF AskInv, TablesOK
<1>2. chunks' \in Corpora
  <2>1. AskNext  BY DEF AskNext
  <2>2. TablesOK'  BY <2>1, TablesStay DEF AskInv
  <2> QED  BY <2>2 DEF TablesOK
<1>3. NotNewer(chunks, chunks')
  <2>1. \A i \in ChunkIds : chunks[i] \in Int  BY <1>1, AskConstants DEF Corpora
  <2>2. \A i \in ChunkIds : chunks'[i] \in {chunks[i], chunks[i] + 1}  BY DEF CodexChanges
  <2> QED  BY <2>1, <2>2 DEF NotNewer
<1>4. UNCHANGED <<disk, mgr>>  BY DEF CodexChanges
<1>5. \A v \in Corpora : NotNewer(v, chunks) => NotNewer(v, chunks')  BY <1>1, <1>2, <1>3, NotNewerIs
<1>6. DiskOK(disk, chunks) /\ Kept(mgr[Web], disk, chunks)  BY DEF AlignInv
<1>7. DiskOK(disk, chunks')  BY <1>1, <1>5, <1>6 DEF DiskOK
<1>8. Kept(mgr[Web], disk, chunks')
  <2>1. Web \in Procs /\ MgrReqOK /\ LockInv  BY AskConstants DEF AskInv
  <2>2. mgr[Web].corpus \in Corpora  BY <2>1, ManagerIs
  <2> QED  BY <1>5, <1>6, <2>2 DEF Kept
<1>9. DiskOK(disk', chunks') /\ Kept(mgr'[Web], disk', chunks')  BY <1>4, <1>7, <1>8
<1> QED  BY <1>9 DEF AlignInv, Kept, DiskOK, PrefixOK, NotNewer, Count, UpTo

\* While one process writes the index on disk, whatever was loaded, rebuilt,
\* cancelled or lost before, a search of a loaded manager uses an index of
\* exactly the rows below its reader's ceiling.
THEOREM LoadedAlwaysAligned ==
  ASSUME Procs = {Web} PROVE AskSpec => []LoadedIsAligned
<1>1. AskInit => AlignInv
  <2> SUFFICES ASSUME AskInit PROVE AlignInv  OBVIOUS
  <2>1. mgr[Web] = FreshManager /\ disk.index = None /\ disk.meta = None
    BY AskConstants DEF AskInit
  <2>2. Kept(FreshManager, disk, chunks)  BY DEF FreshManager, Kept, PrefixOK
  <2>3. DiskOK(disk, chunks)  BY <2>1 DEF DiskOK
  <2> QED  BY <2>1, <2>2, <2>3 DEF AlignInv
<1>2. AskInv /\ AlignInv /\ [AskNext]_askVars => AlignInv'
  <2> SUFFICES ASSUME AskInv, AlignInv, [AskNext]_askVars PROVE AlignInv'  OBVIOUS
  <2>1. CASE UNCHANGED askVars
    <3>1. UNCHANGED <<disk, chunks, mgr>>  BY <2>1 DEF askVars
    <3>2. DiskOK(disk', chunks') /\ Kept(mgr'[Web], disk', chunks')  BY <3>1 DEF AlignInv
    <3> QED  BY <3>2 DEF AlignInv, Kept, DiskOK, PrefixOK, NotNewer, Count, UpTo
  <2>2. CASE AskNext
    <3>1. ASSUME NEW p \in Procs, ManagerStep(p) \/ Rebuild(p) \/ LoadFails(p) \/ Crash(p)
          PROVE  AlignInv'
      <4>1. p = Web  OBVIOUS
      <4> QED  BY <3>1, <4>1, ManagerKept
    <3> QED  BY <2>2, <3>1, ChangesKept, RequestStepKept DEF AskNext
  <2> QED  BY <2>1, <2>2
<1>3. AskInv /\ AlignInv => LoadedIsAligned
  <2> SUFFICES ASSUME AskInv, AlignInv, NEW p \in Procs, Searching(mgr[p]), mgr[p].loaded
               PROVE  Aligned(mgr[p])
    BY DEF LoadedIsAligned
  <2> DEFINE m == mgr[p]
             h == Head(m.queue)
  <2>1. p = Web /\ MgrReqOK /\ LockInv  BY DEF AskInv
  <2>2. m \in Manager /\ Steady(m) /\ Kept(m, disk, chunks)  BY <2>1, ManagerIs DEF AlignInv
  <2>3. m.queue # <<>> /\ m.at = "free" /\ h.what = "search"  BY DEF Searching, Holder
  <2>4. ~m.drop  BY <2>2, <2>3 DEF Steady
  <2>5. h.by \in Requests  BY <2>1, <2>3, <2>4, HolderIs
  <2> DEFINE c == req[h.by].ceil
  <2>6. c \in Int  BY <2>1, <2>5, RequestIs, CeilingIs
  <2>7. m.retriever \in {None, m.corpus} /\ PrefixOK(m)  BY <2>2 DEF Kept
  <2> HIDE DEF c, m
  <2>8. RetrieverForCeiling(m, c) \in {None, UpTo(m.corpus, c)}
    BY <2>2, <2>6, <2>7, RetrieverIsAligned
  <2> QED  BY <2>8 DEF Aligned, Holder, c, m
<1> QED  BY <1>1, <1>2, <1>3, AskInvHolds, AskInvStays, PTL DEF AskSpec
=============================================================================
