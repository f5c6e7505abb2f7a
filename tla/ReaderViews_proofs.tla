-------------------------- MODULE ReaderViews_proofs --------------------------
(***************************************************************************)
(* Proofs about what the readers of one novel are shown.                   *)
(*                                                                         *)
(* Sharing: whose text of a chapter a reader sees, for any number of       *)
(* users, versions, requests and contributions.                            *)
(*                                                                         *)
(* Illustrations: which art is shown with a chapter, for any number of     *)
(* chapters, jobs, attempts, plans and rows, and every plan that a planner *)
(* may answer with.                                                        *)
(***************************************************************************)
EXTENDS Sharing, Illustrations, FiniteSetTheorems, WellFoundedInduction, TLAPS

----------------------------------------------------------------------------
\* --- Sharing ----------------------------------------------------------------

(* An overlay that exists is anchored to a version the chapter has had, and *)
(* what a request read is no newer than the tables it will write to.        *)
OverlaysAreAnchored == \A u \in Users : overlays[u] # NoOverlay => overlays[u].base >= 1

RequestsAreOld ==
  \A u \in Users :
    /\ req[u].op \in {"save", "resolve"} => req[u].version <= version
    /\ req[u].op \in {"accept", "reject"} => req[u].of \in DOMAIN contributions

TypeInv == TypeOK /\ OverlaysAreAnchored /\ RequestsAreOld

(* What each kind of request carries.                                      *)
LEMMA RequestFields ==
  ASSUME NEW r \in Requests
  PROVE  /\ r.op \in {"save", "resolve"} => r.version \in 1..MaxVersion
         /\ r.op = "contribute" => r.base \in 1..MaxVersion /\ r.auto \in BOOLEAN
         /\ r.op \in {"accept", "reject"} => r.of \in 1..MaxContributions
         /\ r.op = "visibility" => r.to \in Visibilities
         /\ r.op = "policy" => r.to \in Policies
BY DEF Requests

LEMMA RequestTypes ==
  /\ Idle \in Requests
  /\ [op |-> "edit"] \in Requests
  /\ \A op \in {"accept tags", "reject tags"} : [op |-> op] \in Requests
  /\ \A op \in {"save", "resolve"}, v \in 1..MaxVersion : [op |-> op, version |-> v] \in Requests
  /\ \A b \in 1..MaxVersion, a \in BOOLEAN : [op |-> "contribute", base |-> b, auto |-> a] \in Requests
  /\ \A op \in {"accept", "reject"}, c \in 1..MaxContributions : [op |-> op, of |-> c] \in Requests
  /\ \A v \in Visibilities : [op |-> "visibility", to |-> v] \in Requests
  /\ \A p \in Policies : [op |-> "policy", to |-> p] \in Requests
BY DEF Idle, Requests

(* Opening a request that read what the tables have now.                   *)
LEMMA OpenStep ==
  ASSUME TypeInv, NEW u \in Users, NEW r \in Requests, Open(u, r),
         r.op \in {"save", "resolve"} => r.version <= version,
         r.op \in {"accept", "reject"} => r.of \in DOMAIN contributions
  PROVE  TypeInv'
<1>1. req' \in [Users -> Requests] /\ RequestsAreOld'
  BY DEF TypeInv, TypeOK, RequestsAreOld, Open, chapter
<1>2. opened' \in 0..MaxRequests
  BY SharingAssumptions DEF TypeInv, TypeOK, Open
<1> QED
  BY <1>1, <1>2 DEF TypeInv, TypeOK, OverlaysAreAnchored, Open, shelf, chapter

(* Closing one, when the chapter's version does not go back and no          *)
(* contribution goes away.                                                  *)
LEMMA CloseStep ==
  ASSUME TypeInv, NEW u \in Users, Close(u),
         version' \in Int, version <= version',
         DOMAIN contributions \subseteq DOMAIN contributions'
  PROVE  req' \in [Users -> Requests] /\ RequestsAreOld' /\ opened' \in 0..MaxRequests
<1>1. Idle \in Requests /\ Idle.op = "idle"
  BY RequestTypes DEF Idle
<1>2. req' \in [Users -> Requests] /\ opened' \in 0..MaxRequests
  BY <1>1 DEF TypeInv, TypeOK, Close
<1>3. ASSUME NEW x \in Users
      PROVE  /\ req'[x].op \in {"save", "resolve"} => req'[x].version <= version'
             /\ req'[x].op \in {"accept", "reject"} => req'[x].of \in DOMAIN contributions'
  <2>1. CASE x = u
    BY <1>1, <2>1 DEF TypeInv, TypeOK, Close
  <2>2. CASE x # u
    <3>1. req'[x] = req[x] /\ req[x] \in Requests
      BY <2>2 DEF TypeInv, TypeOK, Close
    <3>2. req[x].op \in {"save", "resolve"} => req[x].version \in Int /\ req[x].version <= version
      BY <3>1, RequestFields, SharingAssumptions DEF TypeInv, RequestsAreOld
    <3>3. version \in Int
      BY DEF TypeInv, TypeOK
    <3> QED
      BY <3>1, <3>2, <3>3 DEF TypeInv, RequestsAreOld
  <2> QED
    BY <2>1, <2>2
<1> QED
  BY <1>2, <1>3 DEF RequestsAreOld

(* Flagging the overlays, and anchoring the one that is kept.              *)
LEMMA RebasedTypes ==
  ASSUME TypeInv, NEW v \in 1..MaxVersion, NEW keep \in Users \cup {NoOne}
  PROVE  /\ Rebased(v, keep) \in [Users -> Overlay]
         /\ \A u \in Users :
              /\ Rebased(v, keep)[u] # NoOverlay => Rebased(v, keep)[u].base >= 1
              /\ \/ Rebased(v, keep)[u].base = overlays[u].base
                 \/ u = keep /\ Rebased(v, keep)[u].base = v
<1>1. NoOverlay \in Overlay
  BY SharingAssumptions DEF NoOverlay, Overlay
<1>2. ASSUME NEW u \in Users
      PROVE  /\ Rebased(v, keep)[u] \in Overlay
             /\ Rebased(v, keep)[u] # NoOverlay => Rebased(v, keep)[u].base >= 1
             /\ \/ Rebased(v, keep)[u].base = overlays[u].base
                \/ u = keep /\ Rebased(v, keep)[u].base = v
  <2>1. /\ overlays[u] \in Overlay
        /\ overlays[u] # NoOverlay => overlays[u].base >= 1
    BY DEF TypeInv, TypeOK, OverlaysAreAnchored
  <2>2. v \in 0..MaxVersion /\ v >= 1
    BY SharingAssumptions
  <2>3. CASE overlays[u] = NoOverlay
    BY <2>3, <1>1 DEF Rebased
  <2>4. CASE overlays[u] # NoOverlay /\ u = keep
    <3>1. Rebased(v, keep)[u] = [overlays[u] EXCEPT !.base = v, !.conflict = FALSE]
      BY <2>4 DEF Rebased
    <3> QED
      BY <3>1, <2>1, <2>2, <2>4 DEF Overlay
  <2>5. CASE overlays[u] # NoOverlay /\ u # keep
    <3>1. Rebased(v, keep)[u]
            = [overlays[u] EXCEPT !.conflict = overlays[u].conflict \/ overlays[u].base < v]
      BY <2>5 DEF Rebased
    <3>2. (overlays[u].conflict \/ overlays[u].base < v) \in BOOLEAN
      OBVIOUS
    <3> QED
      BY <3>1, <3>2, <2>1, <2>5 DEF Overlay
  <2> QED
    BY <2>3, <2>4, <2>5
<1>3. Rebased(v, keep) = [u \in Users |-> Rebased(v, keep)[u]]
  BY DEF Rebased
<1> QED
  BY <1>2, <1>3

(* A new shared text: the parts of the type invariant about the chapter.   *)
LEMMA UpdateBaseStep ==
  ASSUME TypeInv, NEW keep \in Users \cup {NoOne}, update_base_content(keep)
  PROVE  /\ version' \in 1..MaxVersion /\ version' = version + 1
         /\ changed' \in BOOLEAN /\ credit' \in Users \cup {NoOne}
         /\ overlays' \in [Users -> Overlay]
         /\ \A u \in Users : overlays'[u].base <= version'
         /\ OverlaysAreAnchored'
<1>1. version + 1 \in 1..MaxVersion /\ version \in Int
  BY SharingAssumptions DEF TypeInv, TypeOK, update_base_content
<1>2. ASSUME NEW u \in Users
      PROVE  overlays[u].base \in Int /\ overlays[u].base <= version
  <2>1. overlays[u] \in Overlay /\ overlays[u].base <= version
    BY DEF TypeInv, TypeOK
  <2> QED
    BY <2>1 DEF Overlay
<1> QED
  BY <1>1, <1>2, RebasedTypes DEF update_base_content, OverlaysAreAnchored

(* Saving or keeping an overlay at a version that was read.                *)
LEMMA OverlayStep ==
  ASSUME TypeInv, NEW u \in Users, NEW v \in 1..MaxVersion, v <= version, UNCHANGED version,
         save_overlay(u, v) \/ delete_overlay(u) \/ reanchor_overlay(u, v)
  PROVE  /\ overlays' \in [Users -> Overlay]
         /\ \A x \in Users : overlays'[x].base <= version'
         /\ OverlaysAreAnchored'
<1>1. /\ NoOverlay \in Overlay /\ NoOverlay.base = 0
      /\ [base |-> v, conflict |-> FALSE, seen |-> v] \in Overlay
  BY SharingAssumptions DEF NoOverlay, Overlay
<1>2. PICK o \in Overlay : /\ overlays' = [overlays EXCEPT ![u] = o]
                           /\ o = NoOverlay \/ o = [base |-> v, conflict |-> FALSE, seen |-> v]
  BY <1>1 DEF save_overlay, delete_overlay, reanchor_overlay, TypeInv, TypeOK
<1>3. o.base <= version /\ (o # NoOverlay => o.base >= 1)
  BY <1>1, <1>2 DEF TypeInv, TypeOK
<1> QED
  BY <1>2, <1>3 DEF TypeInv, TypeOK, OverlaysAreAnchored

LEMMA InitType ==
  ASSUME Init
  PROVE  TypeInv
<1>1. NoOverlay \in Overlay /\ NoOverlay.base = 0
  BY SharingAssumptions DEF NoOverlay, Overlay
<1>2. Idle \in Requests /\ Idle.op = "idle"
  BY RequestTypes DEF Idle
<1>3. novel \in Novel
  BY SharingAssumptions DEF Init, Novel, Visibilities, Policies
<1>4. /\ version \in 1..MaxVersion /\ opened \in 0..MaxRequests
      /\ contributions \in Seq(Contribution) /\ Len(contributions) <= MaxContributions
  BY SharingAssumptions DEF Init
<1>5. ASSUME NEW u \in Users PROVE overlays[u].base <= version
  <2>1. overlays[u].base = 0 /\ version = 1
    BY DEF Init, NoOverlay
  <2> QED
    BY <2>1
<1>6. OverlaysAreAnchored /\ RequestsAreOld
  BY <1>1, <1>2 DEF Init, OverlaysAreAnchored, RequestsAreOld
<1> QED
  BY <1>1, <1>2, <1>3, <1>4, <1>5, <1>6 DEF Init, TypeInv, TypeOK

(* One step of the chapter's own: the scrape.                              *)
LEMMA IngestTypeStep ==
  ASSUME TypeInv, IngestReads \/ IngestUpserts \/ IngestFlags \/ IngestDies
  PROVE  TypeInv'
<1>0. /\ version \in 1..MaxVersion /\ changed \in BOOLEAN
      /\ \A u \in Users : overlays[u].base \in Int /\ overlays[u].base <= version
  <2>1. \A u \in Users : overlays[u] \in Overlay
    BY DEF TypeInv, TypeOK
  <2> QED
    BY <2>1 DEF TypeInv, TypeOK, Overlay
<1>1. CASE IngestReads
  BY <1>0, <1>1 DEF IngestReads, TypeInv, TypeOK, OverlaysAreAnchored, RequestsAreOld,
                    shelf, chapter
<1>2. CASE IngestUpserts
  <2>0. /\ version' \in 1..MaxVersion /\ version <= version'
        /\ ingest' = [pc |-> "idle"] \/ ingest' = [pc |-> "flag", new |-> version']
    BY <1>0, <1>2, SharingAssumptions DEF IngestUpserts
  <2>1. /\ version' \in 1..MaxVersion /\ version <= version'
        /\ credit' \in Users \cup {NoOne} /\ changed' \in BOOLEAN
        /\ ingest' \in [pc : {"idle"}] \cup [pc : {"flag"}, new : 1..MaxVersion]
    <3>1. credit' \in Users \cup {NoOne} /\ changed' \in BOOLEAN
      BY <1>2 DEF IngestUpserts, TypeInv, TypeOK
    <3> QED
      BY <2>0, <3>1
  <2>2. \A u \in Users : overlays'[u].base <= version'
    BY <1>0, <1>2, <2>1 DEF IngestUpserts
  <2>3. OverlaysAreAnchored'
    BY <1>2 DEF IngestUpserts, TypeInv, OverlaysAreAnchored
  <2>4. RequestsAreOld'
    <3>1. \A u \in Users : req[u].op \in {"save", "resolve"} => req[u].version \in Int
      BY RequestFields DEF TypeInv, TypeOK
    <3> QED
      BY <3>1, <1>0, <1>2, <2>1 DEF IngestUpserts, TypeInv, RequestsAreOld
  <2> QED
    BY <1>2, <2>1, <2>2, <2>3, <2>4 DEF IngestUpserts, TypeInv, TypeOK, shelf
<1>3. CASE IngestFlags
  <2>1. ingest.new \in 1..MaxVersion
    BY <1>3 DEF IngestFlags, TypeInv, TypeOK
  <2>2. /\ overlays' \in [Users -> Overlay] /\ OverlaysAreAnchored'
        /\ \A u \in Users : overlays'[u].base <= version
    <3>1. overlays' = Rebased(ingest.new, NoOne)
      BY <1>3 DEF IngestFlags
    <3>2. /\ Rebased(ingest.new, NoOne) \in [Users -> Overlay]
          /\ \A u \in Users :
               /\ Rebased(ingest.new, NoOne)[u] # NoOverlay => Rebased(ingest.new, NoOne)[u].base >= 1
               /\ Rebased(ingest.new, NoOne)[u].base = overlays[u].base
      <4>1. \A u \in Users : u # NoOne
        BY SharingAssumptions
      <4> QED
        BY <2>1, <4>1, RebasedTypes
    <3>3. \A u \in Users : overlays[u].base <= version
      BY <1>0
    <3> QED
      BY <3>1, <3>2, <3>3 DEF OverlaysAreAnchored
  <2> QED
    BY <1>3, <2>2 DEF IngestFlags, TypeInv, TypeOK, RequestsAreOld, shelf, chapter
<1>4. CASE IngestDies
  BY <1>4 DEF IngestDies, TypeInv, TypeOK, OverlaysAreAnchored, RequestsAreOld, shelf, chapter
<1> QED
  BY <1>1, <1>2, <1>3, <1>4

(* The reads of a request.                                                 *)
Reads(u) ==
  \/ ReadEdit(u)
  \/ \E op \in {"save", "resolve"} : ReadOverlay(u, op)
  \/ ReadContribute(u)
  \/ \E c \in DOMAIN contributions :
       ReadReject(u, c) \/ \E resolved \in BOOLEAN : ReadAccept(u, c, resolved)
  \/ \E visibility \in Visibilities : ReadVisibility(u, visibility)
  \/ \E policy \in Policies : ReadPolicy(u, policy)
  \/ \E op \in {"accept tags", "reject tags"} : ReadSuggestion(u, op)

(* Every read opens a request that the tables agree with.                  *)
LEMMA ReadsOpen ==
  ASSUME TypeInv, NEW u \in Users, Reads(u)
  PROVE  \E r \in Requests :
           /\ Open(u, r)
           /\ r.op \in {"save", "resolve"} => r.version <= version
           /\ r.op \in {"accept", "reject"} => r.of \in DOMAIN contributions
<1>0. /\ version \in 1..MaxVersion
      /\ DOMAIN contributions \subseteq 1..MaxContributions
  BY SharingAssumptions DEF TypeInv, TypeOK
<1>1. CASE ReadEdit(u)
  BY <1>1, RequestTypes DEF ReadEdit
<1>2. ASSUME NEW op \in {"save", "resolve"}, ReadOverlay(u, op)
      PROVE  \E r \in Requests :
               /\ Open(u, r)
               /\ r.op \in {"save", "resolve"} => r.version <= version
               /\ r.op \in {"accept", "reject"} => r.of \in DOMAIN contributions
  <2> DEFINE r == [op |-> op, version |-> version]
  <2>1. r \in Requests /\ r.op = op /\ r.version = version
    BY <1>0, RequestTypes
  <2>2. version <= version
    BY <1>0, SharingAssumptions
  <2> QED
    BY <1>2, <2>1, <2>2 DEF ReadOverlay
<1>3. CASE ReadContribute(u)
  <2> DEFINE r == [op |-> "contribute", base |-> overlays[u].base,
                   auto |-> novel.policy = "auto" /\ overlays[u].base >= version]
  <2>1. overlays[u].base \in 1..MaxVersion
    <3>1. overlays[u] \in Overlay /\ overlays[u].base >= 1
      BY <1>3 DEF ReadContribute, TypeInv, TypeOK, OverlaysAreAnchored
    <3> QED
      BY <3>1 DEF Overlay
  <2>2. r \in Requests /\ r.op = "contribute"
    BY <2>1, RequestTypes
  <2> QED
    BY <1>3, <2>2 DEF ReadContribute
<1>4. ASSUME NEW c \in DOMAIN contributions, NEW op \in {"accept", "reject"},
             Open(u, [op |-> op, of |-> c])
      PROVE  \E r \in Requests :
               /\ Open(u, r)
               /\ r.op \in {"save", "resolve"} => r.version <= version
               /\ r.op \in {"accept", "reject"} => r.of \in DOMAIN contributions
  <2> DEFINE r == [op |-> op, of |-> c]
  <2>1. r \in Requests /\ r.op = op /\ r.of = c
    BY <1>0, RequestTypes
  <2> QED
    BY <1>4, <2>1
<1>5. ASSUME NEW visibility \in Visibilities, ReadVisibility(u, visibility)
      PROVE  \E r \in Requests : Open(u, r) /\ r.op = "visibility"
  BY <1>5, RequestTypes DEF ReadVisibility
<1>6. ASSUME NEW policy \in Policies, ReadPolicy(u, policy)
      PROVE  \E r \in Requests : Open(u, r) /\ r.op = "policy"
  BY <1>6, RequestTypes DEF ReadPolicy
<1>7. ASSUME NEW op \in {"accept tags", "reject tags"}, ReadSuggestion(u, op)
      PROVE  \E r \in Requests : Open(u, r) /\ r.op \in {"accept tags", "reject tags"}
  BY <1>7, RequestTypes DEF ReadSuggestion
<1> QED
  BY <1>1, <1>2, <1>3, <1>4, <1>5, <1>6, <1>7 DEF Reads, ReadReject, ReadAccept

(* The writes of a request, and the one request without reads.             *)
Writes(u) ==
  \/ EditBaseContent(u) \/ SaveOverlay(u) \/ ResolveOverlay(u) \/ Refused(u)
  \/ Contribute(u) \/ AcceptContribution(u) \/ RejectContribution(u)
  \/ SetVisibility(u) \/ UpdateNovel(u) \/ SuggestTags(u) \/ ReviewSuggestion(u)

LEMMA WritesTypeStep ==
  ASSUME TypeInv, NEW u \in Users, Writes(u)
  PROVE  TypeInv'
<1>0. /\ version \in 1..MaxVersion /\ version \in Int /\ version <= version
      /\ req[u] \in Requests
      /\ contributions \in Seq(Contribution)
  <2>1. version \in 1..MaxVersion /\ version \in Int
    BY DEF TypeInv, TypeOK
  <2> QED
    BY <2>1 DEF TypeInv, TypeOK
<1>1. CASE EditBaseContent(u)
  <2>1. /\ version' \in 1..MaxVersion /\ version' = version + 1
        /\ changed' \in BOOLEAN /\ credit' \in Users \cup {NoOne}
        /\ overlays' \in [Users -> Overlay]
        /\ \A x \in Users : overlays'[x].base <= version'
        /\ OverlaysAreAnchored'
    BY <1>1, UpdateBaseStep DEF EditBaseContent
  <2>2. req' \in [Users -> Requests] /\ RequestsAreOld' /\ opened' \in 0..MaxRequests
    BY <1>0, <1>1, <2>1, CloseStep DEF EditBaseContent
  <2> QED
    BY <1>1, <2>1, <2>2 DEF EditBaseContent, TypeInv, TypeOK, shelf
<1>2. CASE SaveOverlay(u) \/ ResolveOverlay(u)
  <2>1. req[u].version \in 1..MaxVersion /\ req[u].version <= version
    BY <1>0, <1>2, RequestFields DEF SaveOverlay, ResolveOverlay, TypeInv, RequestsAreOld
  <2>2. /\ overlays' \in [Users -> Overlay]
        /\ \A x \in Users : overlays'[x].base <= version'
        /\ OverlaysAreAnchored'
    BY <1>2, <2>1, OverlayStep DEF SaveOverlay, ResolveOverlay, chapter
  <2>3. req' \in [Users -> Requests] /\ RequestsAreOld' /\ opened' \in 0..MaxRequests
    BY <1>0, <1>2, CloseStep DEF SaveOverlay, ResolveOverlay, chapter
  <2> QED
    BY <1>2, <2>2, <2>3 DEF SaveOverlay, ResolveOverlay, TypeInv, TypeOK, shelf, chapter
<1>3. CASE Refused(u)
  <2>1. req' \in [Users -> Requests] /\ RequestsAreOld' /\ opened' \in 0..MaxRequests
    BY <1>0, <1>3, CloseStep DEF Refused, chapter
  <2> QED
    BY <1>3, <2>1 DEF Refused, TypeInv, TypeOK, OverlaysAreAnchored, shelf, chapter
<1>4. CASE Contribute(u)
  <2> DEFINE c == [user |-> u, base |-> req[u].base, merged |-> req[u].auto,
                   status |-> IF req[u].auto THEN "auto_merged" ELSE "pending"]
  <2>1. c \in Contribution
    BY <1>0, <1>4, RequestFields DEF Contribute, Contribution
  <2>2. /\ contributions' \in Seq(Contribution) /\ Len(contributions') <= MaxContributions
        /\ DOMAIN contributions \subseteq DOMAIN contributions'
    <3>1. contributions' = Append(contributions, c)
      BY <1>4 DEF Contribute
    <3> QED
      BY <3>1, <2>1, <1>0, <1>4, SharingAssumptions DEF Contribute
  <2>3. CASE req[u].auto
    <3>1. /\ version' \in 1..MaxVersion /\ version' = version + 1
          /\ changed' \in BOOLEAN /\ credit' \in Users \cup {NoOne}
          /\ overlays' \in [Users -> Overlay]
          /\ \A x \in Users : overlays'[x].base <= version'
          /\ OverlaysAreAnchored'
      BY <1>4, <2>3, UpdateBaseStep DEF Contribute
    <3>2. req' \in [Users -> Requests] /\ RequestsAreOld' /\ opened' \in 0..MaxRequests
      BY <1>0, <1>4, <2>2, <3>1, CloseStep DEF Contribute
    <3> QED
      BY <1>4, <2>2, <3>1, <3>2 DEF Contribute, TypeInv, TypeOK, shelf
  <2>4. CASE ~req[u].auto
    <3>1. req' \in [Users -> Requests] /\ RequestsAreOld' /\ opened' \in 0..MaxRequests
      BY <1>0, <1>4, <2>2, <2>4, CloseStep DEF Contribute, chapter
    <3> QED
      BY <1>4, <2>2, <2>4, <3>1
         DEF Contribute, TypeInv, TypeOK, OverlaysAreAnchored, shelf, chapter
  <2> QED
    BY <2>3, <2>4
<1>5. CASE AcceptContribution(u) \/ RejectContribution(u)
  <2>1. /\ req[u].of \in DOMAIN contributions
        /\ contributions[req[u].of] \in Contribution
    <3>1. req[u].of \in DOMAIN contributions
      BY <1>5 DEF AcceptContribution, RejectContribution, TypeInv, RequestsAreOld
    <3> QED
      BY <3>1, <1>0
  <2>2. contributions[req[u].of].user \in Users
    BY <2>1 DEF Contribution
  <2>3. PICK c \in Contribution : contributions' = [contributions EXCEPT ![req[u].of] = c]
    <3>1. CASE AcceptContribution(u)
      <4> DEFINE c == [contributions[req[u].of] EXCEPT !.status = "accepted", !.merged = TRUE]
      <4>1. c \in Contribution
        BY <2>1 DEF Contribution
      <4>2. contributions' = [contributions EXCEPT ![req[u].of] = c]
        BY <3>1, <2>1 DEF AcceptContribution
      <4> QED
        BY <4>1, <4>2
    <3>2. CASE RejectContribution(u)
      <4> DEFINE c == [contributions[req[u].of] EXCEPT !.status =
                         IF @ = "pending" THEN "rejected" ELSE @]
      <4>1. c \in Contribution
        BY <2>1 DEF Contribution
      <4>2. contributions' = [contributions EXCEPT ![req[u].of] = c]
        BY <3>2, <2>1 DEF RejectContribution
      <4> QED
        BY <4>1, <4>2
    <3> QED
      BY <1>5, <3>1, <3>2
  <2>4. /\ contributions' \in Seq(Contribution) /\ Len(contributions') <= MaxContributions
        /\ DOMAIN contributions \subseteq DOMAIN contributions'
    <3>1. Len(contributions) <= MaxContributions
      BY DEF TypeInv, TypeOK
    <3> QED
      BY <1>0, <2>1, <2>3, <3>1
  <2>5. CASE AcceptContribution(u)
    <3>1. /\ version' \in 1..MaxVersion /\ version' = version + 1
          /\ changed' \in BOOLEAN /\ credit' \in Users \cup {NoOne}
          /\ overlays' \in [Users -> Overlay]
          /\ \A x \in Users : overlays'[x].base <= version'
          /\ OverlaysAreAnchored'
      BY <2>2, <2>5, UpdateBaseStep DEF AcceptContribution
    <3>2. req' \in [Users -> Requests] /\ RequestsAreOld' /\ opened' \in 0..MaxRequests
      BY <1>0, <2>4, <2>5, <3>1, CloseStep DEF AcceptContribution
    <3> QED
      BY <2>4, <2>5, <3>1, <3>2 DEF AcceptContribution, TypeInv, TypeOK, shelf
  <2>6. CASE RejectContribution(u)
    <3>1. req' \in [Users -> Requests] /\ RequestsAreOld' /\ opened' \in 0..MaxRequests
      BY <1>0, <2>4, <2>6, CloseStep DEF RejectContribution, chapter
    <3> QED
      BY <2>4, <2>6, <3>1
         DEF RejectContribution, TypeInv, TypeOK, OverlaysAreAnchored, shelf, chapter
  <2> QED
    BY <1>5, <2>5, <2>6
<1>6. CASE SetVisibility(u) \/ UpdateNovel(u)
  <2>1. novel' \in Novel
    <3>0. novel \in Novel /\ req[u] \in Requests
      BY DEF TypeInv, TypeOK
    <3>1. CASE SetVisibility(u)
      <4>1. req[u].to \in Visibilities
        BY <3>0, <3>1, RequestFields DEF SetVisibility
      <4>2. novel' = [novel EXCEPT !.visibility = req[u].to,
                                   !.owner = IF req[u].to = "global" THEN u ELSE novel.owner]
        BY <3>1 DEF SetVisibility
      <4> QED
        BY <3>0, <4>1, <4>2 DEF Novel
    <3>2. CASE UpdateNovel(u)
      <4>1. req[u].to \in Policies
        BY <3>0, <3>2, RequestFields DEF UpdateNovel
      <4> QED
        BY <3>0, <3>2, <4>1 DEF UpdateNovel, Novel
    <3> QED
      BY <1>6, <3>1, <3>2
  <2>2. req' \in [Users -> Requests] /\ RequestsAreOld' /\ opened' \in 0..MaxRequests
    BY <1>0, <1>6, CloseStep DEF SetVisibility, UpdateNovel, chapter
  <2> QED
    BY <1>6, <2>1, <2>2
       DEF SetVisibility, UpdateNovel, TypeInv, TypeOK, OverlaysAreAnchored, chapter
<1>7. CASE SuggestTags(u)
  <2>1. suggestion' \in [status : {"none", "pending", "accepted", "rejected"}, applied : BOOLEAN]
    BY <1>7 DEF SuggestTags, TypeInv, TypeOK
  <2> QED
    BY <1>7, <2>1 DEF SuggestTags, TypeInv, TypeOK, OverlaysAreAnchored, RequestsAreOld, chapter
<1>8. CASE ReviewSuggestion(u)
  <2>1. suggestion' \in [status : {"none", "pending", "accepted", "rejected"}, applied : BOOLEAN]
    BY <1>8 DEF ReviewSuggestion, TypeInv, TypeOK
  <2>2. req' \in [Users -> Requests] /\ RequestsAreOld' /\ opened' \in 0..MaxRequests
    BY <1>0, <1>8, CloseStep DEF ReviewSuggestion, chapter
  <2> QED
    BY <1>8, <2>1, <2>2 DEF ReviewSuggestion, TypeInv, TypeOK, OverlaysAreAnchored, chapter
<1> QED
  BY <1>1, <1>2, <1>3, <1>4, <1>5, <1>6, <1>7, <1>8 DEF Writes

LEMMA NextCases ==
  ASSUME Next
  PROVE  \/ IngestReads \/ IngestUpserts \/ IngestFlags \/ IngestDies
         \/ \E u \in Users : Reads(u) \/ Writes(u)
BY DEF Next, Reads, Writes

LEMMA TypeStep ==
  ASSUME TypeInv, [Next]_vars
  PROVE  TypeInv'
<1>1. CASE Next
  <2>1. ASSUME NEW u \in Users, Reads(u) PROVE TypeInv'
    BY <2>1, ReadsOpen, OpenStep
  <2> QED
    BY <1>1, <2>1, NextCases, IngestTypeStep, WritesTypeStep
<1>2. CASE UNCHANGED vars
  BY <1>2 DEF vars, TypeInv, TypeOK, OverlaysAreAnchored, RequestsAreOld
<1> QED
  BY <1>1, <1>2

LEMMA TypeInvariant == Spec => []TypeInv
BY InitType, TypeStep, PTL DEF Spec

(* The tables and the open requests of a shared novel keep their types: no *)
(* overlay is ever anchored to a version the chapter does not have yet.    *)
THEOREM TypeCorrect == Spec => []TypeOK
<1>1. TypeInv => TypeOK
  BY DEF TypeInv
<1> QED
  BY <1>1, TypeInvariant, PTL

(***************************************************************************)
(* The record of a contribution.  The reject is the interesting step: its  *)
(* reviewer saw the row pending, and another may have accepted it since.   *)
(***************************************************************************)
LEMMA MergedStep ==
  ASSUME TypeInv, MergedIsAccepted, [Next]_vars
  PROVE  MergedIsAccepted'
<1> USE DEF MergedIsAccepted
<1>0. contributions \in Seq(Contribution)
  BY DEF TypeInv, TypeOK
<1>1. CASE UNCHANGED contributions
  BY <1>1
<1>2. ASSUME NEW u \in Users, Contribute(u) PROVE MergedIsAccepted'
  <2> DEFINE new == [user |-> u, base |-> req[u].base, merged |-> req[u].auto,
                     status |-> IF req[u].auto THEN "auto_merged" ELSE "pending"]
  <2>1. contributions' = Append(contributions, new)
    BY <1>2 DEF Contribute
  <2>2. req[u].auto \in BOOLEAN
    BY <1>2, RequestFields DEF Contribute, TypeInv, TypeOK
  <2>3. new.merged <=> new.status \in {"accepted", "auto_merged"}
    BY <2>2
  <2>4. ASSUME NEW c \in DOMAIN contributions'
        PROVE  contributions'[c] = new \/ (c \in DOMAIN contributions
                                             /\ contributions'[c] = contributions[c])
    BY <2>1, <1>0
  <2> QED
    BY <2>3, <2>4
<1>3. ASSUME NEW u \in Users, AcceptContribution(u) PROVE MergedIsAccepted'
  <2>1. req[u].of \in DOMAIN contributions /\ contributions[req[u].of] \in Contribution
    <3>1. req[u].of \in DOMAIN contributions
      BY <1>3 DEF AcceptContribution, TypeInv, RequestsAreOld
    <3> QED
      BY <3>1, <1>0
  <2>2. contributions'[req[u].of].status = "accepted" /\ contributions'[req[u].of].merged
    BY <1>3, <2>1, <1>0 DEF AcceptContribution, Contribution
  <2>3. DOMAIN contributions' = DOMAIN contributions
    BY <1>3, <1>0 DEF AcceptContribution
  <2>4. ASSUME NEW c \in DOMAIN contributions, c # req[u].of
        PROVE  contributions'[c] = contributions[c]
    BY <1>3, <2>4, <1>0 DEF AcceptContribution
  <2> QED
    BY <2>2, <2>3, <2>4
<1>4. ASSUME NEW u \in Users, RejectContribution(u) PROVE MergedIsAccepted'
  <2>1. req[u].of \in DOMAIN contributions /\ contributions[req[u].of] \in Contribution
    <3>1. req[u].of \in DOMAIN contributions
      BY <1>4 DEF RejectContribution, TypeInv, RequestsAreOld
    <3> QED
      BY <3>1, <1>0
  <2> DEFINE old == contributions[req[u].of]
  <2>2. /\ contributions'[req[u].of].status = IF old.status = "pending" THEN "rejected" ELSE old.status
        /\ contributions'[req[u].of].merged = old.merged
    BY <1>4, <2>1, <1>0 DEF RejectContribution, Contribution
  <2>3. DOMAIN contributions' = DOMAIN contributions
    BY <1>4, <1>0 DEF RejectContribution
  <2>4. ASSUME NEW c \in DOMAIN contributions, c # req[u].of
        PROVE  contributions'[c] = contributions[c]
    BY <1>4, <2>4, <1>0 DEF RejectContribution
  <2> QED
    BY <2>1, <2>2, <2>3, <2>4
<1>5. CASE Next
  <2>1. ASSUME NEW u \in Users, Reads(u) PROVE UNCHANGED contributions
    BY <2>1, ReadsOpen DEF Open
  <2>2. ASSUME NEW u \in Users, Writes(u)
        PROVE  UNCHANGED contributions \/ Contribute(u) \/ AcceptContribution(u)
                 \/ RejectContribution(u)
    BY <2>2 DEF Writes, EditBaseContent, SaveOverlay, ResolveOverlay, Refused, SetVisibility,
                UpdateNovel, SuggestTags, ReviewSuggestion
  <2>3. CASE IngestReads \/ IngestUpserts \/ IngestFlags \/ IngestDies
    BY <2>3, <1>1 DEF IngestReads, IngestUpserts, IngestFlags, IngestDies
  <2> QED
    BY <1>1, <1>2, <1>3, <1>4, <1>5, <2>1, <2>2, <2>3, NextCases
<1>6. CASE UNCHANGED vars
  BY <1>6, <1>1 DEF vars
<1> QED
  BY <1>5, <1>6

(* A contribution is recorded as accepted or merged exactly if the shared  *)
(* text was set from it, whoever reviews it at the same time               *)
(* (accept_contribution, reject_contribution, contribute).                 *)
THEOREM ContributionRecord == Spec => []MergedIsAccepted
<1>1. Init => MergedIsAccepted
  BY DEF Init, MergedIsAccepted
<1> QED
  BY <1>1, TypeInvariant, MergedStep, PTL DEF Spec

(***************************************************************************)
(* What a reader is told of an overlay.                                    *)
(***************************************************************************)

(* A step that gives the chapter a newer version: every overlay but the one *)
(* that is credited is now anchored to an older one.                        *)
LEMMA NewerVersion ==
  ASSUME TypeInv, NEW keep \in Users \cup {NoOne}, update_base_content(keep)
  PROVE  StaleOverlayIsShown'
<1>1. ASSUME NEW u \in Users, u # keep
      PROVE  overlays'[u] # NoOverlay => overlays'[u].base < version'
  <2>1. overlays'[u].base = overlays[u].base
    <3>1. version + 1 \in 1..MaxVersion
      BY SharingAssumptions DEF TypeInv, TypeOK, update_base_content
    <3> QED
      BY <1>1, <3>1, RebasedTypes DEF update_base_content
  <2>2. overlays[u] \in Overlay /\ overlays[u].base <= version
    BY DEF TypeInv, TypeOK
  <2>3. overlays[u].base \in Int /\ version \in Int
    BY <2>2 DEF Overlay, TypeInv, TypeOK
  <2> QED
    BY <2>1, <2>2, <2>3 DEF update_base_content
<1> QED
  BY <1>1 DEF update_base_content, StaleOverlayIsShown, ShownConflict

(* A step that saves, keeps or drops the overlay of one user.              *)
LEMMA OwnOverlay ==
  ASSUME TypeInv, StaleOverlayIsShown, NEW u \in Users, NEW v \in 1..MaxVersion,
         v <= version, UNCHANGED <<version, credit>>,
         save_overlay(u, v) \/ delete_overlay(u) \/ reanchor_overlay(u, v)
  PROVE  StaleOverlayIsShown'
<1>1. \/ overlays' = [overlays EXCEPT ![u] = NoOverlay]
      \/ overlays' = [overlays EXCEPT ![u] = [base |-> v, conflict |-> FALSE, seen |-> v]]
  BY DEF save_overlay, delete_overlay, reanchor_overlay, TypeInv, TypeOK
<1>2. ASSUME NEW x \in Users, x # u
      PROVE  overlays'[x] = overlays[x]
  BY <1>1, <1>2 DEF TypeInv, TypeOK
<1>3. overlays'[u] = NoOverlay \/ (overlays'[u].base = v /\ overlays'[u].seen = v)
  BY <1>1 DEF TypeInv, TypeOK
<1>4. v = version \/ v < version
  BY SharingAssumptions DEF TypeInv, TypeOK
<1> QED
  BY <1>2, <1>3, <1>4 DEF StaleOverlayIsShown, ShownConflict

(* The scrape: a newer version leaves every overlay behind, and the flags  *)
(* only add to what is shown.                                              *)
LEMMA IngestShown ==
  ASSUME TypeInv, StaleOverlayIsShown, IngestReads \/ IngestUpserts \/ IngestFlags \/ IngestDies
  PROVE  StaleOverlayIsShown'
<1>0. ASSUME NEW u \in Users
      PROVE  overlays[u].base \in Int /\ overlays[u].base <= version /\ version \in Int
  <2>1. overlays[u] \in Overlay
    BY DEF TypeInv, TypeOK
  <2> QED
    BY <2>1 DEF TypeInv, TypeOK, Overlay
<1>1. CASE IngestReads \/ IngestDies
  BY <1>1 DEF IngestReads, IngestDies, StaleOverlayIsShown, ShownConflict, chapter
<1>2. CASE IngestUpserts
  <2>1. version' = version \/ version' = version + 1
    BY <1>2 DEF IngestUpserts
  <2>2. CASE version' = version
    <3>1. version \in Int
      BY DEF TypeInv, TypeOK
    <3>2. credit' = credit /\ overlays' = overlays
      BY <1>2, <2>2, <3>1 DEF IngestUpserts
    <3> QED
      BY <2>2, <3>2 DEF StaleOverlayIsShown, ShownConflict
  <2>3. CASE version' = version + 1
    <3>1. ASSUME NEW u \in Users PROVE overlays'[u].base < version'
      <4>1. overlays' = overlays
        BY <1>2 DEF IngestUpserts
      <4> QED
        BY <1>0, <2>3, <4>1
    <3> QED
      BY <3>1 DEF StaleOverlayIsShown, ShownConflict
  <2> QED
    BY <2>1, <2>2, <2>3
<1>3. CASE IngestFlags
  <2>1. ASSUME NEW u \in Users, overlays[u] # NoOverlay
        PROVE  /\ overlays'[u].base = overlays[u].base /\ overlays'[u].seen = overlays[u].seen
               /\ overlays[u].conflict => overlays'[u].conflict
    <3>1. overlays'[u] = [overlays[u] EXCEPT !.conflict = overlays[u].conflict
                                                            \/ overlays[u].base < ingest.new]
      BY <1>3, <2>1, SharingAssumptions DEF IngestFlags, Rebased
    <3>2. overlays[u] \in Overlay
      BY DEF TypeInv, TypeOK
    <3> QED
      BY <3>1, <3>2 DEF Overlay
  <2>2. ASSUME NEW u \in Users, overlays[u] = NoOverlay
        PROVE  overlays'[u] = NoOverlay
    BY <1>3, <2>2 DEF IngestFlags, Rebased
  <2>3. UNCHANGED <<version, credit>>
    BY <1>3 DEF IngestFlags, chapter
  <2> QED
    BY <2>1, <2>2, <2>3 DEF StaleOverlayIsShown, ShownConflict
<1> QED
  BY <1>1, <1>2, <1>3

LEMMA ShownStep ==
  ASSUME TypeInv, StaleOverlayIsShown, [Next]_vars
  PROVE  StaleOverlayIsShown'
<1>1. CASE UNCHANGED <<version, credit, overlays>>
  BY <1>1 DEF StaleOverlayIsShown, ShownConflict
<1>2. ASSUME NEW u \in Users, Writes(u)
      PROVE  StaleOverlayIsShown'
  <2>1. CASE EditBaseContent(u)
    BY <2>1, NewerVersion DEF EditBaseContent
  <2>2. CASE SaveOverlay(u) \/ ResolveOverlay(u)
    <3>1. req[u].version \in 1..MaxVersion /\ req[u].version <= version
      BY <2>2, RequestFields
         DEF SaveOverlay, ResolveOverlay, TypeInv, TypeOK, RequestsAreOld
    <3> QED
      BY <2>2, <3>1, OwnOverlay DEF SaveOverlay, ResolveOverlay, chapter
  <2>3. CASE Contribute(u)
    BY <1>1, <2>3, NewerVersion DEF Contribute, chapter
  <2>4. CASE AcceptContribution(u)
    <3>1. contributions[req[u].of].user \in Users
      <4>1. req[u].of \in DOMAIN contributions
        BY <2>4 DEF AcceptContribution, TypeInv, RequestsAreOld
      <4>2. contributions[req[u].of] \in Contribution
        BY <4>1 DEF TypeInv, TypeOK
      <4> QED
        BY <4>2 DEF Contribution
    <3> QED
      BY <2>4, <3>1, NewerVersion DEF AcceptContribution
  <2>5. CASE Refused(u) \/ RejectContribution(u) \/ SetVisibility(u) \/ UpdateNovel(u)
               \/ SuggestTags(u) \/ ReviewSuggestion(u)
    BY <1>1, <2>5 DEF Refused, RejectContribution, SetVisibility, UpdateNovel, SuggestTags,
                      ReviewSuggestion, chapter
  <2> QED
    BY <1>2, <2>1, <2>2, <2>3, <2>4, <2>5 DEF Writes
<1>3. ASSUME NEW u \in Users, Reads(u)
      PROVE  StaleOverlayIsShown'
  BY <1>1, <1>3, ReadsOpen DEF Open, chapter
<1>4. CASE UNCHANGED vars
  BY <1>1, <1>4 DEF vars
<1> QED
  BY <1>2, <1>3, <1>4, IngestShown, NextCases

(* A reader whose overlay hides a version of the shared text that they have *)
(* not seen is told of it, unless it is their own contribution, whatever    *)
(* commits between the reads and the writes of a request and although the   *)
(* flags of a scrape may be lost (get_chapter, save_overlay,                *)
(* update_base_content, upsert_ingested_chapter).                           *)
THEOREM StaleOverlay == Spec => []StaleOverlayIsShown
<1>1. Init => StaleOverlayIsShown
  BY DEF Init, StaleOverlayIsShown
<1> QED
  BY <1>1, TypeInvariant, ShownStep, PTL DEF Spec

----------------------------------------------------------------------------
\* --- Art --------------------------------------------------------------------

LEMMA ArtBounds ==
  /\ {N, MaxJobs, MaxContext, MaxArt, MaxPlans, MaxChanges, MaxFaults} \subseteq Nat
  /\ N > 0 /\ Chapters \subseteq Nat /\ Jobs \subseteq Nat
  BY IllustrationsAssumptions DEF Chapters, Jobs

\* The chapter that an attempt is at, and the hash it is to be drawn from.
AtCh(r) == r.options.chapters[r.at].ch
AtHash(r) == r.options.chapters[r.at].hash

\* The sheets named are sheets, and none is of a chapter beyond c.
Draws(f, c, t) ==
  \A k \in DOMAIN f : f[k] \in DOMAIN t /\ t[f[k]].kind = "sheet" /\ t[f[k]].ch <= c

\* A row of art, t: it belongs to a job; its maker had been told of nothing
\* beyond its chapter; a scene was painted from sheets; and every text that went
\* into it is its chapter's, a source it records or, for a scene, went into one
\* of its sheets.
RowOK(r, jb, t) ==
  /\ jb[r.job] # NoJob
  /\ r.slot.ch = r.ch /\ (r.kind = "scene" <=> r.slot.kind = "scene")
  /\ \A d \in r.seen : d <= r.ch
  /\ \A x \in DOMAIN r.refs : r.refs[x] \in DOMAIN t /\ t[r.refs[x]].kind = "sheet"
  /\ \A s \in r.told : \/ s \in r.src \/ s = <<r.ch, r.hash>>
                       \/ \E x \in DOMAIN r.refs : r.kind = "scene" /\ s \in t[r.refs[x]].told

\* It was drawn from the plan its job has for its chapter, unless that was deleted.
RowPlanned(r, jb, pl) == jb[r.job].dropped \/ pl[r.job].of[r.ch].n = r.plan

\* A job is for some chapters, each once.
JobOK(j) ==
  /\ j.options.chapters # <<>>
  /\ \A x, y \in DOMAIN j.options.chapters :
       j.options.chapters[x].ch = j.options.chapters[y].ch => x = y

\* What a plan for chapter c of a job, j, was made from and is drawn with.
PlanOK(p, c, j, t) ==
  p # NoPlan =>
    /\ j # NoJob
    /\ \E x \in DOMAIN j.options.chapters :
         /\ j.options.chapters[x].ch = c
         /\ \A s \in p.told : s \in p.ctx \/ s = <<c, j.options.chapters[x].hash>>
    /\ \A d \in p.seen : d <= c
    /\ \A k \in DOMAIN p.refs : p.refs[k] \in DOMAIN t
    /\ p.renames \subseteq DOMAIN p.refs

\* The slots left to an attempt: a renamed sheet is there, and before a scene is
\* painted there is a sheet of each of its characters.
Ready(r) ==
  \A x \in DOMAIN r.todo :
    /\ r.todo[x].ch = AtCh(r)
    /\ r.todo[x].kind = "name" => r.todo[x].of \in DOMAIN r.sheets
    /\ r.todo[x].kind = "scene" =>
         /\ r.todo[x].of \in DOMAIN r.plan.scenes
         /\ \A k \in r.plan.scenes[r.todo[x].of] :
              \/ k \in DOMAIN r.sheets
              \/ \E y \in DOMAIN r.todo : y < x /\ r.todo[y].kind = "sheet" /\ r.todo[y].of = k

\* An attempt that draws follows the stored plan, unless that was deleted, and
\* draws with sheets and finished rows of its chapter's past.
Drawing(r, jb, pl, t) ==
  /\ r.plan # NoPlan /\ r.plan.ctx = r.ctx
  /\ \A s \in r.plan.told : s \in r.ctx \/ s = <<AtCh(r), AtHash(r)>>
  /\ \A d \in r.plan.seen : d <= AtCh(r)
  /\ Draws(r.sheets, AtCh(r), t)
  /\ Ready(r)
  /\ \A i \in r.done : i \in DOMAIN t /\ t[i].job = r.job /\ t[i].ch = AtCh(r)
  /\ jb[r.job].dropped \/ pl[r.job].of[AtCh(r)] = r.plan

AttemptOK(r, jb, pl, t) ==
  r.pc # "idle" =>
    /\ jb[r.job] # NoJob /\ r.options = jb[r.job].options /\ r.at \in DOMAIN r.options.chapters
    /\ r.pc = "plan" => (\A d \in r.seen : d <= AtCh(r)) /\ Draws(r.sheets, AtCh(r), t)
    /\ r.pc \in {"next", "paint"} => Drawing(r, jb, pl, t)
    /\ r.pc = "paint" => r.todo # <<>>

RowsOK == \A i \in DOMAIN art : RowOK(art[i], job, art) /\ RowPlanned(art[i], job, plan)
JobsOK == \A j \in Jobs : job[j] # NoJob => JobOK(job[j])
PlansOK == \A j \in Jobs, c \in Chapters :
             /\ PlanOK(plan[j].of[c], c, job[j], art)
             /\ plan[j].of[c] # NoPlan => plan[j].parent
AttemptsOK == \A a \in Attempts : AttemptOK(run[a], job, plan, art)

ArtInv == ArtTypeOK /\ RowsOK /\ JobsOK /\ PlansOK /\ AttemptsOK

----------------------------------------------------------------------------
\* What no step takes back. Rows are added and marked as gone, and nothing else
\* in them changes.
Alike(r, q) ==
  /\ q.job = r.job /\ q.ch = r.ch /\ q.kind = r.kind /\ q.slot = r.slot /\ q.hash = r.hash
  /\ q.src = r.src /\ q.refs = r.refs /\ q.plan = r.plan /\ q.told = r.told /\ q.seen = r.seen

Kept(t, u) == \A i \in DOMAIN t : i \in DOMAIN u /\ Alike(t[i], u[i])

\* A job keeps what was asked for, and whether its plans were deleted.
Same(j, k) == j # NoJob => k # NoJob /\ k.options = j.options /\ (j.dropped => k.dropped)

\* A plan stays unless plans of its job were deleted.
Follows(j, p, q) ==
  \A c \in Chapters : p.of[c] # NoPlan => j.dropped \/ q.of[c] = p.of[c]

Onward(jb, pl, t, jb2, pl2, t2) ==
  /\ Kept(t, t2)
  /\ \A j \in Jobs : Same(jb[j], jb2[j]) /\ (jb[j] # NoJob => Follows(jb2[j], pl[j], pl2[j]))

LEMMA AttemptIs ==
  ASSUME NEW r \in Attempt \cup {Off}, r.pc # "idle"
  PROVE  /\ r \in Attempt /\ r.job \in Jobs /\ r.options \in Options /\ r.at \in Nat /\ r.todo \in Seq(Slots)
         /\ r.sheets \in Sheets /\ r.plan \in Plan \cup {NoPlan} /\ r.ctx \in Sources
BY DEF Attempt, Off

LEMMA ChapterAt ==
  ASSUME NEW r \in Attempt, r.at \in DOMAIN r.options.chapters
  PROVE  AtCh(r) \in Chapters /\ AtHash(r) \in Versions
<1> DEFINE S == [ch : Chapters, hash : Versions]
           s == r.options.chapters
<1>1. s \in Seq(S)  BY DEF Attempt, Options
<1>2. s[r.at] \in S
  <2> HIDE DEF s, S
  <2> QED  BY <1>1 DEF s
<1> QED  BY <1>2 DEF AtCh, AtHash

LEMMA RowKept ==
  ASSUME NEW jb, NEW pl, NEW t, NEW jb2, NEW pl2, NEW t2, Onward(jb, pl, t, jb2, pl2, t2),
         NEW r, NEW q, r.job \in Jobs, RowOK(r, jb, t), Alike(r, q)
  PROVE  RowOK(q, jb2, t2)
<1>1. jb2[r.job] # NoJob  BY DEF RowOK, Onward, Same
<1>2. \A x \in DOMAIN r.refs : /\ r.refs[x] \in DOMAIN t2 /\ t2[r.refs[x]].kind = "sheet"
                               /\ t2[r.refs[x]].told = t[r.refs[x]].told
  BY DEF RowOK, Onward, Kept, Alike
<1> QED  BY <1>1, <1>2 DEF RowOK, Alike

LEMMA RowPlannedKept ==
  ASSUME NEW jb, NEW pl, NEW t, NEW jb2, NEW pl2, NEW t2, Onward(jb, pl, t, jb2, pl2, t2),
         NEW r \in Row, NEW q, RowOK(r, jb, t), RowPlanned(r, jb, pl), Alike(r, q)
  PROVE  RowPlanned(q, jb2, pl2)
<1>1. r.job \in Jobs /\ r.ch \in Chapters /\ r.plan \in Nat \ {0}  BY ArtBounds DEF Row
<1>2. jb[r.job] # NoJob  BY DEF RowOK
<1>3. Same(jb[r.job], jb2[r.job]) /\ Follows(jb2[r.job], pl[r.job], pl2[r.job])
  BY <1>1, <1>2 DEF Onward
<1>4. CASE jb[r.job].dropped  BY <1>2, <1>3, <1>4 DEF Same, RowPlanned, Alike
<1>5. CASE pl[r.job].of[r.ch].n = r.plan
  <2>1. pl[r.job].of[r.ch] # NoPlan  BY <1>1, <1>5 DEF NoPlan
  <2> QED  BY <1>1, <1>3, <1>5, <2>1 DEF Follows, RowPlanned, Alike
<1> QED  BY <1>4, <1>5 DEF RowPlanned

LEMMA DrawsKept ==
  ASSUME NEW t, NEW u, Kept(t, u), NEW f, NEW c, Draws(f, c, t)
  PROVE  Draws(f, c, u)
BY DEF Kept, Alike, Draws

LEMMA AttemptKept ==
  ASSUME NEW jb, NEW pl, NEW t, NEW jb2, NEW pl2, NEW t2, Onward(jb, pl, t, jb2, pl2, t2),
         NEW r \in Attempt \cup {Off}, AttemptOK(r, jb, pl, t)
  PROVE  AttemptOK(r, jb2, pl2, t2)
<1> SUFFICES ASSUME r.pc # "idle" PROVE AttemptOK(r, jb2, pl2, t2)  BY DEF AttemptOK
<1>1. r \in Attempt /\ r.job \in Jobs  BY AttemptIs
<1>2. /\ jb[r.job] # NoJob /\ r.options = jb[r.job].options /\ r.at \in DOMAIN r.options.chapters
      /\ r.pc = "plan" => (\A d \in r.seen : d <= AtCh(r)) /\ Draws(r.sheets, AtCh(r), t)
      /\ r.pc \in {"next", "paint"} => Drawing(r, jb, pl, t)
      /\ r.pc = "paint" => r.todo # <<>>
  BY DEF AttemptOK
<1>3. Kept(t, t2) /\ Same(jb[r.job], jb2[r.job]) /\ Follows(jb2[r.job], pl[r.job], pl2[r.job])
  BY <1>1, <1>2 DEF Onward
<1>4. jb2[r.job] # NoJob /\ r.options = jb2[r.job].options /\ (jb[r.job].dropped => jb2[r.job].dropped)
  BY <1>2, <1>3 DEF Same
<1>5. AtCh(r) \in Chapters  BY <1>1, <1>2, ChapterAt
<1>6. ASSUME r.pc \in {"next", "paint"} PROVE Drawing(r, jb2, pl2, t2)
  <2>1. Drawing(r, jb, pl, t)  BY <1>2, <1>6
  <2>2. Draws(r.sheets, AtCh(r), t2)  BY <1>3, <2>1, DrawsKept DEF Drawing
  <2>3. \A i \in r.done : i \in DOMAIN t2 /\ t2[i].job = r.job /\ t2[i].ch = AtCh(r)
    BY <1>3, <2>1 DEF Drawing, Kept, Alike
  <2>4. jb2[r.job].dropped \/ pl2[r.job].of[AtCh(r)] = r.plan
    BY <1>3, <1>4, <1>5, <2>1 DEF Drawing, Follows
  <2> QED  BY <2>1, <2>2, <2>3, <2>4 DEF Drawing
<1>7. r.pc = "plan" => Draws(r.sheets, AtCh(r), t2)  BY <1>2, <1>3, DrawsKept
<1> QED  BY <1>2, <1>4, <1>6, <1>7 DEF AttemptOK

LEMMA PlanKept ==
  ASSUME NEW t, NEW u, Kept(t, u), NEW j, NEW k, Same(j, k), NEW p, NEW c, PlanOK(p, c, j, t)
  PROVE  PlanOK(p, c, k, u)
BY DEF Kept, Same, PlanOK

----------------------------------------------------------------------------
\* What a reader is shown.

\* A set of row ids has a newest one.
LEMMA NewestIs ==
  ASSUME NEW n \in Nat, NEW S \in SUBSET (1..n), S # {}
  PROVE  Max(S) \in S /\ \A y \in S : y <= Max(S)
<1> DEFINE below == {ss \in Nat \X Nat : ss[1] < ss[2]}
           T == {n - x : x \in S}
<1>1. IsWellFoundedOn(below, Nat)  BY NatLessThanWellFounded DEF OpToRel
<1>2. T \in SUBSET Nat /\ T # {}
  <2>1. ASSUME NEW x \in S PROVE n - x \in Nat  OBVIOUS
  <2> QED  BY <2>1
<1> HIDE DEF below
<1>3. PICK z \in T : \A y \in T : ~(<<y, z>> \in below)
  <2> HIDE DEF T
  <2> QED  BY <1>1, <1>2, WFMin
<1>4. PICK x \in S : z = n - x  BY <1>3
<1>5. ASSUME NEW y \in S PROVE x >= y
  <2>1. n - y \in T /\ n - y \in Nat /\ z \in Nat  BY <1>2
  <2>2. <<n - y, z>> \in Nat \X Nat /\ <<n - y, z>>[1] = n - y /\ <<n - y, z>>[2] = z  BY <2>1
  <2>3. ~(n - y < z)  BY <1>3, <2>1, <2>2 DEF below
  <2> QED  BY <1>4, <2>1, <2>3
<1>6. Max(S) \in S /\ \A y \in S : Max(S) >= y  BY <1>5 DEF Max
<1> QED  BY <1>6

LEMMA RowIs ==
  ASSUME ArtTypeOK, NEW i \in DOMAIN art
  PROVE  art[i] \in Row /\ i \in 1..Len(art) /\ i \in 1..MaxArt
<1>1. art \in Seq(Row) /\ Len(art) <= MaxArt /\ MaxArt \in Nat  BY ArtBounds DEF ArtTypeOK
<1>2. i \in 1..Len(art)  BY <1>1
<1>3. art[i] \in Row  BY <1>1, <1>2
<1> QED  BY <1>1, <1>2, <1>3

LEMMA ScenesAre ==
  ASSUME ArtTypeOK, NEW j \in Jobs, NEW c \in Chapters
  PROVE  /\ ScenesOf(j, c) \in SUBSET (1..Len(art))
         /\ \A i \in ScenesOf(j, c) : /\ i \in DOMAIN art /\ ArtShown(i)
                                      /\ art[i].job = j /\ art[i].ch = c
BY RowIs DEF ScenesOf, Rows

\* The gallery is nothing or the scenes of one job.
LEMMA GalleryIs ==
  ASSUME ArtTypeOK, NEW c \in Chapters
  PROVE  Gallery(c) = {} \/ \E j \in Jobs : Gallery(c) = ScenesOf(j, c)
<1> DEFINE whole == {S \in {ScenesOf(j, c) : j \in Jobs} : IsComplete(S)}
           M == {Max(S) : S \in whole}
<1>1. Len(art) \in Nat  BY DEF ArtTypeOK
<1>2. ASSUME NEW S \in whole PROVE S \in SUBSET (1..Len(art)) /\ Max(S) \in S /\ \E j \in Jobs : S = ScenesOf(j, c)
  <2>1. S # {} /\ \E j \in Jobs : S = ScenesOf(j, c)  BY DEF IsComplete
  <2>2. S \in SUBSET (1..Len(art))  BY <2>1, ScenesAre
  <2> QED  BY <1>1, <2>1, <2>2, NewestIs
<1>3. Gallery(c) = IF whole = {} THEN {} ELSE CHOOSE S \in whole : \A o \in whole : Max(o) <= Max(S)
  BY DEF Gallery
<1> HIDE DEF whole
<1>4. CASE whole # {}
  <2>1. M \in SUBSET (1..Len(art)) /\ M # {}  BY <1>2, <1>4
  <2> DEFINE m == Max(M)
  <2>2. m \in M /\ \A y \in M : y <= m
    <3> HIDE DEF M
    <3> QED  BY <1>1, <2>1, NewestIs
  <2>3. \E S \in whole : \A o \in whole : Max(o) <= Max(S)
    <3> HIDE DEF m
    <3>1. PICK S \in whole : m = Max(S)  BY <2>2
    <3> QED  BY <2>2, <3>1
  <2>4. Gallery(c) \in whole  BY <1>3, <1>4, <2>3
  <2> QED  BY <1>2, <2>4
<1> QED  BY <1>3, <1>4

LEMMA ShownAre ==
  ASSUME ArtTypeOK, NEW c \in Chapters, NEW i \in Shown(c)
  PROVE  i \in DOMAIN art /\ ArtShown(i) /\ art[i].ch <= c
<1>1. CASE i \in Gallery(c)
  <2>1. PICK j \in Jobs : i \in ScenesOf(j, c)  BY <1>1, GalleryIs
  <2>2. i \in DOMAIN art /\ ArtShown(i) /\ art[i].ch = c  BY <2>1, ScenesAre
  <2> QED  BY <2>2, ArtBounds
<1>2. ASSUME NEW k \in Keys, i \in LatestSheet(k, c), ArtShown(i)
      PROVE  i \in DOMAIN art /\ ArtShown(i) /\ art[i].ch <= c
  BY <1>2 DEF LatestSheet, Rows, Reached
<1> QED  BY <1>1, <1>2 DEF Shown

LEMMA ArtIsSafe == ArtInv => NoSpoilerArt
<1> SUFFICES ASSUME ArtInv, NEW c \in Chapters, NEW i \in Shown(c), NEW d \in art[i].seen PROVE d <= c
  BY DEF NoSpoilerArt
<1>1. ArtTypeOK /\ RowsOK  BY DEF ArtInv
<1>2. i \in DOMAIN art /\ art[i].ch <= c  BY <1>1, ShownAre
<1>3. d <= art[i].ch  BY <1>1, <1>2 DEF RowsOK, RowOK
<1>4. art[i] \in Row  BY <1>1, <1>2, RowIs
<1>5. d \in Nat /\ art[i].ch \in Nat /\ c \in Nat  BY <1>4, ArtBounds DEF Row
<1> QED  BY <1>2, <1>3, <1>5

LEMMA ArtIsOfItsText == ArtInv => ShownIsOfItsText
<1> SUFFICES ASSUME ArtInv, NEW c \in Chapters, NEW i \in Shown(c), NEW s \in art[i].told
             PROVE  text[s[1]] = s[2]
  BY DEF ShownIsOfItsText, IsCurrent
<1>1. ArtTypeOK /\ RowsOK  BY DEF ArtInv
<1>2. i \in DOMAIN art /\ ArtShown(i)  BY <1>1, ShownAre
<1>3. RowOK(art[i], job, art)  BY <1>1, <1>2 DEF RowsOK
<1>4. text[art[i].ch] = art[i].hash /\ IsCurrent(art[i].src)  BY <1>2 DEF ArtShown
<1>5. CASE s \in art[i].src  BY <1>4, <1>5 DEF IsCurrent
<1>6. CASE s = <<art[i].ch, art[i].hash>>  BY <1>4, <1>6
<1>7. ASSUME NEW x \in DOMAIN art[i].refs, art[i].kind = "scene", s \in art[art[i].refs[x]].told
      PROVE  text[s[1]] = s[2]
  <2> DEFINE h == art[i].refs[x]
  <2>1. h \in ToSet(art[i].refs)  BY DEF ToSet
  <2>2. text[art[h].ch] = art[h].hash /\ IsCurrent(art[h].src)  BY <1>2, <1>7, <2>1 DEF ArtShown, SheetShown
  <2>3. h \in DOMAIN art /\ art[h].kind = "sheet"  BY <1>3 DEF RowOK
  <2>4. RowOK(art[h], job, art)  BY <1>1, <2>3 DEF RowsOK
  <2> HIDE DEF h
  <2>5. s \in art[h].src \/ s = <<art[h].ch, art[h].hash>>  BY <1>7, <2>3, <2>4 DEF RowOK, h
  <2>6. CASE s \in art[h].src  BY <2>2, <2>6 DEF IsCurrent
  <2>7. CASE s = <<art[h].ch, art[h].hash>>  BY <2>2, <2>7
  <2> QED  BY <2>5, <2>6, <2>7
<1> QED  BY <1>3, <1>5, <1>6, <1>7 DEF RowOK

LEMMA ArtIsOfOnePlan == ArtInv => GalleryIsOnePlan
<1> SUFFICES ASSUME ArtInv, NEW c \in Chapters
             PROVE  Cardinality({art[i].plan : i \in {o \in Gallery(c) : ~job[art[o].job].dropped}}) <= 1
  BY DEF GalleryIsOnePlan
<1> DEFINE P == {art[i].plan : i \in {o \in Gallery(c) : ~job[art[o].job].dropped}}
<1>1. ArtTypeOK /\ RowsOK  BY DEF ArtInv
<1>2. CASE Gallery(c) = {}
  <2>1. P = {}  BY <1>2
  <2> QED  BY <2>1, FS_EmptySet
<1>3. ASSUME NEW j \in Jobs, Gallery(c) = ScenesOf(j, c) PROVE Cardinality(P) <= 1
  <2> DEFINE n == plan[j].of[c].n
  <2>1. ASSUME NEW i \in Gallery(c), ~job[art[i].job].dropped PROVE art[i].plan = n
    <3>1. i \in DOMAIN art /\ art[i].job = j /\ art[i].ch = c  BY <1>1, <1>3, ScenesAre
    <3>2. RowPlanned(art[i], job, plan)  BY <1>1, <3>1 DEF RowsOK
    <3> QED  BY <2>1, <3>1, <3>2 DEF RowPlanned
  <2>2. P \in SUBSET {n}  BY <2>1
  <2> HIDE DEF P, n
  <2>3. IsFiniteSet({n}) /\ Cardinality({n}) = 1  BY FS_Singleton
  <2>4. Cardinality(P) <= Cardinality({n})  BY <2>2, <2>3, FS_Subset
  <2> QED  BY <2>3, <2>4
<1> QED  BY <1>1, <1>2, <1>3, GalleryIs

----------------------------------------------------------------------------
\* What steps have in common.

Left == [plans : 0..MaxPlans, changes : 0..MaxChanges, faults : 0..MaxFaults]

\* A job comes to be, or keeps what was asked for.
Moves(j, k) ==
  \/ k = j
  \/ k \in Job /\ j = NoJob /\ JobOK(k)
  \/ k \in Job /\ j # NoJob /\ k.options = j.options /\ (j.dropped => k.dropped)

JobsMove == job' \in [Jobs -> Job \cup {NoJob}] /\ \A j \in Jobs : Moves(job[j], job'[j])

LEMMA MovesAre ==
  ASSUME ArtInv, JobsMove
  PROVE  JobsOK' /\ \A j \in Jobs : Same(job[j], job'[j])
<1>1. ASSUME NEW j \in Jobs PROVE Same(job[j], job'[j]) /\ (job'[j] # NoJob => JobOK(job'[j]))
  <2>1. Moves(job[j], job'[j])  BY DEF JobsMove
  <2>2. job[j] # NoJob => JobOK(job[j])  BY DEF ArtInv, JobsOK
  <2>3. \A k \in Job : k # NoJob  BY DEF Job, NoJob
  <2> QED  BY <2>1, <2>2, <2>3 DEF Moves, Same, JobOK
<1> QED  BY <1>1 DEF JobsOK

\* The invariant is kept by a step that adds sound rows and plans, and whose
\* attempts are sound.
LEMMA ArtStep ==
  ASSUME ArtInv, ArtTypeOK', JobsMove, Kept(art, art'),
         \A j \in Jobs : job[j] # NoJob => Follows(job'[j], plan[j], plan'[j]),
         \A i \in DOMAIN art' :
            i \in DOMAIN art \/ (RowOK(art'[i], job', art') /\ RowPlanned(art'[i], job', plan')),
         \A j \in Jobs, c \in Chapters :
            /\ plan'[j].of[c] = plan[j].of[c] \/ PlanOK(plan'[j].of[c], c, job'[j], art')
            /\ plan'[j].of[c] # NoPlan => plan'[j].parent,
         \A a \in Attempts : run'[a] = run[a] \/ AttemptOK(run'[a], job', plan', art')
  PROVE  ArtInv'
<1>1. JobsOK' /\ \A j \in Jobs : Same(job[j], job'[j])  BY MovesAre
<1>2. Onward(job, plan, art, job', plan', art')  BY <1>1 DEF Onward
<1>3. ArtTypeOK /\ RowsOK /\ PlansOK /\ AttemptsOK  BY DEF ArtInv
<1>4. ASSUME NEW i \in DOMAIN art' PROVE RowOK(art'[i], job', art') /\ RowPlanned(art'[i], job', plan')
  <2>1. CASE i \in DOMAIN art
    <3>1. art[i] \in Row /\ RowOK(art[i], job, art) /\ RowPlanned(art[i], job, plan)
      BY <1>3, <2>1, RowIs DEF RowsOK
    <3>2. art[i].job \in Jobs /\ Alike(art[i], art'[i])  BY <2>1, <3>1 DEF Row, Kept
    <3> QED  BY <1>2, <3>1, <3>2, RowKept, RowPlannedKept
  <2> QED  BY <2>1
<1>5. ASSUME NEW j \in Jobs, NEW c \in Chapters PROVE PlanOK(plan'[j].of[c], c, job'[j], art')
  <2>1. PlanOK(plan[j].of[c], c, job[j], art)  BY <1>3 DEF PlansOK
  <2>2. PlanOK(plan[j].of[c], c, job'[j], art')  BY <1>1, <2>1, PlanKept
  <2> QED  BY <2>2
<1>6. ASSUME NEW a \in Attempts PROVE AttemptOK(run'[a], job', plan', art')
  <2>1. run[a] \in Attempt \cup {Off} /\ AttemptOK(run[a], job, plan, art)
    BY <1>3 DEF ArtTypeOK, AttemptsOK
  <2>2. AttemptOK(run[a], job', plan', art')  BY <1>2, <2>1, AttemptKept
  <2> QED  BY <2>2
<1>7. RowsOK' /\ PlansOK' /\ AttemptsOK'  BY <1>4, <1>5, <1>6 DEF RowsOK, PlansOK, AttemptsOK
<1> QED  BY <1>1, <1>7 DEF ArtInv

LEMMA NothingNew ==
  ASSUME ArtInv
  PROVE  /\ Kept(art, art)
         /\ \A j \in Jobs : \A k : Follows(k, plan[j], plan[j])
         /\ \A j \in Jobs, c \in Chapters : plan[j].of[c] # NoPlan => plan[j].parent
BY DEF ArtInv, PlansOK, Kept, Alike, Follows

\* A step of an attempt that leaves the art and the plans as they are.
LEMMA OwnStep ==
  ASSUME ArtInv, NEW a \in Attempts, NEW q \in Attempt \cup {Off}, run' = [run EXCEPT ![a] = q],
         AttemptOK(q, job, plan, art), JobsMove, UNCHANGED <<text, art, plan>>, left' \in Left
  PROVE  ArtInv'
<1>1. ArtTypeOK  BY DEF ArtInv
<1>2. ArtTypeOK'
  <2>1. run' \in [Attempts -> Attempt \cup {Off}]  BY <1>1 DEF ArtTypeOK
  <2> QED  BY <1>1, <2>1 DEF ArtTypeOK, JobsMove, Left
<1>3. art' = art /\ plan' = plan  OBVIOUS
<1>4. Onward(job, plan, art, job', plan', art')  BY <1>3, MovesAre, NothingNew DEF Onward
<1>5. AttemptOK(q, job', plan', art')  BY <1>4, AttemptKept
<1>6. run'[a] = q /\ \A o \in Attempts : o # a => run'[o] = run[o]  BY <1>1 DEF ArtTypeOK
<1> QED  BY <1>2, <1>3, <1>5, <1>6, NothingNew, ArtStep

\* A step of a user on the jobs.
LEMMA JobStep ==
  ASSUME ArtInv, JobsMove, UNCHANGED <<text, art, plan, run>>, left' \in Left
  PROVE  ArtInv'
<1>1. ArtTypeOK  BY DEF ArtInv
<1>2. ArtTypeOK'  BY <1>1 DEF ArtTypeOK, JobsMove, Left
<1>3. art' = art /\ plan' = plan /\ run' = run  OBVIOUS
<1> QED  BY <1>2, <1>3, NothingNew, ArtStep

LEMMA OneJobMoves ==
  ASSUME ArtInv, NEW j \in Jobs, NEW k \in Job, Moves(job[j], k), job' = [job EXCEPT ![j] = k]
  PROVE  JobsMove
<1>1. job \in [Jobs -> Job \cup {NoJob}]  BY DEF ArtInv, ArtTypeOK
<1>2. job'[j] = k /\ \A o \in Jobs : o # j => job'[o] = job[o]  BY <1>1
<1> QED  BY <1>1, <1>2 DEF JobsMove, Moves

LEMMA JobsStay == ASSUME ArtInv, UNCHANGED job PROVE JobsMove
BY DEF ArtInv, ArtTypeOK, JobsMove, Moves

LEMMA StatusMoves ==
  ASSUME ArtInv, NEW j \in Jobs, job[j] # NoJob,
         NEW s \in {"queued", "running", "done", "failed", "canceled"},
         job' = [job EXCEPT ![j].status = s]
  PROVE  JobsMove
<1> DEFINE k == [job[j] EXCEPT !.status = s]
<1>1. job[j] \in Job  BY DEF ArtInv, ArtTypeOK
<1>2. k \in Job /\ k.options = job[j].options /\ k.dropped = job[j].dropped  BY <1>1 DEF Job
<1>3. job' = [job EXCEPT ![j] = k]  OBVIOUS
<1> HIDE DEF k
<1>4. Moves(job[j], k)  BY <1>2 DEF Moves
<1> QED  BY <1>2, <1>3, <1>4, OneJobMoves

LEMMA StartedMoves ==
  ASSUME ArtInv, NEW j \in Jobs, job[j] # NoJob, job' = [job EXCEPT ![j].started = TRUE]
  PROVE  JobsMove
<1> DEFINE k == [job[j] EXCEPT !.started = TRUE]
<1>1. job[j] \in Job  BY DEF ArtInv, ArtTypeOK
<1>2. k \in Job /\ k.options = job[j].options /\ k.dropped = job[j].dropped  BY <1>1 DEF Job
<1>3. job' = [job EXCEPT ![j] = k]  OBVIOUS
<1> HIDE DEF k
<1>4. Moves(job[j], k)  BY <1>2 DEF Moves
<1> QED  BY <1>2, <1>3, <1>4, OneJobMoves

\* What is known of an attempt that is at work.
LEMMA Working ==
  ASSUME ArtInv, NEW a \in Attempts, run[a].pc # "idle"
  PROVE  /\ run[a] \in Attempt /\ run[a].job \in Jobs /\ job[run[a].job] \in Job
         /\ job[run[a].job] # NoJob /\ run[a].options = job[run[a].job].options
         /\ run[a].at \in DOMAIN run[a].options.chapters
         /\ Ch(a) = AtCh(run[a]) /\ Target(a).hash = AtHash(run[a])
         /\ Ch(a) \in Chapters /\ Target(a).hash \in Versions
         /\ AttemptOK(run[a], job, plan, art)
<1>1. run[a] \in Attempt \cup {Off} /\ AttemptOK(run[a], job, plan, art)
  BY DEF ArtInv, ArtTypeOK, AttemptsOK
<1>2. run[a] \in Attempt /\ run[a].job \in Jobs  BY <1>1, AttemptIs
<1>3. /\ job[run[a].job] # NoJob /\ run[a].options = job[run[a].job].options
      /\ run[a].at \in DOMAIN run[a].options.chapters
  BY <1>1 DEF AttemptOK
<1>4. job[run[a].job] \in Job  BY <1>2, <1>3 DEF ArtInv, ArtTypeOK
<1>5. Ch(a) = AtCh(run[a]) /\ Target(a).hash = AtHash(run[a])  BY DEF Ch, Target, AtCh, AtHash
<1>6. AtCh(run[a]) \in Chapters /\ AtHash(run[a]) \in Versions  BY <1>2, <1>3, ChapterAt
<1> QED  BY <1>1, <1>2, <1>3, <1>4, <1>5, <1>6

LEMMA LeftIs == ASSUME ArtInv PROVE left \in Left
BY DEF ArtInv, ArtTypeOK, Left

LEMMA FaultSpent ==
  ASSUME ArtInv, left.faults > 0, left' = [left EXCEPT !.faults = @ - 1]
  PROVE  left' \in Left
BY LeftIs, ArtBounds DEF Left

LEMMA RaiseSafe ==
  ASSUME ArtInv, NEW a \in Attempts, run[a].pc # "idle", Raise(a), UNCHANGED <<text, art, plan>>,
         left' \in Left
  PROVE  ArtInv'
<1>1. run[a].job \in Jobs /\ job[run[a].job] # NoJob  BY Working
<1>2. run' = [run EXCEPT ![a] = Off]  BY DEF Raise
<1>3. \/ UNCHANGED job
      \/ \E s \in {"failed", "queued"} : job' = [job EXCEPT ![run[a].job].status = s]
  BY DEF Raise
<1>4. JobsMove  BY <1>1, <1>3, JobsStay, StatusMoves
<1>5. Off \in Attempt \cup {Off} /\ AttemptOK(Off, job, plan, art)  BY DEF AttemptOK, Off
<1> QED  BY <1>2, <1>4, <1>5, OwnStep

----------------------------------------------------------------------------
\* Requests, and attempts until they draw.

LEMMA ScheduleSafe ==
  ASSUME ArtInv, NEW o \in Options, o.chapters # <<>>,
         \A x, y \in DOMAIN o.chapters : o.chapters[x].ch = o.chapters[y].ch => x = y,
         Schedule(o), UNCHANGED <<text, art, plan, run, left>>
  PROVE  ArtInv'
<1> DEFINE k == [status |-> "queued", options |-> o, attempts |-> 0, started |-> FALSE, dropped |-> FALSE]
<1>1. PICK j \in Jobs : job[j] = NoJob /\ job' = [job EXCEPT ![j] = k]  BY DEF Schedule
<1>2. k \in Job /\ k.options = o  BY DEF Job
<1> HIDE DEF k
<1>3. Moves(job[j], k)  BY <1>1, <1>2 DEF Moves, JobOK
<1>4. JobsMove  BY <1>1, <1>2, <1>3, OneJobMoves
<1> QED  BY <1>4, LeftIs, JobStep

LEMMA TextIs == ASSUME ArtInv, NEW c \in Chapters PROVE text[c] \in Versions
BY DEF ArtInv, ArtTypeOK

LEMMA GenerateSafe ==
  ASSUME ArtInv, NEW c \in Chapters, NEW n \in 0..3, NEW b \in BOOLEAN, Generate(c, n, b)
  PROVE  ArtInv'
<1> DEFINE e == [ch |-> c, hash |-> text[c]]
           s == <<e>>
           o == [range |-> FALSE, chapters |-> s, count |-> n, force |-> FALSE]
<1>1. e \in [ch : Chapters, hash : Versions]  BY TextIs
<1>2. s \in Seq([ch : Chapters, hash : Versions]) /\ s # <<>> /\ DOMAIN s = {1}
  <2> HIDE DEF e
  <2> QED  BY <1>1
<1> HIDE DEF s
<1>3. o \in Options /\ o.chapters = s  BY <1>2 DEF Options
<1>4. Schedule(o) /\ UNCHANGED <<text, art, plan, run, left>>  BY DEF Generate, s
<1> HIDE DEF o
<1> QED  BY <1>2, <1>3, <1>4, ScheduleSafe

LEMMA GenerateRangeSafe ==
  ASSUME ArtInv, NEW b \in BOOLEAN, GenerateRange(b)
  PROVE  ArtInv'
<1> DEFINE S == [ch : Chapters, hash : Versions]
           s == [c \in Chapters |-> [ch |-> c, hash |-> text[c]]]
           o == [range |-> TRUE, chapters |-> s, count |-> 0, force |-> b]
<1>1. \A c \in Chapters : s[c] \in S /\ s[c].ch = c  BY TextIs
<1>2. DOMAIN s = 1..N /\ N \in Nat /\ N > 0  BY ArtBounds DEF Chapters
<1>3. s \in [1..N -> S]  BY <1>1, <1>2 DEF Chapters
<1>4. s \in Seq(S) /\ s # <<>>
  <2> HIDE DEF s, S
  <2> QED  BY <1>2, <1>3
<1>5. \A x, y \in DOMAIN s : s[x].ch = s[y].ch => x = y  BY <1>1
<1> HIDE DEF s
<1>6. o \in Options /\ o.chapters = s  BY <1>4 DEF Options
<1>7. Schedule(o) /\ UNCHANGED <<text, art, plan, run, left>>  BY DEF GenerateRange, s
<1> HIDE DEF o
<1> QED  BY <1>4, <1>5, <1>6, <1>7, ScheduleSafe

LEMMA ChangeSpent == ASSUME ArtInv, MayChange PROVE left' \in Left
BY LeftIs, ArtBounds DEF MayChange, Left

LEMMA CancelSafe == ASSUME ArtInv, NEW j \in Jobs, Cancel(j) PROVE ArtInv'
<1>1. job[j] # NoJob  BY DEF Cancel, Active, NoJob
<1>2. JobsMove  BY <1>1, StatusMoves DEF Cancel
<1>3. left' \in Left  BY ChangeSpent DEF Cancel
<1> QED  BY <1>2, <1>3, JobStep DEF Cancel

LEMMA EmptyIs == <<>> \in Sheets /\ <<>> \in Seq(Slots)
<1>1. {} \in SUBSET Keys  OBVIOUS
<1>2. <<>> \in [{} -> 1..MaxArt]  OBVIOUS
<1> QED  BY <1>1, <1>2 DEF Sheets

LEMMA StartSafe ==
  ASSUME ArtInv, NEW a \in Attempts, NEW j \in Jobs, Start(a, j)
  PROVE  ArtInv'
<1> DEFINE b == IF job[j].options.range THEN "verify" ELSE "load"
           e == <<>>
           o == job[j].options
           st == job[j].started
           q == [pc |-> b, lost |-> FALSE, job |-> j, options |-> o, started |-> st, at |-> 1,
                 ctx |-> {}, planned |-> FALSE, plan |-> NoPlan, sheets |-> e, seen |-> {},
                 done |-> {}, todo |-> e]
           k == [job[j] EXCEPT !.status = "running", !.attempts = @ + 1]
<1>1. job[j] # NoJob  BY DEF Start, NoJob
<1>2. job[j] \in Job /\ JobOK(job[j])  BY <1>1 DEF ArtInv, ArtTypeOK, JobsOK
<1>3. o \in Options /\ st \in BOOLEAN  BY <1>2 DEF Job
<1>4. 1 \in DOMAIN o.chapters  BY <1>2, <1>3 DEF JobOK, Options
<1>5. e \in Sheets /\ e \in Seq(Slots)  BY EmptyIs
<1>6. /\ run' = [run EXCEPT ![a] = q] /\ job' = [job EXCEPT ![j] = k]
      /\ UNCHANGED <<text, art, plan, left>>
  BY DEF Start
<1>7. k \in Job /\ k.options = o /\ k.dropped = job[j].dropped
  <2> DEFINE w == job[j]
             n == w.attempts + 1
  <2>1. w \in Job /\ n \in Nat  BY <1>2 DEF Job
  <2>2. k = [w EXCEPT !.status = "running", !.attempts = n] /\ o = w.options  OBVIOUS
  <2> HIDE DEF w, n, k, o
  <2>3. k \in Job /\ k.options = w.options /\ k.dropped = w.dropped  BY <2>1, <2>2 DEF Job
  <2> QED  BY <2>2, <2>3 DEF w
<1>8. b \in {"verify", "load"}  OBVIOUS
<1> HIDE DEF b, e, k
<1>9. Moves(job[j], k)  BY <1>1, <1>7 DEF Moves
<1>10. JobsMove  BY <1>6, <1>7, <1>9, OneJobMoves
<1>11. {} \in Sources /\ {} \in SUBSET Chapters /\ {} \in SUBSET Nat /\ 1 \in Nat \ {0}
       /\ FALSE \in BOOLEAN /\ NoPlan \in Plan \cup {NoPlan}
  BY DEF Sources
<1>12. q \in Attempt
  <2> HIDE DEF o, st
  <2> QED  BY <1>3, <1>5, <1>8, <1>11 DEF Attempt
<1>13. AttemptOK(q, job, plan, art)  BY <1>1, <1>4, <1>8 DEF AttemptOK
<1> HIDE DEF q
<1> QED  BY <1>6, <1>10, <1>12, <1>13, LeftIs, OwnStep

\* The plans of an attempt's job have their header.
LEMMA ParentSafe ==
  ASSUME ArtInv, NEW a \in Attempts, NEW q \in Attempt \cup {Off}, run' = [run EXCEPT ![a] = q],
         AttemptOK(q, job, plan, art), NEW j \in Jobs, plan' = [plan EXCEPT ![j].parent = TRUE],
         UNCHANGED <<text, art, job, left>>
  PROVE  ArtInv'
<1>1. ArtTypeOK  BY DEF ArtInv
<1> DEFINE PT == [parent : BOOLEAN, of : [Chapters -> Plan \cup {NoPlan}]]
<1>2. \A i \in Jobs : plan[i] \in PT  BY <1>1 DEF ArtTypeOK
<1>3. plan' \in [Jobs -> PT] /\ \A i \in Jobs : /\ plan'[i].of = plan[i].of
                                                /\ plan[i].parent => plan'[i].parent
  <2>1. \A i \in Jobs : plan'[i] = IF i = j THEN [plan[j] EXCEPT !.parent = TRUE] ELSE plan[i]
    BY <1>1 DEF ArtTypeOK
  <2>2. [plan[j] EXCEPT !.parent = TRUE] \in PT /\ [plan[j] EXCEPT !.parent = TRUE].of = plan[j].of
        /\ [plan[j] EXCEPT !.parent = TRUE].parent = TRUE
    BY <1>2
  <2>3. DOMAIN plan' = Jobs /\ plan' = [i \in Jobs |-> plan'[i]]  BY <1>1 DEF ArtTypeOK
  <2> HIDE DEF PT
  <2> QED  BY <1>2, <2>1, <2>2, <2>3
<1>4. ArtTypeOK'
  <2>1. run' \in [Attempts -> Attempt \cup {Off}]  BY <1>1 DEF ArtTypeOK
  <2> QED  BY <1>1, <1>3, <2>1 DEF ArtTypeOK
<1> HIDE DEF PT
<1>5. JobsMove /\ art' = art /\ job' = job  BY JobsStay
<1>6. \A i \in Jobs : \A k : Follows(k, plan[i], plan'[i])  BY <1>3 DEF Follows
<1>7. \A i \in Jobs, c \in Chapters : plan'[i].of[c] # NoPlan => plan'[i].parent
  BY <1>3, NothingNew
<1>8. Onward(job, plan, art, job', plan', art')  BY <1>5, <1>6, MovesAre, NothingNew DEF Onward
<1>9. AttemptOK(q, job', plan', art')  BY <1>8, AttemptKept
<1>10. run'[a] = q /\ \A o \in Attempts : o # a => run'[o] = run[o]  BY <1>1 DEF ArtTypeOK
<1> QED  BY <1>3, <1>4, <1>5, <1>6, <1>7, <1>9, <1>10, NothingNew, ArtStep

LEMMA VerifyRangeSafe == ASSUME ArtInv, NEW a \in Attempts, VerifyRange(a) PROVE ArtInv'
<1>1. run[a].pc = "verify"  BY DEF VerifyRange, At
<1>2. CASE Raise(a) /\ UNCHANGED plan
  BY <1>1, <1>2, LeftIs, RaiseSafe DEF VerifyRange
<1>3. CASE /\ plan' = [plan EXCEPT ![run[a].job].parent = TRUE]
           /\ run' = [run EXCEPT ![a].pc = "chapter"] /\ UNCHANGED job
  <2> DEFINE r == run[a]
             q == [r EXCEPT !.pc = "chapter"]
  <2>1. r \in Attempt /\ r.job \in Jobs /\ AttemptOK(r, job, plan, art) /\ r.pc # "idle"  BY <1>1, Working
  <2>2. run' = [run EXCEPT ![a] = q]  BY <1>3
  <2>3. UNCHANGED <<text, art, job, left>>  BY <1>3 DEF VerifyRange
  <2>4. plan' = [plan EXCEPT ![r.job].parent = TRUE]  BY <1>3
  <2> HIDE DEF r
  <2>5. /\ q \in Attempt /\ q.pc = "chapter" /\ q.job = r.job /\ q.options = r.options /\ q.at = r.at
    BY <2>1 DEF Attempt
  <2> HIDE DEF q
  <2>6. AttemptOK(q, job, plan, art)  BY <2>1, <2>5 DEF AttemptOK
  <2> QED  BY <2>1, <2>2, <2>3, <2>4, <2>5, <2>6, ParentSafe
<1> QED  BY <1>2, <1>3 DEF VerifyRange

LEMMA AdvanceSafe ==
  ASSUME ArtInv, NEW a \in Attempts, run[a].pc # "idle", Advance(a), UNCHANGED <<text, art, plan, left>>
  PROVE  ArtInv'
<1> DEFINE r == run[a]
<1>1. /\ r \in Attempt /\ r.job \in Jobs /\ job[r.job] # NoJob /\ r.options = job[r.job].options
      /\ r.at \in DOMAIN r.options.chapters
  BY Working
<1>2. CASE /\ r.at < Len(r.options.chapters)
           /\ run' = [run EXCEPT ![a].at = @ + 1, ![a].pc = "chapter"]
           /\ job' = [job EXCEPT ![r.job].started = TRUE]
  <2> DEFINE q == [r EXCEPT !.at = @ + 1, !.pc = "chapter"]
  <2>1. run' = [run EXCEPT ![a] = q]  BY <1>2
  <2>2. r.options.chapters \in Seq([ch : Chapters, hash : Versions]) /\ r.at \in Nat
    BY <1>1 DEF Attempt, Options
  <2>3. JobsMove  BY <1>1, <1>2, StartedMoves
  <2>4. r.at + 1 \in DOMAIN r.options.chapters /\ r.at + 1 \in Nat \ {0}
    <3> DEFINE s == r.options.chapters
               n == r.at
    <3>1. s \in Seq([ch : Chapters, hash : Versions]) /\ n \in DOMAIN s /\ n < Len(s)  BY <1>1, <1>2, <2>2
    <3> HIDE DEF s, n
    <3>2. n + 1 \in DOMAIN s /\ n + 1 \in Nat \ {0}  BY <3>1
    <3> QED  BY <3>2 DEF s, n
  <2> HIDE DEF r
  <2>5. /\ q \in Attempt /\ q.pc = "chapter" /\ q.job = r.job /\ q.options = r.options /\ q.at = r.at + 1
    BY <1>1, <2>4 DEF Attempt
  <2> HIDE DEF q
  <2>6. AttemptOK(q, job, plan, art)  BY <1>1, <2>4, <2>5 DEF AttemptOK
  <2> QED  BY <2>1, <2>3, <2>5, <2>6, LeftIs, OwnStep
<1>3. CASE /\ run' = [run EXCEPT ![a] = Off]
           /\ job' = IF r.lost \/ job[r.job].status # "running" THEN job
                     ELSE [job EXCEPT ![r.job].status = "done"]
  <2>1. JobsMove  BY <1>1, <1>3, JobsStay, StatusMoves
  <2>2. Off \in Attempt \cup {Off} /\ AttemptOK(Off, job, plan, art)  BY DEF AttemptOK, Off
  <2> QED  BY <1>3, <2>1, <2>2, LeftIs, OwnStep
<1> QED  BY <1>2, <1>3 DEF Advance

LEMMA RangeChapterSafe == ASSUME ArtInv, NEW a \in Attempts, RangeChapter(a) PROVE ArtInv'
<1>1. run[a].pc = "chapter" /\ UNCHANGED <<text, art, plan, left>>  BY DEF RangeChapter, At
<1>2. CASE Raise(a)  BY <1>1, <1>2, LeftIs, RaiseSafe
<1>3. CASE Advance(a)  BY <1>1, <1>3, AdvanceSafe
<1>4. CASE /\ run' = [run EXCEPT ![a].pc = "load", ![a].ctx = {}, ![a].planned = FALSE]
           /\ job' = [job EXCEPT ![run[a].job].started = TRUE]
  <2> DEFINE r == run[a]
             q == [r EXCEPT !.pc = "load", !.ctx = {}, !.planned = FALSE]
  <2>1. /\ r \in Attempt /\ r.job \in Jobs /\ AttemptOK(r, job, plan, art) /\ r.pc # "idle"
        /\ job[r.job] # NoJob
    BY <1>1, Working
  <2>2. run' = [run EXCEPT ![a] = q]  BY <1>4
  <2>3. JobsMove  BY <1>4, <2>1, StartedMoves
  <2>4. {} \in Sources  BY DEF Sources
  <2> HIDE DEF r
  <2>5. /\ q \in Attempt /\ q.pc = "load" /\ q.job = r.job /\ q.options = r.options /\ q.at = r.at
    BY <2>1, <2>4 DEF Attempt
  <2> HIDE DEF q
  <2>6. AttemptOK(q, job, plan, art)  BY <2>1, <2>5 DEF AttemptOK
  <2> QED  BY <1>1, <2>2, <2>3, <2>5, <2>6, LeftIs, OwnStep
<1> QED  BY <1>2, <1>3, <1>4 DEF RangeChapter

LEMMA EndChapterSafe == ASSUME ArtInv, NEW a \in Attempts, EndChapter(a) PROVE ArtInv'
<1>1. run[a].pc = "next" /\ UNCHANGED <<text, art, plan, left>>  BY DEF EndChapter, At
<1> QED  BY <1>1, LeftIs, RaiseSafe, AdvanceSafe DEF EndChapter

LEMMA ProviderFailsSafe ==
  ASSUME ArtInv, NEW a \in Attempts, PlanInvalid(a) \/ NoImage(a)
  PROVE  ArtInv'
<1>1. run[a].pc # "idle" /\ Raise(a) /\ UNCHANGED <<text, art, plan>> /\ left' \in Left
  BY FaultSpent DEF PlanInvalid, NoImage, At
<1> QED  BY <1>1, RaiseSafe

LEMMA LoseLeaseSafe == ASSUME ArtInv, NEW a \in Attempts, LoseLease(a) PROVE ArtInv'
<1> DEFINE r == run[a]
           q == [r EXCEPT !.lost = TRUE]
           j == r.job
<1>1. r.pc # "idle" /\ UNCHANGED <<text, art, plan>> /\ left' \in Left
  BY FaultSpent DEF LoseLease, At
<1>2. r \in Attempt /\ j \in Jobs /\ job[j] # NoJob /\ AttemptOK(r, job, plan, art)  BY <1>1, Working
<1>3. JobsMove
  <2>1. \E s \in {"queued", "failed"} : job' = [job EXCEPT ![j].status = s]
    BY DEF LoseLease
  <2> QED  BY <1>2, <2>1, StatusMoves
<1>4. run' = [run EXCEPT ![a] = Off] \/ run' = [run EXCEPT ![a] = q]  BY DEF LoseLease
<1>5. Off \in Attempt \cup {Off} /\ AttemptOK(Off, job, plan, art)  BY DEF AttemptOK, Off
<1> HIDE DEF r
<1>6. /\ q \in Attempt /\ q.pc = r.pc /\ q.job = r.job /\ q.options = r.options /\ q.at = r.at
      /\ q.seen = r.seen /\ q.sheets = r.sheets /\ q.todo = r.todo /\ q.plan = r.plan
      /\ q.ctx = r.ctx /\ q.done = r.done
  BY <1>2 DEF Attempt
<1> HIDE DEF q
<1>7. AttemptOK(q, job, plan, art)
  <2>1. AtCh(q) = AtCh(r) /\ AtHash(q) = AtHash(r)  BY <1>6 DEF AtCh, AtHash
  <2>2. Drawing(r, job, plan, art) => Drawing(q, job, plan, art)
    <3>1. Ready(r) => Ready(q)  BY <1>6, <2>1 DEF Ready
    <3> QED  BY <1>6, <2>1, <3>1 DEF Drawing
  <2> QED  BY <1>2, <1>6, <2>1, <2>2 DEF AttemptOK
<1> QED  BY <1>1, <1>3, <1>4, <1>5, <1>6, <1>7, OwnStep

----------------------------------------------------------------------------
\* Changes under the art.

LEMMA TextSafe ==
  ASSUME ArtInv, NEW c \in Chapters, NEW v \in Versions, text' = [text EXCEPT ![c] = v],
         UNCHANGED <<art, plan, job, run>>, left' \in Left
  PROVE  ArtInv'
<1>1. ArtTypeOK'  BY DEF ArtInv, ArtTypeOK, Left
<1>2. JobsMove /\ art' = art /\ plan' = plan /\ run' = run  BY JobsStay
<1> QED  BY <1>1, <1>2, NothingNew, ArtStep

LEMMA EditSafe == ASSUME ArtInv, NEW c \in Chapters, NEW v \in Versions, Edit(c, v) PROVE ArtInv'
BY ChangeSpent, TextSafe DEF Edit

LEMMA InvalidatedSafe ==
  ASSUME ArtInv, NEW c \in Nat, Invalidated(c), UNCHANGED run, left' \in Left,
         text' \in [Chapters -> Versions]
  PROVE  ArtInv'
<1> DEFINE Hit(j) == job[j] # NoJob /\ Through(j) >= c
           blank == [parent |-> FALSE, of |-> [d \in Chapters |-> NoPlan]]
           PT == [parent : BOOLEAN, of : [Chapters -> Plan \cup {NoPlan}]]
<1>1. ArtTypeOK /\ RowsOK  BY DEF ArtInv
<1>2. /\ job' = [j \in Jobs |-> IF Hit(j) /\ plan[j].parent THEN [job[j] EXCEPT !.dropped = TRUE] ELSE job[j]]
      /\ plan' = [j \in Jobs |-> IF Hit(j) THEN blank ELSE plan[j]]
      /\ art' = [i \in DOMAIN art |-> IF art[i].ch >= c THEN [art[i] EXCEPT !.gone = TRUE] ELSE art[i]]
  BY DEF Invalidated
<1>3. \A j \in Jobs : Hit(j) => job[j] \in Job /\ job[j] # NoJob  BY <1>1 DEF ArtTypeOK
<1>4. \A j \in Jobs : plan[j] \in PT  BY <1>1 DEF ArtTypeOK
<1>5. blank \in PT /\ \A d \in Chapters : blank.of[d] = NoPlan  OBVIOUS
<1>6. ASSUME NEW k \in Job
      PROVE  LET d == [k EXCEPT !.dropped = TRUE]
             IN  d \in Job /\ d.options = k.options /\ d.dropped
  BY DEF Job
<1>7. ASSUME NEW r \in Row
      PROVE  LET g == [r EXCEPT !.gone = TRUE]
             IN  g \in Row /\ Alike(r, g)
  BY DEF Row, Alike
<1> HIDE DEF Hit, blank, PT
<1>8. JobsMove
  <2>1. job \in [Jobs -> Job \cup {NoJob}]  BY <1>1 DEF ArtTypeOK
  <2>2. ASSUME NEW j \in Jobs PROVE job'[j] \in Job \cup {NoJob} /\ Moves(job[j], job'[j])
    <3>1. CASE Hit(j) /\ plan[j].parent
      <4>1. job'[j] = [job[j] EXCEPT !.dropped = TRUE]  BY <1>2, <3>1
      <4>2. job'[j] \in Job /\ job'[j].options = job[j].options /\ job'[j].dropped
        BY <1>3, <1>6, <3>1, <4>1
      <4> QED  BY <1>3, <3>1, <4>2 DEF Moves
    <3>2. CASE ~(Hit(j) /\ plan[j].parent)
      <4>1. job'[j] = job[j]  BY <1>2, <3>2
      <4> QED  BY <2>1, <4>1 DEF Moves
    <3> QED  BY <3>1, <3>2
  <2>3. DOMAIN job' = Jobs /\ job' = [j \in Jobs |-> job'[j]]  BY <1>2
  <2> QED  BY <2>2, <2>3 DEF JobsMove
<1>9. plan' \in [Jobs -> PT]  BY <1>2, <1>4, <1>5
<1>10. art' \in Seq(Row) /\ Len(art') = Len(art) /\ Kept(art, art')
  <2>1. art \in Seq(Row) /\ DOMAIN art = 1..Len(art) /\ Len(art) \in Nat  BY <1>1 DEF ArtTypeOK
  <2>2. \A i \in DOMAIN art : art'[i] \in Row /\ Alike(art[i], art'[i])
    <3> SUFFICES ASSUME NEW i \in DOMAIN art PROVE art'[i] \in Row /\ Alike(art[i], art'[i])  OBVIOUS
    <3>1. art[i] \in Row  BY <1>1, RowIs
    <3>2. art'[i] = art[i] \/ art'[i] = [art[i] EXCEPT !.gone = TRUE]  BY <1>2
    <3> QED  BY <1>7, <3>1, <3>2 DEF Alike
  <2>3. DOMAIN art' = 1..Len(art) /\ art' = [i \in 1..Len(art) |-> art'[i]]  BY <1>2, <2>1
  <2>4. art' \in [1..Len(art) -> Row]  BY <2>1, <2>2, <2>3
  <2>5. art' \in Seq(Row) /\ Len(art') = Len(art)  BY <2>1, <2>4
  <2> QED  BY <2>1, <2>2, <2>3, <2>5 DEF Kept
<1>11. ArtTypeOK'
  BY <1>1, <1>8, <1>9, <1>10 DEF ArtTypeOK, JobsMove, Left, PT
<1>12. ASSUME NEW j \in Jobs, job[j] # NoJob PROVE Follows(job'[j], plan[j], plan'[j])
  <2>1. CASE Hit(j) /\ plan[j].parent
    BY <1>2, <1>3, <1>6, <2>1 DEF Follows
  <2>2. CASE Hit(j) /\ ~plan[j].parent  BY <2>2, NothingNew DEF Follows
  <2>3. CASE ~Hit(j)  BY <1>2, <2>3 DEF Follows
  <2> QED  BY <2>1, <2>2, <2>3
<1>13. ASSUME NEW j \in Jobs, NEW d \in Chapters
       PROVE  /\ plan'[j].of[d] = plan[j].of[d] \/ PlanOK(plan'[j].of[d], d, job'[j], art')
              /\ plan'[j].of[d] # NoPlan => plan'[j].parent
  <2>1. CASE Hit(j)
    <3>1. plan'[j].of[d] = NoPlan  BY <1>2, <1>5, <2>1
    <3> QED  BY <3>1 DEF PlanOK
  <2>2. CASE ~Hit(j)  BY <1>2, <2>2, NothingNew
  <2> QED  BY <2>1, <2>2
<1>14. DOMAIN art' = DOMAIN art /\ run' = run  BY <1>2
<1> QED  BY <1>8, <1>10, <1>11, <1>12, <1>13, <1>14, ArtStep

LEMMA ReplaceChapterSafe ==
  ASSUME ArtInv, NEW c \in Chapters, NEW v \in Versions, ReplaceChapter(c, v)
  PROVE  ArtInv'
<1>1. text' \in [Chapters -> Versions]  BY DEF ReplaceChapter, ArtInv, ArtTypeOK
<1> QED  BY <1>1, ArtBounds, ChangeSpent, InvalidatedSafe DEF ReplaceChapter

LEMMA ResetCodexSafe == ASSUME ArtInv, ResetCodex PROVE ArtInv'
<1>1. text' \in [Chapters -> Versions]  BY DEF ResetCodex, ArtInv, ArtTypeOK
<1> QED  BY <1>1, ChangeSpent, InvalidatedSafe DEF ResetCodex

----------------------------------------------------------------------------
\* The context and the plan.

LEMMA UsableAre ==
  ASSUME ArtInv, NEW c \in Chapters, NEW k \in Keys, NEW i \in LatestSheet(k, c)
  PROVE  /\ i \in DOMAIN art /\ i \in 1..MaxArt /\ art[i].kind = "sheet" /\ art[i].ch <= c
         /\ art[i].slot.of = k
         /\ art[i].seen \subseteq Chapters /\ \A d \in art[i].seen : d <= c
<1>1. ArtTypeOK /\ RowsOK  BY DEF ArtInv
<1>2. i \in DOMAIN art /\ art[i].kind = "sheet" /\ art[i].ch <= c /\ art[i].slot.of = k
  BY DEF LatestSheet, Rows, Reached
<1>3. art[i] \in Row /\ i \in 1..MaxArt  BY <1>1, <1>2, RowIs
<1>4. art[i].seen \subseteq Chapters /\ art[i].ch \in Nat /\ c \in Nat /\ art[i].seen \subseteq Nat
  BY <1>3, ArtBounds DEF Row
<1>5. \A d \in art[i].seen : d <= art[i].ch  BY <1>1, <1>2 DEF RowsOK, RowOK
<1> QED  BY <1>2, <1>3, <1>4, <1>5

LEMMA ContextIs ==
  ASSUME ArtInv, NEW c \in Chapters, NEW n
  PROVE  Context(c, n) \in Sources /\ \A s \in Context(c, n) : s[1] \in Chapters /\ s[1] <= c
<1>1. \A p \in Preceding(c, n) : p \in Chapters /\ p <= c /\ text[p] \in Versions
  BY TextIs, ArtBounds DEF Preceding
<1> QED  BY <1>1 DEF Context, Sources

LEMMA DecideSafe == ASSUME ArtInv, NEW a \in Attempts, NEW n, Decide(a, n) PROVE ArtInv'
<1> DEFINE r == run[a]
           c == Ch(a)
           ctx == Context(c, n)
           usable == {i \in UNION {LatestSheet(k, c) : k \in Keys} : UsableSheet(i, c)}
           f == [k \in {art[i].slot.of : i \in usable} |-> CHOOSE i \in usable : art[i].slot.of = k]
           seen == {c} \cup {s[1] : s \in ctx} \cup SeenBy(usable)
           q == [r EXCEPT !.pc = "plan", !.ctx = ctx, !.sheets = f, !.seen = seen]
<1>1. r.pc = "load" /\ UNCHANGED <<text, art, plan, left>>  BY DEF Decide, At
<1>2. CASE Raise(a)  BY <1>1, <1>2, LeftIs, RaiseSafe
<1>3. CASE run' = [run EXCEPT ![a].pc = "plan", ![a].ctx = ctx, ![a].sheets = f, ![a].seen = seen]
           /\ UNCHANGED job
  <2>1. /\ r \in Attempt /\ AttemptOK(r, job, plan, art) /\ r.pc # "idle"
        /\ c \in Chapters /\ c = AtCh(r)
    BY <1>1, Working
  <2>2. run' = [run EXCEPT ![a] = q]  BY <1>3
  <2>3. ctx \in Sources /\ \A s \in ctx : s[1] \in Chapters /\ s[1] <= c  BY <2>1, ContextIs
  <2>4. ASSUME NEW i \in usable
        PROVE  /\ i \in DOMAIN art /\ i \in 1..MaxArt /\ art[i].kind = "sheet" /\ art[i].ch <= c
               /\ art[i].slot.of \in Keys
               /\ art[i].seen \subseteq Chapters /\ \A d \in art[i].seen : d <= c
    <3>1. PICK k \in Keys : i \in LatestSheet(k, c)  OBVIOUS
    <3> HIDE DEF usable, c
    <3> QED  BY <2>1, <3>1, UsableAre
  <2>5. f \in Sheets /\ Draws(f, c, art)
    <3> HIDE DEF usable, c
    <3>1. \A k \in DOMAIN f : k \in Keys /\ f[k] \in usable  BY <2>4
    <3>2. f \in [DOMAIN f -> 1..MaxArt] /\ DOMAIN f \in SUBSET Keys  BY <2>4, <3>1
    <3> HIDE DEF f
    <3>3. f \in Sheets  BY <3>2 DEF Sheets
    <3> QED  BY <2>4, <3>1, <3>3 DEF Draws
  <2>6. seen \in SUBSET Chapters /\ \A d \in seen : d <= c
    <3>1. c \in Nat  BY <2>1, ArtBounds
    <3> HIDE DEF usable, c, ctx
    <3>2. \A d \in SeenBy(usable) : d \in Chapters /\ d <= c  BY <2>4 DEF SeenBy
    <3> QED  BY <2>1, <2>3, <3>1, <3>2
  <2> HIDE DEF r, c, ctx, usable, f, seen
  <2>7. /\ q \in Attempt /\ q.pc = "plan" /\ q.job = r.job /\ q.options = r.options /\ q.at = r.at
        /\ q.sheets = f /\ q.seen = seen
    BY <2>1, <2>3, <2>5, <2>6 DEF Attempt
  <2> HIDE DEF q
  <2>8. AttemptOK(q, job, plan, art)
    BY <2>1, <2>5, <2>6, <2>7 DEF AttemptOK, AtCh
  <2> QED  BY <1>1, <1>3, <2>2, <2>7, <2>8, JobsStay, LeftIs, OwnStep
<1> QED  BY <1>2, <1>3 DEF Decide

LEMMA ScenesTyped ==
  ASSUME NEW s \in ScenePlans
  PROVE  /\ s \in Seq(SUBSET Keys) /\ Len(s) \in 1..3 /\ UNION ToSet(s) \subseteq Keys
         /\ \A i \in DOMAIN s : s[i] \in SUBSET Keys /\ s[i] \subseteq UNION ToSet(s) /\ i \in 1..3
<1>1. s \in Seq(SUBSET Keys) /\ Len(s) \in 1..3  BY IllustrationsAssumptions
<1>2. \A i \in DOMAIN s : s[i] \in SUBSET Keys /\ i \in 1..3  BY <1>1
<1> QED  BY <1>1, <1>2 DEF ToSet

LEMMA MakePlanSafe ==
  ASSUME ArtInv, NEW a \in Attempts, NEW scenes \in ScenePlans, NEW renames \in SUBSET Keys,
         MakePlan(a, scenes, renames)
  PROVE  ArtInv'
<1> DEFINE r == run[a]
           j == r.job
           c == Ch(a)
           had == DOMAIN r.sheets
           used == UNION ToSet(scenes)
           refs == [k \in had \cap (used \cup renames) |-> r.sheets[k]]
           told == {<<c, Target(a).hash>>} \cup r.ctx
           m == left.plans + 1
           new == [n |-> m, scenes |-> scenes, renames |-> renames, ctx |-> r.ctx,
                   refs |-> refs, told |-> told, seen |-> r.seen]
           q == [r EXCEPT !.pc = "resume"]
<1>1. /\ r.pc = "plan" /\ UNCHANGED <<text, art>> /\ left.plans < MaxPlans
      /\ renames \subseteq had /\ left' = [left EXCEPT !.plans = @ + 1]
  BY DEF MakePlan, At, ValidPlan
<1>2. left' \in Left /\ m \in 1..MaxPlans
  BY <1>1, LeftIs, ArtBounds DEF Left
<1>3. CASE Raise(a) /\ UNCHANGED plan  BY <1>1, <1>2, <1>3, RaiseSafe
<1>4. CASE /\ plan' = [plan EXCEPT ![j].parent = TRUE, ![j].of[c] = Winner(@, new)]
           /\ run' = [run EXCEPT ![a].pc = "resume"] /\ UNCHANGED job
  <2>1. /\ r \in Attempt /\ j \in Jobs /\ AttemptOK(r, job, plan, art) /\ r.pc # "idle"
        /\ c \in Chapters /\ c = AtCh(r) /\ Target(a).hash \in Versions /\ Target(a).hash = AtHash(r)
        /\ job[j] # NoJob /\ r.options = job[j].options /\ r.at \in DOMAIN r.options.chapters
    BY <1>1, Working
  <2>2. ArtTypeOK /\ PlansOK  BY DEF ArtInv
  <2>3. (\A d \in r.seen : d <= c) /\ Draws(r.sheets, c, art)  BY <1>1, <2>1 DEF AttemptOK
  <2>4. /\ r.sheets \in Sheets /\ r.ctx \in Sources /\ r.seen \in SUBSET Chapters  BY <2>1 DEF Attempt
  <2>5. had \in SUBSET Keys /\ r.sheets \in [had -> 1..MaxArt]  BY <2>4 DEF Sheets
  <2>6. refs \in Sheets /\ renames \subseteq DOMAIN refs /\ \A k \in DOMAIN refs : refs[k] \in DOMAIN art
    <3>1. DOMAIN refs \in SUBSET Keys /\ refs \in [DOMAIN refs -> 1..MaxArt]  BY <2>5
    <3>2. \A k \in DOMAIN refs : refs[k] \in DOMAIN art  BY <2>3 DEF Draws
    <3>3. renames \subseteq DOMAIN refs  BY <1>1
    <3> HIDE DEF refs
    <3> QED  BY <3>1, <3>2, <3>3 DEF Sheets
  <2>7. told \in Sources  BY <2>1, <2>4 DEF Sources
  <2>8. /\ new \in Plan /\ new # NoPlan /\ new.ctx = r.ctx /\ new.seen = r.seen /\ new.told = told
        /\ new.refs = refs /\ new.renames = renames
    <3> HIDE DEF m, refs, told, r
    <3>1. new \in Plan  BY <1>2, <2>4, <2>6, <2>7 DEF Plan
    <3>2. m # 0  BY <1>2, ArtBounds
    <3> QED  BY <3>1, <3>2 DEF NoPlan
  <2> HIDE DEF new
  <2>9. PlanOK(new, c, job[j], art)
    <3>1. \A s \in told : s \in r.ctx \/ s = <<c, AtHash(r)>>  BY <2>1
    <3> HIDE DEF told, refs
    <3> QED  BY <2>1, <2>3, <2>6, <2>8, <3>1 DEF PlanOK, AtCh, AtHash
  <2> HIDE DEF had, used, refs, told, m
  <2> DEFINE PT == [parent : BOOLEAN, of : [Chapters -> Plan \cup {NoPlan}]]
             w == Winner(plan[j].of[c], new)
             z == [plan[j] EXCEPT !.parent = TRUE, !.of[c] = w]
  <2>10. plan[j] \in PT /\ plan[j].of[c] \in Plan \cup {NoPlan} /\ plan \in [Jobs -> PT]
    BY <2>1, <2>2 DEF ArtTypeOK
  <2>11. w \in {plan[j].of[c], new} /\ (plan[j].of[c] # NoPlan => w = plan[j].of[c])
    <3>1. \A p \in Plan : p.n # 0  BY ArtBounds DEF Plan
    <3> QED  BY <2>10, <3>1 DEF Winner, NoPlan
  <2>12. plan' = [plan EXCEPT ![j] = z]  BY <1>4
  <2> HIDE DEF w
  <2>13. /\ z \in PT /\ z.parent /\ z.of[c] = w /\ \A d \in Chapters : d # c => z.of[d] = plan[j].of[d]
    <3> DEFINE y == plan[j]
    <3>1. w \in Plan \cup {NoPlan} /\ y \in PT /\ z = [y EXCEPT !.parent = TRUE, !.of[c] = w]
      BY <2>8, <2>10, <2>11
    <3> HIDE DEF y, z
    <3>2. /\ z \in PT /\ z.parent /\ z.of[c] = w /\ \A d \in Chapters : d # c => z.of[d] = y.of[d]
      BY <2>1, <3>1
    <3> QED  BY <3>2 DEF y
  <2> HIDE DEF z, PT
  <2>14. /\ plan' \in [Jobs -> PT] /\ plan'[j] = z /\ \A o \in Jobs : o # j => plan'[o] = plan[o]
    BY <2>1, <2>10, <2>12, <2>13
  <2>15. /\ q \in Attempt /\ q.pc = "resume" /\ q.job = r.job /\ q.options = r.options /\ q.at = r.at
    <3> HIDE DEF r
    <3> QED  BY <2>1 DEF Attempt
  <2>16. run' = [run EXCEPT ![a] = q]  BY <1>4
  <2> HIDE DEF q
  <2>17. AttemptOK(q, job, plan', art)  BY <2>1, <2>15 DEF AttemptOK
  <2>18. run'[a] = q /\ (\A o \in Attempts : o # a => run'[o] = run[o])
         /\ run' \in [Attempts -> Attempt \cup {Off}]
    BY <2>2, <2>15, <2>16 DEF ArtTypeOK
  <2>19. ArtTypeOK'  BY <1>1, <1>2, <1>4, <2>2, <2>14, <2>18 DEF ArtTypeOK, Left, PT
  <2>20. \A i \in Jobs : Follows(job'[i], plan[i], plan'[i])
    BY <2>11, <2>13, <2>14 DEF Follows
  <2>21. ASSUME NEW i \in Jobs, NEW d \in Chapters
         PROVE  /\ plan'[i].of[d] = plan[i].of[d] \/ PlanOK(plan'[i].of[d], d, job'[i], art')
                /\ plan'[i].of[d] # NoPlan => plan'[i].parent
    <3>1. CASE i = j
      <4>1. art' = art /\ job' = job  BY <1>1, <1>4
      <4>2. PlanOK(new, c, job'[j], art')  BY <2>9, <4>1
      <4> HIDE DEF c, j
      <4>3. plan'[i].parent  BY <2>13, <2>14, <3>1
      <4>4. d # c => plan'[i].of[d] = plan[i].of[d]  BY <2>13, <2>14, <3>1
      <4>5. d = c => plan'[i].of[d] \in {plan[i].of[d], new}  BY <2>11, <2>13, <2>14, <3>1
      <4> QED  BY <3>1, <4>2, <4>3, <4>4, <4>5
    <3>2. CASE i # j  BY <2>14, <3>2, NothingNew
    <3> QED  BY <3>1, <3>2
  <2>22. JobsMove /\ art' = art /\ job' = job  BY <1>1, <1>4, JobsStay
  <2> QED  BY <2>17, <2>18, <2>19, <2>20, <2>21, <2>22, NothingNew, ArtStep
<1> QED  BY <1>3, <1>4 DEF MakePlan

----------------------------------------------------------------------------
\* Drawing.

\* A finite set is put in some order.
LEMMA InOrder ==
  ASSUME NEW S, IsFiniteSet(S)
  PROVE  SetToSeq(S) \in Seq(S) /\ \A x \in S : \E i \in DOMAIN SetToSeq(S) : SetToSeq(S)[i] = x
<1> DEFINE n == Cardinality(S)
           D == 1..n
           f == SetToSeq(S)
<1>1. n \in Nat /\ ExistsBijection(D, S)  BY FS_CardinalityType
<1>2. \E g \in [D -> S] : IsInjective(g)
  <2>1. PICK g \in Bijection(D, S) : TRUE  BY <1>1 DEF ExistsBijection
  <2>2. g \in [D -> S] /\ \A x, y \in D : g[x] = g[y] => x = y
    BY <2>1 DEF Bijection, Injection, IsInjective
  <2> HIDE DEF D
  <2> QED  BY <2>2 DEF IsInjective
<1>3. f \in [D -> S] /\ IsInjective(f)  BY <1>2 DEF SetToSeq
<1> HIDE DEF f
<1>4. f \in Injection(D, S)  BY <1>3 DEF Injection, IsInjective
<1>5. Cardinality(D) = Cardinality(S)
  <2>1. Cardinality(1..n) = IF 1 > n THEN 0 ELSE n - 1 + 1  BY <1>1, FS_Interval
  <2> QED  BY <1>1, <2>1
<1>6. f \in Surjection(D, S)
  <2> HIDE DEF D
  <2> QED  BY <1>4, <1>5, FS_Injection
<1>7. f \in Seq(S)  BY <1>1, <1>3
<1>8. \A x \in S : \E i \in DOMAIN f : f[i] = x  BY <1>3, <1>6 DEF Surjection
<1> QED  BY <1>7, <1>8 DEF f

LEMMA KeysFinite == ASSUME NEW S \in SUBSET Keys PROVE IsFiniteSet(S)
BY IllustrationsAssumptions, FS_Subset

LEMMA SlotsFinite ==
  ASSUME NEW S \in SUBSET Keys, NEW kind, NEW c
  PROVE  IsFiniteSet({Slot(kind, c, k) : k \in S})
<1> DEFINE T == {Slot(kind, c, k) : k \in S}
           f == [k \in S |-> Slot(kind, c, k)]
<1>1. f \in [S -> T] /\ \A t \in T : \E k \in S : f[k] = t  OBVIOUS
<1> HIDE DEF f, T
<1>2. f \in Surjection(S, T)  BY <1>1 DEF Surjection
<1> QED  BY <1>2, KeysFinite, FS_Surjection DEF T

LEMMA ThreeParts ==
  ASSUME NEW S, NEW s1 \in Seq(S), NEW s2 \in Seq(S), NEW s3 \in Seq(S)
  PROVE  /\ s1 \o s2 \o s3 \in Seq(S)
         /\ \A x \in DOMAIN (s1 \o s2 \o s3) :
              \/ x \in DOMAIN s1 /\ (s1 \o s2 \o s3)[x] = s1[x]
              \/ x - Len(s1) \in DOMAIN s2 /\ (s1 \o s2 \o s3)[x] = s2[x - Len(s1)]
              \/ /\ x > Len(s1) + Len(s2) /\ x - (Len(s1) + Len(s2)) \in DOMAIN s3
                 /\ (s1 \o s2 \o s3)[x] = s3[x - (Len(s1) + Len(s2))]
         /\ \A y \in DOMAIN s2 : /\ Len(s1) + y \in DOMAIN (s1 \o s2 \o s3)
                                 /\ Len(s1) + y <= Len(s1) + Len(s2)
                                 /\ (s1 \o s2 \o s3)[Len(s1) + y] = s2[y]
<1> DEFINE u == s1 \o s2
           t == u \o s3
<1>1. /\ u \in Seq(S) /\ Len(u) = Len(s1) + Len(s2)
      /\ \A x \in 1..Len(s1) : u[x] = s1[x]
      /\ \A x \in 1..Len(u) : x > Len(s1) => u[x] = s2[x - Len(s1)]
  OBVIOUS
<1> HIDE DEF u
<1>2. /\ t \in Seq(S) /\ Len(t) = Len(u) + Len(s3)
      /\ \A x \in 1..Len(u) : t[x] = u[x]
      /\ \A x \in 1..Len(t) : x > Len(u) => t[x] = s3[x - Len(u)]
  BY <1>1
<1> HIDE DEF t
<1>3. /\ DOMAIN t = 1..Len(t) /\ DOMAIN s1 = 1..Len(s1) /\ DOMAIN s2 = 1..Len(s2) /\ DOMAIN s3 = 1..Len(s3)
      /\ Len(s1) \in Nat /\ Len(s2) \in Nat /\ Len(s3) \in Nat /\ Len(t) \in Nat /\ Len(u) \in Nat
  BY <1>1, <1>2
<1>4. ASSUME NEW x \in 1..Len(t)
      PROVE  \/ x \in 1..Len(s1) /\ t[x] = s1[x]
             \/ x - Len(s1) \in 1..Len(s2) /\ t[x] = s2[x - Len(s1)]
             \/ /\ x > Len(s1) + Len(s2) /\ x - (Len(s1) + Len(s2)) \in 1..Len(s3)
                /\ t[x] = s3[x - (Len(s1) + Len(s2))]
  <2>1. CASE x <= Len(s1)
    <3>1. x \in 1..Len(s1) /\ x \in 1..Len(u)  BY <1>1, <1>3, <2>1
    <3> QED  BY <1>1, <1>2, <3>1
  <2>2. CASE x > Len(s1) /\ x <= Len(u)
    <3>1. x \in 1..Len(u) /\ x - Len(s1) \in 1..Len(s2)  BY <1>1, <1>3, <2>2
    <3> QED  BY <1>1, <1>2, <2>2, <3>1
  <2>3. CASE x > Len(u)
    <3>1. x - Len(u) \in 1..Len(s3) /\ x > Len(s1) + Len(s2)  BY <1>1, <1>2, <1>3, <2>3
    <3>2. t[x] = s3[x - Len(u)]  BY <1>2, <2>3
    <3> QED  BY <1>1, <3>1, <3>2
  <2> QED  BY <1>3, <2>1, <2>2, <2>3
<1>5. ASSUME NEW y \in 1..Len(s2)
      PROVE  Len(s1) + y \in 1..Len(t) /\ Len(s1) + y <= Len(s1) + Len(s2) /\ t[Len(s1) + y] = s2[y]
  <2>1. Len(s1) + y \in 1..Len(u) /\ Len(s1) + y > Len(s1) /\ (Len(s1) + y) - Len(s1) = y
        /\ Len(s1) + y \in 1..Len(t) /\ Len(s1) + y <= Len(s1) + Len(s2)
    BY <1>1, <1>2, <1>3
  <2> QED  BY <1>1, <1>2, <2>1
<1> QED  BY <1>2, <1>3, <1>4, <1>5 DEF t, u

\* What a plan has to be drawn, in the order in which it is drawn.
Todo(p, c) == SetToSeq({Slot("name", c, k) : k \in p.renames})
                \o SetToSeq({Slot("sheet", c, k) : k \in (UNION ToSet(p.scenes)) \ DOMAIN p.refs})
                \o [i \in DOMAIN p.scenes |-> Slot("scene", c, i)]

\* A list of slots of chapter c that plan p can draw in that order.
IsTodo(t, p, c) ==
  /\ t \in Seq(Slots)
  /\ \A x \in DOMAIN t :
       /\ t[x].ch = c
       /\ t[x].kind = "name" => t[x].of \in DOMAIN p.refs
       /\ t[x].kind = "scene" =>
            /\ t[x].of \in DOMAIN p.scenes
            /\ \A k \in p.scenes[t[x].of] :
                 \/ k \in DOMAIN p.refs
                 \/ \E y \in DOMAIN t : y < x /\ t[y].kind = "sheet" /\ t[y].of = k

LEMMA TodoIs ==
  ASSUME NEW p \in Plan, NEW c \in Chapters, p.renames \subseteq DOMAIN p.refs
  PROVE  IsTodo(Todo(p, c), p, c)
<1> DEFINE used == UNION ToSet(p.scenes)
           R == p.renames
           B == used \ DOMAIN p.refs
           A1 == {Slot("name", c, k) : k \in R}
           A2 == {Slot("sheet", c, k) : k \in B}
           s1 == SetToSeq(A1)
           s2 == SetToSeq(A2)
           s3 == [i \in DOMAIN p.scenes |-> Slot("scene", c, i)]
           t == s1 \o s2 \o s3
<1>1. /\ p.scenes \in Seq(SUBSET Keys) /\ Len(p.scenes) \in 1..3 /\ used \subseteq Keys
      /\ \A i \in DOMAIN p.scenes : p.scenes[i] \subseteq used /\ i \in 1..3
  BY ScenesTyped DEF Plan
<1>2. R \in SUBSET Keys /\ B \in SUBSET Keys  BY <1>1 DEF Plan
<1>3. IsFiniteSet(A1) /\ IsFiniteSet(A2)
  <2> HIDE DEF R, B
  <2> QED  BY <1>2, SlotsFinite
<1>4. /\ s1 \in Seq(A1) /\ s2 \in Seq(A2) /\ \A x \in A2 : \E y \in DOMAIN s2 : s2[y] = x
  <2> HIDE DEF A1, A2
  <2> QED  BY <1>3, InOrder
<1>5. A1 \subseteq Slots /\ A2 \subseteq Slots  BY <1>2 DEF Slot, Slots
<1>6. s3 \in Seq(Slots) /\ DOMAIN s3 = DOMAIN p.scenes
  <2>1. \A i \in DOMAIN p.scenes : Slot("scene", c, i) \in Slots  BY <1>1 DEF Slot, Slots
  <2>2. DOMAIN p.scenes = 1..Len(p.scenes) /\ Len(p.scenes) \in Nat  BY <1>1
  <2> QED  BY <2>1, <2>2
<1>7. \A i \in DOMAIN s3 : s3[i] = Slot("scene", c, i)  OBVIOUS
<1> HIDE DEF s1, s2, s3
<1>8. s1 \in Seq(Slots) /\ s2 \in Seq(Slots)
  <2> HIDE DEF A1, A2
  <2> QED  BY <1>4, <1>5
<1>9. t \in Seq(Slots)  BY <1>6, <1>8, ThreeParts
<1>10. ASSUME NEW x \in DOMAIN t
       PROVE  \/ t[x] \in A1
              \/ t[x] \in A2
              \/ /\ x > Len(s1) + Len(s2) /\ x - (Len(s1) + Len(s2)) \in DOMAIN s3
                 /\ t[x] = s3[x - (Len(s1) + Len(s2))]
  <2> HIDE DEF A1, A2
  <2>1. \/ x \in DOMAIN s1 /\ t[x] = s1[x]
        \/ x - Len(s1) \in DOMAIN s2 /\ t[x] = s2[x - Len(s1)]
        \/ /\ x > Len(s1) + Len(s2) /\ x - (Len(s1) + Len(s2)) \in DOMAIN s3
           /\ t[x] = s3[x - (Len(s1) + Len(s2))]
    BY <1>6, <1>8, ThreeParts
  <2>2. (\A y \in DOMAIN s1 : s1[y] \in A1) /\ (\A y \in DOMAIN s2 : s2[y] \in A2)  BY <1>4
  <2> QED  BY <2>1, <2>2
<1>11. ASSUME NEW k \in B PROVE \E y \in DOMAIN t : /\ y <= Len(s1) + Len(s2)
                                                    /\ t[y].kind = "sheet" /\ t[y].of = k
  <2>1. Slot("sheet", c, k) \in A2  OBVIOUS
  <2>2. PICK y \in DOMAIN s2 : s2[y] = Slot("sheet", c, k)  BY <1>4, <2>1
  <2>3. /\ Len(s1) + y \in DOMAIN t /\ Len(s1) + y <= Len(s1) + Len(s2)
        /\ t[Len(s1) + y] = s2[y]
    BY <1>6, <1>8, ThreeParts
  <2>4. s2[y].kind = "sheet" /\ s2[y].of = k  BY <2>2 DEF Slot
  <2> QED  BY <2>3, <2>4
<1>12. t = Todo(p, c)  BY DEF Todo, s1, s2, s3
<1>13. ASSUME NEW x \in DOMAIN t
       PROVE  /\ t[x].ch = c
              /\ t[x].kind = "name" => t[x].of \in DOMAIN p.refs
              /\ t[x].kind = "scene" =>
                   /\ t[x].of \in DOMAIN p.scenes
                   /\ \A k \in p.scenes[t[x].of] :
                        \/ k \in DOMAIN p.refs
                        \/ \E y \in DOMAIN t : y < x /\ t[y].kind = "sheet" /\ t[y].of = k
  <2>1. CASE t[x] \in A1
    <3>1. PICK k \in R : t[x] = Slot("name", c, k)  BY <2>1
    <3> QED  BY <3>1 DEF Slot
  <2>2. CASE t[x] \in A2
    <3>1. PICK k \in B : t[x] = Slot("sheet", c, k)  BY <2>2
    <3> QED  BY <3>1 DEF Slot
  <2>3. CASE /\ x > Len(s1) + Len(s2) /\ x - (Len(s1) + Len(s2)) \in DOMAIN s3
             /\ t[x] = s3[x - (Len(s1) + Len(s2))]
    <3> DEFINE i == x - (Len(s1) + Len(s2))
    <3>1. t[x] = Slot("scene", c, i) /\ i \in DOMAIN p.scenes  BY <1>6, <1>7, <2>3
    <3> HIDE DEF i
    <3>2. t[x].ch = c /\ t[x].kind = "scene" /\ t[x].of = i  BY <3>1 DEF Slot
    <3>3. ASSUME NEW k \in p.scenes[i], k \notin DOMAIN p.refs
          PROVE  \E y \in DOMAIN t : y < x /\ t[y].kind = "sheet" /\ t[y].of = k
      <4>1. k \in B  BY <1>1, <3>1, <3>3
      <4>2. PICK y \in DOMAIN t : y <= Len(s1) + Len(s2) /\ t[y].kind = "sheet" /\ t[y].of = k
        BY <1>11, <4>1
      <4>3. y \in Nat /\ x \in Nat /\ Len(s1) \in Nat /\ Len(s2) \in Nat  BY <1>8, <1>9
      <4>4. y < x  BY <2>3, <4>2, <4>3
      <4> QED  BY <4>2, <4>4
    <3> QED  BY <3>1, <3>2, <3>3
  <2> QED  BY <1>10, <2>1, <2>2, <2>3
<1> HIDE DEF t
<1> QED  BY <1>9, <1>12, <1>13 DEF IsTodo

LEMMA ResumeSafe == ASSUME ArtInv, NEW a \in Attempts, Resume(a) PROVE ArtInv'
<1> DEFINE r == run[a]
           j == r.job
           c == Ch(a)
           p == MyPlan(a)
           todo == Todo(p, c)
           done == {i \in Rows : art[i].job = j /\ art[i].ch = c}
           q == [r EXCEPT !.pc = "next", !.ctx = p.ctx, !.planned = TRUE, !.plan = p,
                          !.sheets = p.refs, !.todo = todo, !.done = done]
<1>1. r.pc # "idle" /\ UNCHANGED <<text, art, plan, left>>  BY DEF Resume, At
<1>2. CASE Raise(a)  BY <1>1, <1>2, LeftIs, RaiseSafe
<1>3. CASE /\ p.n # 0 /\ \A k \in DOMAIN p.refs : UsableSheet(p.refs[k], c)
           /\ run' = [run EXCEPT ![a].pc = "next", ![a].ctx = p.ctx, ![a].planned = TRUE,
                                 ![a].plan = p, ![a].sheets = p.refs, ![a].todo = todo,
                                 ![a].done = done]
           /\ UNCHANGED job
  <2>1. /\ r \in Attempt /\ j \in Jobs /\ AttemptOK(r, job, plan, art)
        /\ c \in Chapters /\ c = AtCh(r) /\ p = plan[j].of[c]
        /\ job[j] # NoJob /\ r.options = job[j].options /\ r.at \in DOMAIN r.options.chapters
    BY <1>1, Working DEF MyPlan
  <2>2. ArtTypeOK /\ PlansOK /\ JobsOK  BY DEF ArtInv
  <2>3. p # NoPlan  BY <1>3 DEF NoPlan
  <2>4. p \in Plan /\ PlanOK(p, c, job[j], art)
    <3>1. plan[j].of[c] \in Plan \cup {NoPlan}  BY <2>1, <2>2 DEF ArtTypeOK
    <3> QED  BY <2>1, <2>2, <2>3, <3>1 DEF PlansOK
  <2>5. /\ p.ctx \in Sources /\ p.refs \in Sheets  BY <2>4 DEF Plan
  <2>6. /\ p.renames \subseteq DOMAIN p.refs /\ \A d \in p.seen : d <= c
        /\ \A k \in DOMAIN p.refs : p.refs[k] \in DOMAIN art
        /\ \A s \in p.told : s \in p.ctx \/ s = <<c, AtHash(r)>>
    <3> DEFINE s == r.options.chapters
    <3>1. PICK x \in DOMAIN s : s[x].ch = c /\ \A e \in p.told : e \in p.ctx \/ e = <<c, s[x].hash>>
      BY <2>1, <2>3, <2>4 DEF PlanOK
    <3>2. \A y, z \in DOMAIN s : s[y].ch = s[z].ch => y = z
      BY <2>1, <2>2 DEF JobsOK, JobOK
    <3>3. s[r.at].ch = c /\ AtHash(r) = s[r.at].hash  BY <2>1 DEF AtCh, AtHash
    <3>4. x = r.at  BY <2>1, <3>1, <3>2, <3>3
    <3> HIDE DEF s, p, c
    <3>5. \A e \in p.told : e \in p.ctx \/ e = <<c, AtHash(r)>>  BY <3>1, <3>3, <3>4
    <3> QED  BY <2>3, <2>4, <3>5 DEF PlanOK
  <2>7. Draws(p.refs, c, art)
    BY <1>3, <2>6 DEF Draws, UsableSheet, UsableCopy, Reached
  <2>8. done \in SUBSET Nat /\ \A i \in done : i \in DOMAIN art /\ art[i].job = j /\ art[i].ch = c
    BY <2>2 DEF Rows, ArtTypeOK
  <2>9. run' = [run EXCEPT ![a] = q]  BY <1>3
  <2> HIDE DEF p, c, r, done
  <2>10. IsTodo(todo, p, c)  BY <2>1, <2>4, <2>6, TodoIs
  <2> HIDE DEF todo
  <2>11. /\ q \in Attempt /\ q.pc = "next" /\ q.job = r.job /\ q.options = r.options /\ q.at = r.at
         /\ q.ctx = p.ctx /\ q.plan = p /\ q.sheets = p.refs /\ q.todo = todo /\ q.done = done
    BY <2>1, <2>4, <2>5, <2>8, <2>10 DEF Attempt, IsTodo
  <2> HIDE DEF q
  <2>12. AtCh(q) = c /\ AtHash(q) = AtHash(r)  BY <2>1, <2>11 DEF AtCh, AtHash
  <2>13. Ready(q)  BY <2>10, <2>11, <2>12 DEF Ready, IsTodo
  <2>14. Drawing(q, job, plan, art)
    BY <2>1, <2>3, <2>6, <2>7, <2>8, <2>11, <2>12, <2>13 DEF Drawing
  <2>15. AttemptOK(q, job, plan, art)  BY <2>1, <2>11, <2>14 DEF AttemptOK
  <2> QED  BY <1>1, <1>3, <2>9, <2>11, <2>15, JobsStay, LeftIs, OwnStep
<1>4. Raise(a) \/ (/\ p.n # 0 /\ \A k \in DOMAIN p.refs : UsableSheet(p.refs[k], c)
                   /\ run' = [run EXCEPT ![a].pc = "next", ![a].ctx = p.ctx, ![a].planned = TRUE,
                                 ![a].plan = p, ![a].sheets = p.refs, ![a].todo = todo,
                                 ![a].done = done]
                   /\ UNCHANGED job)
  <2>1. Todo(p, c) = SetToSeq({Slot("name", c, k) : k \in p.renames})
                       \o SetToSeq({Slot("sheet", c, k) : k \in (UNION ToSet(p.scenes)) \ DOMAIN p.refs})
                       \o [i \in DOMAIN p.scenes |-> Slot("scene", c, i)]
    BY DEF Todo
  <2> HIDE DEF p, c
  <2> QED  BY <2>1 DEF Resume, p, c
<1> QED  BY <1>2, <1>3, <1>4

\* The sheets an attempt draws with once a slot is filled by row id.
Given(r, slot, id) ==
  IF slot.kind = "scene" THEN r.sheets
  ELSE [k \in DOMAIN r.sheets \cup {slot.of} |-> IF k = slot.of THEN id ELSE r.sheets[k]]

\* What is known of the slot that comes next.
LEMMA HeadSlot ==
  ASSUME NEW r \in Attempt, r.todo # <<>>, Ready(r)
  PROVE  LET s == Head(r.todo)
         IN  /\ s \in Slots /\ s.ch = AtCh(r)
             /\ s.kind # "scene" => s.of \in Keys
             /\ s.kind = "name" => s.of \in DOMAIN r.sheets
             /\ s.kind = "scene" => /\ s.of \in DOMAIN r.plan.scenes
                                    /\ \A k \in r.plan.scenes[s.of] : k \in DOMAIN r.sheets
<1> DEFINE t == r.todo
<1>1. t \in Seq(Slots) /\ t # <<>>  BY DEF Attempt
<1>2. Ready(r) /\ r.todo = t  OBVIOUS
<1> HIDE DEF t
<1>3. 1 \in DOMAIN t /\ Head(t) = t[1] /\ t[1] \in Slots /\ \A y \in DOMAIN t : ~(y < 1)
  <2>1. Len(t) \in Nat /\ Len(t) > 0 /\ DOMAIN t = 1..Len(t)  BY <1>1
  <2>2. 1 \in DOMAIN t /\ \A y \in DOMAIN t : ~(y < 1)  BY <2>1
  <2> QED  BY <1>1, <2>1, <2>2
<1>4. t[1].kind # "scene" => t[1].of \in Keys  BY <1>3 DEF Slots
<1> QED  BY <1>2, <1>3, <1>4 DEF Ready

LEMMA GivenIs ==
  ASSUME NEW r \in Attempt, NEW slot, NEW id \in 1..MaxArt, slot.kind # "scene" => slot.of \in Keys
  PROVE  /\ Given(r, slot, id) \in Sheets
         /\ DOMAIN r.sheets \subseteq DOMAIN Given(r, slot, id)
         /\ slot.kind # "scene" => slot.of \in DOMAIN Given(r, slot, id)
         /\ \A k \in DOMAIN Given(r, slot, id) :
              \/ k \in DOMAIN r.sheets /\ Given(r, slot, id)[k] = r.sheets[k]
              \/ slot.kind # "scene" /\ Given(r, slot, id)[k] = id
<1> DEFINE f == r.sheets
           g == Given(r, slot, id)
<1>1. f \in Sheets  BY DEF Attempt
<1>2. DOMAIN f \in SUBSET Keys /\ f \in [DOMAIN f -> 1..MaxArt]  BY <1>1 DEF Sheets
<1>3. CASE slot.kind = "scene"
  <2>1. g = f  BY <1>3 DEF Given
  <2> QED  BY <1>1, <1>3, <2>1
<1>4. CASE slot.kind # "scene"
  <2>1. g = [k \in DOMAIN f \cup {slot.of} |-> IF k = slot.of THEN id ELSE f[k]]  BY <1>4 DEF Given
  <2> HIDE DEF f
  <2>2. DOMAIN g \in SUBSET Keys /\ DOMAIN g = DOMAIN f \cup {slot.of} /\ g \in [DOMAIN g -> 1..MaxArt]
    BY <1>2, <1>4, <2>1
  <2>3. \A k \in DOMAIN g : (k \in DOMAIN f /\ g[k] = f[k]) \/ g[k] = id  BY <2>1
  <2> HIDE DEF g
  <2>4. g \in Sheets  BY <2>2 DEF Sheets
  <2> QED  BY <1>4, <2>2, <2>3, <2>4 DEF f, g
<1> QED  BY <1>3, <1>4

\* An attempt goes on to the next slot once row id is in this one.
LEMMA Progress ==
  ASSUME NEW r \in Attempt, NEW q, NEW jb, NEW pl, NEW t, NEW id \in 1..MaxArt,
         r.todo # <<>>, Drawing(r, jb, pl, t),
         Head(r.todo).kind # "scene" => id \in DOMAIN t /\ t[id].kind = "sheet" /\ t[id].ch <= AtCh(r),
         q.todo = Tail(r.todo), q.sheets = Given(r, Head(r.todo), id),
         q.job = r.job, q.options = r.options, q.at = r.at, q.ctx = r.ctx, q.plan = r.plan, q.done = r.done
  PROVE  Drawing(q, jb, pl, t)
<1> DEFINE slot == Head(r.todo)
<1>1. Ready(r) /\ Draws(r.sheets, AtCh(r), t)  BY DEF Drawing
<1>2. /\ slot.ch = AtCh(r) /\ (slot.kind # "scene" => slot.of \in Keys)  BY <1>1, HeadSlot
<1>3. AtCh(q) = AtCh(r) /\ AtHash(q) = AtHash(r)  BY DEF AtCh, AtHash
<1> DEFINE g == q.sheets
<1>4. /\ DOMAIN r.sheets \subseteq DOMAIN g
      /\ slot.kind # "scene" => slot.of \in DOMAIN g
      /\ \A k \in DOMAIN g : \/ k \in DOMAIN r.sheets /\ g[k] = r.sheets[k]
                             \/ slot.kind # "scene" /\ g[k] = id
  <2> HIDE DEF slot
  <2>1. g = Given(r, slot, id)  BY DEF slot
  <2> HIDE DEF g
  <2> QED  BY <1>2, <2>1, GivenIs
<1>5. Draws(q.sheets, AtCh(q), t)  BY <1>1, <1>3, <1>4 DEF Draws
<1>6. Ready(q)
  <2> DEFINE s == r.todo
             u == Tail(s)
  <2>1. s \in Seq(Slots) /\ s # <<>>  BY DEF Attempt
  <2>2. /\ \A x \in DOMAIN u : x + 1 \in DOMAIN s /\ u[x] = s[x + 1] /\ x \in Nat
        /\ \A y \in DOMAIN s : y = 1 \/ (y - 1 \in DOMAIN u /\ u[y - 1] = s[y])
        /\ \A y \in DOMAIN s : y \in Nat
        /\ Head(s) = s[1]
    <3> HIDE DEF s
    <3>1. Len(s) \in Nat /\ Len(s) > 0 /\ DOMAIN s = 1..Len(s) /\ Head(s) = s[1]  BY <2>1
    <3>2. u \in Seq(Slots) /\ Len(u) = Len(s) - 1 /\ \A x \in 1..(Len(s) - 1) : u[x] = s[x + 1]  BY <2>1
    <3>3. DOMAIN u = 1..(Len(s) - 1)  BY <3>1, <3>2
    <3> HIDE DEF u
    <3>4. ASSUME NEW y \in DOMAIN s, y # 1 PROVE y - 1 \in DOMAIN u /\ u[y - 1] = s[y]
      <4>1. y - 1 \in 1..(Len(s) - 1) /\ (y - 1) + 1 = y  BY <3>1, <3>4
      <4> QED  BY <3>2, <3>3, <4>1
    <3>5. ASSUME NEW x \in DOMAIN u PROVE x + 1 \in DOMAIN s /\ u[x] = s[x + 1] /\ x \in Nat
      BY <3>1, <3>2, <3>3
    <3> QED  BY <3>1, <3>4, <3>5
  <2>3. Ready(r) /\ r.todo = s /\ q.todo = u /\ slot = s[1] /\ q.plan = r.plan  BY <1>1, <2>2
  <2> HIDE DEF s, u, slot, g
  <2>4. ASSUME NEW x \in DOMAIN u
        PROVE  /\ u[x].ch = AtCh(q)
               /\ u[x].kind = "name" => u[x].of \in DOMAIN g
               /\ u[x].kind = "scene" =>
                    /\ u[x].of \in DOMAIN q.plan.scenes
                    /\ \A k \in q.plan.scenes[u[x].of] :
                         \/ k \in DOMAIN g
                         \/ \E y \in DOMAIN u : y < x /\ u[y].kind = "sheet" /\ u[y].of = k
    <3> DEFINE z == x + 1
    <3>1. z \in DOMAIN s /\ u[x] = s[z] /\ x \in Nat  BY <2>2
    <3> HIDE DEF z
    <3>2. /\ s[z].ch = AtCh(r)
          /\ s[z].kind = "name" => s[z].of \in DOMAIN r.sheets
          /\ s[z].kind = "scene" =>
               /\ s[z].of \in DOMAIN r.plan.scenes
               /\ \A k \in r.plan.scenes[s[z].of] :
                    \/ k \in DOMAIN r.sheets
                    \/ \E y \in DOMAIN s : y < z /\ s[y].kind = "sheet" /\ s[y].of = k
      BY <2>3, <3>1 DEF Ready
    <3>3. ASSUME NEW k, NEW y \in DOMAIN s, y < z, s[y].kind = "sheet", s[y].of = k
          PROVE  k \in DOMAIN g \/ \E w \in DOMAIN u : w < x /\ u[w].kind = "sheet" /\ u[w].of = k
      <4>1. CASE y = 1  BY <1>4, <2>3, <3>3, <4>1
      <4>2. CASE y # 1
        <5>1. y - 1 \in DOMAIN u /\ u[y - 1] = s[y] /\ y \in Nat  BY <2>2, <4>2
        <5>2. y - 1 < x  BY <3>1, <3>3, <5>1 DEF z
        <5> QED  BY <3>3, <5>1, <5>2
      <4> QED  BY <4>1, <4>2
    <3>4. ASSUME s[z].kind = "scene", NEW k \in r.plan.scenes[s[z].of]
          PROVE  k \in DOMAIN g \/ \E w \in DOMAIN u : w < x /\ u[w].kind = "sheet" /\ u[w].of = k
      BY <1>4, <3>2, <3>3, <3>4
    <3> QED  BY <1>3, <1>4, <2>3, <3>1, <3>2, <3>4
  <2> QED  BY <2>3, <2>4 DEF Ready, g
<1> QED  BY <1>3, <1>5, <1>6 DEF Drawing

\* The row that NewRow makes.
Filled(a, slot, kind, src, refs, told, seen) ==
  [job |-> run[a].job, ch |-> Ch(a), kind |-> kind, slot |-> slot, hash |-> Target(a).hash,
   src |-> src, refs |-> refs, count |-> IF kind = "scene" THEN Len(run[a].plan.scenes) ELSE 0,
   plan |-> run[a].plan.n, gone |-> FALSE, told |-> run[a].plan.told \cup told,
   seen |-> run[a].plan.seen \cup seen]

LEMMA FilledIs ==
  ASSUME ArtInv, NEW a \in Attempts, run[a].pc # "idle", Drawing(run[a], job, plan, art),
         NEW slot \in Slots, slot.ch = Ch(a), NEW kind \in {"sheet", "scene"},
         kind = "scene" <=> slot.kind = "scene",
         NEW src \in Sources, run[a].ctx \subseteq src, NEW refs \in Seq(1..MaxArt),
         \A x \in DOMAIN refs : refs[x] \in DOMAIN art /\ art[refs[x]].kind = "sheet",
         NEW told \in Sources,
         \A s \in told : \/ s \in src
                         \/ \E x \in DOMAIN refs : kind = "scene" /\ s \in art[refs[x]].told,
         NEW seen \in SUBSET Chapters, \A d \in seen : d <= Ch(a)
  PROVE  LET row == Filled(a, slot, kind, src, refs, told, seen)
         IN  row \in Row /\ RowOK(row, job, art) /\ RowPlanned(row, job, plan)
<1> DEFINE r == run[a]
           p == r.plan
           c == Ch(a)
           h == Target(a).hash
           n == IF kind = "scene" THEN Len(p.scenes) ELSE 0
           told2 == p.told \cup told
           seen2 == p.seen \cup seen
           j == r.job
           m == p.n
           row == [job |-> j, ch |-> c, kind |-> kind, slot |-> slot, hash |-> h, src |-> src,
                   refs |-> refs, count |-> n, plan |-> m, gone |-> FALSE, told |-> told2, seen |-> seen2]
<1>1. /\ r \in Attempt /\ j \in Jobs /\ job[j] # NoJob /\ c \in Chapters /\ c = AtCh(r)
      /\ h \in Versions /\ h = AtHash(r)
  BY Working
<1>2. p \in Plan
  <2>1. p \in Plan \cup {NoPlan} /\ p # NoPlan  BY <1>1 DEF Attempt, Drawing
  <2> QED  BY <2>1
<1>3. /\ p.told \in Sources /\ p.seen \in SUBSET Chapters /\ m \in 1..MaxPlans /\ n \in 0..3
  <2>1. Len(p.scenes) \in 1..3  BY <1>2, ScenesTyped DEF Plan
  <2> QED  BY <1>2, <2>1 DEF Plan
<1>4. told2 \in Sources /\ seen2 \in SUBSET Chapters  BY <1>3 DEF Sources
<1>5. /\ \A s \in p.told : s \in r.ctx \/ s = <<c, h>>
      /\ \A d \in p.seen : d <= c
      /\ job[j].dropped \/ plan[j].of[c] = p
  BY <1>1 DEF Drawing
<1>6. \A s \in told2 : \/ s \in src \/ s = <<c, h>>
                       \/ \E x \in DOMAIN refs : kind = "scene" /\ s \in art[refs[x]].told
  BY <1>5
<1>7. \A d \in seen2 : d <= c  BY <1>5
<1>8. plan[j].of[c] = p => plan[j].of[c].n = m  OBVIOUS
<1>9. row = Filled(a, slot, kind, src, refs, told, seen)  BY DEF Filled
<1>10. slot.ch = c  OBVIOUS
<1> HIDE DEF r, p, c, h, n, told2, seen2, j, m
<1>11. row \in Row  BY <1>1, <1>3, <1>4 DEF Row
<1>12. RowOK(row, job, art)  BY <1>1, <1>6, <1>7, <1>10 DEF RowOK
<1>13. RowPlanned(row, job, plan)  BY <1>5, <1>8 DEF RowPlanned
<1> QED  BY <1>9, <1>11, <1>12, <1>13

\* The sheets of a scene that is ready.
LEMMA SheetsForAre ==
  ASSUME ArtInv, NEW a \in Attempts, run[a].pc # "idle", Drawing(run[a], job, plan, art),
         NEW i \in DOMAIN run[a].plan.scenes,
         \A k \in run[a].plan.scenes[i] : k \in DOMAIN run[a].sheets
  PROVE  /\ SheetsFor(a, i) \in Seq(1..MaxArt)
         /\ \A x \in DOMAIN SheetsFor(a, i) :
              LET s == SheetsFor(a, i)[x]
              IN  s \in DOMAIN art /\ art[s].kind = "sheet" /\ art[s].ch <= Ch(a)
<1> DEFINE r == run[a]
           S == r.plan.scenes[i]
           ks == SetToSeq(S)
           f == r.sheets
           g == [x \in DOMAIN ks |-> f[ks[x]]]
<1>1. r \in Attempt /\ Ch(a) = AtCh(r)  BY Working
<1>2. r.plan \in Plan
  <2>1. r.plan \in Plan \cup {NoPlan} /\ r.plan # NoPlan  BY <1>1 DEF Attempt, Drawing
  <2> QED  BY <2>1
<1>3. S \in SUBSET Keys  BY <1>2, ScenesTyped DEF Plan
<1>4. ks \in Seq(S)
  <2> HIDE DEF S
  <2> QED  BY <1>3, KeysFinite, InOrder
<1>5. \A k \in S : k \in DOMAIN f /\ f[k] \in DOMAIN art /\ art[f[k]].kind = "sheet" /\ art[f[k]].ch <= Ch(a)
  BY <1>1 DEF Drawing, Draws
<1>6. \A x \in DOMAIN ks : ks[x] \in S
  <2> HIDE DEF ks, S
  <2> QED  BY <1>4
<1>7. \A s \in DOMAIN art : s \in 1..MaxArt  BY RowIs DEF ArtInv
<1>8. DOMAIN ks = 1..Len(ks) /\ Len(ks) \in Nat
  <2> HIDE DEF ks, S
  <2> QED  BY <1>4
<1>9. SheetsFor(a, i) = g  BY DEF SheetsFor
<1> HIDE DEF ks, S, f
<1>10. \A x \in DOMAIN g : g[x] \in DOMAIN art /\ art[g[x]].kind = "sheet" /\ art[g[x]].ch <= Ch(a)
  BY <1>5, <1>6
<1>11. g \in Seq(1..MaxArt)
  <2> DEFINE n == Len(ks)
             T == 1..MaxArt
  <2>1. n \in Nat /\ g \in [1..n -> T]  BY <1>5, <1>6, <1>7, <1>8
  <2> HIDE DEF g, n, T
  <2>2. g \in Seq(T)  BY <2>1
  <2> QED  BY <2>2 DEF T
<1> QED  BY <1>9, <1>10, <1>11

LEMMA RowSound ==
  ASSUME ArtInv, NEW i \in DOMAIN art
  PROVE  /\ art[i] \in Row /\ RowOK(art[i], job, art) /\ i \in 1..MaxArt
         /\ art[i].told \in Sources /\ art[i].src \in Sources /\ art[i].seen \in SUBSET Chapters
         /\ <<art[i].ch, art[i].hash>> \in Chapters \X Versions
         /\ art[i].ch \in Nat /\ \A d \in art[i].seen : d \in Nat /\ d <= art[i].ch
<1>1. ArtTypeOK /\ RowsOK  BY DEF ArtInv
<1>2. art[i] \in Row /\ i \in 1..MaxArt  BY <1>1, RowIs
<1>3. RowOK(art[i], job, art)  BY <1>1 DEF RowsOK
<1>4. /\ art[i].told \in Sources /\ art[i].src \in Sources /\ art[i].seen \in SUBSET Chapters
      /\ art[i].ch \in Chapters /\ art[i].hash \in Versions
  BY <1>2 DEF Row
<1> QED  BY <1>2, <1>3, <1>4, ArtBounds DEF RowOK

LEMMA NewRowIs ==
  ASSUME ArtInv, NEW a \in Attempts, run[a].pc # "idle", run[a].todo # <<>>,
         Drawing(run[a], job, plan, art)
  PROVE  LET row == NewRow(a, Head(run[a].todo))
         IN  /\ row \in Row /\ RowOK(row, job, art) /\ RowPlanned(row, job, plan)
             /\ row.ch = Ch(a) /\ (Head(run[a].todo).kind # "scene" => row.kind = "sheet")
<1> DEFINE r == run[a]
           slot == Head(r.todo)
           prior == r.sheets[slot.of]
           row == NewRow(a, slot)
           none == <<>>
<1>1. /\ r \in Attempt /\ Ch(a) = AtCh(r) /\ Ch(a) \in Chapters  BY Working
<1>2. Ready(r) /\ Draws(r.sheets, AtCh(r), art)  BY DEF Drawing
<1>3. /\ slot \in Slots /\ slot.ch = Ch(a)
      /\ slot.kind = "name" => slot.of \in DOMAIN r.sheets
      /\ slot.kind = "scene" => /\ slot.of \in DOMAIN r.plan.scenes
                                /\ \A k \in r.plan.scenes[slot.of] : k \in DOMAIN r.sheets
  BY <1>1, <1>2, HeadSlot
<1>4. slot.kind \in {"name", "sheet", "scene"}  BY <1>3 DEF Slots
<1>5. r.ctx \in Sources /\ none \in Seq(1..MaxArt) /\ DOMAIN none = {} /\ {} \in Sources
      /\ {} \in SUBSET Chapters
  BY <1>1 DEF Attempt, Sources
<1>6. row = CASE slot.kind = "name" ->
                   Filled(a, slot, "sheet", RenameSources(a, prior), none, art[prior].told, art[prior].seen)
              [] slot.kind = "sheet" -> Filled(a, slot, "sheet", r.ctx, none, {}, {})
              [] slot.kind = "scene" ->
                   LET refs == SheetsFor(a, slot.of)
                   IN  Filled(a, slot, "scene", r.ctx, refs, UNION {art[s].told : s \in ToSet(refs)},
                              SeenBy(ToSet(refs)))
  BY DEF NewRow, Filled
<1> HIDE DEF row, none
<1>7. ASSUME NEW kind, NEW src, NEW refs, NEW told, NEW seen,
             row = Filled(a, slot, kind, src, refs, told, seen)
      PROVE  row.ch = Ch(a) /\ row.kind = kind
  BY <1>7 DEF Filled
<1>8. CASE slot.kind = "name"
  <2> DEFINE src == RenameSources(a, prior)
             told == art[prior].told
             seen == art[prior].seen
  <2>1. row = Filled(a, slot, "sheet", src, none, told, seen)  BY <1>6, <1>8
  <2>2. prior \in DOMAIN art /\ art[prior].kind = "sheet" /\ art[prior].ch <= Ch(a)
    BY <1>1, <1>2, <1>3, <1>8 DEF Draws
  <2> HIDE DEF prior
  <2>3. /\ RowOK(art[prior], job, art) /\ told \in Sources /\ art[prior].src \in Sources
        /\ seen \in SUBSET Chapters /\ <<art[prior].ch, art[prior].hash>> \in Chapters \X Versions
        /\ art[prior].ch \in Nat /\ \A d \in seen : d \in Nat /\ d <= art[prior].ch
    BY <2>2, RowSound
  <2>4. src \in Sources /\ r.ctx \subseteq src  BY <1>5, <2>3 DEF RenameSources, Sources
  <2>5. \A s \in told : s \in src  BY <2>2, <2>3 DEF RowOK, RenameSources
  <2>6. \A d \in seen : d <= Ch(a)
    <3>1. Ch(a) \in Nat  BY <1>1, ArtBounds
    <3> QED  BY <2>2, <2>3, <3>1
  <2> HIDE DEF src, told, seen, slot
  <2>7. row \in Row /\ RowOK(row, job, art) /\ RowPlanned(row, job, plan)
    BY <1>3, <1>5, <1>8, <2>1, <2>3, <2>4, <2>5, <2>6, FilledIs
  <2> QED  BY <1>7, <1>8, <2>1, <2>7 DEF row, slot
<1>9. CASE slot.kind = "sheet"
  <2>1. row = Filled(a, slot, "sheet", r.ctx, none, {}, {})  BY <1>6, <1>9
  <2> HIDE DEF slot
  <2>2. row \in Row /\ RowOK(row, job, art) /\ RowPlanned(row, job, plan)
    BY <1>3, <1>5, <1>9, <2>1, FilledIs
  <2> QED  BY <1>7, <1>9, <2>1, <2>2 DEF row, slot
<1>10. CASE slot.kind = "scene"
  <2> DEFINE refs == SheetsFor(a, slot.of)
             told == UNION {art[s].told : s \in ToSet(refs)}
             seen == SeenBy(ToSet(refs))
  <2>1. row = Filled(a, slot, "scene", r.ctx, refs, told, seen)  BY <1>6, <1>10
  <2>2. /\ refs \in Seq(1..MaxArt)
        /\ \A x \in DOMAIN refs : /\ refs[x] \in DOMAIN art /\ art[refs[x]].kind = "sheet"
                                  /\ art[refs[x]].ch <= Ch(a)
    <3> HIDE DEF slot
    <3> QED  BY <1>3, <1>10, SheetsForAre
  <2> HIDE DEF refs
  <2>3. \A x \in DOMAIN refs : /\ art[refs[x]].told \in Sources
                               /\ \A d \in art[refs[x]].seen : d \in Chapters /\ d <= Ch(a)
    <3> SUFFICES ASSUME NEW x \in DOMAIN refs
                 PROVE  /\ art[refs[x]].told \in Sources
                        /\ \A d \in art[refs[x]].seen : d \in Chapters /\ d <= Ch(a)
      OBVIOUS
    <3> DEFINE s == refs[x]
    <3>1. s \in DOMAIN art /\ art[s].ch <= Ch(a)  BY <2>2
    <3>2. Ch(a) \in Nat  BY <1>1, ArtBounds
    <3> HIDE DEF s
    <3>3. /\ art[s].told \in Sources /\ art[s].seen \in SUBSET Chapters
          /\ art[s].ch \in Nat /\ \A d \in art[s].seen : d \in Nat /\ d <= art[s].ch
      BY <3>1, RowSound
    <3>4. \A d \in art[s].seen : d \in Chapters /\ d <= Ch(a)  BY <3>1, <3>2, <3>3
    <3> QED  BY <3>3, <3>4 DEF s
  <2>4. told \in Sources  BY <2>3 DEF ToSet, Sources
  <2>5. \A e \in told : \E x \in DOMAIN refs : e \in art[refs[x]].told  BY DEF ToSet
  <2>6. seen \in SUBSET Chapters /\ \A d \in seen : d <= Ch(a)  BY <2>3 DEF SeenBy, ToSet
  <2> HIDE DEF slot, told, seen
  <2>7. row \in Row /\ RowOK(row, job, art) /\ RowPlanned(row, job, plan)
    BY <1>3, <1>5, <1>10, <2>1, <2>2, <2>4, <2>5, <2>6, FilledIs
  <2> QED  BY <1>7, <1>10, <2>1, <2>7 DEF row, slot
<1> QED  BY <1>4, <1>8, <1>9, <1>10

\* An attempt after a slot.
Onto(r, slot, id) == [r EXCEPT !.pc = "next", !.todo = Tail(r.todo), !.sheets = Given(r, slot, id)]

LEMMA NextIs ==
  ASSUME NEW r \in Attempt, r.todo # <<>>, NEW id \in 1..MaxArt, NEW slot,
         slot.kind # "scene" => slot.of \in Keys
  PROVE  LET q == Onto(r, slot, id)
         IN  /\ q \in Attempt /\ q.pc = "next" /\ q.todo = Tail(r.todo) /\ q.sheets = Given(r, slot, id)
             /\ q.job = r.job /\ q.options = r.options /\ q.at = r.at /\ q.ctx = r.ctx
             /\ q.plan = r.plan /\ q.done = r.done
<1> DEFINE u == Tail(r.todo)
           g == Given(r, slot, id)
           q == Onto(r, slot, id)
<1>1. u \in Seq(Slots)
  <2> DEFINE s == r.todo
  <2>1. s \in Seq(Slots) /\ s # <<>>  BY DEF Attempt
  <2> HIDE DEF s
  <2>2. Tail(s) \in Seq(Slots)  BY <2>1
  <2> QED  BY <2>2 DEF s
<1>2. g \in Sheets  BY GivenIs
<1>3. q = [r EXCEPT !.pc = "next", !.todo = u, !.sheets = g]  BY DEF Onto
<1> HIDE DEF u, g, q
<1>4. /\ q \in Attempt /\ q.pc = "next" /\ q.todo = u /\ q.sheets = g
      /\ q.job = r.job /\ q.options = r.options /\ q.at = r.at /\ q.ctx = r.ctx
      /\ q.plan = r.plan /\ q.done = r.done
  BY <1>1, <1>2, <1>3 DEF Attempt
<1> QED  BY <1>4 DEF u, g, q

LEMMA OntoIs ==
  ASSUME NEW r \in Attempt, r.pc = "next", NEW slot, NEW id
  PROVE  Onto(r, slot, id) = [r EXCEPT !.todo = Tail(r.todo), !.sheets = Given(r, slot, id)]
BY DEF Onto, Attempt

\* What an attempt that draws knows.
LEMMA AtWork ==
  ASSUME ArtInv, NEW a \in Attempts, run[a].pc \in {"next", "paint"}, run[a].todo # <<>>
  PROVE  /\ run[a].pc # "idle" /\ Drawing(run[a], job, plan, art) /\ Head(run[a].todo).ch = Ch(a)
         /\ Head(run[a].todo).kind # "scene" => Head(run[a].todo).of \in Keys
<1>1. run[a].pc # "idle"  OBVIOUS
<1>2. run[a] \in Attempt /\ Ch(a) = AtCh(run[a]) /\ AttemptOK(run[a], job, plan, art)  BY <1>1, Working
<1>3. Drawing(run[a], job, plan, art)  BY <1>1, <1>2 DEF AttemptOK
<1>4. Ready(run[a])  BY <1>3 DEF Drawing
<1> QED  BY <1>1, <1>2, <1>3, <1>4, HeadSlot

\* A slot is filled by a row that is there.
LEMMA TakenSafe ==
  ASSUME ArtInv, NEW a \in Attempts, run[a].pc \in {"next", "paint"}, run[a].todo # <<>>,
         NEW id \in DOMAIN art, art[id].slot = Head(run[a].todo),
         run' = [run EXCEPT ![a] = Onto(run[a], Head(run[a].todo), id)], UNCHANGED <<text, art, plan, job, left>>
  PROVE  ArtInv'
<1> DEFINE r == run[a]
           slot == Head(r.todo)
           q == Onto(r, slot, id)
<1>1. /\ r.pc # "idle" /\ Drawing(r, job, plan, art) /\ slot.ch = Ch(a)
      /\ slot.kind # "scene" => slot.of \in Keys
  BY AtWork
<1>2. r \in Attempt /\ Ch(a) = AtCh(r) /\ Ch(a) \in Nat /\ AttemptOK(r, job, plan, art)
  BY <1>1, Working, ArtBounds
<1>3. art[id] \in Row /\ RowOK(art[id], job, art) /\ id \in 1..MaxArt  BY RowSound
<1>4. slot.kind # "scene" => art[id].kind = "sheet" /\ art[id].ch <= AtCh(r)
  BY <1>1, <1>2, <1>3 DEF RowOK, Row
<1>9. r.todo # <<>> /\ slot = Head(r.todo) /\ run' = [run EXCEPT ![a] = q]  OBVIOUS
<1> HIDE DEF r, slot
<1>5. /\ q \in Attempt /\ q.pc = "next" /\ q.todo = Tail(r.todo) /\ q.sheets = Given(r, slot, id)
      /\ q.job = r.job /\ q.options = r.options /\ q.at = r.at /\ q.ctx = r.ctx /\ q.plan = r.plan
      /\ q.done = r.done
  BY <1>1, <1>2, <1>3, <1>9, NextIs
<1> HIDE DEF q
<1>6. Drawing(q, job, plan, art)
  BY <1>1, <1>2, <1>3, <1>4, <1>5, <1>9, Progress
<1>7. AttemptOK(q, job, plan, art)  BY <1>1, <1>2, <1>5, <1>6 DEF AttemptOK
<1> QED  BY <1>5, <1>7, <1>9, JobsStay, LeftIs, OwnStep

\* A slot is filled by a new row.
LEMMA AddedSafe ==
  ASSUME ArtInv, NEW a \in Attempts, run[a].pc \in {"next", "paint"}, run[a].todo # <<>>,
         Len(art) < MaxArt, art' = Append(art, NewRow(a, Head(run[a].todo))),
         run' = [run EXCEPT ![a] = Onto(run[a], Head(run[a].todo), Len(art) + 1)], UNCHANGED <<text, plan, job, left>>
  PROVE  ArtInv'
<1> DEFINE r == run[a]
           slot == Head(r.todo)
           n == Len(art) + 1
           row == NewRow(a, slot)
           q == Onto(r, slot, n)
<1>1. /\ r.pc # "idle" /\ Drawing(r, job, plan, art) /\ slot.ch = Ch(a)
      /\ slot.kind # "scene" => slot.of \in Keys
  BY AtWork
<1>2. r \in Attempt /\ Ch(a) = AtCh(r) /\ Ch(a) \in Nat /\ AttemptOK(r, job, plan, art)
  BY <1>1, Working, ArtBounds
<1>3. /\ row \in Row /\ RowOK(row, job, art) /\ RowPlanned(row, job, plan)
      /\ row.ch = Ch(a) /\ (slot.kind # "scene" => row.kind = "sheet")
  BY <1>1, NewRowIs
<1>4. ArtTypeOK /\ art \in Seq(Row) /\ run \in [Attempts -> Attempt \cup {Off}]  BY DEF ArtInv, ArtTypeOK
<1>5. /\ art' = Append(art, row) /\ run' = [run EXCEPT ![a] = q]
      /\ r.todo # <<>> /\ slot = Head(r.todo)
  OBVIOUS
<1> HIDE DEF row, q
<1>6. n \in 1..MaxArt
  <2>1. Len(art) \in Nat /\ MaxArt \in Nat  BY <1>4, ArtBounds
  <2> QED  BY <2>1
<1>7. /\ art' \in Seq(Row) /\ Len(art') = n /\ Len(art') <= MaxArt
      /\ n \in DOMAIN art' /\ art'[n] = row
      /\ \A i \in DOMAIN art : i \in DOMAIN art' /\ art'[i] = art[i]
      /\ \A i \in DOMAIN art' : i = n \/ i \in DOMAIN art
  BY <1>3, <1>4, <1>5, <1>6
<1> HIDE DEF n
<1>8. Kept(art, art')  BY <1>7 DEF Kept, Alike
<1>9. JobsMove /\ job' = job /\ plan' = plan  BY JobsStay
<1>10. Onward(job, plan, art, job, plan, art')  BY <1>8, <1>9, NothingNew DEF Onward, Same
<1>11. RowOK(art'[n], job', art') /\ RowPlanned(art'[n], job', plan')
  <2>1. Alike(row, row) /\ row.job \in Jobs  BY <1>3 DEF Alike, Row
  <2> QED  BY <1>3, <1>7, <1>9, <1>10, <2>1, RowKept
<1>12. Drawing(r, job, plan, art')
  <2>1. AttemptOK(r, job, plan, art')  BY <1>2, <1>10, AttemptKept
  <2> QED  BY <1>1, <2>1 DEF AttemptOK
<1> HIDE DEF r, slot
<1>13. /\ q \in Attempt /\ q.pc = "next" /\ q.todo = Tail(r.todo) /\ q.sheets = Given(r, slot, n)
       /\ q.job = r.job /\ q.options = r.options /\ q.at = r.at /\ q.ctx = r.ctx /\ q.plan = r.plan
       /\ q.done = r.done
  BY <1>1, <1>2, <1>5, <1>6, NextIs DEF q
<1>14. Drawing(q, job, plan, art')
  <2>1. slot.kind # "scene" => n \in DOMAIN art' /\ art'[n].kind = "sheet" /\ art'[n].ch <= AtCh(r)
    BY <1>2, <1>3, <1>7
  <2> QED  BY <1>2, <1>6, <1>12, <1>5, <1>13, <2>1, Progress
<1>15. AttemptOK(q, job', plan', art')  BY <1>1, <1>2, <1>9, <1>13, <1>14 DEF AttemptOK
<1>16. run' \in [Attempts -> Attempt \cup {Off}] /\ \A o \in Attempts : run'[o] = run[o] \/ run'[o] = q
  BY <1>4, <1>5, <1>13
<1>17. ArtTypeOK'  BY <1>4, <1>7, <1>9, <1>16 DEF ArtTypeOK
<1> QED  BY <1>7, <1>8, <1>9, <1>11, <1>15, <1>16, <1>17, NothingNew, ArtStep

LEMMA SaveSafe ==
  ASSUME ArtInv, NEW a \in Attempts, run[a].pc \in {"next", "paint"}, run[a].todo # <<>>,
         Len(art) < MaxArt, Save(a, Head(run[a].todo)), UNCHANGED <<text, plan, left>>
  PROVE  ArtInv'
<1> DEFINE r == run[a]
           slot == Head(r.todo)
           taken == RowOf(r.job, slot)
           id == IF taken = {} THEN Len(art) + 1 ELSE CHOOSE i \in taken : TRUE
<1>1. \/ Raise(a) /\ UNCHANGED art
      \/ /\ art' = IF taken = {} THEN Append(art, NewRow(a, slot)) ELSE art
         /\ run' = [run EXCEPT ![a].pc = "next", ![a].todo = Tail(@),
                               ![a].sheets = IF slot.kind = "scene" THEN @
                                             ELSE [k \in DOMAIN @ \cup {slot.of} |->
                                                     IF k = slot.of THEN id ELSE @[k]]]
         /\ UNCHANGED job
  BY DEF Save
<1> HIDE DEF taken
<1>2. CASE Raise(a) /\ UNCHANGED art  BY <1>2, LeftIs, RaiseSafe
<1>3. ASSUME run' = [run EXCEPT ![a].pc = "next", ![a].todo = Tail(@),
                       ![a].sheets = IF slot.kind = "scene" THEN @
                                     ELSE [k \in DOMAIN @ \cup {slot.of} |->
                                             IF k = slot.of THEN id ELSE @[k]]]
      PROVE  run' = [run EXCEPT ![a] = Onto(r, slot, id)]
  <2> HIDE DEF id, slot
  <2> QED  BY <1>3 DEF Onto, Given
<1>4. CASE taken = {} /\ art' = Append(art, NewRow(a, slot))
           /\ run' = [run EXCEPT ![a] = Onto(r, slot, id)] /\ UNCHANGED job
  <2>1. id = Len(art) + 1  BY <1>4
  <2> HIDE DEF id
  <2> QED  BY <1>4, <2>1, AddedSafe
<1>5. CASE taken # {} /\ UNCHANGED art
           /\ run' = [run EXCEPT ![a] = Onto(r, slot, id)] /\ UNCHANGED job
  <2>1. id \in taken  BY <1>5
  <2> HIDE DEF id
  <2>2. id \in DOMAIN art /\ art[id].slot = slot  BY <2>1 DEF taken, RowOf, Rows
  <2> QED  BY <1>5, <2>2, TakenSafe
<1> QED
  <2> HIDE DEF id, slot, r
  <2> QED  BY <1>1, <1>2, <1>3, <1>4, <1>5

LEMMA NextSlotSafe == ASSUME ArtInv, NEW a \in Attempts, NextSlot(a) PROVE ArtInv'
<1> DEFINE r == run[a]
           slot == Head(r.todo)
           row == Finished(a, slot)
           id == CHOOSE i \in row : TRUE
<1>1. /\ r.pc = "next" /\ r.todo # <<>> /\ UNCHANGED <<text, plan, left>>
      /\ \/ Raise(a) /\ UNCHANGED art
         \/ /\ row # {} /\ UNCHANGED <<job, art>>
            /\ run' = [run EXCEPT ![a].todo = Tail(@),
                                  ![a].sheets = IF slot.kind = "scene" THEN @
                                                ELSE [k \in DOMAIN @ \cup {slot.of} |->
                                                        IF k = slot.of THEN id ELSE @[k]]]
         \/ Len(art) < MaxArt /\ Save(a, slot)
         \/ run' = [run EXCEPT ![a].pc = "paint"] /\ UNCHANGED <<job, art>>
  BY DEF NextSlot, At
<1>2. r.pc \in {"next", "paint"} /\ r.pc # "idle"  BY <1>1
<1>3. r \in Attempt /\ AttemptOK(r, job, plan, art)  BY <1>2, Working
<1>4. Drawing(r, job, plan, art)  BY <1>1, <1>2, AtWork
<1>5. CASE Raise(a) /\ UNCHANGED art  BY <1>1, <1>2, <1>5, LeftIs, RaiseSafe
<1>6. CASE /\ row # {} /\ UNCHANGED <<job, art>>
           /\ run' = [run EXCEPT ![a].todo = Tail(@),
                                 ![a].sheets = IF slot.kind = "scene" THEN @
                                               ELSE [k \in DOMAIN @ \cup {slot.of} |->
                                                       IF k = slot.of THEN id ELSE @[k]]]
  <2>1. id \in row  BY <1>6
  <2>2. run' = [run EXCEPT ![a] = [r EXCEPT !.todo = Tail(r.todo), !.sheets = Given(r, slot, id)]]
    <3> HIDE DEF id, slot, row
    <3> QED  BY <1>6 DEF Given
  <2> HIDE DEF id
  <2>3. id \in DOMAIN art /\ art[id].slot = slot  BY <1>4, <2>1 DEF Finished, Drawing
  <2>4. run' = [run EXCEPT ![a] = Onto(r, slot, id)]
    <3> HIDE DEF slot, r, row
    <3>1. r \in Attempt /\ r.pc = "next"  BY <1>1, <1>3
    <3>2. Onto(r, slot, id) = [r EXCEPT !.todo = Tail(r.todo), !.sheets = Given(r, slot, id)]
      BY <3>1, OntoIs
    <3> QED  BY <2>2, <3>2
  <2> QED  BY <1>1, <1>2, <1>6, <2>3, <2>4, TakenSafe
<1>7. CASE Len(art) < MaxArt /\ Save(a, slot)  BY <1>1, <1>2, <1>7, SaveSafe
<1>8. CASE run' = [run EXCEPT ![a].pc = "paint"] /\ UNCHANGED <<job, art>>
  <2> DEFINE q == [r EXCEPT !.pc = "paint"]
  <2>1. run' = [run EXCEPT ![a] = q]  BY <1>8
  <2> HIDE DEF slot, row, id
  <2>2. /\ q \in Attempt /\ q.pc = "paint" /\ q.todo = r.todo /\ q.sheets = r.sheets
        /\ q.job = r.job /\ q.options = r.options /\ q.at = r.at /\ q.ctx = r.ctx
        /\ q.plan = r.plan /\ q.done = r.done
    <3> HIDE DEF r
    <3> QED  BY <1>3 DEF Attempt
  <2> HIDE DEF q, r
  <2>3. AtCh(q) = AtCh(r) /\ AtHash(q) = AtHash(r)  BY <2>2 DEF AtCh, AtHash
  <2>4. Drawing(q, job, plan, art)  BY <1>4, <2>2, <2>3 DEF Drawing, Ready
  <2>5. AttemptOK(q, job, plan, art)  BY <1>1, <1>2, <1>3, <2>2, <2>4 DEF AttemptOK
  <2> QED  BY <1>1, <1>8, <2>1, <2>2, <2>5, JobsStay, LeftIs, OwnStep
<1> QED
  <2> HIDE DEF slot, r, row, id
  <2> QED  BY <1>1, <1>5, <1>6, <1>7, <1>8

LEMMA PaintSafe == ASSUME ArtInv, NEW a \in Attempts, Paint(a) PROVE ArtInv'
<1>1. run[a].pc = "paint" /\ run[a].pc # "idle" /\ run[a].pc \in {"next", "paint"}  BY DEF Paint, At
<1>2. run[a].todo # <<>>
  <2>1. AttemptOK(run[a], job, plan, art)  BY <1>1, Working
  <2> QED  BY <1>1, <2>1 DEF AttemptOK
<1>3. /\ Len(art) < MaxArt /\ UNCHANGED <<text, plan, left>>
      /\ Save(a, Head(run[a].todo)) \/ (Raise(a) /\ UNCHANGED art)
  BY DEF Paint
<1>4. CASE Save(a, Head(run[a].todo))  BY <1>1, <1>2, <1>3, <1>4, SaveSafe
<1>5. CASE Raise(a) /\ UNCHANGED art  BY <1>1, <1>3, <1>5, LeftIs, RaiseSafe
<1> QED  BY <1>3, <1>4, <1>5

LEMMA ArtInitSafe == ArtInit => ArtInv
<1> SUFFICES ASSUME ArtInit PROVE ArtInv  OBVIOUS
<1>1. ArtTypeOK
  <2>1. text \in [Chapters -> Versions]  BY IllustrationsAssumptions DEF ArtInit
  <2>2. art \in Seq(Row) /\ Len(art) <= MaxArt  BY ArtBounds DEF ArtInit
  <2>3. plan \in [Jobs -> [parent : BOOLEAN, of : [Chapters -> Plan \cup {NoPlan}]]]
    <3> DEFINE p == NoPlan
    <3>1. p \in Plan \cup {NoPlan}  OBVIOUS
    <3> HIDE DEF p
    <3>2. plan = [j \in Jobs |-> [parent |-> FALSE, of |-> [c \in Chapters |-> p]]]  BY DEF ArtInit, p
    <3> QED  BY <3>1, <3>2
  <2>4. job \in [Jobs -> Job \cup {NoJob}] /\ run \in [Attempts -> Attempt \cup {Off}]  BY DEF ArtInit
  <2>5. left \in Left  BY ArtBounds DEF ArtInit, Left
  <2> QED  BY <2>1, <2>2, <2>3, <2>4, <2>5 DEF ArtTypeOK, Left
<1>2. RowsOK  BY DEF ArtInit, RowsOK
<1>3. JobsOK  BY DEF ArtInit, JobsOK
<1>4. PlansOK  BY DEF ArtInit, PlansOK, PlanOK
<1>5. AttemptsOK  BY DEF ArtInit, AttemptsOK, AttemptOK, Off
<1> QED  BY <1>1, <1>2, <1>3, <1>4, <1>5 DEF ArtInv

LEMMA ArtInvStays == ArtInv /\ [ArtNext]_artVars => ArtInv'
<1> SUFFICES ASSUME ArtInv, [ArtNext]_artVars PROVE ArtInv'  OBVIOUS
<1>1. ASSUME NEW r \in ArtRequests, IF r.ch = 0 THEN GenerateRange(r.force) ELSE Generate(r.ch, r.count, r.force)
      PROVE  ArtInv'
  <2>1. r.ch \in 0..N /\ r.count \in 0..3 /\ r.force \in BOOLEAN  BY IllustrationsAssumptions
  <2>2. CASE r.ch = 0  BY <1>1, <2>1, <2>2, GenerateRangeSafe
  <2>3. CASE r.ch # 0
    <3>1. r.ch \in Chapters  BY <2>1, <2>3, ArtBounds DEF Chapters
    <3> QED  BY <1>1, <2>1, <2>3, <3>1, GenerateSafe
  <2> QED  BY <2>2, <2>3
<1>2. ASSUME NEW j \in Jobs, Cancel(j) PROVE ArtInv'  BY <1>2, CancelSafe
<1>3. ASSUME NEW j \in Jobs, NEW a \in Attempts, Start(a, j) PROVE ArtInv'  BY <1>3, StartSafe
<1>4. ASSUME NEW a \in Attempts, VerifyRange(a) PROVE ArtInv'  BY <1>4, VerifyRangeSafe
<1>5. ASSUME NEW a \in Attempts, RangeChapter(a) PROVE ArtInv'  BY <1>5, RangeChapterSafe
<1>6. ASSUME NEW a \in Attempts, NEW n \in 0..MaxContext, Decide(a, n) PROVE ArtInv'  BY <1>6, DecideSafe
<1>7. ASSUME NEW a \in Attempts, NEW s \in ScenePlans, NEW k \in SUBSET Keys, MakePlan(a, s, k) PROVE ArtInv'
  BY <1>7, MakePlanSafe
<1>8. ASSUME NEW a \in Attempts, Resume(a) PROVE ArtInv'  BY <1>8, ResumeSafe
<1>9. ASSUME NEW a \in Attempts, NextSlot(a) PROVE ArtInv'  BY <1>9, NextSlotSafe
<1>10. ASSUME NEW a \in Attempts, Paint(a) PROVE ArtInv'  BY <1>10, PaintSafe
<1>11. ASSUME NEW a \in Attempts, EndChapter(a) PROVE ArtInv'  BY <1>11, EndChapterSafe
<1>12. ASSUME NEW a \in Attempts, PlanInvalid(a) \/ NoImage(a) PROVE ArtInv'  BY <1>12, ProviderFailsSafe
<1>13. ASSUME NEW a \in Attempts, LoseLease(a) PROVE ArtInv'  BY <1>13, LoseLeaseSafe
<1>14. ASSUME NEW c \in Chapters, NEW v \in Versions, Edit(c, v) PROVE ArtInv'  BY <1>14, EditSafe
<1>15. ASSUME NEW c \in Chapters, NEW v \in Versions, ReplaceChapter(c, v) PROVE ArtInv'
  BY <1>15, ReplaceChapterSafe
<1>16. CASE ResetCodex  BY <1>16, ResetCodexSafe
<1>17. CASE UNCHANGED artVars
  BY <1>17, JobsStay, LeftIs, JobStep DEF artVars
<1> QED
  BY <1>1, <1>2, <1>3, <1>4, <1>5, <1>6, <1>7, <1>8, <1>9, <1>10, <1>11, <1>12, <1>13, <1>14, <1>15,
     <1>16, <1>17 DEF ArtNext

LEMMA ArtInvHolds == ArtSpec => []ArtInv
BY ArtInitSafe, ArtInvStays, PTL DEF ArtSpec

\* The tables and the attempts of the illustrations keep their types.
THEOREM ArtTypes == ArtSpec => []ArtTypeOK
<1>1. ArtInv => ArtTypeOK  BY DEF ArtInv
<1> QED  BY <1>1, ArtInvHolds, PTL

\* A reader of a chapter is shown only art whose every maker had been told of
\* nothing beyond that chapter, for every set of jobs, attempts that outlive
\* their lease, edits, replacements and resets.
THEOREM ArtNeverSpoils == ArtSpec => []NoSpoilerArt
BY ArtInvHolds, ArtIsSafe, PTL

\* Art is shown only while every text that went into it, through a renamed
\* sheet or a sheet in a scene too, is what its chapter says now.
THEOREM ArtOfItsText == ArtSpec => []ShownIsOfItsText
BY ArtInvHolds, ArtIsOfItsText, PTL

\* The scenes that a chapter's gallery shows are of one plan, however many
\* attempts drew them, unless the job's plan was deleted under it.
THEOREM GalleryOfOnePlan == ArtSpec => []GalleryIsOnePlan
BY ArtInvHolds, ArtIsOfOnePlan, PTL

=============================================================================
