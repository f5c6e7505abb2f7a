------------------------------ MODULE Sharing ------------------------------
(***************************************************************************)
(* A shared novel: who may read and edit it, one of its chapters with the  *)
(* overlays readers put over it, the contributions they offer back, and    *)
(* the suggestions for its tags.  Every request is a READ COMMITTED        *)
(* transaction: what it reads is remembered in req, and its writes, which  *)
(* queue on the rows they lock, become visible together at its commit, by  *)
(* which time the rows it read may have changed.                           *)
(***************************************************************************)
EXTENDS Integers, Sequences

CONSTANTS
  Users,             \* signed-in users
  Admins,            \* those with the admin role
  NoOne,             \* no user
  MaxVersion,        \* bound on chapters.content_version
  MaxRequests,       \* bound on requests
  MaxContributions   \* bound on rows of contributions

ASSUME SharingAssumptions ==
  /\ Admins \subseteq Users /\ NoOne \notin Users
  /\ MaxVersion \in Nat \ {0} /\ {MaxRequests, MaxContributions} \subseteq Nat

VARIABLES
  novel,          \* the novels row: owner, visibility, contribution_policy
  version,        \* content_version of the chapter
  changed,        \* whether its text differs from the one the source has
  credit,         \* history: whose contribution the present version is
  overlays,       \* chapter_overlays, per user
  contributions,  \* table contributions, indexed by id
  suggestion,     \* the tag suggestion: its status, and whether it was applied
  req,            \* per user, the open request and what it has read
  ingest,         \* the forced scrape or import of the chapter
  opened          \* how many requests there were

vars == <<novel, version, changed, credit, overlays, contributions, suggestion,
          req, ingest, opened>>

----------------------------------------------------------------------------
Visibilities == {"private", "public", "global"}
Policies == {"manual", "auto"}

Novel == [owner : Users, visibility : Visibilities, policy : Policies]

NoOverlay == [base |-> 0, conflict |-> FALSE, seen |-> 0]

\* seen is a history field: the version its user had when saving or keeping it.
Overlay == [base : 0..MaxVersion, conflict : BOOLEAN, seen : 0..MaxVersion]

\* merged is a history field: the shared text was set from this contribution.
Contribution == [user : Users, base : 1..MaxVersion,
                 status : {"pending", "accepted", "rejected", "auto_merged"},
                 merged : BOOLEAN]

Idle == [op |-> "idle"]

can_edit(u) == novel.owner = u \/ u \in Admins
can_read(u) == novel.visibility \in {"global", "public"} \/ can_edit(u)

\* Mutant of the definition below.
FlagOnly(u) == overlays[u] # NoOverlay /\ overlays[u].conflict

\* What get_chapter tells the reader: flagged, or anchored to an older version.
ShownConflict(u) ==
  /\ overlays[u] # NoOverlay
  /\ overlays[u].conflict \/ overlays[u].base < version

\* The overlays once the chapter has version v: those anchored earlier are
\* flagged, except the one that is kept, which is anchored to v.
Rebased(v, keep) ==
  [u \in Users |->
     IF overlays[u] = NoOverlay THEN NoOverlay
     ELSE IF u = keep THEN [overlays[u] EXCEPT !.base = v, !.conflict = FALSE]
     ELSE [overlays[u] EXCEPT !.conflict = @ \/ overlays[u].base < v]]

\* The shared text becomes text a user wrote.
update_base_content(keep) ==
  /\ version < MaxVersion
  /\ version' = version + 1
  /\ changed' = TRUE
  /\ credit' = keep
  /\ overlays' = Rebased(version + 1, keep)

\* An upsert, so it also puts back an overlay deleted meanwhile.
save_overlay(u, v) ==
  overlays' = [overlays EXCEPT ![u] = [base |-> v, conflict |-> FALSE, seen |-> v]]

delete_overlay(u) == overlays' = [overlays EXCEPT ![u] = NoOverlay]

\* An update, so it does nothing once the overlay is gone.
reanchor_overlay(u, v) ==
  overlays' = [overlays EXCEPT ![u] =
    IF @ = NoOverlay THEN @ ELSE [base |-> v, conflict |-> FALSE, seen |-> v]]

----------------------------------------------------------------------------
Init ==
  /\ novel \in [owner : Users \ Admins, visibility : {"public"}, policy : {"manual"}]
  /\ version = 1
  /\ changed = FALSE
  /\ credit = NoOne
  /\ overlays = [u \in Users |-> NoOverlay]
  /\ contributions = <<>>
  /\ suggestion = [status |-> "none", applied |-> FALSE]
  /\ req = [u \in Users |-> Idle]
  /\ ingest = [pc |-> "idle"]
  /\ opened = 0

shelf == <<novel, suggestion>>
chapter == <<version, changed, credit>>

\* The reads of a request: access first, then what its writes will rely on.
Open(u, request) ==
  /\ req[u] = Idle
  /\ opened < MaxRequests
  /\ opened' = opened + 1
  /\ req' = [req EXCEPT ![u] = request]
  /\ UNCHANGED <<shelf, chapter, overlays, contributions, ingest>>

Close(u) == req' = [req EXCEPT ![u] = Idle] /\ UNCHANGED opened

\* --- The shared text -------------------------------------------------------

ReadEdit(u) == can_edit(u) /\ Open(u, [op |-> "edit"])

\* edit_base_content
EditBaseContent(u) ==
  /\ req[u].op = "edit"
  /\ update_base_content(NoOne)
  /\ Close(u)
  /\ UNCHANGED <<shelf, contributions, ingest>>

\* upsert_ingested_chapter under force compares with the row it read first, in
\* a statement of its own, and flags the overlays in a third one.
IngestReads ==
  /\ ingest.pc = "idle"
  /\ ingest' = [pc |-> "upsert", base_changed |-> changed]
  /\ UNCHANGED <<shelf, chapter, overlays, contributions, req, opened>>

IngestUpserts ==
  /\ ingest.pc = "upsert"
  /\ LET new == IF ingest.base_changed THEN version + 1 ELSE version IN
     /\ new <= MaxVersion
     /\ version' = new
     /\ credit' = IF new = version THEN credit ELSE NoOne
     /\ ingest' = IF ingest.base_changed THEN [pc |-> "flag", new |-> new]
                  ELSE [pc |-> "idle"]
  /\ changed' = FALSE
  /\ UNCHANGED <<shelf, overlays, contributions, req, opened>>

IngestFlags ==
  /\ ingest.pc = "flag"
  /\ overlays' = Rebased(ingest.new, NoOne)
  /\ ingest' = [pc |-> "idle"]
  /\ UNCHANGED <<shelf, chapter, contributions, req, opened>>

\* A crash between the statements: the flags are never set.
IngestDies ==
  /\ ingest.pc = "flag"
  /\ ingest' = [pc |-> "idle"]
  /\ UNCHANGED <<shelf, chapter, overlays, contributions, req, opened>>

\* --- Overlays --------------------------------------------------------------

ReadOverlay(u, op) == can_read(u) /\ Open(u, [op |-> op, version |-> version])

\* save_overlay; resolve_overlay with "merge"; self_translate, which reads the
\* version in a first transaction and saves in a second one, after the call.
SaveOverlay(u) ==
  /\ req[u].op = "save"
  /\ save_overlay(u, req[u].version)
  /\ Close(u)
  /\ UNCHANGED <<shelf, chapter, contributions, ingest>>

\* resolve_overlay: "base" drops the overlay, "mine" keeps it.
ResolveOverlay(u) ==
  /\ req[u].op = "resolve"
  /\ delete_overlay(u) \/ reanchor_overlay(u, req[u].version)
  /\ Close(u)
  /\ UNCHANGED <<shelf, chapter, contributions, ingest>>

\* self_translate when the call gives nothing, or any request that is refused.
Refused(u) ==
  /\ req[u] # Idle
  /\ Close(u)
  /\ UNCHANGED <<shelf, chapter, overlays, contributions, ingest>>

\* --- Contributions ---------------------------------------------------------

ReadContribute(u) ==
  /\ can_read(u)
  /\ overlays[u] # NoOverlay
  /\ Open(u, [op |-> "contribute", base |-> overlays[u].base,
              auto |-> novel.policy = "auto" /\ overlays[u].base >= version])

\* contribute: under the auto policy the offer becomes the shared text at once.
Contribute(u) ==
  /\ req[u].op = "contribute"
  /\ Len(contributions) < MaxContributions
  /\ contributions' = Append(contributions,
       [user |-> u, base |-> req[u].base, merged |-> req[u].auto,
        status |-> IF req[u].auto THEN "auto_merged" ELSE "pending"])
  /\ IF req[u].auto THEN update_base_content(u) ELSE UNCHANGED <<chapter, overlays>>
  /\ Close(u)
  /\ UNCHANGED <<shelf, ingest>>

\* accept_contribution: one that conflicts needs resolved content.
ReadAccept(u, c, resolved) ==
  /\ can_edit(u)
  /\ contributions[c].status = "pending"
  /\ contributions[c].base >= version \/ resolved
  /\ Open(u, [op |-> "accept", of |-> c])

AcceptContribution(u) ==
  /\ req[u].op = "accept"
  /\ update_base_content(contributions[req[u].of].user)
  /\ contributions' = [contributions EXCEPT ![req[u].of].status = "accepted",
                                            ![req[u].of].merged = TRUE]
  /\ Close(u)
  /\ UNCHANGED <<shelf, ingest>>

ReadReject(u, c) == can_edit(u) /\ Open(u, [op |-> "reject", of |-> c])

\* Mutant of the definition below.
RejectAnyStatus(u) ==
  /\ req[u].op = "reject"
  /\ contributions' = [contributions EXCEPT ![req[u].of].status = "rejected"]
  /\ Close(u)
  /\ UNCHANGED <<shelf, chapter, overlays, ingest>>

\* reject_contribution: the guard is in the update itself.
RejectContribution(u) ==
  /\ req[u].op = "reject"
  /\ contributions' = [contributions EXCEPT ![req[u].of].status =
                         IF @ = "pending" THEN "rejected" ELSE @]
  /\ Close(u)
  /\ UNCHANGED <<shelf, chapter, overlays, ingest>>

\* --- The novel -------------------------------------------------------------

\* set_visibility: moving into or out of the Global library takes an admin.
ReadVisibility(u, visibility) ==
  /\ can_edit(u)
  /\ "global" \in {visibility, novel.visibility} => u \in Admins
  /\ Open(u, [op |-> "visibility", to |-> visibility])

SetVisibility(u) ==
  /\ req[u].op = "visibility"
  /\ novel' = [novel EXCEPT !.visibility = req[u].to,
                            !.owner = IF req[u].to = "global" THEN u ELSE @]
  /\ Close(u)
  /\ UNCHANGED <<suggestion, chapter, overlays, contributions, ingest>>

ReadPolicy(u, policy) == can_edit(u) /\ Open(u, [op |-> "policy", to |-> policy])

\* update_novel, of its fields the one other requests look at.
UpdateNovel(u) ==
  /\ req[u].op = "policy"
  /\ novel' = [novel EXCEPT !.policy = req[u].to]
  /\ Close(u)
  /\ UNCHANGED <<suggestion, chapter, overlays, contributions, ingest>>

\* suggest_tags: only by a reader who could not set them directly.
SuggestTags(u) ==
  /\ can_read(u) /\ ~can_edit(u)
  /\ suggestion.status = "none"
  /\ suggestion' = [suggestion EXCEPT !.status = "pending"]
  /\ UNCHANGED <<novel, chapter, overlays, contributions, req, ingest, opened>>

ReadSuggestion(u, op) ==
  /\ can_edit(u)
  /\ suggestion.status = "pending"
  /\ Open(u, [op |-> op])

\* accept_tag_suggestion and reject_tag_suggestion: review_tag_suggestion
\* writes the status of a pending row only, apply_tags always writes the tags.
ReviewSuggestion(u) ==
  /\ req[u].op \in {"accept tags", "reject tags"}
  /\ suggestion' =
       [status  |-> IF suggestion.status # "pending" THEN suggestion.status
                    ELSE IF req[u].op = "accept tags" THEN "accepted" ELSE "rejected",
        applied |-> suggestion.applied \/ req[u].op = "accept tags"]
  /\ Close(u)
  /\ UNCHANGED <<novel, chapter, overlays, contributions, ingest>>

----------------------------------------------------------------------------
Next ==
  \/ IngestReads \/ IngestUpserts \/ IngestFlags \/ IngestDies
  \/ \E u \in Users :
       \/ ReadEdit(u) \/ EditBaseContent(u)
       \/ \E op \in {"save", "resolve"} : ReadOverlay(u, op)
       \/ SaveOverlay(u) \/ ResolveOverlay(u) \/ Refused(u)
       \/ ReadContribute(u) \/ Contribute(u)
       \/ \E c \in DOMAIN contributions :
            ReadReject(u, c) \/ \E resolved \in BOOLEAN : ReadAccept(u, c, resolved)
       \/ AcceptContribution(u) \/ RejectContribution(u)
       \/ \E visibility \in Visibilities : ReadVisibility(u, visibility)
       \/ \E policy \in Policies : ReadPolicy(u, policy)
       \/ SetVisibility(u) \/ UpdateNovel(u)
       \/ SuggestTags(u) \/ ReviewSuggestion(u)
       \/ \E op \in {"accept tags", "reject tags"} : ReadSuggestion(u, op)

Spec == Init /\ [][Next]_vars

----------------------------------------------------------------------------
Requests ==
  [op : {"idle", "edit", "accept tags", "reject tags"}]
    \cup [op : {"save", "resolve"}, version : 1..MaxVersion]
    \cup [op : {"contribute"}, base : 1..MaxVersion, auto : BOOLEAN]
    \cup [op : {"accept", "reject"}, of : 1..MaxContributions]
    \cup [op : {"visibility"}, to : Visibilities] \cup [op : {"policy"}, to : Policies]

\* Every table and every open request has its shape: in particular an overlay
\* is never anchored to a version the chapter does not have yet.
TypeOK ==
  /\ novel \in Novel
  /\ version \in 1..MaxVersion /\ changed \in BOOLEAN
  /\ credit \in Users \cup {NoOne}
  /\ overlays \in [Users -> Overlay]
  /\ \A u \in Users : overlays[u].base <= version
  /\ contributions \in Seq(Contribution) /\ Len(contributions) <= MaxContributions
  /\ opened \in 0..MaxRequests
  /\ suggestion \in [status : {"none", "pending", "accepted", "rejected"}, applied : BOOLEAN]
  /\ req \in [Users -> Requests]
  /\ ingest \in [pc : {"idle"}] \cup [pc : {"upsert"}, base_changed : BOOLEAN]
                  \cup [pc : {"flag"}, new : 1..MaxVersion]

\* A reader whose overlay hides a version of the shared text that they have not
\* seen is told of the conflict (get_chapter's overlay_conflict), whatever
\* commits between the request that read the version and the one that saved the
\* overlay, and if the flags of a scrape are lost.  The exception is a version
\* made from their own contribution (keep_overlay_user).
StaleOverlayIsShown ==
  \A u \in Users : overlays[u] # NoOverlay /\ ~ShownConflict(u)
                     => overlays[u].seen = version \/ credit = u

\* The record of a contribution says what became of it: it is accepted or
\* auto_merged exactly if the shared text was set from it, whichever of two
\* reviewers who saw it pending commits first.
MergedIsAccepted ==
  \A c \in DOMAIN contributions :
    contributions[c].merged <=> contributions[c].status \in {"accepted", "auto_merged"}

=============================================================================
