----------------------------- MODULE ChapterRow -----------------------------
(***************************************************************************)
(* One row of the table `chapters`, as far as translation and the shared   *)
(* text are concerned, and the SQL statements that change it.  Every       *)
(* operator below the row maps a row to the row the statement leaves.      *)
(*                                                                         *)
(* A text is abstracted to where it comes from: a member of Texts is a     *)
(* source text (its SHA-256 stands for it), and as `content` the machine   *)
(* translation of that source; Published is the text of a source that      *)
(* needs no translation, Edited a text a person put there.                 *)
(***************************************************************************)
EXTENDS Naturals

CONSTANTS
  Texts,      \* source texts a scrape can find
  NoText,     \* NULL
  Published,  \* the text of a source that is not raw
  Edited,     \* a text written by the owner or accepted from a reader
  MaxRuns     \* rows of ai_execution_runs (bound)

Runs == 1..MaxRuns
NoRun == 0

ASSUME TextAssumption ==
  /\ MaxRuns \in Nat
  /\ {NoText, Published, Edited} \cap Texts = {}
  /\ NoText # Published /\ NoText # Edited /\ Published # Edited

Sources == Texts \cup {NoText}
Contents == Texts \cup {NoText, Published, Edited}
Statuses == {"none", "pending", "translating", "done", "failed"}

(* src: original_text, ver: content_version, run: translation_run_id,      *)
(* sha: translation_source_sha256                                          *)
Row ==
  [src : Sources, content : Contents, ver : Nat, status : Statuses,
   run : Runs \cup {NoRun}, sha : Sources]

(* What a translator keeps of the row it has read: the hash and the        *)
(* version it will expect at its commit, and the text it means to replace. *)
Snapshot == [src : Sources, ver : Nat, content : Contents]
NoSnapshot == [src |-> NoText, ver |-> 0, content |-> NoText]
SnapshotOf(r) == [src |-> r.src, ver |-> r.ver, content |-> r.content]

(* A raw chapter right after its first scrape                              *)
RawRow(t) ==
  [src |-> t, content |-> NoText, ver |-> 1, status |-> "pending",
   run |-> NoRun, sha |-> NoText]

-----------------------------------------------------------------------------
(* translate_chapter goes on after its candidate read; in every other case *)
(* it returns what it has found and changes nothing.                       *)
Admitted(r, force) ==
  /\ r.src # NoText
  /\ force \/ r.content = NoText
  /\ r.status # "translating"
  /\ r.run = NoRun

(* The UPDATE has no condition: it takes the row from whoever has it.      *)
mark_translation_started(r, snap) ==
  [r EXCEPT !.status = "translating", !.run = NoRun, !.sha = snap.src]

mark_translation_failed(r) == [r EXCEPT !.status = "failed"]

(* with only_unowned                                                       *)
mark_unowned_failed(r) ==
  IF r.run = NoRun /\ r.status = "translating"
    THEN mark_translation_failed(r) ELSE r

Stageable(r, force) ==
  /\ r.src # NoText
  /\ force \/ r.content = NoText
  /\ r.status # "translating"

stage_translation(r, run) ==
  [r EXCEPT !.status = "translating", !.run = run, !.sha = r.src]

reset_staged_translation(r, run) ==
  IF r.run = run /\ r.status = "translating"
    THEN [r EXCEPT !.status = "failed", !.run = NoRun] ELSE r

-----------------------------------------------------------------------------
(* The three outcomes of the row-locked commit.  run is NoRun for a        *)
(* translation of the API.                                                 *)
Replayed(r, snap, run) ==
  run # NoRun /\ r.run = run /\ r.status = "done" /\ r.sha = snap.src

(* Mutant: the source and the version are not compared. *)
AcceptsOwner(r, snap, run) == ~Replayed(r, snap, run) /\ r.run = run

(* Mutant: only the source is compared. *)
AcceptsSameSource(r, snap, run) ==
  ~Replayed(r, snap, run) /\ r.src = snap.src /\ r.run = run

Accepts(r, snap, run) ==
  /\ ~Replayed(r, snap, run)
  /\ r.src = snap.src
  /\ r.ver = snap.ver
  /\ r.run = run

commit_translation(r, snap, run) ==
  [r EXCEPT !.content = snap.src, !.status = "done", !.ver = @ + 1, !.run = run,
            !.sha = snap.src]

-----------------------------------------------------------------------------
(* An edit of the shared text: neither the run nor the hash is touched.    *)
update_base_content(r) ==
  [r EXCEPT !.content = Edited, !.status = "done", !.ver = @ + 1]

(* A forced scrape or a replaced import.  seen is the row read before the  *)
(* statement, text what the source shows now.                              *)
IngestedSource(raw, text) == IF raw THEN text ELSE NoText
IngestedContent(raw) == IF raw THEN NoText ELSE Published
BaseChanged(seen, raw, text) ==
  seen.content # IngestedContent(raw) \/ seen.src # IngestedSource(raw, text)

upsert_ingested_chapter(r, seen, raw, text) ==
  [r EXCEPT !.src = IngestedSource(raw, text),
            !.content = IngestedContent(raw),
            !.status = IF raw THEN "pending" ELSE "none",
            !.ver = IF BaseChanged(seen, raw, text) THEN @ + 1 ELSE @]

=============================================================================
