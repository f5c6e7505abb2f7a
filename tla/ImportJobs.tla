----------------------------- MODULE ImportJobs -----------------------------
(***************************************************************************)
(* File import: the table import_jobs, the chunked upload that opens a job,*)
(* the leased workers that take it through parsing, OCR and the commit of  *)
(* its chapters, and the requests of its owner.  Requests and workers all  *)
(* write the status through update_job, which has no guard: what they read *)
(* before is part of their local state.                                    *)
(***************************************************************************)
EXTENDS Integers, Sequences, FiniteSets, FiniteSetsExt

CONSTANTS
  Jobs,         \* ids of import jobs
  Workers,      \* import worker processes
  NoOne,        \* no worker
  Scanned,      \* jobs whose file is a scanned PDF
  AutoCommit,   \* jobs of one folder batch, auto_commit with group_series
  FileSize,     \* declared size of an upload, in units of a chunk
  Pages,        \* pages of a scanned PDF
  Length,       \* included segments of every plan
  MaxRequests,  \* bound on requests after the upload
  Faults,       \* the faults that may happen
  MaxFaults     \* bound on faults

ASSUME ImportAssumptions ==
  /\ Scanned \subseteq Jobs /\ AutoCommit \subseteq Jobs /\ NoOne \notin Workers
  /\ {FileSize, Pages, Length, MaxRequests, MaxFaults} \subseteq Nat
  /\ FileSize > 0 /\ Length > 0
  /\ Faults \subseteq {"crash", "stall", "error", "budget", "lost reply", "abandon"}

VARIABLES
  row,       \* table import_jobs: status, and which live process renews the lease
  upload,    \* original.<ext> on disk, and what the client believes is there
  ocr,       \* per job, whether OCR was confirmed, and pages checkpointed
  wk,        \* local state of each worker process
  web,       \* per job, a request between its read and its write
  volumes,   \* history: numbers each volume append allocated in the target novel
  last,      \* the highest chapter number of the target novel
  append,    \* the worker that holds the volume_append lock
  left       \* requests and faults still to come

vars == <<row, upload, ocr, wk, web, volumes, last, append, left>>

----------------------------------------------------------------------------
TRIGGER_STATUSES == {"uploaded", "ocr_pending", "committing"}
Markers == {"parsing", "ocr_running", "commit_running"}
Resting == {"awaiting_review", "awaiting_ocr_confirm", "ocr_paused",
            "committed", "failed", "canceled", "deleted"}
Statuses == {"receiving"} \cup TRIGGER_STATUSES \cup Markers \cup Resting

\* States that a job leaves by itself on its way to review.
PRE_REVIEW == {"receiving", "uploaded", "parsing", "ocr_pending", "ocr_running", "ocr_paused"}

Marker == [uploaded |-> "parsing", ocr_pending |-> "ocr_running",
           committing |-> "commit_running"]

\* The trigger status that a job whose lease expired goes back to.
MARKER_RESUME == [parsing |-> "uploaded", ocr_running |-> "ocr_pending",
                  commit_running |-> "committing"]

Idle == [pc |-> "idle"]

\* What a worker knows about the job it has in hand, by the stage it is in.
Working ==
  [pc : Markers \cup {"parse", "ocr", "advance", "commit"}, job : Jobs, stalled : BOOLEAN]
    \cup [pc : {"series"}, job : Jobs, ids : SUBSET Jobs, stalled : BOOLEAN]
    \cup [pc : {"write", "codex"}, job : Jobs, offset : Nat, stalled : BOOLEAN]

\* UPDATE ... WHERE id: nothing happens once the row is deleted.
update_job(js, status) ==
  [j \in Jobs |-> IF j \in js /\ row[j].status # "deleted"
                  THEN [row[j] EXCEPT !.status = status] ELSE row[j]]

\* The lease is renewed by the live process that claimed the job, unless its
\* heartbeats fail for longer than the lease.
Renewed(j) == \E w \in Workers : /\ row[j].claim = w /\ wk[w].pc # "idle"
                                 /\ wk[w].job = j /\ ~wk[w].stalled

\* A worker that lost its claim without knowing may still be at work.
Superseded(j) == \E w \in Workers : /\ row[j].claim # w /\ wk[w].pc # "idle"
                                    /\ wk[w].job = j /\ ~wk[w].stalled

MayFail(kind) == kind \in Faults /\ left.faults > 0
Spend(kind) == left' = [left EXCEPT !.faults = @ - 1]

----------------------------------------------------------------------------
Init ==
  /\ row = [j \in Jobs |-> [status |-> "receiving", claim |-> NoOne]]
  /\ upload = [j \in Jobs |-> [blob |-> <<>>, acked |-> 0]]
  /\ ocr = [j \in Jobs |-> [confirmed |-> FALSE, pages |-> 0]]
  /\ wk = [w \in Workers |-> Idle]
  /\ web = [j \in Jobs |-> Idle]
  /\ volumes = <<>>
  /\ last = 0
  /\ append = NoOne
  /\ left = [requests |-> MaxRequests, faults |-> MaxFaults]

library == <<volumes, last, append>>

\* --- Upload ----------------------------------------------------------------

\* Byte i of the client's file is the number i.
Bytes(from, n) == [i \in 1..n |-> from + i]

\* write_chunk: seek to the offset, which is never past the end, and write.
write_chunk(blob, offset, n) ==
  [i \in 1..Max({Len(blob), offset + n}) |->
     IF i > offset /\ i <= offset + n THEN i ELSE blob[i]]

\* Mutant of the definition below.
AppendChunk(j, offset, n) ==
  /\ row[j].status = "receiving"
  /\ offset <= upload[j].acked /\ offset + n <= FileSize
  /\ \E m \in 1..n : upload' = [upload EXCEPT ![j].blob = @ \o Bytes(offset, m)]
  /\ MayFail("lost reply") /\ Spend("lost reply")
  /\ UNCHANGED <<row, ocr, wk, web, library>>

\* upload_chunk: a chunk inside what has arrived is acknowledged if its bytes
\* match; otherwise it must start at the cursor and stay within the declared
\* size.  The client sends from the last cursor it was told, or resends; the
\* reply, or the end of the chunk, may be lost.
UploadChunk(j, offset, n) ==
  /\ row[j].status = "receiving"
  /\ offset <= upload[j].acked
  /\ LET blob == upload[j].blob
         inside == offset + n <= Len(blob) IN
     /\ inside => SubSeq(blob, offset + 1, offset + n) = Bytes(offset, n)
     /\ ~inside => offset = Len(blob) /\ offset + n <= FileSize
     /\ \/ /\ upload' = [upload EXCEPT ![j] =
                IF inside THEN [@ EXCEPT !.acked = Len(blob)]
                ELSE [blob |-> write_chunk(blob, offset, n), acked |-> offset + n]]
           /\ UNCHANGED left
        \/ /\ ~inside /\ MayFail("lost reply")
           /\ \E m \in 1..n : upload' = [upload EXCEPT ![j].blob = write_chunk(blob, offset, m)]
           /\ Spend("lost reply")
  /\ UNCHANGED <<row, ocr, wk, web, library>>

\* A chunk the server refuses tells the client the cursor.
UploadConflict(j, offset, n) ==
  /\ row[j].status = "receiving"
  /\ offset <= upload[j].acked /\ offset + n > Len(upload[j].blob)
  /\ offset # Len(upload[j].blob)
  /\ upload' = [upload EXCEPT ![j].acked = Len(upload[j].blob)]
  /\ UNCHANGED <<row, ocr, wk, web, library, left>>

\* upload_complete up to its UPDATE.
ReadComplete(j) ==
  /\ web[j] = Idle
  /\ row[j].status = "receiving"
  /\ Len(upload[j].blob) = FileSize
  /\ web' = [web EXCEPT ![j] = [pc |-> "uploaded"]]
  /\ UNCHANGED <<row, upload, ocr, wk, library, left>>

\* _cleanup_stale_uploads: the session was not touched for a day.
CleanupStaleUpload(j) ==
  /\ row[j].status = "receiving"
  /\ MayFail("abandon") /\ Spend("abandon")
  /\ row' = update_job({j}, "deleted")
  /\ UNCHANGED <<upload, ocr, wk, web, library>>

\* --- Requests of the owner -------------------------------------------------

Request(j, next) ==
  /\ web[j] = Idle
  /\ left.requests > 0
  /\ left' = [left EXCEPT !.requests = @ - 1]
  /\ web' = [web EXCEPT ![j] = [pc |-> next]]
  /\ UNCHANGED <<row, upload, ocr, wk, library>>

\* confirm_ocr and commit check the status they read.
ReadConfirm(j) ==
  row[j].status \in {"awaiting_ocr_confirm", "ocr_paused"} /\ Request(j, "ocr_pending")
ReadCommit(j) ==
  row[j].status \in {"awaiting_review", "failed"} /\ Request(j, "committing")

\* cancel checks only that the job is there.
ReadCancel(j) == row[j].status \notin {"receiving", "deleted"} /\ Request(j, "canceled")

\* The write at the end of upload_complete, confirm_ocr, commit and cancel.
WriteRequest(j) ==
  /\ web[j] # Idle
  /\ row' = update_job({j}, web[j].pc)
  /\ ocr' = [ocr EXCEPT ![j].confirmed = @ \/ web[j].pc = "ocr_pending"]
  /\ web' = [web EXCEPT ![j] = Idle]
  /\ UNCHANGED <<upload, wk, library, left>>

\* delete removes the row and the files of the job.
DeleteJob(j) ==
  /\ row[j].status \in {"failed", "canceled", "awaiting_review"}
  /\ left.requests > 0
  /\ left' = [left EXCEPT !.requests = @ - 1]
  /\ row' = update_job({j}, "deleted")
  /\ UNCHANGED <<upload, ocr, wk, web, library>>

\* --- The workers -----------------------------------------------------------

\* claim_next: FOR UPDATE SKIP LOCKED, so of two workers one gets the job.
Claim(w, j) ==
  /\ wk[w].pc = "idle"
  /\ row[j].status \in TRIGGER_STATUSES
  /\ LET marker == Marker[row[j].status] IN
     /\ row' = [row EXCEPT ![j] = [status |-> marker, claim |-> w]]
     /\ wk' = [wk EXCEPT ![w] = [pc |-> marker, job |-> j, stalled |-> FALSE]]
  /\ UNCHANGED <<upload, ocr, web, library, left>>

\* A lease expires if no one renews it.  That one does so before a superseded
\* worker is through with the job is a fault: it is slower than the lease.
Expires(j) ==
  /\ row[j].status \in Markers /\ ~Renewed(j)
  /\ IF Superseded(j) THEN MayFail("stall") /\ Spend("stall") ELSE UNCHANGED left

\* Mutant of the definition below.
RecoverParseAndOcr(j) ==
  /\ row[j].status # "commit_running"
  /\ Expires(j)
  /\ row' = [row EXCEPT ![j] = [status |-> MARKER_RESUME[row[j].status], claim |-> NoOne]]
  /\ UNCHANGED <<upload, ocr, wk, web, library>>

\* recover_stale_leases
RecoverStaleLease(j) ==
  /\ Expires(j)
  /\ row' = [row EXCEPT ![j] = [status |-> MARKER_RESUME[row[j].status], claim |-> NoOne]]
  /\ UNCHANGED <<upload, ocr, wk, web, library>>

\* reactivate_paused, once the day's budget has returned.
ReactivatePaused ==
  /\ \E j \in Jobs : row[j].status = "ocr_paused"
  /\ row' = [j \in Jobs |-> IF row[j].status = "ocr_paused"
                            THEN [status |-> "ocr_pending", claim |-> NoOne] ELSE row[j]]
  /\ UNCHANGED <<upload, ocr, wk, web, library, left>>

At(w, pc) == wk[w].pc = pc
Go(w, pc) == wk' = [wk EXCEPT ![w].pc = pc]
Done(w) == wk' = [wk EXCEPT ![w] = Idle]

\* do_parse and do_ocr write the marker again before they start.
StartStage(w) ==
  /\ wk[w].pc \in {"parsing", "ocr_running"}
  /\ row' = update_job({wk[w].job}, wk[w].pc)
  /\ Go(w, IF At(w, "parsing") THEN "parse" ELSE "ocr")
  /\ UNCHANGED <<upload, ocr, web, library, left>>

\* A scanned PDF waits for its owner to confirm the cost.
EnterOcrConfirm(w) ==
  /\ At(w, "parse") /\ wk[w].job \in Scanned
  /\ row' = update_job({wk[w].job}, "awaiting_ocr_confirm")
  /\ Done(w)
  /\ UNCHANGED <<upload, ocr, web, library, left>>

\* _finish_parse, of a parsed file or of one whose pages are all read.
FinishParse(w) ==
  /\ \/ At(w, "parse") /\ wk[w].job \notin Scanned
     \/ At(w, "ocr") /\ ocr[wk[w].job].pages = Pages
  /\ row' = update_job({wk[w].job}, "awaiting_review")
  /\ Go(w, "advance")
  /\ UNCHANGED <<upload, ocr, web, library, left>>

\* One window of pages, each checkpointed before the next.
OcrPage(w) ==
  /\ At(w, "ocr") /\ ocr[wk[w].job].pages < Pages
  /\ ocr' = [ocr EXCEPT ![wk[w].job].pages = @ + 1]
  /\ UNCHANGED <<row, upload, wk, web, library, left>>

\* BudgetExhausted
OcrPauses(w) ==
  /\ At(w, "ocr") /\ ocr[wk[w].job].pages < Pages
  /\ MayFail("budget") /\ Spend("budget")
  /\ row' = update_job({wk[w].job}, "ocr_paused")
  /\ Done(w)
  /\ UNCHANGED <<upload, ocr, web, library>>

\* _auto_advance: the whole batch is committed by the last of it to be ready.
AutoAdvance(w) ==
  LET ready == {j \in AutoCommit : row[j].status = "awaiting_review"}
      go == wk[w].job \in AutoCommit /\ \A j \in AutoCommit : row[j].status \notin PRE_REVIEW IN
  /\ At(w, "advance")
  /\ IF go /\ Cardinality(ready) > 1
     THEN wk' = [wk EXCEPT ![w] = [pc |-> "series", job |-> wk[w].job,
                                   ids |-> ready, stalled |-> wk[w].stalled]]
          /\ UNCHANGED row
     ELSE /\ row' = IF go THEN update_job(ready, "committing") ELSE row
          /\ Done(w)
  /\ UNCHANGED <<upload, ocr, web, library, left>>

\* commit_series, into a novel of its own: every job of it is finalized in the
\* same transaction.  A job already committed makes it raise, and all fail.
CommitSeries(w) ==
  /\ At(w, "series")
  /\ row' = update_job(wk[w].ids, IF \E j \in wk[w].ids : row[j].status = "committed"
                                  THEN "failed" ELSE "committed")
  /\ Done(w)
  /\ UNCHANGED <<upload, ocr, web, library, left>>

\* _load_for_commit reads the row before the transaction: a job that is
\* already committed, or deleted, makes it raise.
LoadForCommit(w) ==
  LET status == row[wk[w].job].status IN
  /\ At(w, "commit_running")
  /\ IF status \in {"committed", "deleted"}
     THEN row' = update_job({wk[w].job}, "failed") /\ Done(w)
     ELSE Go(w, "commit") /\ UNCHANGED row
  /\ UNCHANGED <<upload, ocr, web, library, left>>

\* The numbers of a volume's chapters, in order.  One that the novel already
\* has makes the stage raise (StageFails).
_write_segments(offset) == (offset + 1)..(offset + Length)

\* Mutant of the definition below.
ReadNextNumber(w) ==
  /\ At(w, "commit")
  /\ append' = w
  /\ wk' = [wk EXCEPT ![w] = [pc |-> "write", job |-> wk[w].job, offset |-> last,
                              stalled |-> wk[w].stalled]]
  /\ UNCHANGED <<row, upload, ocr, web, volumes, last, left>>

\* do_commit of a volume append: the transaction takes the advisory lock of
\* the target novel, and reads its highest number under it.
LockVolumeAppend(w) ==
  /\ At(w, "commit")
  /\ append = NoOne
  /\ _write_segments(last) \cap UNION {volumes[i] : i \in DOMAIN volumes} = {}
  /\ append' = w
  /\ wk' = [wk EXCEPT ![w] = [pc |-> "write", job |-> wk[w].job, offset |-> last,
                              stalled |-> wk[w].stalled]]
  /\ UNCHANGED <<row, upload, ocr, web, volumes, last, left>>

\* The chapters, the source and the row are committed together; the build of
\* the codex is scheduled after that.
CommitJob(w) ==
  /\ At(w, "write")
  /\ append' = NoOne
  /\ volumes' = Append(volumes, _write_segments(wk[w].offset))
  /\ last' = Max({last, wk[w].offset + Length})
  /\ row' = update_job({wk[w].job}, "committed")
  /\ Go(w, "codex")
  /\ UNCHANGED <<upload, ocr, web, left>>

ScheduleCodex(w) ==
  /\ At(w, "codex")
  /\ Done(w)
  /\ UNCHANGED <<row, upload, ocr, web, library, left>>

\* The stage raises, or the owner may not spend any more: fail_job.
StageFails(w) ==
  /\ wk[w].pc \in Markers \cup {"parse", "ocr", "commit", "write", "codex"}
  /\ MayFail("error") /\ Spend("error")
  /\ row' = update_job({wk[w].job}, "failed")
  /\ append' = IF append = w THEN NoOne ELSE append
  /\ Done(w)
  /\ UNCHANGED <<upload, ocr, web, volumes, last>>

\* The process dies, its transaction with it, and a new one starts.
Crash(w) ==
  /\ ~At(w, "idle")
  /\ MayFail("crash") /\ Spend("crash")
  /\ append' = IF append = w THEN NoOne ELSE append
  /\ Done(w)
  /\ UNCHANGED <<row, upload, ocr, web, volumes, last>>

\* The heartbeats fail for longer than the lease while the stage goes on.
Stall(w) ==
  /\ ~At(w, "idle") /\ ~wk[w].stalled
  /\ MayFail("stall") /\ Spend("stall")
  /\ wk' = [wk EXCEPT ![w].stalled = TRUE]
  /\ UNCHANGED <<row, upload, ocr, web, library>>

----------------------------------------------------------------------------
WorkerStep(w) ==
  \/ \E j \in Jobs : Claim(w, j)
  \/ StartStage(w) \/ EnterOcrConfirm(w) \/ OcrPage(w) \/ FinishParse(w)
  \/ AutoAdvance(w) \/ CommitSeries(w) \/ LoadForCommit(w)
  \/ LockVolumeAppend(w) \/ CommitJob(w) \/ ScheduleCodex(w)

Maintenance == ReactivatePaused \/ \E j \in Jobs : RecoverStaleLease(j)

Next ==
  \/ Maintenance
  \/ \E w \in Workers : WorkerStep(w) \/ OcrPauses(w) \/ StageFails(w) \/ Crash(w) \/ Stall(w)
  \/ \E j \in Jobs :
       \/ \E offset \in 0..FileSize, n \in 1..FileSize :
            UploadChunk(j, offset, n) \/ UploadConflict(j, offset, n)
       \/ ReadComplete(j) \/ CleanupStaleUpload(j)
       \/ ReadConfirm(j) \/ ReadCommit(j) \/ ReadCancel(j) \/ WriteRequest(j) \/ DeleteJob(j)

Spec == Init /\ [][Next]_vars

\* The worker loop polls, and every process that dies is started again.
FairSpec ==
  /\ Spec
  /\ WF_vars(Maintenance)
  /\ \A w \in Workers : WF_vars(WorkerStep(w))
  /\ \A j \in Jobs : WF_vars(WriteRequest(j))

----------------------------------------------------------------------------
TypeOK ==
  /\ row \in [Jobs -> [status : Statuses, claim : Workers \cup {NoOne}]]
  /\ upload \in [Jobs -> [blob : Seq(1..FileSize), acked : 0..FileSize]]
  /\ \A j \in Jobs : Len(upload[j].blob) <= FileSize
  /\ ocr \in [Jobs -> [confirmed : BOOLEAN, pages : 0..Pages]]
  /\ wk \in [Workers -> {Idle} \cup Working]
  /\ web \in [Jobs -> {Idle} \cup [pc : {"uploaded", "ocr_pending", "committing", "canceled"}]]
  /\ volumes \in Seq(SUBSET Nat) /\ last \in Nat
  /\ left \in [requests : 0..MaxRequests, faults : 0..MaxFaults]
  /\ append \in Workers \cup {NoOne}
  /\ \A w \in Workers : append = w <=> At(w, "write")

\* The assembled upload is the client's file, byte for byte, however often a
\* chunk is resent, cut off or refused (upload_chunk, write_chunk).
BlobIsThePrefix ==
  \A j \in Jobs : upload[j].blob = Bytes(0, Len(upload[j].blob))

\* Volumes appended to one novel have disjoint chapter numbers, also when a
\* worker that lost its lease commits late (lock_volume_append).
VolumesAreDisjoint ==
  \A a, b \in DOMAIN volumes : a # b => volumes[a] \cap volumes[b] = {}

\* A claimed job never stays in an in-progress status: its worker finishes the
\* stage, or its lease expires and another one does.
EveryClaimEnds ==
  \A j \in Jobs : row[j].status \in Markers \cup TRIGGER_STATUSES
                    ~> row[j].status \in Resting

=============================================================================
