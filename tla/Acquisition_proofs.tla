------------------------ MODULE Acquisition_proofs -------------------------
(***************************************************************************)
(* Proofs about the two ways into the library.  File import: the types of  *)
(* its state, that the assembled upload is the client's file, and that     *)
(* volumes appended to one novel never share a chapter number.  Scraping:  *)
(* the types of its state, that the chapters' numbers stay in step with    *)
(* their sources' offsets, that no readable chapter before a saved one is  *)
(* missing, and that a job gets as far as its limit says.                  *)
(***************************************************************************)
EXTENDS ImportJobs, Scraper, WellFoundedInduction, TLAPS

----------------------------------------------------------------------------
(* The bounds, and the operators that the steps are built from.            *)

LEMMA Bounds == /\ FileSize \in Nat /\ Pages \in Nat /\ Length \in Nat
                /\ MaxRequests \in Nat /\ MaxFaults \in Nat
                /\ FileSize > 0 /\ Length > 0 /\ NoOne \notin Workers
  BY ImportAssumptions

LEMMA MaxOfTwo ==
  ASSUME NEW a \in Int, NEW b \in Int
  PROVE  Max({a, b}) = IF a >= b THEN a ELSE b
<1> DEFINE m == IF a >= b THEN a ELSE b
<1>1. m \in {a, b} /\ \A y \in {a, b} : m >= y
  OBVIOUS
<1>2. \A x \in {a, b} : (\A y \in {a, b} : x >= y) => x = m
  OBVIOUS
<1> HIDE DEF m
<1>3. (CHOOSE x \in {a, b} : \A y \in {a, b} : x >= y) = m
  BY <1>1, <1>2
<1> QED
  BY <1>3 DEF Max, m

LEMMA SeqOfLength ==
  ASSUME NEW S, NEW k \in Nat, NEW f \in [1..k -> S]
  PROVE  f \in Seq(S) /\ Len(f) = k
  OBVIOUS

RowType == [Jobs -> [status : Statuses, claim : Workers \cup {NoOne}]]

LEMMA UpdateRow ==
  ASSUME row \in RowType, NEW js, NEW status \in Statuses
  PROVE  update_job(js, status) \in RowType
  BY DEF RowType, update_job

(* What a worker's stage says about its local state.                       *)
Plain == Markers \cup {"parse", "ocr", "advance", "commit"}

LEMMA WorkerFields ==
  ASSUME NEW s \in {Idle} \cup Working
  PROVE  /\ s.pc = "idle" => s = Idle
         /\ s.pc # "idle" => s \in Working /\ s.job \in Jobs /\ s.stalled \in BOOLEAN
         /\ s.pc = "series" => s.ids \in SUBSET Jobs
         /\ s.pc \in {"write", "codex"} => s.offset \in Nat
         /\ s.pc \in Plain \cup {"idle", "series", "write", "codex"}
<1>1. CASE s = Idle
  BY <1>1 DEF Idle, Plain, Markers
<1>2. CASE s \in Working
  BY <1>2 DEF Working, Plain, Markers
<1> QED
  BY <1>1, <1>2

LEMMA WorkerMoves ==
  ASSUME NEW s \in Working
  PROVE  /\ s.pc \in Plain => \A pc \in Plain : /\ [s EXCEPT !.pc = pc] \in Working
                                                /\ [s EXCEPT !.pc = pc].pc = pc
         /\ s.pc = "write" => /\ [s EXCEPT !.pc = "codex"] \in Working
                              /\ [s EXCEPT !.pc = "codex"].pc = "codex"
         /\ /\ [s EXCEPT !.stalled = TRUE] \in Working
            /\ [s EXCEPT !.stalled = TRUE].pc = s.pc
            /\ s.pc = "write" => [s EXCEPT !.stalled = TRUE].offset = s.offset
<1>1. CASE s \in [pc : Plain, job : Jobs, stalled : BOOLEAN]
  BY <1>1 DEF Working, Plain, Markers
<1>2. CASE s \in [pc : {"series"}, job : Jobs, ids : SUBSET Jobs, stalled : BOOLEAN]
  BY <1>2 DEF Working, Plain, Markers
<1>3. CASE s \in [pc : {"write", "codex"}, job : Jobs, offset : Nat, stalled : BOOLEAN]
  BY <1>3 DEF Working, Plain, Markers
<1> QED
  BY <1>1, <1>2, <1>3 DEF Working, Plain

LEMMA WorkerStates ==
  ASSUME NEW jb \in Jobs, NEW stalled \in BOOLEAN
  PROVE  /\ \A pc \in Plain : [pc |-> pc, job |-> jb, stalled |-> stalled] \in Working
         /\ \A ids \in SUBSET Jobs :
              [pc |-> "series", job |-> jb, ids |-> ids, stalled |-> stalled] \in Working
         /\ \A off \in Nat :
              [pc |-> "write", job |-> jb, offset |-> off, stalled |-> stalled] \in Working
  BY DEF Working, Plain

----------------------------------------------------------------------------
(* The steps, grouped by who takes them.                                   *)

UploadStep == \E j \in Jobs, off \in 0..FileSize, n \in 1..FileSize :
                UploadChunk(j, off, n) \/ UploadConflict(j, off, n)

RequestStep(j) ==
  \/ ReadComplete(j) \/ CleanupStaleUpload(j) \/ ReadConfirm(j) \/ ReadCommit(j)
  \/ ReadCancel(j) \/ WriteRequest(j) \/ DeleteJob(j)

ProcessStep(w) ==
  WorkerStep(w) \/ OcrPauses(w) \/ StageFails(w) \/ Crash(w) \/ Stall(w)

LEMMA NextCases ==
  ASSUME [Next]_vars
  PROVE  \/ UNCHANGED vars \/ UploadStep \/ Maintenance
         \/ \E j \in Jobs : RequestStep(j)
         \/ \E w \in Workers : ProcessStep(w)
  BY DEF Next, UploadStep, RequestStep, ProcessStep

(* An upload writes to the blob, and may cost the reply.                   *)
LEMMA UploadKeeps ==
  ASSUME UploadStep
  PROVE  /\ UNCHANGED <<row, ocr, wk, web, library>>
         /\ UNCHANGED left \/ (MayFail("lost reply") /\ Spend("lost reply"))
<1>1. PICK j \in Jobs, off \in 0..FileSize, n \in 1..FileSize :
        UploadChunk(j, off, n) \/ UploadConflict(j, off, n)
  BY DEF UploadStep
<1>2. CASE UploadChunk(j, off, n)
  <2>1. UNCHANGED <<row, ocr, wk, web, library>>
    BY <1>2, Zenon DEF UploadChunk
  <2>2. UNCHANGED left \/ (MayFail("lost reply") /\ Spend("lost reply"))
    BY <1>2, Zenon DEF UploadChunk
  <2> QED
    BY <2>1, <2>2, Zenon
<1>3. CASE UploadConflict(j, off, n)
  <2>1. UNCHANGED <<row, ocr, wk, web, library, left>>
    BY <1>3, Zenon DEF UploadConflict
  <2> QED
    BY <2>1
<1> QED
  BY <1>1, <1>2, <1>3

(* How a worker's step changes what it shares with the others: it takes    *)
(* the append lock, commits under it, lets go of it, or leaves it alone.   *)
LibraryMove(w, s) ==
  \/ /\ wk[w].pc = "commit" /\ append = NoOne
     /\ s.pc = "write" /\ s.offset = last
     /\ append' = w /\ UNCHANGED <<volumes, last>>
  \/ /\ wk[w].pc = "write" /\ s.pc = "codex"
     /\ append' = NoOne
     /\ volumes' = Append(volumes, _write_segments(wk[w].offset))
     /\ last' = Max({last, wk[w].offset + Length})
  \/ /\ s.pc = "idle"
     /\ append' = IF append = w THEN NoOne ELSE append
     /\ UNCHANGED <<volumes, last>>
  \/ /\ s.pc = "write" <=> wk[w].pc = "write"
     /\ s.pc = "write" => s.offset = wk[w].offset
     /\ UNCHANGED library

Move(w) ==
  \E s \in {Idle} \cup Working : wk' = [wk EXCEPT ![w] = s] /\ LibraryMove(w, s)

LEMMA IdlePc == Idle.pc = "idle"
  BY DEF Idle

LEMMA ProcessMove ==
  ASSUME TypeOK, NEW w \in Workers, ProcessStep(w)
  PROVE  Move(w)
<1>0. /\ wk[w] \in {Idle} \cup Working /\ last \in Nat
      /\ wk[w].pc # "idle" =>
           wk[w] \in Working /\ wk[w].job \in Jobs /\ wk[w].stalled \in BOOLEAN
      /\ wk[w].pc \in Plain \cup {"idle", "series", "write", "codex"}
  <2>1. wk[w] \in {Idle} \cup Working /\ last \in Nat
    BY DEF TypeOK
  <2> QED
    BY <2>1, WorkerFields
<1>1. ASSUME Done(w), UNCHANGED library, wk[w].pc # "write" PROVE Move(w)
  BY <1>1, IdlePc DEF Move, Done, LibraryMove
<1>2. ASSUME Done(w), append' = IF append = w THEN NoOne ELSE append,
             UNCHANGED <<volumes, last>>
      PROVE  Move(w)
  BY <1>2, IdlePc DEF Move, Done, LibraryMove
<1>3. ASSUME wk[w].pc \in Plain, NEW pc \in Plain, Go(w, pc), UNCHANGED library PROVE Move(w)
  <2> DEFINE s == [wk[w] EXCEPT !.pc = pc]
  <2>1. wk[w] \in Working /\ wk[w].pc # "write" /\ pc # "write"
    BY <1>0, <1>3 DEF Plain, Markers
  <2>2. s \in Working /\ s.pc = pc
    BY <1>3, <2>1, WorkerMoves
  <2>3. wk' = [wk EXCEPT ![w] = s]
    BY <1>3 DEF Go
  <2> HIDE DEF s
  <2> QED
    BY <1>3, <2>1, <2>2, <2>3 DEF Move, LibraryMove
<1>4. ASSUME NEW j \in Jobs, Claim(w, j) PROVE Move(w)
  <2> DEFINE marker == Marker[row[j].status]
             s == [pc |-> marker, job |-> j, stalled |-> FALSE]
  <2>1. marker \in Markers
    BY <1>4 DEF Claim, Marker, TRIGGER_STATUSES, Markers
  <2>2. s \in Working /\ s.pc = marker
    BY <2>1, WorkerStates DEF Plain
  <2>3. wk' = [wk EXCEPT ![w] = s] /\ UNCHANGED library /\ wk[w].pc = "idle"
    BY <1>4 DEF Claim, library
  <2> HIDE DEF s
  <2>4. s.pc # "write" /\ wk[w].pc # "write"
    BY <2>1, <2>2, <2>3 DEF Markers
  <2> QED
    BY <2>2, <2>3, <2>4 DEF Move, LibraryMove
<1>5. CASE StartStage(w) \/ FinishParse(w) \/ LoadForCommit(w)
  <2>1. \/ \E pc \in {"parse", "ocr", "advance", "commit"} : Go(w, pc)
        \/ Done(w)
    BY <1>5 DEF StartStage, FinishParse, LoadForCommit
  <2>2. wk[w].pc \in Plain /\ UNCHANGED library /\ wk[w].pc # "write"
    BY <1>5 DEF StartStage, FinishParse, LoadForCommit, At, library, Plain, Markers
  <2> QED
    BY <1>1, <1>3, <2>1, <2>2 DEF Plain
<1>6. CASE EnterOcrConfirm(w) \/ OcrPauses(w) \/ CommitSeries(w) \/ ScheduleCodex(w)
  <2>1. Done(w) /\ UNCHANGED library /\ wk[w].pc # "write"
    BY <1>6 DEF EnterOcrConfirm, OcrPauses, CommitSeries, ScheduleCodex, At, library
  <2> QED
    BY <1>1, <2>1
<1>7. CASE OcrPage(w)
  <2>1. wk' = [wk EXCEPT ![w] = wk[w]] /\ UNCHANGED library
    BY <1>7 DEF OcrPage, library, TypeOK
  <2> QED
    BY <1>0, <2>1 DEF Move, LibraryMove
<1>8. CASE AutoAdvance(w)
  <2>1. wk[w].pc = "advance" /\ UNCHANGED library
    BY <1>8 DEF AutoAdvance, At, library
  <2>2. CASE \E ids \in SUBSET Jobs :
               wk' = [wk EXCEPT ![w] = [pc |-> "series", job |-> wk[w].job, ids |-> ids,
                                        stalled |-> wk[w].stalled]]
    <3>1. PICK ids \in SUBSET Jobs :
               wk' = [wk EXCEPT ![w] = [pc |-> "series", job |-> wk[w].job, ids |-> ids,
                                        stalled |-> wk[w].stalled]]
      BY <2>2
    <3> DEFINE s == [pc |-> "series", job |-> wk[w].job, ids |-> ids,
                     stalled |-> wk[w].stalled]
    <3>2. s \in Working /\ s.pc = "series"
      BY <1>0, <2>1, WorkerStates
    <3> HIDE DEF s
    <3> QED
      BY <2>1, <3>1, <3>2 DEF Move, LibraryMove, s
  <2>3. AutoCommit \subseteq Jobs
    BY ImportAssumptions
  <2>4. CASE Done(w)
    BY <1>1, <2>1, <2>4
  <2> QED
    BY <1>8, <2>2, <2>3, <2>4 DEF AutoAdvance
<1>9. CASE LockVolumeAppend(w)
  <2> DEFINE s == [pc |-> "write", job |-> wk[w].job, offset |-> last,
                   stalled |-> wk[w].stalled]
  <2>1. /\ wk[w].pc = "commit" /\ append = NoOne /\ append' = w
        /\ UNCHANGED <<volumes, last>> /\ wk' = [wk EXCEPT ![w] = s]
    BY <1>9 DEF LockVolumeAppend, At
  <2>2. s \in Working /\ s.pc = "write" /\ s.offset = last
    BY <1>0, <2>1, WorkerStates
  <2> HIDE DEF s
  <2> QED
    BY <2>1, <2>2 DEF Move, LibraryMove
<1>10. CASE CommitJob(w)
  <2> DEFINE s == [wk[w] EXCEPT !.pc = "codex"]
  <2>1. /\ wk[w].pc = "write" /\ append' = NoOne
        /\ volumes' = Append(volumes, _write_segments(wk[w].offset))
        /\ last' = Max({last, wk[w].offset + Length})
        /\ wk' = [wk EXCEPT ![w] = s]
    BY <1>10 DEF CommitJob, At, Go
  <2>2. s \in Working /\ s.pc = "codex"
    BY <1>0, <2>1, WorkerMoves
  <2> HIDE DEF s
  <2> QED
    BY <2>1, <2>2 DEF Move, LibraryMove
<1>11. CASE StageFails(w) \/ Crash(w)
  BY <1>2, <1>11 DEF StageFails, Crash
<1>12. CASE Stall(w)
  <2> DEFINE s == [wk[w] EXCEPT !.stalled = TRUE]
  <2>1. wk[w].pc # "idle" /\ wk' = [wk EXCEPT ![w] = s] /\ UNCHANGED library
    BY <1>12 DEF Stall, At, library
  <2>2. s \in Working /\ s.pc = wk[w].pc /\ (s.pc = "write" => s.offset = wk[w].offset)
    BY <1>0, <2>1, WorkerMoves
  <2> HIDE DEF s
  <2> QED
    BY <2>1, <2>2 DEF Move, LibraryMove
<1> QED
  BY <1>4, <1>5, <1>6, <1>7, <1>8, <1>9, <1>10, <1>11, <1>12 DEF ProcessStep, WorkerStep

----------------------------------------------------------------------------
(* Types.                                                                  *)

LEMMA RowStep ==
  ASSUME TypeOK, [Next]_vars
  PROVE  row' \in RowType
<1>0. row \in RowType /\ wk \in [Workers -> {Idle} \cup Working]
  BY DEF TypeOK, RowType
<1>1. ASSUME UNCHANGED row PROVE row' \in RowType
  BY <1>0, <1>1
<1>2. ASSUME NEW js, NEW status \in Statuses, row' = update_job(js, status)
      PROVE  row' \in RowType
  BY <1>0, <1>2, UpdateRow
<1>3. CASE UploadStep
  BY <1>1, <1>3, UploadKeeps
<1>4. CASE Maintenance
  <2>1. CASE ReactivatePaused
    BY <1>0, <2>1 DEF ReactivatePaused, RowType, Statuses, TRIGGER_STATUSES
  <2>2. ASSUME NEW j \in Jobs, RecoverStaleLease(j) PROVE row' \in RowType
    <3>1. MARKER_RESUME[row[j].status] \in Statuses
      BY <2>2 DEF RecoverStaleLease, Expires, MARKER_RESUME, Markers, Statuses, TRIGGER_STATUSES
    <3> QED
      BY <1>0, <2>2, <3>1 DEF RecoverStaleLease, RowType
  <2> QED
    BY <1>4, <2>1, <2>2 DEF Maintenance
<1>5. ASSUME NEW j \in Jobs, RequestStep(j) PROVE row' \in RowType
  <2>1. CASE WriteRequest(j)
    <3>1. web[j].pc \in Statuses
      BY <2>1 DEF WriteRequest, TypeOK, Statuses, TRIGGER_STATUSES, Resting, Idle
    <3> QED
      BY <1>2, <2>1, <3>1 DEF WriteRequest
  <2>2. CASE CleanupStaleUpload(j) \/ DeleteJob(j)
    BY <1>2, <2>2 DEF CleanupStaleUpload, DeleteJob, Statuses, Resting
  <2>3. CASE ReadComplete(j) \/ ReadConfirm(j) \/ ReadCommit(j) \/ ReadCancel(j)
    BY <1>1, <2>3 DEF ReadComplete, ReadConfirm, ReadCommit, ReadCancel, Request
  <2> QED
    BY <1>5, <2>1, <2>2, <2>3 DEF RequestStep
<1>6. ASSUME NEW w \in Workers, ProcessStep(w) PROVE row' \in RowType
  <2>1. ASSUME NEW j \in Jobs, Claim(w, j) PROVE row' \in RowType
    <3>1. Marker[row[j].status] \in Statuses
      BY <2>1 DEF Claim, Marker, TRIGGER_STATUSES, Markers, Statuses
    <3> QED
      BY <1>0, <2>1, <3>1 DEF Claim, RowType
  <2>2. CASE StartStage(w)
    BY <1>2, <2>2 DEF StartStage, Statuses, Markers
  <2>3. CASE \/ EnterOcrConfirm(w) \/ FinishParse(w) \/ CommitSeries(w)
             \/ CommitJob(w) \/ OcrPauses(w) \/ StageFails(w)
    <3>1. \E js : \E status \in Resting : row' = update_job(js, status)
      BY <2>3 DEF EnterOcrConfirm, FinishParse, CommitSeries, CommitJob, OcrPauses,
                  StageFails, Resting
    <3> QED
      BY <1>2, <3>1 DEF Statuses
  <2>4. CASE AutoAdvance(w) \/ LoadForCommit(w)
    <3>1. \/ UNCHANGED row
          \/ \E js : \E status \in {"committing", "failed"} : row' = update_job(js, status)
      BY <2>4 DEF AutoAdvance, LoadForCommit
    <3> QED
      BY <1>1, <1>2, <3>1 DEF Statuses, TRIGGER_STATUSES, Resting
  <2>5. CASE OcrPage(w) \/ LockVolumeAppend(w) \/ ScheduleCodex(w) \/ Crash(w) \/ Stall(w)
    BY <1>1, <2>5 DEF OcrPage, LockVolumeAppend, ScheduleCodex, Crash, Stall
  <2> QED
    BY <1>6, <2>1, <2>2, <2>3, <2>4, <2>5 DEF ProcessStep, WorkerStep
<1> QED
  BY <1>1, <1>3, <1>4, <1>5, <1>6, NextCases DEF vars

(* The files and the client's cursors change by an upload step only.       *)
UploadType == /\ upload \in [Jobs -> [blob : Seq(1..FileSize), acked : 0..FileSize]]
              /\ \A j \in Jobs : Len(upload[j].blob) <= FileSize

LEMMA UploadFrame ==
  ASSUME [Next]_vars
  PROVE  UNCHANGED upload \/ UploadStep
<1>1. ASSUME Maintenance PROVE UNCHANGED upload
  BY <1>1 DEF Maintenance, ReactivatePaused, RecoverStaleLease
<1>2. ASSUME NEW j \in Jobs, RequestStep(j) PROVE UNCHANGED upload
  BY <1>2 DEF RequestStep, ReadComplete, CleanupStaleUpload, ReadConfirm, ReadCommit,
              ReadCancel, WriteRequest, DeleteJob, Request
<1>3. ASSUME NEW w \in Workers, ProcessStep(w) PROVE UNCHANGED upload
  BY <1>3 DEF ProcessStep, WorkerStep, Claim, StartStage, EnterOcrConfirm, OcrPage, FinishParse,
              AutoAdvance, CommitSeries, LoadForCommit, LockVolumeAppend, CommitJob, ScheduleCodex,
              OcrPauses, StageFails, Crash, Stall
<1> QED
  BY <1>1, <1>2, <1>3, NextCases DEF vars

(* A chunk written at the end of the blob extends it by exactly its bytes. *)
LEMMA WriteAtTheEnd ==
  ASSUME NEW blob \in Seq(1..FileSize), NEW n \in 1..FileSize, Len(blob) + n <= FileSize
  PROVE  /\ write_chunk(blob, Len(blob), n) \in Seq(1..FileSize)
         /\ Len(write_chunk(blob, Len(blob), n)) = Len(blob) + n
         /\ blob = Bytes(0, Len(blob)) =>
              write_chunk(blob, Len(blob), n) = Bytes(0, Len(blob) + n)
<1>0. Len(blob) \in Nat /\ n \in Nat /\ n > 0 /\ FileSize \in Nat
  BY Bounds
<1>1. Max({Len(blob), Len(blob) + n}) = Len(blob) + n
  BY <1>0, MaxOfTwo
<1>2. write_chunk(blob, Len(blob), n) =
        [i \in 1..Len(blob) + n |-> IF i > Len(blob) /\ i <= Len(blob) + n THEN i ELSE blob[i]]
  BY <1>1 DEF write_chunk
<1>3. \A i \in 1..Len(blob) : blob[i] \in 1..FileSize
  BY <1>0
<1>4. \A i \in 1..Len(blob) + n :
        (IF i > Len(blob) /\ i <= Len(blob) + n THEN i ELSE blob[i]) \in 1..FileSize
  <2> TAKE i \in 1..Len(blob) + n
  <2>1. CASE i > Len(blob)
    BY <1>0, <2>1
  <2>2. CASE i <= Len(blob)
    BY <1>0, <1>3, <2>2
  <2> QED
    BY <1>0, <2>1, <2>2
<1>5. write_chunk(blob, Len(blob), n) \in [1..Len(blob) + n -> 1..FileSize]
  BY <1>2, <1>4
<1>6. /\ write_chunk(blob, Len(blob), n) \in Seq(1..FileSize)
      /\ Len(write_chunk(blob, Len(blob), n)) = Len(blob) + n
  <2>1. Len(blob) + n \in Nat
    BY <1>0
  <2> QED
    BY <1>5, <2>1, SeqOfLength
<1>7. ASSUME blob = Bytes(0, Len(blob))
      PROVE  write_chunk(blob, Len(blob), n) = Bytes(0, Len(blob) + n)
  <2>1. \A i \in 1..Len(blob) : blob[i] = i
    <3> DEFINE l == Len(blob)
    <3>1. \A i \in 1..l : Bytes(0, l)[i] = 0 + i
      BY DEF Bytes
    <3> QED
      BY <1>7, <3>1
  <2>2. \A i \in 1..Len(blob) + n :
          (IF i > Len(blob) /\ i <= Len(blob) + n THEN i ELSE blob[i]) = 0 + i
    BY <1>0, <2>1
  <2> QED
    BY <1>2, <2>2 DEF Bytes
<1> QED
  BY <1>6, <1>7

(* What an upload step leaves in the file and in the cursor of a jb.      *)
LEMMA UploadMove ==
  ASSUME UploadType, UploadStep
  PROVE  \E j \in Jobs, blob \in Seq(1..FileSize), acked \in 0..FileSize :
           /\ upload' = [upload EXCEPT ![j] = [blob |-> blob, acked |-> acked]]
           /\ Len(blob) <= FileSize
           /\ upload[j].blob = Bytes(0, Len(upload[j].blob)) => blob = Bytes(0, Len(blob))
<1>1. PICK j \in Jobs, off \in 0..FileSize, n \in 1..FileSize :
        UploadChunk(j, off, n) \/ UploadConflict(j, off, n)
  BY DEF UploadStep
<1> DEFINE b == upload[j].blob
           a == upload[j].acked
<1>2. /\ \A acked : [upload[j] EXCEPT !.acked = acked] = [blob |-> b, acked |-> acked]
      /\ \A blob : [upload[j] EXCEPT !.blob = blob] = [blob |-> blob, acked |-> a]
      /\ b \in Seq(1..FileSize) /\ Len(b) \in 0..FileSize
      /\ a \in 0..FileSize /\ FileSize \in Nat
  <2>1. upload[j] \in [blob : Seq(1..FileSize), acked : 0..FileSize] /\ Len(b) <= FileSize
    BY DEF UploadType
  <2> QED
    BY <2>1, Bounds
<1> HIDE DEF b, a
<1>5. CASE upload' = [upload EXCEPT ![j] = [upload[j] EXCEPT !.acked = Len(b)]]
  <2>1. upload' = [upload EXCEPT ![j] = [blob |-> b, acked |-> Len(b)]]
    <3> DEFINE r == [upload[j] EXCEPT !.acked = Len(b)]
    <3>1. r = [blob |-> b, acked |-> Len(b)]
      BY <1>2
    <3>2. upload' = [upload EXCEPT ![j] = r]
      BY <1>5
    <3> HIDE DEF r
    <3> QED
      BY <3>1, <3>2
  <2>2. Len(b) <= FileSize /\ (b = Bytes(0, Len(b)) => b = Bytes(0, Len(b)))
    BY <1>2
  <2>3. \E blob \in Seq(1..FileSize), acked \in 0..FileSize :
           /\ upload' = [upload EXCEPT ![j] = [blob |-> blob, acked |-> acked]]
           /\ Len(blob) <= FileSize
           /\ b = Bytes(0, Len(b)) => blob = Bytes(0, Len(blob))
    BY <1>2, <2>1, <2>2, Zenon
  <2> QED
    BY <2>3, Zenon DEF b
<1>6. CASE \E m \in 1..FileSize, acked \in 0..FileSize :
             /\ Len(b) + m <= FileSize
             /\ upload' = [upload EXCEPT ![j] = [blob |-> write_chunk(b, Len(b), m), acked |-> acked]]
  <2>1. PICK m \in 1..FileSize, acked \in 0..FileSize :
             /\ Len(b) + m <= FileSize
             /\ upload' = [upload EXCEPT ![j] = [blob |-> write_chunk(b, Len(b), m), acked |-> acked]]
    BY <1>6
  <2> DEFINE blob == write_chunk(b, Len(b), m)
  <2>2. /\ blob \in Seq(1..FileSize) /\ Len(blob) <= FileSize
        /\ b = Bytes(0, Len(b)) => blob = Bytes(0, Len(blob))
    BY <1>2, <2>1, WriteAtTheEnd
  <2> HIDE DEF blob
  <2> QED
    BY <2>1, <2>2 DEF blob, b
<1>7. CASE UploadChunk(j, off, n)
  <2>1. CASE off + n <= Len(b)
    <3>1. upload' = [upload EXCEPT ![j] = [upload[j] EXCEPT !.acked = Len(b)]]
      BY <1>7, <2>1 DEF UploadChunk, b
    <3> QED
      BY <1>5, <3>1
  <2>2. CASE ~(off + n <= Len(b))
    <3>1. /\ off = Len(b) /\ off + n <= FileSize
          /\ \/ upload' = [upload EXCEPT ![j] = [blob |-> write_chunk(b, off, n), acked |-> off + n]]
             \/ \E m \in 1..n : upload' = [upload EXCEPT ![j].blob = write_chunk(b, off, m)]
      BY <1>7, <2>2 DEF UploadChunk, b
    <3>2. CASE upload' = [upload EXCEPT ![j] = [blob |-> write_chunk(b, off, n), acked |-> off + n]]
      <4>1. off + n \in 0..FileSize
        BY <1>2, <3>1
      <4> QED
        BY <1>6, <3>1, <3>2, <4>1
    <3>3. CASE \E m \in 1..n : upload' = [upload EXCEPT ![j].blob = write_chunk(b, off, m)]
      <4>1. PICK m \in 1..n : upload' = [upload EXCEPT ![j].blob = write_chunk(b, off, m)]
        BY <3>3
      <4>2. m \in 1..FileSize /\ Len(b) + m <= FileSize
        BY <1>2, <3>1
      <4>3. upload' = [upload EXCEPT ![j] = [blob |-> write_chunk(b, Len(b), m), acked |-> a]]
        <5> DEFINE c == write_chunk(b, Len(b), m)
        <5>1. upload' = [upload EXCEPT ![j] = [upload[j] EXCEPT !.blob = c]]
          BY <3>1, <4>1
        <5> HIDE DEF c
        <5>2. upload' = [upload EXCEPT ![j] = [blob |-> c, acked |-> a]]
          BY <1>2, <5>1
        <5> QED
          BY <5>2 DEF c
      <4> QED
        BY <1>2, <1>6, <4>2, <4>3
    <3> QED
      BY <3>1, <3>2, <3>3
  <2> QED
    BY <2>1, <2>2
<1>8. CASE UploadConflict(j, off, n)
  <2>1. upload' = [upload EXCEPT ![j] = [upload[j] EXCEPT !.acked = Len(b)]]
    BY <1>8 DEF UploadConflict, b
  <2> QED
    BY <1>5, <2>1
<1> QED
  BY <1>1, <1>7, <1>8

LEMMA UploadTypeStep ==
  ASSUME TypeOK, [Next]_vars
  PROVE  UploadType'
<1>0. UploadType
  BY DEF TypeOK, UploadType
<1>1. CASE UNCHANGED upload
  BY <1>0, <1>1 DEF UploadType
<1>2. CASE UploadStep
  <2>1. PICK j \in Jobs, blob \in Seq(1..FileSize), acked \in 0..FileSize :
           /\ upload' = [upload EXCEPT ![j] = [blob |-> blob, acked |-> acked]]
           /\ Len(blob) <= FileSize
           /\ upload[j].blob = Bytes(0, Len(upload[j].blob)) => blob = Bytes(0, Len(blob))
    BY <1>0, <1>2, UploadMove
  <2> QED
    BY <1>0, <2>1 DEF UploadType
<1> QED
  BY <1>1, <1>2, UploadFrame

(* Counters of pages, requests and faults, and the requests in progress.   *)
LEMMA CounterStep ==
  ASSUME TypeOK, [Next]_vars
  PROVE  /\ ocr' \in [Jobs -> [confirmed : BOOLEAN, pages : 0..Pages]]
         /\ web' \in [Jobs -> {Idle} \cup [pc : {"uploaded", "ocr_pending", "committing", "canceled"}]]
         /\ left' \in [requests : 0..MaxRequests, faults : 0..MaxFaults]
<1> DEFINE Pcs == {"uploaded", "ocr_pending", "committing", "canceled"}
           WebType == [Jobs -> {Idle} \cup [pc : Pcs]]
           OcrType == [Jobs -> [confirmed : BOOLEAN, pages : 0..Pages]]
           LeftType == [requests : 0..MaxRequests, faults : 0..MaxFaults]
<1>0. ocr \in OcrType /\ web \in WebType /\ left \in LeftType
  BY DEF TypeOK
<1>1. ASSUME NEW kind, MayFail(kind), Spend(kind) PROVE left' \in LeftType
  BY <1>0, <1>1, Bounds DEF MayFail, Spend
<1>2. ASSUME NEW j \in Jobs, NEW pc \in Pcs, Request(j, pc)
      PROVE  web' \in WebType /\ left' \in LeftType /\ UNCHANGED ocr
  <2>1. [pc |-> pc] \in [pc : Pcs]
    OBVIOUS
  <2>2. left' \in LeftType
    BY <1>0, <1>2, Bounds DEF Request
  <2> QED
    BY <1>0, <1>2, <2>1, <2>2 DEF Request
<1>3. CASE UploadStep
  <2>1. UNCHANGED <<ocr, web>> /\ (UNCHANGED left \/ (MayFail("lost reply") /\ Spend("lost reply")))
    BY <1>3, UploadKeeps
  <2> QED
    BY <1>0, <1>1, <2>1
<1>4. CASE Maintenance
  <2>1. UNCHANGED <<ocr, web>> /\ (UNCHANGED left \/ (MayFail("stall") /\ Spend("stall")))
    BY <1>4 DEF Maintenance, ReactivatePaused, RecoverStaleLease, Expires
  <2> QED
    BY <1>0, <1>1, <2>1
<1>5. ASSUME NEW j \in Jobs, RequestStep(j)
      PROVE  ocr' \in OcrType /\ web' \in WebType /\ left' \in LeftType
  <2>1. CASE ReadConfirm(j) \/ ReadCommit(j) \/ ReadCancel(j)
    <3>1. \E pc \in Pcs : Request(j, pc)
      BY <2>1 DEF ReadConfirm, ReadCommit, ReadCancel
    <3> QED
      BY <1>0, <1>2, <3>1
  <2>2. CASE ReadComplete(j)
    <3>1. [pc |-> "uploaded"] \in [pc : Pcs]
      OBVIOUS
    <3> QED
      BY <1>0, <2>2, <3>1 DEF ReadComplete
  <2>3. CASE WriteRequest(j)
    <3>1. ocr' \in OcrType
      BY <1>0, <2>3 DEF WriteRequest
    <3> QED
      BY <1>0, <2>3, <3>1 DEF WriteRequest
  <2>4. CASE CleanupStaleUpload(j)
    BY <1>0, <1>1, <2>4 DEF CleanupStaleUpload
  <2>5. CASE DeleteJob(j)
    BY <1>0, <2>5, Bounds DEF DeleteJob
  <2> QED
    BY <1>5, <2>1, <2>2, <2>3, <2>4, <2>5 DEF RequestStep
<1>6. ASSUME NEW w \in Workers, ProcessStep(w)
      PROVE  ocr' \in OcrType /\ web' \in WebType /\ left' \in LeftType
  <2>1. CASE OcrPage(w)
    <3>1. wk[w].job \in Jobs /\ ocr[wk[w].job].pages < Pages
      BY <2>1, WorkerFields DEF OcrPage, At, TypeOK
    <3> QED
      BY <1>0, <2>1, <3>1, Bounds DEF OcrPage
  <2>2. CASE OcrPauses(w) \/ StageFails(w) \/ Crash(w) \/ Stall(w)
    <3>1. UNCHANGED <<ocr, web>> /\ \E kind : MayFail(kind) /\ Spend(kind)
      BY <2>2 DEF OcrPauses, StageFails, Crash, Stall
    <3> QED
      BY <1>0, <1>1, <3>1
  <2>3. CASE WorkerStep(w) /\ ~OcrPage(w)
    <3>1. UNCHANGED <<ocr, web, left>>
      BY <2>3 DEF WorkerStep, Claim, StartStage, EnterOcrConfirm, FinishParse, AutoAdvance,
                  CommitSeries, LoadForCommit, LockVolumeAppend, CommitJob, ScheduleCodex
    <3> QED
      BY <1>0, <3>1
  <2> QED
    BY <1>6, <2>1, <2>2, <2>3 DEF ProcessStep, WorkerStep
<1>7. CASE UNCHANGED vars
  BY <1>0, <1>7 DEF vars
<1> QED
  BY <1>3, <1>4, <1>5, <1>6, <1>7, NextCases

(* The workers, the lock and the numbers in the target novel.              *)
LibraryType ==
  /\ wk \in [Workers -> {Idle} \cup Working]
  /\ volumes \in Seq(SUBSET Nat) /\ last \in Nat
  /\ append \in Workers \cup {NoOne}
  /\ \A w \in Workers : append = w <=> At(w, "write")

LEMMA LibraryFrame ==
  ASSUME TypeOK, [Next]_vars
  PROVE  UNCHANGED <<wk, library>> \/ \E w \in Workers : Move(w)
<1>1. ASSUME UploadStep PROVE UNCHANGED <<wk, library>>
  BY <1>1, UploadKeeps
<1>2. ASSUME Maintenance PROVE UNCHANGED <<wk, library>>
  BY <1>2 DEF Maintenance, ReactivatePaused, RecoverStaleLease
<1>3. ASSUME NEW j \in Jobs, RequestStep(j) PROVE UNCHANGED <<wk, library>>
  BY <1>3 DEF RequestStep, ReadComplete, CleanupStaleUpload, ReadConfirm, ReadCommit,
              ReadCancel, WriteRequest, DeleteJob, Request
<1>4. ASSUME UNCHANGED vars PROVE UNCHANGED <<wk, library>>
  BY <1>4 DEF vars, library
<1> QED
  BY <1>1, <1>2, <1>3, <1>4, NextCases, ProcessMove

LEMMA LibraryTypeStep ==
  ASSUME TypeOK, [Next]_vars
  PROVE  LibraryType'
<1>0. LibraryType
  BY DEF TypeOK, LibraryType
<1>1. CASE UNCHANGED <<wk, library>>
  BY <1>0, <1>1 DEF LibraryType, library, At
<1>2. ASSUME NEW w \in Workers, Move(w) PROVE LibraryType'
  <2>1. PICK s \in {Idle} \cup Working : wk' = [wk EXCEPT ![w] = s] /\ LibraryMove(w, s)
    BY <1>2 DEF Move
  <2>2. /\ wk' \in [Workers -> {Idle} \cup Working]
        /\ wk'[w] = s /\ \A x \in Workers : x # w => wk'[x] = wk[x]
    BY <1>0, <2>1 DEF LibraryType
  <2>3. volumes' \in Seq(SUBSET Nat) /\ last' \in Nat
    <3>1. CASE UNCHANGED <<volumes, last>>
      BY <1>0, <3>1 DEF LibraryType
    <3>2. CASE /\ wk[w].pc = "write"
               /\ volumes' = Append(volumes, _write_segments(wk[w].offset))
               /\ last' = Max({last, wk[w].offset + Length})
      <4>1. wk[w].offset \in Nat /\ Length \in Nat /\ last \in Nat
        BY <1>0, <3>2, WorkerFields, Bounds DEF LibraryType
      <4>2. _write_segments(wk[w].offset) \in SUBSET Nat
        BY <4>1 DEF _write_segments
      <4>3. last' \in Nat
        BY <3>2, <4>1, MaxOfTwo
      <4> QED
        BY <1>0, <3>2, <4>2, <4>3 DEF LibraryType
    <3> QED
      BY <2>1, <3>1, <3>2 DEF LibraryMove, library
  <2>4. append' \in Workers \cup {NoOne}
    BY <1>0, <2>1 DEF LibraryMove, LibraryType, library
  <2>5. ASSUME NEW x \in Workers PROVE (append = x <=> At(x, "write"))'
    <3>1. NoOne # x /\ (append = x <=> wk[x].pc = "write") /\ (append = w <=> wk[w].pc = "write")
      BY <1>0, Bounds DEF LibraryType, At
    <3> QED
      BY <2>1, <2>2, <3>1 DEF LibraryMove, library, At
  <2> QED
    BY <2>2, <2>3, <2>4, <2>5 DEF LibraryType
<1> QED
  BY <1>1, <1>2, LibraryFrame

LEMMA TypeStep ==
  ASSUME TypeOK, [Next]_vars
  PROVE  TypeOK'
  BY RowStep, UploadTypeStep, CounterStep, LibraryTypeStep
  DEF TypeOK, RowType, UploadType, LibraryType

LEMMA TypeInit == Init => TypeOK
<1> SUFFICES ASSUME Init PROVE TypeOK
  OBVIOUS
<1>1. row \in [Jobs -> [status : Statuses, claim : Workers \cup {NoOne}]]
  BY DEF Init, Statuses
<1>2. UploadType
  BY Bounds DEF Init, UploadType
<1>3. LibraryType
  BY Bounds, IdlePc DEF Init, LibraryType, At
<1> QED
  BY <1>1, <1>2, <1>3, Bounds DEF Init, TypeOK, UploadType, LibraryType

(* The state of file import has its types; in particular one transaction   *)
(* at a time is inside the append lock of the target novel, and it is the  *)
(* worker that writes chapters (lock_volume_append).                       *)
THEOREM TypeCorrect == Spec => []TypeOK
  BY TypeInit, TypeStep, PTL DEF Spec

----------------------------------------------------------------------------
(* The assembled upload.                                                   *)

LEMMA BlobStep ==
  ASSUME TypeOK, BlobIsThePrefix, [Next]_vars
  PROVE  BlobIsThePrefix'
<1>0. UploadType
  BY DEF TypeOK, UploadType
<1>1. CASE UNCHANGED upload
  BY <1>1 DEF BlobIsThePrefix
<1>2. CASE UploadStep
  <2>1. PICK j \in Jobs, blob \in Seq(1..FileSize), acked \in 0..FileSize :
           /\ upload' = [upload EXCEPT ![j] = [blob |-> blob, acked |-> acked]]
           /\ Len(blob) <= FileSize
           /\ upload[j].blob = Bytes(0, Len(upload[j].blob)) => blob = Bytes(0, Len(blob))
    BY <1>0, <1>2, UploadMove
  <2>2. \A i \in Jobs : upload'[i].blob = IF i = j THEN blob ELSE upload[i].blob
    BY <1>0, <2>1 DEF UploadType
  <2> QED
    BY <2>1, <2>2 DEF BlobIsThePrefix
<1> QED
  BY <1>1, <1>2, UploadFrame

(* However often a chunk is resent, cut off or refused, what is on disk is *)
(* a prefix of the client's file (upload_chunk, write_chunk), for any size *)
(* of file and any chunking.                                               *)
THEOREM UploadIsExact == Spec => []BlobIsThePrefix
<1>1. Init => BlobIsThePrefix
  BY DEF Init, BlobIsThePrefix, Bytes
<1> QED
  BY <1>1, TypeCorrect, BlobStep, PTL DEF Spec

----------------------------------------------------------------------------
(* Chapter numbers of appended volumes.                                    *)

(* Every number given out is at most the highest one, which a transaction  *)
(* inside the lock has read and which nobody else can have moved since.    *)
NumbersAreBelowLast == \A i \in DOMAIN volumes : volumes[i] \subseteq 1..last
OffsetIsLast == \A w \in Workers : At(w, "write") => wk[w].offset = last

VolumeInv == NumbersAreBelowLast /\ OffsetIsLast /\ VolumesAreDisjoint

LEMMA VolumeStep ==
  ASSUME TypeOK, VolumeInv, [Next]_vars
  PROVE  VolumeInv'
<1>0. LibraryType /\ \A w \in Workers : append = w <=> wk[w].pc = "write"
  BY DEF TypeOK, LibraryType, At
<1>1. CASE UNCHANGED <<wk, library>>
  BY <1>1 DEF VolumeInv, NumbersAreBelowLast, OffsetIsLast, VolumesAreDisjoint, library, At
<1>2. ASSUME NEW w \in Workers, Move(w) PROVE VolumeInv'
  <2>1. PICK s \in {Idle} \cup Working : wk' = [wk EXCEPT ![w] = s] /\ LibraryMove(w, s)
    BY <1>2 DEF Move
  <2>2. wk'[w] = s /\ \A x \in Workers : x # w => wk'[x] = wk[x]
    BY <1>0, <2>1 DEF LibraryType
  <2>3. CASE UNCHANGED <<volumes, last>> /\ (s.pc = "write" => s.offset = last)
    <3>1. OffsetIsLast'
      BY <2>2, <2>3 DEF VolumeInv, OffsetIsLast, At
    <3> QED
      BY <2>3, <3>1 DEF VolumeInv, NumbersAreBelowLast, VolumesAreDisjoint
  <2>4. CASE /\ wk[w].pc = "write" /\ s.pc = "codex"
             /\ volumes' = Append(volumes, _write_segments(wk[w].offset))
             /\ last' = Max({last, wk[w].offset + Length})
    <3> DEFINE new == _write_segments(last)
               n == Len(volumes)
    <3>1. wk[w].offset = last /\ Length \in Nat /\ Length > 0 /\ last \in Nat
      BY <1>0, <2>4, Bounds DEF VolumeInv, OffsetIsLast, At, LibraryType
    <3>2. last' = last + Length
      BY <2>4, <3>1, MaxOfTwo
    <3>3. new \subseteq 1..last + Length /\ new \cap (1..last) = {}
      BY <3>1 DEF _write_segments
    <3>4. /\ volumes' = Append(volumes, new) /\ volumes \in Seq(SUBSET Nat)
      BY <1>0, <2>4, <3>1 DEF LibraryType
    <3> HIDE DEF new
    <3>5. /\ DOMAIN volumes' = 1..n + 1 /\ DOMAIN volumes = 1..n /\ n \in Nat
          /\ volumes'[n + 1] = new
          /\ \A i \in 1..n : volumes'[i] = volumes[i]
      BY <3>4
    <3> HIDE DEF n
    <3>6. \A i \in 1..n : volumes[i] \subseteq 1..last
      BY <3>5 DEF VolumeInv, NumbersAreBelowLast
    <3>7. 1..last \subseteq 1..last + Length
      BY <3>1
    <3>8. NumbersAreBelowLast'
      <4> SUFFICES ASSUME NEW i \in 1..n + 1 PROVE volumes'[i] \subseteq 1..last + Length
        BY <3>2, <3>5 DEF NumbersAreBelowLast
      <4>1. i = n + 1 \/ i \in 1..n
        BY <3>5
      <4> QED
        BY <3>3, <3>5, <3>6, <3>7, <4>1
    <3>9. OffsetIsLast'
      <4>1. \A x \in Workers : x # w => wk[x].pc # "write"
        BY <1>0, <2>4
      <4> QED
        BY <2>2, <2>4, <4>1 DEF OffsetIsLast, At
    <3>10. VolumesAreDisjoint'
      <4> SUFFICES ASSUME NEW a \in 1..n + 1, NEW b \in 1..n + 1, a # b
                   PROVE  volumes'[a] \cap volumes'[b] = {}
        BY <3>5 DEF VolumesAreDisjoint
      <4>1. (a = n + 1 /\ b \in 1..n) \/ (b = n + 1 /\ a \in 1..n) \/ (a \in 1..n /\ b \in 1..n)
        BY <3>5
      <4>2. CASE a = n + 1 /\ b \in 1..n
        BY <3>3, <3>5, <3>6, <4>2
      <4>3. CASE b = n + 1 /\ a \in 1..n
        BY <3>3, <3>5, <3>6, <4>3
      <4>4. CASE a \in 1..n /\ b \in 1..n
        BY <3>5, <4>4 DEF VolumeInv, VolumesAreDisjoint
      <4> QED
        BY <4>1, <4>2, <4>3, <4>4
    <3> QED
      BY <3>8, <3>9, <3>10 DEF VolumeInv
  <2>5. wk[w].pc = "write" => wk[w].offset = last
    BY DEF VolumeInv, OffsetIsLast, At
  <2> QED
    BY <2>1, <2>3, <2>4, <2>5 DEF LibraryMove, library
<1> QED
  BY <1>1, <1>2, LibraryFrame

LEMMA VolumeInvariant == Spec => [](TypeOK /\ VolumeInv)
<1>1. Init => VolumeInv
  BY IdlePc DEF Init, VolumeInv, NumbersAreBelowLast, OffsetIsLast, VolumesAreDisjoint, At
<1> QED
  BY <1>1, TypeCorrect, VolumeStep, PTL DEF Spec

(* Volumes appended to one novel never share a chapter number, for any     *)
(* number of workers, also when a worker whose lease expired commits late, *)
(* crashes or is retried: what serialises them is the advisory lock, not   *)
(* the lease (lock_volume_append, get_last_chapter_number).                *)
THEOREM NumbersAreNotReused == Spec => []VolumesAreDisjoint
  BY VolumeInvariant, PTL DEF VolumeInv

(* The numbers that a volume append takes are free when it takes them: the *)
(* insert of _write_segments never meets a chapter the novel already has.  *)
THEOREM AppendNeverCollides ==
  Spec => [](_write_segments(last) \cap UNION {volumes[i] : i \in DOMAIN volumes} = {})
<1>1. ASSUME TypeOK, NumbersAreBelowLast
      PROVE  _write_segments(last) \cap UNION {volumes[i] : i \in DOMAIN volumes} = {}
  <2>1. last \in Nat /\ Length \in Nat
    BY <1>1, Bounds DEF TypeOK
  <2>2. _write_segments(last) \cap (1..last) = {}
    BY <2>1 DEF _write_segments
  <2> QED
    BY <1>1, <2>2 DEF NumbersAreBelowLast
<1> QED
  BY <1>1, VolumeInvariant, PTL DEF VolumeInv

----------------------------------------------------------------------------
(* The scraper.                                                            *)

\* A crawl that has started.
Crawling(r) == r.pc \notin {"idle", "source"}

PagesFor(r) == DOMAIN PagesOf(Min(r.todo))

\* What a crawl knows of the source it is at: it has one, its pages are pages
\* of that source, and what it takes and writes is there and numbered.
CrawlOK(r) ==
  /\ r.pc = "source" => r.queue = <<>> /\ r.pending = 0
  /\ Crawling(r) =>
       /\ r.todo # {}
       /\ r.pc = "fetch" => r.at # 0
       /\ r.pc # "fetch" => r.at \in PagesFor(r)
       /\ r.pc = "ad" => KindOf(Min(r.todo)) = "account"
       /\ r.pending # 0 => r.pending \in PagesFor(r)
       /\ \A k \in DOMAIN r.queue : r.queue[k].page \in PagesFor(r)
       /\ r.pc \in {"take", "write"} => r.queue # <<>>
       /\ r.pc = "write" => r.prev \in Nat

\* The chapters' pages are pages of their sources, and there is a last chapter.
RowsOK ==
  /\ \A c \in chapters : c.page \in DOMAIN PagesOf(c.src)
  /\ \E b \in Int : \A c \in chapters : c.num <= b

ScraperTypeInv ==
  /\ ScraperTypeOK
  /\ RowsOK
  /\ \A j \in ScrapeJobs : CrawlOK(job[j])

\* What a step of a crawl may make of the job q: another job, at the same source
\* with the same offset unless it is over with it.
Proceeds(q, r) ==
  /\ r \in Job
  /\ CrawlOK(r)
  /\ Crawling(r) => Crawling(q) /\ r.todo = q.todo /\ r.off = q.off

----------------------------------------------------------------------------
LEMMA MinIsLeast ==
  ASSUME NEW S \in SUBSET Nat, S # {}
  PROVE  Min(S) \in S /\ \A y \in S : Min(S) <= y
<1> DEFINE below == {ss \in Nat \X Nat : ss[1] < ss[2]}
<1>1. IsWellFoundedOn(below, Nat)  BY NatLessThanWellFounded DEF OpToRel
<1> HIDE DEF below
<1>2. PICK x \in S : \A y \in S : ~(<<y, x>> \in below)  BY <1>1, WFMin
<1>3. ASSUME NEW y \in S PROVE x <= y
  <2>1. <<y, x>> \in Nat \X Nat /\ <<y, x>>[1] = y /\ <<y, x>>[2] = x  OBVIOUS
  <2>2. ~(y < x)  BY <1>2, <2>1 DEF below
  <2> QED  BY <2>2
<1> QED  BY <1>3 DEF Min

\* A set of integers with a bound has a greatest member.
LEMMA BoundedHasGreatest ==
  ASSUME NEW S \in SUBSET Int, NEW b \in Int, S # {}, \A x \in S : x <= b
  PROVE  \E x \in S : \A y \in S : y <= x
<1> DEFINE T == {b - x : x \in S}
<1>1. T \in SUBSET Nat /\ T # {}
  <2>1. \A x \in S : x \in Int /\ b - x \in Nat  OBVIOUS
  <2> QED  BY <2>1
<1>2. PICK x \in S : Min(T) = b - x
  <2>1. Min(T) \in T  BY <1>1, MinIsLeast
  <2> QED  BY <2>1
<1>3. ASSUME NEW y \in S PROVE y <= x
  <2>1. b - y \in T  OBVIOUS
  <2>2. Min(T) <= b - y  BY <1>1, <2>1, MinIsLeast
  <2> HIDE DEF T
  <2> QED  BY <1>2, <2>2
<1> QED  BY <1>3

LEMMA IdleJobIs ==
  IdleJob \in Job /\ IdleJob.pc = "idle" /\ IdleJob.queue = <<>> /\ IdleJob.pending = 0
BY DEF IdleJob, Job, Number

LEMMA OverProceeds ==
  ASSUME NEW q, NEW r
  PROVE  Proceeds(q, Over(r))
BY IdleJobIs DEF Proceeds, Over, CrawlOK, Crawling

LEMMA BetweenIs ==
  ASSUME NEW q, NEW r \in Job, NEW S \in SUBSET Sources
  PROVE  Proceeds(q, Between(r, S)) /\ Between(r, S).pc = "source"
<1>1. /\ Between(r, S) \in Job /\ Between(r, S).pc = "source"
      /\ Between(r, S).queue = <<>> /\ Between(r, S).pending = 0
  BY IdleJobIs DEF Between, Job
<1>2. ~Crawling(Between(r, S))  BY <1>1 DEF Crawling
<1> QED  BY <1>1, <1>2 DEF Proceeds, CrawlOK

LEMMA EndSourceProceeds ==
  ASSUME NEW q, NEW r \in Job
  PROVE  Proceeds(q, EndSource(r)) /\ EndSource(r).pc = "source"
<1>1. r.todo \ {Min(r.todo)} \in SUBSET Sources  BY DEF Job
<1> QED  BY <1>1, BetweenIs DEF EndSource

\* The adapter goes to page p.
LEMMA FollowIs ==
  ASSUME NEW r \in Job, r.todo # {}, NEW p \in Nat,
         r.pending # 0 => r.pending \in PagesFor(r),
         \A k \in DOMAIN r.queue : r.queue[k].page \in PagesFor(r)
  PROVE  LET f == Follow(r, p)
         IN  f \in Job /\ CrawlOK(f) /\ (Crawling(f) => f.todo = r.todo /\ f.off = r.off)
<1>1. CASE p = 0
  <2>1. Follow(r, p) = EndSource(r)  BY <1>1 DEF Follow
  <2> QED  BY <2>1, EndSourceProceeds DEF Proceeds, Crawling
<1>2. CASE p # 0
  <2> DEFINE f == [r EXCEPT !.at = p, !.pc = "fetch"]
  <2>1. /\ f \in Job /\ f.pc = "fetch" /\ f.at = p /\ f.todo = r.todo /\ f.off = r.off
        /\ f.pending = r.pending /\ f.queue = r.queue
    BY DEF Job
  <2>2. Follow(r, p) = f  BY <1>2 DEF Follow
  <2> HIDE DEF f
  <2>3. CrawlOK(f)  BY <1>2, <2>1 DEF CrawlOK, Crawling, PagesFor
  <2> QED  BY <2>1, <2>2, <2>3
<1> QED  BY <1>1, <1>2

LEMMA FollowProceeds ==
  ASSUME NEW q \in Job, NEW r \in Job, CrawlOK(q), Crawling(q), NEW p \in Nat,
         r.todo = q.todo, r.off = q.off, r.pending = q.pending, r.queue = q.queue
  PROVE  Proceeds(q, Follow(r, p))
<1>1. /\ r.todo # {} /\ (r.pending # 0 => r.pending \in PagesFor(r))
      /\ \A k \in DOMAIN r.queue : r.queue[k].page \in PagesFor(r)
  BY DEF CrawlOK, PagesFor
<1> QED  BY <1>1, FollowIs DEF Proceeds

----------------------------------------------------------------------------
LEMMA SourceIs ==
  ASSUME ScraperTypeOK, NEW s \in Sources
  PROVE  s \in Nat /\ PagesOf(s) \in Seq(Page)
BY ScraperAssumptions, NovelsAssumption DEF ScraperTypeOK, Sources, Site, PagesOf

LEMMA SrcIs ==
  ASSUME ScraperTypeOK, NEW r \in Job, r.todo # {}
  PROVE  Min(r.todo) \in r.todo /\ Min(r.todo) \in Sources
<1>1. r.todo \in SUBSET Sources  BY DEF Job
<1>2. r.todo \in SUBSET Nat  BY <1>1, SourceIs
<1> QED  BY <1>1, <1>2, MinIsLeast

LEMMA LinkIs ==
  ASSUME ScraperTypeOK, NEW s \in Sources, NEW p \in DOMAIN PagesOf(s)
  PROVE  Link(s, p) \in Nat
<1>1. PagesOf(s)[p] \in Page  BY SourceIs
<1>2. PagesOf(s)[p].next \in Nat  BY <1>1 DEF Page
<1> QED  BY <1>2 DEF Link

LEMMA WholeIs == ASSUME NEW n \in Nat PROVE Whole(n) \in Nat
<1>1. n \div 100 \in Nat  OBVIOUS
<1> QED  BY <1>1 DEF Whole

LEMMA ParseIs == ASSUME NEW pg \in Page PROVE parse_chapter_number(pg) \in Number
BY DEF parse_chapter_number, Page, Number

LEMMA PredictIs ==
  ASSUME ScraperTypeOK, NEW s \in Sources, NEW p \in DOMAIN PagesOf(s)
  PROVE  _predict_next_url(s, p) \in Nat
<1> DEFINE hits == {q \in DOMAIN PagesOf(s) :
                      PagesOf(s)[q].path = Whole(parse_chapter_number(PagesOf(s)[p])) + 100}
<1>1. PagesOf(s) \in Seq(Page)  BY SourceIs
<1>2. hits \in SUBSET Nat /\ Len(PagesOf(s)) + 1 \in Nat  BY <1>1
<1>3. _predict_next_url(s, p) \in {0, Len(PagesOf(s)) + 1}
      \/ (hits # {} /\ _predict_next_url(s, p) = Min(hits))
  BY DEF _predict_next_url
<1> HIDE DEF hits
<1>4. hits # {} => Min(hits) \in Nat  BY <1>2, MinIsLeast
<1> QED  BY <1>2, <1>3, <1>4

LEMMA AdapterNumberIs ==
  ASSUME NEW k, NEW pg \in Page, NEW before \in Number
  PROVE  AdapterNumber(k, pg, before) \in Number
<1>1. parse_chapter_number(pg) \in Number  BY ParseIs
<1>2. pg.path \in Number  BY DEF Page, Number
<1>3. before # NoNum => before + 1 \in Number /\ Whole(before) + 100 \in Number
  BY WholeIs DEF Number
<1> HIDE DEF Number
<1> QED  BY <1>1, <1>2, <1>3 DEF AdapterNumber

LEMMA VisitedIs ==
  ASSUME NEW r \in Job
  PROVE  LET v == [r EXCEPT !.seen = @ \cup {r.at}]
         IN  /\ v \in Job /\ v.pc = r.pc /\ v.todo = r.todo /\ v.off = r.off /\ v.at = r.at
             /\ v.pending = r.pending /\ v.queue = r.queue /\ v.last = r.last
BY DEF Job

LEMMA YieldIs ==
  ASSUME NEW r \in Job, NEW p \in Nat, NEW n \in Number
  PROVE  LET v == Yield([r EXCEPT !.pending = 0], p, n)
         IN  /\ v \in Job /\ v.pc = "take" /\ v.todo = r.todo /\ v.off = r.off /\ v.at = r.at
             /\ v.pending = 0 /\ v.queue = <<[page |-> p, num |-> n]>>
<1> DEFINE w == [r EXCEPT !.pending = 0]
           e == [page |-> p, num |-> n]
<1>1. /\ w \in Job /\ w.pc = r.pc /\ w.todo = r.todo /\ w.off = r.off /\ w.at = r.at
      /\ w.pending = 0
  BY DEF Job
<1>2. <<e>> \in Seq([page : Nat, num : Number])  OBVIOUS
<1> HIDE DEF w, e
<1>3. LET v == [w EXCEPT !.queue = <<e>>, !.last = n, !.pc = "take"]
      IN  /\ v \in Job /\ v.pc = "take" /\ v.todo = w.todo /\ v.off = w.off /\ v.at = w.at
          /\ v.pending = w.pending /\ v.queue = <<e>>
  BY <1>1, <1>2 DEF Job
<1>4. Yield(w, p, n) = [w EXCEPT !.queue = <<e>>, !.last = n, !.pc = "take"]  BY DEF Yield, e
<1> QED  BY <1>1, <1>3, <1>4 DEF w, e

\* A page that was fetched is read, and its chapter is yielded or gone on with.
LEMMA ReadProceeds ==
  ASSUME ScraperTypeInv, NEW j \in ScrapeJobs, job[j].pc \in {"fetch", "ad"},
         job[j].at \in PagesFor(job[j])
  PROVE  Proceeds(job[j], Read(j))
<1> DEFINE q == job[j]
           s == Src(j)
           k == Kind(j)
           p == job[j].at
           to == Link(s, p)
           n == AdapterNumber(k, Here(j), q.last)
           v == Visited(j)
           link == IF to = 0 /\ k = "paged" THEN _predict_next_url(s, p) ELSE to
           guess == k = "paged" /\ to = 0
           r == [v EXCEPT !.link = link, !.predicted = guess]
           first == IF q.pending = 0 THEN p ELSE q.pending
           number == IF q.pending = 0 THEN n ELSE q.last
<1>1. q \in Job /\ CrawlOK(q)  BY DEF ScraperTypeInv, ScraperTypeOK
<1>2. Crawling(q) /\ q.todo # {}  BY <1>1 DEF CrawlOK, Crawling
<1>3. ScraperTypeOK  BY DEF ScraperTypeInv
<1>4. s \in Sources /\ s = Min(q.todo)  BY <1>1, <1>2, <1>3, SrcIs DEF Src
<1>5. p \in DOMAIN PagesOf(s) /\ p \in Nat /\ p # 0
  <2>1. p \in DOMAIN PagesOf(s)  BY <1>4 DEF PagesFor
  <2>2. PagesOf(s) \in Seq(Page)  BY <1>3, <1>4, SourceIs
  <2> QED  BY <2>1, <2>2
<1>6. to \in Nat /\ link \in Nat /\ guess \in BOOLEAN  BY <1>3, <1>4, <1>5, LinkIs, PredictIs
<1>7. q.last \in Number /\ q.pending \in Nat  BY <1>1 DEF Job
<1>8. n \in Number
  <2>1. Here(j) \in Page
    <3>1. PagesOf(s) \in Seq(Page)  BY <1>3, <1>4, SourceIs
    <3> QED  BY <3>1, <1>5 DEF Here
  <2> QED  BY <1>7, <2>1, AdapterNumberIs
<1>9. /\ v \in Job /\ v.pc = q.pc /\ v.todo = q.todo /\ v.off = q.off /\ v.at = q.at
      /\ v.pending = q.pending /\ v.queue = q.queue
  BY <1>1, VisitedIs DEF Visited
<1>10. /\ r \in Job /\ r.pc = q.pc /\ r.todo = q.todo /\ r.off = q.off /\ r.at = q.at
       /\ r.pending = q.pending /\ r.queue = q.queue
  <2> HIDE DEF v, link, guess
  <2>1. v \in Job /\ link \in Nat /\ guess \in BOOLEAN  BY <1>6, <1>9
  <2> QED  BY <1>9, <2>1 DEF Job
<1>11. first \in Nat /\ number \in Number /\ first \in PagesFor(q)
  BY <1>1, <1>2, <1>5, <1>7, <1>8 DEF CrawlOK
<1>12. Read(j) = IF LeadsBack(j, to, n) THEN Over(r)
                 ELSE IF Continued(j, to) THEN [r EXCEPT !.at = to, !.pending = first, !.last = number]
                 ELSE Yield([r EXCEPT !.pending = 0], first, number)
  BY DEF Read
<1>13. Continued(j, to) => to # 0 /\ q.pc = "fetch"
  BY <1>1, <1>2, <1>4 DEF Continued, Kind, CrawlOK, Src
<1> HIDE DEF q, s, k, p, to, n, v, link, guess, r, first, number
<1>14. CASE LeadsBack(j, to, n)  BY <1>12, <1>14, OverProceeds DEF q
<1>15. CASE ~LeadsBack(j, to, n) /\ Continued(j, to)
  <2> DEFINE x == [r EXCEPT !.at = to, !.pending = first, !.last = number]
  <2>1. /\ x \in Job /\ x.pc = r.pc /\ x.todo = r.todo /\ x.off = r.off /\ x.at = to
        /\ x.pending = first /\ x.queue = r.queue
    <3>1. r \in Job /\ to \in Nat /\ first \in Nat /\ number \in Number  BY <1>6, <1>10, <1>11
    <3> QED  BY <3>1 DEF Job
  <2>2. Read(j) = x  BY <1>12, <1>15
  <2> HIDE DEF x
  <2>3. CrawlOK(x)
    BY <1>1, <1>2, <1>10, <1>11, <1>13, <1>15, <2>1 DEF CrawlOK, Crawling, PagesFor
  <2> QED  BY <1>2, <1>10, <2>1, <2>2, <2>3 DEF Proceeds, q
<1>16. CASE ~LeadsBack(j, to, n) /\ ~Continued(j, to)
  <2> DEFINE x == Yield([r EXCEPT !.pending = 0], first, number)
  <2>1. /\ x \in Job /\ x.pc = "take" /\ x.todo = r.todo /\ x.off = r.off /\ x.at = r.at
        /\ x.pending = 0 /\ x.queue = <<[page |-> first, num |-> number]>>
    BY <1>10, <1>11, YieldIs
  <2>2. Read(j) = x  BY <1>12, <1>16
  <2> HIDE DEF x
  <2>3. PagesFor(x) = PagesFor(q)  BY <1>10, <2>1 DEF PagesFor
  <2>4. r.at \in PagesFor(q)  BY <1>10 DEF q
  <2>5. CrawlOK(x)
    BY <1>2, <1>10, <1>11, <2>1, <2>3, <2>4 DEF CrawlOK, Crawling
  <2> QED  BY <1>2, <1>10, <2>1, <2>2, <2>5 DEF Proceeds, q
<1> QED  BY <1>14, <1>15, <1>16

\* The chapters of an archive.
LEMMA ArchiveIs ==
  ASSUME ScraperTypeOK, NEW s \in Sources, NEW from \in DOMAIN PagesOf(s),
         NEW limit \in (Nat \ {0}) \cup {Unlimited}
  PROVE  LET a == archive_chapters(s, from, limit)
         IN  /\ a \in Seq([page : Nat, num : Number]) /\ a # <<>>
             /\ \A i \in DOMAIN a : a[i].page \in DOMAIN PagesOf(s)
<1> DEFINE len == Len(PagesOf(s))
           n == len - from + 1
           m == IF limit = Unlimited \/ n <= limit THEN n ELSE limit
           a == [i \in 1..m |-> [page |-> from + i - 1, num |-> (from + i - 1) * 100]]
<1>1. len \in Nat /\ DOMAIN PagesOf(s) = 1..len  BY SourceIs
<1>2. n \in Nat /\ n > 0  BY <1>1
<1>3. m \in Nat /\ m > 0 /\ m <= n  BY <1>2, ScraperAssumptions
<1> HIDE DEF m
<1>4. ASSUME NEW i \in 1..m PROVE from + i - 1 \in 1..len
  BY <1>1, <1>3
<1>5. ASSUME NEW i \in 1..m
      PROVE  [page |-> from + i - 1, num |-> (from + i - 1) * 100] \in [page : Nat, num : Number]
  BY <1>4, <1>1 DEF Number
<1>6. a \in Seq([page : Nat, num : Number])  BY <1>3, <1>5
<1>7. a # <<>>
  <2>1. 1 \in DOMAIN a  BY <1>3
  <2> HIDE DEF a
  <2> QED  BY <2>1
<1>8. \A i \in DOMAIN a : a[i].page \in DOMAIN PagesOf(s)  BY <1>1, <1>4
<1>9. archive_chapters(s, from, limit) = a  BY DEF archive_chapters, m
<1> QED  BY <1>6, <1>7, <1>8, <1>9

LEMMA JobIs ==
  ASSUME ScraperTypeInv, NEW j \in ScrapeJobs, Crawling(job[j])
  PROVE  /\ ScraperTypeOK
         /\ job[j] \in Job /\ CrawlOK(job[j]) /\ job[j].todo # {}
         /\ Src(j) = Min(job[j].todo) /\ Src(j) \in Sources
         /\ PagesFor(job[j]) = DOMAIN PagesOf(Src(j)) /\ Kind(j) = KindOf(Min(job[j].todo))
<1>1. ScraperTypeOK /\ job[j] \in Job /\ CrawlOK(job[j])  BY DEF ScraperTypeInv, ScraperTypeOK
<1>2. job[j].todo # {}  BY <1>1 DEF CrawlOK
<1> QED  BY <1>1, <1>2, SrcIs DEF Src, PagesFor, Kind

LEMMA FetchedIs ==
  ASSUME ScraperTypeInv, NEW j \in ScrapeJobs, Fetched(j, "ok")
  PROVE  Crawling(job[j]) /\ job[j].pc = "fetch" /\ job[j].at \in PagesFor(job[j])
<1>1. Crawling(job[j]) /\ job[j].pc = "fetch"  BY DEF Fetched, Crawling
<1>2. /\ ScraperTypeOK /\ job[j] \in Job /\ CrawlOK(job[j])
      /\ Src(j) \in Sources /\ PagesFor(job[j]) = DOMAIN PagesOf(Src(j))
  BY <1>1, JobIs
<1>3. job[j].at \in Nat /\ job[j].at # 0  BY <1>1, <1>2 DEF CrawlOK, Job
<1>4. ~(job[j].at > Len(PagesOf(Src(j))))  BY DEF Fetched, safe_fetch
<1>5. PagesOf(Src(j)) \in Seq(Page)  BY <1>2, SourceIs
<1> QED  BY <1>1, <1>2, <1>3, <1>4, <1>5

LEMMA VisitedProceeds ==
  ASSUME NEW j \in ScrapeJobs, job[j] \in Job
  PROVE  /\ Visited(j) \in Job /\ Visited(j).todo = job[j].todo /\ Visited(j).off = job[j].off
         /\ Visited(j).pending = job[j].pending /\ Visited(j).queue = job[j].queue
         /\ Visited(j).at = job[j].at
BY VisitedIs DEF Visited

\* What a fetch comes to.
LEMMA FetchMoves ==
  ASSUME ScraperTypeInv, NEW j \in ScrapeJobs,
         \/ MeetRepeated(j) \/ FetchFails(j) \/ FetchRefused(j) \/ FetchMissing(j)
         \/ OpenIndex(j) \/ MeetPremium(j) \/ MeetBlank(j) \/ PassImage(j)
         \/ ReadPage(j) \/ MeetAd(j)
  PROVE  \E r : Proceeds(job[j], r) /\ Crawls(j, r)
<1> DEFINE v == Visited(j)
<1>1. job[j].pc = "fetch" /\ Crawling(job[j])
  BY DEF MeetRepeated, FetchFails, FetchRefused, FetchMissing, OpenIndex, MeetPremium,
         MeetBlank, PassImage, ReadPage, MeetAd, Fetched, Crawling
<1>2. /\ ScraperTypeOK /\ job[j] \in Job /\ CrawlOK(job[j]) /\ Src(j) \in Sources
      /\ PagesFor(job[j]) = DOMAIN PagesOf(Src(j)) /\ Kind(j) = KindOf(Min(job[j].todo))
  BY <1>1, JobIs
<1>3. /\ v \in Job /\ v.todo = job[j].todo /\ v.off = job[j].off
      /\ v.pending = job[j].pending /\ v.queue = job[j].queue
  BY <1>2, VisitedProceeds
<1> HIDE DEF v
<1>4. \A r : Proceeds(job[j], Over(r))  BY OverProceeds
<1>5. Proceeds(job[j], EndSource(job[j])) /\ Proceeds(job[j], EndSource(v))
  BY <1>2, <1>3, EndSourceProceeds
<1>6. Fetched(j, "ok") => Proceeds(job[j], Follow(v, Link(Src(j), job[j].at)))
  <2> SUFFICES ASSUME Fetched(j, "ok")
               PROVE  Proceeds(job[j], Follow(v, Link(Src(j), job[j].at)))
    OBVIOUS
  <2>1. Link(Src(j), job[j].at) \in Nat  BY <1>2, FetchedIs, LinkIs
  <2> QED  BY <1>1, <1>2, <1>3, <2>1, FollowProceeds
<1>7. Fetched(j, "ok") => Proceeds(job[j], Read(j))  BY <1>1, FetchedIs, ReadProceeds
<1>8. CASE MeetRepeated(j)  BY <1>4, <1>5, <1>8 DEF MeetRepeated
<1>9. CASE FetchFails(j)  BY <1>4, <1>9 DEF FetchFails
<1>10. CASE FetchRefused(j)  BY <1>4, <1>10 DEF FetchRefused
<1>11. CASE FetchMissing(j)  BY <1>4, <1>5, <1>11 DEF FetchMissing, v
<1>12. CASE OpenIndex(j)  BY <1>4, <1>6, <1>12 DEF OpenIndex, v
<1>13. CASE MeetPremium(j)  BY <1>4, <1>5, <1>13 DEF MeetPremium, v
<1>14. CASE MeetBlank(j)  BY <1>4, <1>14 DEF MeetBlank
<1>15. CASE PassImage(j)  BY <1>4, <1>6, <1>15 DEF PassImage, v
<1>16. CASE ReadPage(j)  BY <1>7, <1>16 DEF ReadPage
<1>17. CASE MeetAd(j)
  <2> DEFINE x == [job[j] EXCEPT !.pc = "ad"]
  <2>1. /\ x \in Job /\ x.pc = "ad" /\ x.todo = job[j].todo /\ x.off = job[j].off
        /\ x.at = job[j].at /\ x.pending = job[j].pending /\ x.queue = job[j].queue
    BY <1>2 DEF Job
  <2>2. Crawls(j, x) /\ Fetched(j, "ok") /\ Kind(j) = "account"  BY <1>17 DEF MeetAd
  <2> HIDE DEF x
  <2>3. job[j].at \in PagesFor(job[j])  BY <2>2, FetchedIs
  <2>4. CrawlOK(x)  BY <1>1, <1>2, <2>1, <2>2, <2>3 DEF CrawlOK, Crawling, PagesFor
  <2>5. Proceeds(job[j], x)  BY <1>1, <2>1, <2>4 DEF Proceeds
  <2> QED  BY <2>2, <2>5
<1> QED  BY <1>8, <1>9, <1>10, <1>11, <1>12, <1>13, <1>14, <1>15, <1>16, <1>17

LEMMA HeadIs ==
  ASSUME NEW S, NEW q \in Seq(S), q # <<>>
  PROVE  Head(q) \in S /\ Head(q) = q[1] /\ 1 \in DOMAIN q
OBVIOUS

LEMMA LocalNumberIs ==
  ASSUME NEW r \in Job, r.queue # <<>>
  PROVE  LocalNumber(r) \in Nat
<1>1. r.queue \in Seq([page : Nat, num : Number]) /\ r.prev \in Number  BY DEF Job
<1>2. Head(r.queue) \in [page : Nat, num : Number]  BY <1>1, HeadIs
<1>3. Head(r.queue).num \in Number  BY <1>2
<1> QED  BY <1>1, <1>3 DEF LocalNumber, Number

\* The other steps of a crawl: an ad, an archive, a chapter taken, the next.
LEMMA RunnerMoves ==
  ASSUME ScraperTypeInv, NEW j \in ScrapeJobs,
         \/ AdEnds(j) \/ ReadArchive(j) \/ Take(j) \/ GoOn(j) \/ Bail(j) \/ Finish(j)
  PROVE  \E r : Proceeds(job[j], r) /\ Crawls(j, r)
<1>1. \A r : Proceeds(job[j], Over(r))  BY OverProceeds
<1>2. CASE AdEnds(j)
  <2>1. job[j].pc = "ad" /\ Crawling(job[j])  BY <1>2 DEF AdEnds, Crawling
  <2>2. job[j].at \in PagesFor(job[j])  BY <2>1, JobIs DEF CrawlOK
  <2>3. Proceeds(job[j], Read(j))  BY <2>1, <2>2, ReadProceeds
  <2> QED  BY <1>1, <1>2, <2>3 DEF AdEnds
<1>3. CASE ReadArchive(j)
  <2>1. Fetched(j, "ok")  BY <1>3 DEF ReadArchive
  <2>2. job[j].pc = "fetch" /\ Crawling(job[j]) /\ job[j].at \in PagesFor(job[j])
    BY <2>1, FetchedIs
  <2>3. /\ ScraperTypeOK /\ job[j] \in Job /\ CrawlOK(job[j]) /\ Src(j) \in Sources
        /\ PagesFor(job[j]) = DOMAIN PagesOf(Src(j))
    BY <2>2, JobIs
  <2> DEFINE v == Visited(j)
             a == archive_chapters(Src(j), job[j].at, AdapterLimit(j, job[j]))
             x == [v EXCEPT !.queue = a, !.pc = "take"]
  <2>4. /\ v \in Job /\ v.todo = job[j].todo /\ v.off = job[j].off
        /\ v.pending = job[j].pending /\ v.at = job[j].at
    BY <2>3, VisitedProceeds
  <2>5. AdapterLimit(j, job[j]) \in (Nat \ {0}) \cup {Unlimited}
    <3>1. job[j].max \in (Nat \ {0}) \cup {Unlimited}  BY <2>3 DEF Job
    <3> QED  BY <3>1 DEF AdapterLimit
  <2>6. /\ a \in Seq([page : Nat, num : Number]) /\ a # <<>>
        /\ \A i \in DOMAIN a : a[i].page \in PagesFor(job[j])
    <3> HIDE DEF a
    <3>1. job[j].at \in DOMAIN PagesOf(Src(j))  BY <2>2, <2>3
    <3> QED  BY <2>3, <2>5, <3>1, ArchiveIs DEF a
  <2> HIDE DEF v, a
  <2>7. /\ x \in Job /\ x.pc = "take" /\ x.todo = v.todo /\ x.off = v.off /\ x.at = v.at
        /\ x.pending = v.pending /\ x.queue = a
    BY <2>4, <2>6 DEF Job
  <2>8. CrawlOK(x)
    <3> HIDE DEF x
    <3>1. PagesFor(x) = PagesFor(job[j])  BY <2>4, <2>7 DEF PagesFor
    <3> QED  BY <2>2, <2>3, <2>4, <2>6, <2>7, <3>1 DEF CrawlOK, Crawling
  <2>9. Proceeds(job[j], x)  BY <2>2, <2>4, <2>7, <2>8 DEF Proceeds
  <2> QED  BY <1>1, <1>3, <2>9 DEF ReadArchive, v, a
<1>4. CASE Take(j)
  <2> DEFINE r == job[j]
             n == LocalNumber(r)
             there == \E c \in chapters : c.num = n + r.off
             more == IF Head(r.queue).page \in r.saved THEN 0 ELSE 1
             x == [r EXCEPT !.prev = n, !.exists = there, !.fresh = @ + more,
                            !.count = @ + 1, !.pc = "write"]
  <2>1. r.pc = "take" /\ Crawling(r)  BY <1>4 DEF Take, Crawling
  <2>2. ScraperTypeOK /\ r \in Job /\ CrawlOK(r) /\ r.queue # <<>>  BY <2>1, JobIs DEF CrawlOK
  <2>3. n \in Nat /\ there \in BOOLEAN /\ more \in Nat  BY <2>2, LocalNumberIs
  <2>4. Crawls(j, IF OutOfOrder(r) THEN Over(r) ELSE x)  BY <1>4 DEF Take
  <2> HIDE DEF r, n, there, more
  <2>5. /\ x \in Job /\ x.pc = "write" /\ x.todo = r.todo /\ x.off = r.off /\ x.at = r.at
        /\ x.pending = r.pending /\ x.queue = r.queue /\ x.prev = n
    <3>1. n \in Number  BY <2>3 DEF Number
    <3>2. r.fresh + more \in Nat /\ r.count + 1 \in Nat  BY <2>2, <2>3 DEF Job
    <3> QED  BY <2>2, <2>3, <3>1, <3>2 DEF Job
  <2> HIDE DEF x
  <2>6. CrawlOK(x)  BY <2>1, <2>2, <2>3, <2>5 DEF CrawlOK, Crawling, PagesFor
  <2>7. Proceeds(r, x)  BY <2>1, <2>5, <2>6 DEF Proceeds
  <2> QED  BY <1>1, <2>4, <2>7 DEF r
<1>5. CASE GoOn(j)
  <2> DEFINE r == job[j]
             to == IF Kind(j) = "account" THEN Link(Src(j), r.at) ELSE r.link
             x == [r EXCEPT !.pc = "take"]
             next == IF Kind(j) = "archive" THEN 0 ELSE to
  <2>1. r.pc = "after" /\ Crawling(r)  BY <1>5 DEF GoOn, Crawling
  <2>2. /\ ScraperTypeOK /\ r \in Job /\ CrawlOK(r) /\ r.at \in PagesFor(r)
        /\ Src(j) \in Sources /\ PagesFor(r) = DOMAIN PagesOf(Src(j))
    BY <2>1, JobIs DEF CrawlOK
  <2>3. Link(Src(j), r.at) \in Nat /\ r.link \in Nat  BY <2>2, LinkIs DEF Job
  <2>4. Proceeds(r, Follow(r, next))
    <3>1. next \in Nat  BY <2>3
    <3> HIDE DEF next
    <3> QED  BY <2>1, <2>2, <3>1, FollowProceeds
  <2>5. Proceeds(r, EndSource(r))  BY <2>2, EndSourceProceeds
  <2>6. r.queue # <<>> => Proceeds(r, x)
    <3> SUFFICES ASSUME r.queue # <<>> PROVE Proceeds(r, x)  OBVIOUS
    <3> HIDE DEF r
    <3>1. /\ x \in Job /\ x.pc = "take" /\ x.todo = r.todo /\ x.off = r.off /\ x.at = r.at
          /\ x.pending = r.pending /\ x.queue = r.queue
      BY <2>2 DEF Job
    <3> HIDE DEF x
    <3>2. CrawlOK(x)  BY <2>1, <2>2, <3>1 DEF CrawlOK, Crawling, PagesFor
    <3> QED  BY <2>1, <3>1, <3>2 DEF Proceeds
  <2>7. Crawls(j, IF r.max # Unlimited /\ r.wrote >= r.max THEN EndSource(r)
                  ELSE IF Limited(j, r) THEN EndSource(r)
                  ELSE IF r.queue # <<>> THEN x ELSE Follow(r, next))
    BY <1>5 DEF GoOn
  <2> HIDE DEF r, x, next
  <2> QED  BY <2>4, <2>5, <2>6, <2>7 DEF r
<1>6. CASE Bail(j)  BY <1>1, <1>6 DEF Bail
<1>7. CASE Finish(j)  BY <1>1, <1>7 DEF Finish, Crawls
<1> QED  BY <1>2, <1>3, <1>4, <1>5, <1>6, <1>7

\* The source's row with the highest number is one of its rows.
LEMMA ResumeRowIs ==
  ASSUME ScraperTypeInv, NEW s \in Sources, Rows(s) # {}
  PROVE  /\ resume_url(s) \in Rows(s) /\ resume_url(s) \in Row
         /\ resume_url(s).page \in DOMAIN PagesOf(s)
         /\ \A d \in Rows(s) : d.num <= resume_url(s).num
<1> DEFINE nums == {c.num : c \in Rows(s)}
<1>1. Rows(s) \subseteq chapters /\ chapters \subseteq Row
  BY DEF Rows, ScraperTypeInv, ScraperTypeOK
<1>2. PICK b \in Int : \A c \in chapters : c.num <= b  BY DEF ScraperTypeInv, RowsOK
<1>3. nums \in SUBSET Int /\ nums # {} /\ \A x \in nums : x <= b  BY <1>1, <1>2 DEF Row
<1> HIDE DEF nums
<1>4. PICK x \in nums : \A y \in nums : y <= x  BY <1>3, BoundedHasGreatest
<1>5. \E c \in Rows(s) : \A d \in Rows(s) : d.num <= c.num  BY <1>4 DEF nums
<1>6. resume_url(s) \in Rows(s) /\ \A d \in Rows(s) : d.num <= resume_url(s).num
  BY <1>5 DEF resume_url
<1> QED  BY <1>1, <1>6 DEF ScraperTypeInv, RowsOK, Rows

\* A source is started: its job has the source's offset.
LEMMA StartIs ==
  ASSUME ScraperTypeInv, NEW j \in ScrapeJobs, StartSource(j)
  PROVE  \E r : /\ Crawls(j, r) /\ r \in Job /\ CrawlOK(r)
                /\ Crawling(r) => r.todo = job[j].todo /\ r.off = offset[Min(r.todo)]
<1> DEFINE q == job[j]
           s == Src(j)
           resumed == ~q.force /\ Rows(s) # {}
           pages == IF q.force THEN {} ELSE {c.page : c \in Rows(s)}
           r == [q EXCEPT !.resume = resumed, !.off = offset[s], !.saved = pages]
           l == [r EXCEPT !.last = resume_url(s).loc]
           Starts(x) == /\ x \in Job /\ CrawlOK(x)
                        /\ Crawling(x) => x.todo = q.todo /\ x.off = offset[Min(x.todo)]
<1>1. ScraperTypeOK /\ q \in Job /\ CrawlOK(q)  BY DEF ScraperTypeInv, ScraperTypeOK
<1>2. q.pc = "source" /\ q.todo # {}  BY DEF StartSource
<1>3. s \in Sources /\ s = Min(q.todo)  BY <1>1, <1>2, SrcIs DEF Src
<1>4. q.queue = <<>> /\ q.pending = 0  BY <1>1, <1>2 DEF CrawlOK
<1>5. offset[s] \in Int /\ resumed \in BOOLEAN /\ pages \in SUBSET Nat
  <2>1. offset[s] \in Int  BY <1>1, <1>3 DEF ScraperTypeOK
  <2>2. \A c \in Rows(s) : c.page \in Nat  BY <1>1 DEF ScraperTypeOK, Rows, Row
  <2>3. pages \in SUBSET Nat  BY <2>2
  <2> QED  BY <2>1, <2>3
<1> HIDE DEF resumed, pages
<1>6. /\ r \in Job /\ r.todo = q.todo /\ r.off = offset[s] /\ r.queue = q.queue
      /\ r.pending = q.pending
  <2> HIDE DEF q
  <2> QED  BY <1>1, <1>5 DEF Job
<1> HIDE DEF r
<1>7. ASSUME NEW p \in Nat PROVE Starts(Follow(r, p))
  <2>1. r.queue = <<>> /\ r.pending = 0 /\ r.todo # {}  BY <1>2, <1>4, <1>6
  <2>2. LET f == Follow(r, p)
        IN  f \in Job /\ CrawlOK(f) /\ (Crawling(f) => f.todo = r.todo /\ f.off = r.off)
    BY <1>6, <2>1, FollowIs
  <2> QED  BY <1>3, <1>6, <2>2
<1>8. Starts(Over(r))
  BY OverProceeds, IdleJobIs DEF Proceeds, Over, Crawling
<1>9. resumed => Starts(Follow(r, resume_url(s).page))
  BY <1>3, <1>7, ResumeRowIs DEF resumed, Row
<1>10. resumed => Starts(AfterCheckpoint(r, s, resume_url(s)))
  <2> SUFFICES ASSUME resumed PROVE Starts(AfterCheckpoint(r, s, resume_url(s)))  OBVIOUS
  <2>1. resume_url(s).loc \in Number /\ resume_url(s).page \in DOMAIN PagesOf(s)
    BY <1>3, ResumeRowIs DEF resumed, Row, Number
  <2>2. /\ l \in Job /\ l.todo = r.todo /\ l.off = r.off /\ l.queue = r.queue
        /\ l.pending = r.pending
    BY <1>6, <2>1 DEF Job
  <2>3. Link(s, resume_url(s).page) \in Nat  BY <1>1, <1>3, <2>1, LinkIs
  <2>4. AfterCheckpoint(r, s, resume_url(s)) = Follow(l, Link(s, resume_url(s).page))
    BY DEF AfterCheckpoint
  <2> HIDE DEF l
  <2>5. l.queue = <<>> /\ l.pending = 0 /\ l.todo # {}  BY <1>2, <1>4, <1>6, <2>2
  <2>6. LET f == Follow(l, Link(s, resume_url(s).page))
        IN  f \in Job /\ CrawlOK(f) /\ (Crawling(f) => f.todo = l.todo /\ f.off = l.off)
    BY <2>2, <2>3, <2>5, FollowIs
  <2> QED  BY <1>3, <1>6, <2>2, <2>4, <2>6
<1>11. Crawls(j, IF ~LoggedIn(j) THEN Over(r)
                 ELSE IF ~resumed THEN Follow(r, 1)
                 ELSE IF Kind(j) = "account" THEN AfterCheckpoint(r, s, resume_url(s))
                 ELSE Follow(r, resume_url(s).page))
  BY DEF StartSource, Crawls, resumed, pages, r
<1>12. Starts(Follow(r, 1))  BY <1>7
<1> HIDE DEF Starts
<1>13. PICK x : Crawls(j, x) /\ Starts(x)  BY <1>8, <1>9, <1>10, <1>11, <1>12
<1> QED  BY <1>13 DEF Starts

\* The jobs after a step that changes one of them.
LEMMA JobsStep ==
  ASSUME ScraperTypeInv, NEW j \in ScrapeJobs, NEW r \in Job, CrawlOK(r),
         job' = [job EXCEPT ![j] = r], UNCHANGED site
  PROVE  (job \in [ScrapeJobs -> Job])' /\ (\A i \in ScrapeJobs : CrawlOK(job[i]))'
<1>1. job \in [ScrapeJobs -> Job] /\ \A i \in ScrapeJobs : CrawlOK(job[i])
  BY DEF ScraperTypeInv, ScraperTypeOK
<1>2. Job' = Job  BY DEF Job, Sources
<1>3. job' \in [ScrapeJobs -> Job]  BY <1>1
<1>4. ASSUME NEW i \in ScrapeJobs PROVE CrawlOK(job[i])'
  <2>1. CrawlOK(job'[i])  BY <1>1
  <2> QED  BY <2>1 DEF CrawlOK, Crawling, PagesFor, PagesOf, KindOf
<1> QED  BY <1>2, <1>3, <1>4

\* The rest of the state, when it stays.
LEMMA RestStays ==
  ASSUME ScraperTypeInv, UNCHANGED <<site, offset, chapters>>
  PROVE  /\ (site \in Novels)' /\ (offset \in [Sources -> Int])' /\ (chapters \subseteq Row)'
         /\ (\A c, d \in chapters : c.num = d.num => c = d)' /\ RowsOK'
<1>1. ScraperTypeOK /\ RowsOK  BY DEF ScraperTypeInv
<1>2. RowsOK'  BY <1>1 DEF RowsOK, PagesOf
<1> QED  BY <1>1, <1>2 DEF ScraperTypeOK, Sources, Row

LEMMA CrawlKeepsTypes ==
  ASSUME ScraperTypeInv, NEW j \in ScrapeJobs, NEW r \in Job, CrawlOK(r), Crawls(j, r)
  PROVE  ScraperTypeInv'
<1>1. UNCHANGED <<site, opened, offset, chapters, patch, cookies, bound>>
  BY DEF Crawls
<1>2. (job \in [ScrapeJobs -> Job])' /\ (\A i \in ScrapeJobs : CrawlOK(job[i]))'
  BY <1>1, JobsStep DEF Crawls
<1>3. ScraperTypeOK  BY DEF ScraperTypeInv
<1>4. /\ (opened \subseteq Sources \X Nat)' /\ (cookies \in BOOLEAN)'
      /\ (patch \in [Editors -> {<<>>} \cup (Sources \X Int \X Int)])'
      /\ (bound \in [scheduled : Nat, faults : Nat, renumbered : Nat])'
  BY <1>1, <1>3 DEF ScraperTypeOK, Sources
<1> QED  BY <1>1, <1>2, <1>4, RestStays DEF ScraperTypeInv, ScraperTypeOK

LEMMA WrittenIs ==
  ASSUME NEW r \in Job, r.queue # <<>>, NEW w \in Nat
  PROVE  LET x == [r EXCEPT !.wrote = @ + w, !.queue = Tail(@), !.exists = FALSE, !.pc = "after"]
         IN  /\ x \in Job /\ x.pc = "after" /\ x.todo = r.todo /\ x.off = r.off /\ x.at = r.at
             /\ x.pending = r.pending /\ x.queue = Tail(r.queue)
<1> DEFINE E == [page : Nat, num : Number]
<1>1. r.queue \in Seq(E) /\ r.wrote + w \in Nat  BY DEF Job
<1>2. Tail(r.queue) \in Seq(E)
  <2> HIDE DEF E
  <2> QED  BY <1>1
<1> QED  BY <1>1, <1>2 DEF Job

LEMMA TailIs ==
  ASSUME NEW S, NEW q \in Seq(S), q # <<>>
  PROVE  \A k \in DOMAIN Tail(q) : k + 1 \in DOMAIN q /\ Tail(q)[k] = q[k + 1]
OBVIOUS

\* upsert_ingested_chapter: the row, and what becomes of the job.
LEMMA UpsertIs ==
  ASSUME ScraperTypeInv, NEW j \in ScrapeJobs, Upsert(j)
  PROVE  \E entry \in Row, x \in Job :
           /\ Proceeds(job[j], x) /\ job' = [job EXCEPT ![j] = x]
           /\ chapters' \in {chapters, {c \in chapters : c.num # entry.num} \cup {entry}}
           /\ Crawling(job[j]) /\ entry.src = Src(j) /\ entry.num = entry.loc + job[j].off
           /\ entry.page \in DOMAIN PagesOf(entry.src)
           /\ UNCHANGED <<site, opened, offset, patch, cookies, bound>>
<1> DEFINE r == job[j]
           w == r.force \/ ~r.exists
           entry == [num |-> r.prev + r.off, src |-> Src(j), page |-> Head(r.queue).page, loc |-> r.prev]
           x == [r EXCEPT !.wrote = @ + (IF w THEN 1 ELSE 0), !.queue = Tail(@),
                          !.exists = FALSE, !.pc = "after"]
           E == [page : Nat, num : Number]
<1>1. r.pc = "write" /\ Crawling(r)  BY DEF Upsert, Crawling
<1>2. /\ ScraperTypeOK /\ r \in Job /\ CrawlOK(r) /\ Src(j) \in Sources
      /\ PagesFor(r) = DOMAIN PagesOf(Src(j))
  BY <1>1, JobIs
<1>3. r.queue # <<>> /\ r.prev \in Nat /\ r.at \in PagesFor(r)  BY <1>1, <1>2 DEF CrawlOK
<1>4. r.queue \in Seq(E) /\ r.off \in Int  BY <1>2 DEF Job
<1>5. Head(r.queue) \in E /\ Head(r.queue) = r.queue[1] /\ 1 \in DOMAIN r.queue
  <2> HIDE DEF E
  <2> QED  BY <1>3, <1>4, HeadIs
<1>6. Head(r.queue).page \in Nat /\ Head(r.queue).page \in PagesFor(r)
  BY <1>1, <1>2, <1>5 DEF CrawlOK
<1>7. /\ entry \in Row /\ entry.src = Src(j) /\ entry.num = entry.loc + r.off
      /\ entry.page \in DOMAIN PagesOf(entry.src)
  BY <1>2, <1>3, <1>4, <1>6 DEF Row
<1>8. /\ x \in Job /\ x.pc = "after" /\ x.todo = r.todo /\ x.off = r.off /\ x.at = r.at
      /\ x.pending = r.pending /\ x.queue = Tail(r.queue)
  <2>1. (IF w THEN 1 ELSE 0) \in Nat  OBVIOUS
  <2> HIDE DEF r, w
  <2> QED  BY <1>2, <1>3, <2>1, WrittenIs
<1>9. \A k \in DOMAIN Tail(r.queue) :
        k + 1 \in DOMAIN r.queue /\ Tail(r.queue)[k] = r.queue[k + 1]
  <2> HIDE DEF E
  <2> QED  BY <1>3, <1>4, TailIs
<1>10. CrawlOK(x)
  <2> HIDE DEF x
  <2>1. PagesFor(x) = PagesFor(r)  BY <1>8 DEF PagesFor
  <2>2. \A k \in DOMAIN x.queue : x.queue[k].page \in PagesFor(x)
    BY <1>1, <1>2, <1>8, <1>9, <2>1 DEF CrawlOK
  <2> QED  BY <1>1, <1>2, <1>3, <1>8, <2>1, <2>2 DEF CrawlOK, Crawling
<1>11. Proceeds(r, x)  BY <1>1, <1>8, <1>10 DEF Proceeds
<1>12. job' = [job EXCEPT ![j] = x]
  <2>1. job \in [ScrapeJobs -> Job]  BY <1>2 DEF ScraperTypeOK
  <2> QED  BY <2>1 DEF Upsert
<1>13. chapters' \in {chapters, {c \in chapters : c.num # entry.num} \cup {entry}}
       /\ UNCHANGED <<site, opened, offset, patch, cookies, bound>>
  BY DEF Upsert
<1> HIDE DEF entry, x
<1> QED  BY <1>1, <1>7, <1>8, <1>11, <1>12, <1>13

LEMMA UpsertKeepsTypes ==
  ASSUME ScraperTypeInv, NEW j \in ScrapeJobs, Upsert(j)
  PROVE  ScraperTypeInv'
<1>1. PICK entry \in Row, x \in Job :
           /\ Proceeds(job[j], x) /\ job' = [job EXCEPT ![j] = x]
           /\ chapters' \in {chapters, {c \in chapters : c.num # entry.num} \cup {entry}}
           /\ entry.page \in DOMAIN PagesOf(entry.src)
           /\ UNCHANGED <<site, opened, offset, patch, cookies, bound>>
  BY UpsertIs
<1>2. ScraperTypeOK /\ RowsOK  BY DEF ScraperTypeInv
<1>3. (job \in [ScrapeJobs -> Job])' /\ (\A i \in ScrapeJobs : CrawlOK(job[i]))'
  BY <1>1, JobsStep DEF Proceeds
<1>4. /\ chapters' \subseteq Row /\ (\A c, d \in chapters' : c.num = d.num => c = d)
      /\ \A c \in chapters' : c.page \in DOMAIN PagesOf(c.src)
  BY <1>1, <1>2 DEF ScraperTypeOK, RowsOK
<1>5. \E b \in Int : \A c \in chapters' : c.num <= b
  <2>1. PICK b \in Int : \A c \in chapters : c.num <= b  BY <1>2 DEF RowsOK
  <2> DEFINE m == IF entry.num <= b THEN b ELSE entry.num
  <2>2. entry.num \in Int /\ \A c \in chapters : c.num \in Int  BY <1>2 DEF Row, ScraperTypeOK
  <2>3. m \in Int /\ \A c \in chapters' : c.num <= m  BY <1>1, <2>1, <2>2
  <2> QED  BY <2>3
<1>6. Row' = Row /\ Sources' = Sources  BY <1>1 DEF Row, Sources
<1>7. RowsOK'  BY <1>1, <1>4, <1>5 DEF RowsOK, PagesOf
<1>8. ScraperTypeOK'  BY <1>1, <1>2, <1>3, <1>4, <1>6 DEF ScraperTypeOK
<1> QED  BY <1>3, <1>7, <1>8 DEF ScraperTypeInv

\* A job is asked to stop, is queued again after a crash, or is scheduled.
LEMMA CommandIs ==
  ASSUME ScraperTypeInv,
         \/ \E j \in ScrapeJobs : RequestCancel(j) \/ WorkerDies(j)
         \/ \E target \in {{s} : s \in Sources} \cup {Sources}, force \in Forces, max \in Limits :
              Schedule(target, force, max)
  PROVE  \E j \in ScrapeJobs, x \in Job :
           /\ Proceeds(job[j], x) /\ job' = [job EXCEPT ![j] = x]
           /\ bound' \in [scheduled : Nat, faults : Nat, renumbered : Nat]
           /\ UNCHANGED <<site, opened, offset, chapters, patch, cookies>>
<1>1. /\ job \in [ScrapeJobs -> Job] /\ \A j \in ScrapeJobs : CrawlOK(job[j])
      /\ bound \in [scheduled : Nat, faults : Nat, renumbered : Nat]
  BY DEF ScraperTypeInv, ScraperTypeOK
<1>2. /\ [bound EXCEPT !.faults = @ + 1] \in [scheduled : Nat, faults : Nat, renumbered : Nat]
      /\ [bound EXCEPT !.scheduled = @ + 1] \in [scheduled : Nat, faults : Nat, renumbered : Nat]
  BY <1>1
<1>3. ASSUME NEW j \in ScrapeJobs, RequestCancel(j)
      PROVE  \E x \in Job : Proceeds(job[j], x) /\ job' = [job EXCEPT ![j] = x]
  <2> DEFINE r == job[j]
             x == [r EXCEPT !.cancel = TRUE]
  <2>1. r \in Job /\ CrawlOK(r)  BY <1>1
  <2>2. job' = [job EXCEPT ![j] = x]  BY <1>1, <1>3 DEF RequestCancel
  <2> HIDE DEF r
  <2>3. /\ x \in Job /\ x.pc = r.pc /\ x.todo = r.todo /\ x.off = r.off /\ x.at = r.at
        /\ x.pending = r.pending /\ x.queue = r.queue /\ x.prev = r.prev
    BY <2>1 DEF Job
  <2> HIDE DEF x
  <2>4. CrawlOK(x)  BY <2>1, <2>3 DEF CrawlOK, Crawling, PagesFor
  <2>5. Proceeds(r, x)  BY <2>1, <2>3, <2>4 DEF Proceeds, Crawling
  <2> QED  BY <2>2, <2>3, <2>5 DEF r
<1>4. ASSUME NEW j \in ScrapeJobs, WorkerDies(j)
      PROVE  \E x \in Job : Proceeds(job[j], x) /\ job' = [job EXCEPT ![j] = x]
  <2>1. job[j] \in Job /\ job[j].target \in SUBSET Sources  BY <1>1 DEF Job
  <2>2. Proceeds(job[j], Between(job[j], job[j].target))  BY <2>1, BetweenIs
  <2>3. job' = [job EXCEPT ![j] = Between(job[j], job[j].target)]  BY <1>1, <1>4 DEF WorkerDies
  <2> QED  BY <2>2, <2>3 DEF Proceeds
<1>5. ASSUME NEW target \in {{s} : s \in Sources} \cup {Sources}, NEW force \in Forces,
             NEW max \in Limits, Schedule(target, force, max)
      PROVE  \E j \in ScrapeJobs, x \in Job :
               Proceeds(job[j], x) /\ job' = [job EXCEPT ![j] = x]
  <2> DEFINE j == CHOOSE i \in ScrapeJobs : ~Active(i)
             r == [IdleJob EXCEPT !.target = target, !.force = force, !.max = max]
  <2>1. j \in ScrapeJobs  BY <1>5 DEF Schedule
  <2>2. r \in Job
    <3>1. /\ target \in SUBSET Sources /\ force \in BOOLEAN
          /\ max \in (Nat \ {0}) \cup {Unlimited}
      BY ScraperAssumptions
    <3> QED  BY <3>1, IdleJobIs DEF Job
  <2>3. job' = [job EXCEPT ![j] = Between(r, target)]  BY <1>5 DEF Schedule
  <2> HIDE DEF j, r
  <2>4. Proceeds(job[j], Between(r, target))
    <3>1. target \in SUBSET Sources  OBVIOUS
    <3> QED  BY <2>2, <3>1, BetweenIs
  <2> QED  BY <2>1, <2>3, <2>4 DEF Proceeds
<1>6. CASE \E j \in ScrapeJobs : RequestCancel(j) \/ WorkerDies(j)
  <2>1. PICK j \in ScrapeJobs : RequestCancel(j) \/ WorkerDies(j)  BY <1>6
  <2>2. /\ bound' \in [scheduled : Nat, faults : Nat, renumbered : Nat]
        /\ UNCHANGED <<site, opened, offset, chapters, patch, cookies>>
    BY <1>2, <2>1 DEF RequestCancel, WorkerDies
  <2> QED  BY <1>3, <1>4, <2>1, <2>2
<1>7. CASE \E target \in {{s} : s \in Sources} \cup {Sources}, force \in Forces, max \in Limits :
              Schedule(target, force, max)
  <2>1. PICK target \in {{s} : s \in Sources} \cup {Sources}, force \in Forces, max \in Limits :
               Schedule(target, force, max)
    BY <1>7
  <2>2. /\ bound' \in [scheduled : Nat, faults : Nat, renumbered : Nat]
        /\ UNCHANGED <<site, opened, offset, chapters, patch, cookies>>
    BY <1>2, <2>1 DEF Schedule
  <2> QED  BY <1>5, <2>1, <2>2
<1> QED  BY <1>6, <1>7

\* The steps of the sites, the cookies and the owner's requests change no job
\* and no chapter.
LEMMA OutsideKeepsTypes ==
  ASSUME ScraperTypeInv,
         \/ \E s \in Sources : \E p \in DOMAIN PagesOf(s) : SiteChanges(s, p)
         \/ SaveCookies
         \/ \E e \in Editors : \E s \in Sources : \E new \in Offsets[s] : RenumberReads(e, s, new)
  PROVE  ScraperTypeInv' /\ UNCHANGED <<site, offset, chapters, job>>
<1>1. ScraperTypeOK  BY DEF ScraperTypeInv
<1>2. UNCHANGED <<site, offset, chapters, job>>  BY DEF SiteChanges, SaveCookies, RenumberReads
<1>3. (job \in [ScrapeJobs -> Job])' /\ (\A i \in ScrapeJobs : CrawlOK(job[i]))'
  BY <1>2 DEF ScraperTypeInv, ScraperTypeOK, Job, Sources, CrawlOK, Crawling, PagesFor, PagesOf, KindOf
<1>4. (opened \subseteq Sources \X Nat)' /\ (cookies \in BOOLEAN)'
  <2>1. Sources' = Sources  BY <1>2 DEF Sources
  <2>2. CASE \E s \in Sources : \E p \in DOMAIN PagesOf(s) : SiteChanges(s, p)
    <3>0. PICK s \in Sources : \E p \in DOMAIN PagesOf(s) : SiteChanges(s, p)  BY <2>2
    <3>1. PICK p \in DOMAIN PagesOf(s) : SiteChanges(s, p)  BY <3>0
    <3>2. PagesOf(s) \in Seq(Page)  BY <1>1, SourceIs
    <3>3. p \in Nat  BY <3>2
    <3> QED  BY <1>1, <2>1, <3>1, <3>3 DEF SiteChanges, ScraperTypeOK
  <2>3. CASE SaveCookies  BY <1>1, <2>1, <2>3 DEF SaveCookies, ScraperTypeOK
  <2>4. CASE \E e \in Editors : \E s \in Sources : \E new \in Offsets[s] : RenumberReads(e, s, new)
    BY <1>1, <2>1, <2>4 DEF RenumberReads, ScraperTypeOK
  <2> QED  BY <2>2, <2>3, <2>4
<1>5. /\ (patch \in [Editors -> {<<>>} \cup (Sources \X Int \X Int)])'
      /\ (bound \in [scheduled : Nat, faults : Nat, renumbered : Nat])'
  <2>1. Sources' = Sources  BY <1>2 DEF Sources
  <2>2. CASE UNCHANGED <<patch, bound>>  BY <1>1, <2>1, <2>2 DEF ScraperTypeOK
  <2>3. CASE \E e \in Editors : \E s \in Sources : \E new \in Offsets[s] : RenumberReads(e, s, new)
    <3>0. PICK e \in Editors, s \in Sources : \E new \in Offsets[s] : RenumberReads(e, s, new)
      BY <2>3
    <3>1. PICK new \in Offsets[s] : RenumberReads(e, s, new)  BY <3>0
    <3>2. offset[s] \in Int /\ new \in Int
      BY <1>1, ScraperAssumptions DEF ScraperTypeOK, Sources
    <3>3. <<s, offset[s], new>> \in Sources \X Int \X Int  BY <3>2
    <3>4. patch' \in [Editors -> {<<>>} \cup (Sources \X Int \X Int)]
      BY <1>1, <3>1, <3>3 DEF RenumberReads, ScraperTypeOK
    <3>5. bound' \in [scheduled : Nat, faults : Nat, renumbered : Nat]
      BY <1>1, <3>1 DEF RenumberReads, ScraperTypeOK
    <3> QED  BY <2>1, <3>4, <3>5
  <2> QED  BY <2>2, <2>3 DEF SiteChanges, SaveCookies
<1> QED  BY <1>2, <1>3, <1>4, <1>5, RestStays DEF ScraperTypeInv, ScraperTypeOK

LEMMA MovedRow ==
  ASSUME NEW c \in Row, NEW delta \in Int
  PROVE  LET m == [c EXCEPT !.num = @ + delta]
         IN  m \in Row /\ m.num = c.num + delta /\ m.src = c.src /\ m.page = c.page /\ m.loc = c.loc
BY DEF Row

\* The rows of a source after a renumbering.
LEMMA MovedIs ==
  ASSUME ScraperTypeInv, NEW s \in Sources, NEW delta \in Int
  PROVE  /\ \A m \in Moved(s, delta) :
              /\ m \in Row /\ m.src = s
              /\ \E c \in Rows(s) : m.num = c.num + delta /\ m.page = c.page /\ m.loc = c.loc
         /\ \A m, n \in Moved(s, delta) : m.num = n.num => m = n
<1>1. /\ Rows(s) \subseteq chapters /\ chapters \subseteq Row
      /\ \A c \in Rows(s) : c.src = s
      /\ \A c, d \in chapters : c.num = d.num => c = d
  BY DEF Rows, ScraperTypeInv, ScraperTypeOK
<1>2. ASSUME NEW m \in Moved(s, delta)
      PROVE  \E c \in Rows(s) : /\ m = [c EXCEPT !.num = @ + delta] /\ m \in Row
                                /\ m.num = c.num + delta /\ m.src = c.src
                                /\ m.page = c.page /\ m.loc = c.loc
  <2>1. PICK c \in Rows(s) : m = [c EXCEPT !.num = @ + delta]  BY DEF Moved
  <2> QED  BY <1>1, <2>1, MovedRow
<1>3. ASSUME NEW m \in Moved(s, delta), NEW n \in Moved(s, delta), m.num = n.num PROVE m = n
  <2>1. PICK c \in Rows(s) : m = [c EXCEPT !.num = @ + delta] /\ m.num = c.num + delta  BY <1>2
  <2>2. PICK d \in Rows(s) : n = [d EXCEPT !.num = @ + delta] /\ n.num = d.num + delta  BY <1>2
  <2>3. c.num \in Int /\ d.num \in Int  BY <1>1 DEF Row
  <2>4. c.num = d.num
    <3>1. c.num + delta = d.num + delta  BY <1>3, <2>1, <2>2, Zenon
    <3> QED  BY <2>3, <3>1
  <2>5. c = d  BY <1>1, <2>4
  <2> QED  BY <2>1, <2>2, <2>5
<1> QED  BY <1>1, <1>2, <1>3

\* update_source_offset commits, or finds a number taken.
LEMMA CommitIs ==
  ASSUME ScraperTypeInv, NEW e \in Editors, RenumberCommits(e)
  PROVE  LET s == patch[e][1]
             delta == patch[e][3] - patch[e][2]
         IN  /\ s \in Sources /\ patch[e][3] \in Int /\ patch[e][2] \in Int /\ delta \in Int
             /\ \/ UNCHANGED <<chapters, offset>>
                \/ /\ \A m \in Moved(s, delta), c \in chapters \ Rows(s) : m.num # c.num
                   /\ chapters' = (chapters \ Rows(s)) \cup Moved(s, delta)
                   /\ offset' = [offset EXCEPT ![s] = patch[e][3]]
             /\ patch' = [patch EXCEPT ![e] = <<>>]
             /\ UNCHANGED <<site, opened, job, cookies, bound>>
<1> DEFINE s == patch[e][1]
           delta == patch[e][3] - patch[e][2]
<1>1. patch[e] \in Sources \X Int \X Int
  BY DEF RenumberCommits, ScraperTypeInv, ScraperTypeOK
<1>2. s \in Sources /\ patch[e][3] \in Int /\ patch[e][2] \in Int /\ delta \in Int  BY <1>1
<1>3. \/ UNCHANGED <<chapters, offset>>
      \/ /\ {c.num : c \in Moved(s, delta)} \cap {c.num : c \in chapters \ Rows(s)} = {}
         /\ chapters' = (chapters \ Rows(s)) \cup Moved(s, delta)
         /\ offset' = [offset EXCEPT ![s] = patch[e][3]]
  BY DEF RenumberCommits
<1>4. patch' = [patch EXCEPT ![e] = <<>>] /\ UNCHANGED <<site, opened, job, cookies, bound>>
  BY DEF RenumberCommits
<1>5. CASE UNCHANGED <<chapters, offset>>  BY <1>2, <1>4, <1>5
<1>6. CASE /\ {c.num : c \in Moved(s, delta)} \cap {c.num : c \in chapters \ Rows(s)} = {}
           /\ chapters' = (chapters \ Rows(s)) \cup Moved(s, delta)
           /\ offset' = [offset EXCEPT ![s] = patch[e][3]]
  <2> HIDE DEF s, delta
  <2>1. \A m \in Moved(s, delta), c \in chapters \ Rows(s) : m.num # c.num  BY <1>6
  <2> QED  BY <1>2, <1>4, <1>6, <2>1 DEF s, delta
<1> QED  BY <1>3, <1>5, <1>6

LEMMA CommitKeepsTypes ==
  ASSUME ScraperTypeInv, NEW e \in Editors, RenumberCommits(e)
  PROVE  ScraperTypeInv'
<1> DEFINE s == patch[e][1]
           delta == patch[e][3] - patch[e][2]
<1>1. /\ s \in Sources /\ patch[e][3] \in Int /\ delta \in Int
      /\ patch' = [patch EXCEPT ![e] = <<>>]
      /\ UNCHANGED <<site, opened, job, cookies, bound>>
  BY CommitIs
<1>2. \/ UNCHANGED <<chapters, offset>>
      \/ /\ \A m \in Moved(s, delta), c \in chapters \ Rows(s) : m.num # c.num
         /\ chapters' = (chapters \ Rows(s)) \cup Moved(s, delta)
         /\ offset' = [offset EXCEPT ![s] = patch[e][3]]
  BY CommitIs
<1>3. ScraperTypeOK /\ RowsOK  BY DEF ScraperTypeInv
<1> HIDE DEF s, delta
<1>4. Sources' = Sources /\ Job' = Job /\ Row' = Row  BY <1>1 DEF Sources, Job, Row
<1>5. (\A i \in ScrapeJobs : CrawlOK(job[i]))'
  BY <1>1 DEF ScraperTypeInv, CrawlOK, Crawling, PagesFor, PagesOf, KindOf
<1>6. /\ (site \in Novels)' /\ (opened \subseteq Sources \X Nat)' /\ (job \in [ScrapeJobs -> Job])'
      /\ (patch \in [Editors -> {<<>>} \cup (Sources \X Int \X Int)])' /\ (cookies \in BOOLEAN)'
      /\ (bound \in [scheduled : Nat, faults : Nat, renumbered : Nat])'
  BY <1>1, <1>3, <1>4 DEF ScraperTypeOK
<1>7. CASE UNCHANGED <<chapters, offset>>
  BY <1>1, <1>5, <1>6, <1>7, RestStays DEF ScraperTypeInv, ScraperTypeOK
<1>8. CASE /\ \A m \in Moved(s, delta), c \in chapters \ Rows(s) : m.num # c.num
           /\ chapters' = (chapters \ Rows(s)) \cup Moved(s, delta)
           /\ offset' = [offset EXCEPT ![s] = patch[e][3]]
  <2>1. /\ \A m \in Moved(s, delta) :
             /\ m \in Row /\ m.src = s
             /\ \E c \in Rows(s) : m.num = c.num + delta /\ m.page = c.page /\ m.loc = c.loc
        /\ \A m, n \in Moved(s, delta) : m.num = n.num => m = n
    BY <1>1, MovedIs
  <2>2. offset' \in [Sources -> Int]  BY <1>1, <1>3, <1>8 DEF ScraperTypeOK
  <2>3. chapters' \subseteq Row  BY <1>3, <1>8, <2>1 DEF ScraperTypeOK
  <2>4. \A c, d \in chapters' : c.num = d.num => c = d
    BY <1>3, <1>8, <2>1 DEF ScraperTypeOK
  <2>5. \A c \in chapters' : c.page \in DOMAIN PagesOf(c.src)
    <3>1. \A c \in Rows(s) : c \in chapters /\ c.src = s  BY DEF Rows
    <3> QED  BY <1>3, <1>8, <2>1, <3>1 DEF RowsOK
  <2>6. \E b \in Int : \A c \in chapters' : c.num <= b
    <3>1. PICK b \in Int : \A c \in chapters : c.num <= b  BY <1>3 DEF RowsOK
    <3> DEFINE m == IF delta >= 0 THEN b + delta ELSE b
    <3>2. \A c \in chapters : c.num \in Int  BY <1>3 DEF Row, ScraperTypeOK
    <3>3. m \in Int /\ \A x \in Int : x <= b => x <= m /\ x + delta <= m  BY <1>1
    <3> HIDE DEF m
    <3>4. \A c \in Moved(s, delta) : c.num <= m  BY <2>1, <3>1, <3>2, <3>3 DEF Rows
    <3>5. \A c \in chapters' : c.num <= m  BY <1>8, <3>1, <3>2, <3>3, <3>4
    <3> QED  BY <3>3, <3>5
  <2>7. RowsOK'  BY <1>1, <2>5, <2>6 DEF RowsOK, PagesOf
  <2> QED  BY <1>4, <1>5, <1>6, <2>2, <2>3, <2>4, <2>7 DEF ScraperTypeInv, ScraperTypeOK
<1> QED  BY <1>2, <1>7, <1>8

LEMMA ScraperTypeInit == ScraperInit => ScraperTypeInv
<1> SUFFICES ASSUME ScraperInit PROVE ScraperTypeInv  OBVIOUS
<1> USE DEF ScraperInit
<1>1. offset \in [Sources -> Int]
  <2>1. ASSUME NEW s \in Sources PROVE Max(Offsets[s]) \in Int
    <3>1. Offsets[s] \subseteq Int /\ \E o \in Offsets[s] : \A x \in Offsets[s] : x <= o
      BY ScraperAssumptions DEF Sources
    <3>2. \E o \in Offsets[s] : \A x \in Offsets[s] : o >= x  BY <3>1
    <3>3. Max(Offsets[s]) \in Offsets[s]  BY <3>2 DEF Max
    <3> QED  BY <3>1, <3>3
  <2> QED  BY <2>1
<1>2. job \in [ScrapeJobs -> Job]  BY IdleJobIs
<1>3. ScraperTypeOK  BY <1>1, <1>2 DEF ScraperTypeOK
<1>4. RowsOK  BY DEF RowsOK
<1>5. \A j \in ScrapeJobs : CrawlOK(job[j])  BY IdleJobIs DEF CrawlOK, Crawling
<1> QED  BY <1>3, <1>4, <1>5 DEF ScraperTypeInv

\* The kinds of steps.
LEMMA ScraperSteps ==
  ASSUME ScraperTypeInv, [ScraperNext]_scraperVars
  PROVE  \/ \E j \in ScrapeJobs : \E r : Proceeds(job[j], r) /\ Crawls(j, r)
         \/ \E j \in ScrapeJobs : StartSource(j)
         \/ \E j \in ScrapeJobs : Upsert(j)
         \/ \/ \E j \in ScrapeJobs : RequestCancel(j) \/ WorkerDies(j)
            \/ \E target \in {{s} : s \in Sources} \cup {Sources}, force \in Forces,
                  max \in Limits : Schedule(target, force, max)
         \/ \/ \E s \in Sources : \E p \in DOMAIN PagesOf(s) : SiteChanges(s, p)
            \/ SaveCookies
            \/ \E e \in Editors : \E s \in Sources : \E new \in Offsets[s] :
                 RenumberReads(e, s, new)
         \/ \E e \in Editors : RenumberCommits(e)
         \/ UNCHANGED scraperVars
<1>1. ASSUME NEW j \in ScrapeJobs, Scrapes(j) \/ FetchFails(j)
      PROVE  \/ \E r : Proceeds(job[j], r) /\ Crawls(j, r)
             \/ StartSource(j) \/ Upsert(j)
  BY <1>1, FetchMoves, RunnerMoves DEF Scrapes
<1> QED  BY <1>1 DEF ScraperNext

LEMMA ScraperTypeStep ==
  ASSUME ScraperTypeInv, [ScraperNext]_scraperVars
  PROVE  ScraperTypeInv'
<1>1. CASE \E j \in ScrapeJobs : \E r : Proceeds(job[j], r) /\ Crawls(j, r)
  BY <1>1, CrawlKeepsTypes DEF Proceeds
<1>2. CASE \E j \in ScrapeJobs : StartSource(j)
  <2>1. PICK j \in ScrapeJobs : StartSource(j)  BY <1>2
  <2>2. PICK r : Crawls(j, r) /\ r \in Job /\ CrawlOK(r)  BY <2>1, StartIs
  <2> QED  BY <2>2, CrawlKeepsTypes
<1>3. CASE \E j \in ScrapeJobs : Upsert(j)  BY <1>3, UpsertKeepsTypes
<1>4. CASE \/ \E j \in ScrapeJobs : RequestCancel(j) \/ WorkerDies(j)
           \/ \E target \in {{s} : s \in Sources} \cup {Sources}, force \in Forces,
                 max \in Limits : Schedule(target, force, max)
  <2>1. PICK j \in ScrapeJobs, x \in Job :
          /\ Proceeds(job[j], x) /\ job' = [job EXCEPT ![j] = x]
          /\ bound' \in [scheduled : Nat, faults : Nat, renumbered : Nat]
          /\ UNCHANGED <<site, opened, offset, chapters, patch, cookies>>
    BY <1>4, CommandIs
  <2>2. (job \in [ScrapeJobs -> Job])' /\ (\A i \in ScrapeJobs : CrawlOK(job[i]))'
    BY <2>1, JobsStep DEF Proceeds
  <2>3. ScraperTypeOK  BY DEF ScraperTypeInv
  <2>4. /\ (opened \subseteq Sources \X Nat)' /\ (cookies \in BOOLEAN)'
        /\ (patch \in [Editors -> {<<>>} \cup (Sources \X Int \X Int)])'
        /\ (bound \in [scheduled : Nat, faults : Nat, renumbered : Nat])'
    BY <2>1, <2>3 DEF ScraperTypeOK, Sources
  <2> QED  BY <2>1, <2>2, <2>4, RestStays DEF ScraperTypeInv, ScraperTypeOK
<1>5. CASE \/ \E s \in Sources : \E p \in DOMAIN PagesOf(s) : SiteChanges(s, p)
           \/ SaveCookies
           \/ \E e \in Editors : \E s \in Sources : \E new \in Offsets[s] :
                RenumberReads(e, s, new)
  BY <1>5, OutsideKeepsTypes
<1>6. CASE \E e \in Editors : RenumberCommits(e)  BY <1>6, CommitKeepsTypes
<1>7. CASE UNCHANGED scraperVars
  <2>1. ScraperTypeOK'
    BY <1>7 DEF ScraperTypeInv, ScraperTypeOK, scraperVars, Sources, Job, Row
  <2>2. RowsOK' /\ (\A i \in ScrapeJobs : CrawlOK(job[i]))'
    BY <1>7 DEF ScraperTypeInv, RowsOK, scraperVars, CrawlOK, Crawling, PagesFor, PagesOf, KindOf
  <2> QED  BY <2>1, <2>2 DEF ScraperTypeInv
<1> QED  BY <1>1, <1>2, <1>3, <1>4, <1>5, <1>6, <1>7, ScraperSteps

\* The state of the scraper has its types in every reachable state, with one
\* row per chapter number, whatever the sites hold and however jobs and owners
\* interleave (upsert_ingested_chapter, update_source_offset).
THEOREM ScraperTypes == ScraperSpec => []ScraperTypeOK
<1>1. ScraperTypeInv /\ [ScraperNext]_scraperVars => ScraperTypeInv'  BY ScraperTypeStep
<1>2. ScraperTypeInv => ScraperTypeOK  BY DEF ScraperTypeInv
<1> QED  BY <1>1, <1>2, ScraperTypeInit, PTL DEF ScraperSpec

----------------------------------------------------------------------------
\* While no source is renumbered under a crawl, a crawl has the offset of its
\* source, and a renumbering that is under way has read the offset there is and
\* is of no source a crawl still has to go to.
OffsetIsCurrent ==
  /\ \A j \in ScrapeJobs : Crawling(job[j]) => job[j].off = offset[Min(job[j].todo)]
  /\ \A e \in Editors : patch[e] # <<>> =>
       /\ patch[e][2] = offset[patch[e][1]]
       /\ \A j \in ScrapeJobs : Crawling(job[j]) => patch[e][1] \notin job[j].todo

\* A step that changes one job and neither an offset nor a request.
LEMMA JobsStayCurrent ==
  ASSUME ScraperTypeInv, OffsetIsCurrent, NEW j \in ScrapeJobs, NEW x, Proceeds(job[j], x),
         job' = [job EXCEPT ![j] = x], UNCHANGED <<offset, patch>>
  PROVE  OffsetIsCurrent'
<1>1. job \in [ScrapeJobs -> Job]  BY DEF ScraperTypeInv, ScraperTypeOK
<1>2. \A i \in ScrapeJobs : job'[i] = job[i] \/ (i = j /\ job'[i] = x)  BY <1>1
<1>3. \A i \in ScrapeJobs : Crawling(job'[i]) =>
        Crawling(job[i]) /\ job'[i].todo = job[i].todo /\ job'[i].off = job[i].off
  BY <1>2 DEF Proceeds
<1>4. \A i \in ScrapeJobs : Crawling(job[i])' <=> Crawling(job'[i])  BY DEF Crawling
<1> QED  BY <1>3, <1>4 DEF OffsetIsCurrent

LEMMA OffsetStep ==
  ASSUME ScraperTypeInv, OffsetIsCurrent, [ScraperNext]_scraperVars,
         ~RenumberAnytime, \A e, f \in Editors : e = f
  PROVE  OffsetIsCurrent'
<1>0. \A i \in ScrapeJobs : Crawling(job[i])' <=> Crawling(job'[i])  BY DEF Crawling
<1>1. CASE \E j \in ScrapeJobs : \E r : Proceeds(job[j], r) /\ Crawls(j, r)
  BY <1>1, JobsStayCurrent DEF Crawls
<1>2. CASE \E j \in ScrapeJobs : StartSource(j)
  <2>1. PICK j \in ScrapeJobs : StartSource(j)  BY <1>2
  <2>2. PICK r : /\ Crawls(j, r)
                 /\ Crawling(r) => r.todo = job[j].todo /\ r.off = offset[Min(r.todo)]
    BY <2>1, StartIs
  <2>3. \A e \in Editors : patch[e] = <<>>  BY <2>1 DEF StartSource
  <2>4. job \in [ScrapeJobs -> Job]  BY DEF ScraperTypeInv, ScraperTypeOK
  <2>5. UNCHANGED <<offset, patch>> /\ job' = [job EXCEPT ![j] = r]  BY <2>2 DEF Crawls
  <2>6. \A i \in ScrapeJobs : job'[i] = IF i = j THEN r ELSE job[i]  BY <2>4, <2>5
  <2> QED  BY <1>0, <2>2, <2>3, <2>5, <2>6 DEF OffsetIsCurrent
<1>3. CASE \E j \in ScrapeJobs : Upsert(j)
  <2>1. PICK j \in ScrapeJobs : Upsert(j)  BY <1>3
  <2>2. PICK x : Proceeds(job[j], x) /\ job' = [job EXCEPT ![j] = x] /\ UNCHANGED <<offset, patch>>
    BY <2>1, UpsertIs
  <2> QED  BY <2>2, JobsStayCurrent
<1>4. CASE \/ \E j \in ScrapeJobs : RequestCancel(j) \/ WorkerDies(j)
           \/ \E target \in {{s} : s \in Sources} \cup {Sources}, force \in Forces,
                 max \in Limits : Schedule(target, force, max)
  <2>1. PICK j \in ScrapeJobs, x \in Job :
          Proceeds(job[j], x) /\ job' = [job EXCEPT ![j] = x] /\ UNCHANGED <<offset, patch>>
    BY <1>4, CommandIs
  <2> QED  BY <2>1, JobsStayCurrent
<1>5. CASE \/ \E s \in Sources : \E p \in DOMAIN PagesOf(s) : SiteChanges(s, p)
           \/ SaveCookies
           \/ \E e \in Editors : \E s \in Sources : \E new \in Offsets[s] :
                RenumberReads(e, s, new)
  <2>1. UNCHANGED <<job, offset>>  BY <1>5, OutsideKeepsTypes
  <2>2. CASE UNCHANGED patch  BY <1>0, <2>1, <2>2 DEF OffsetIsCurrent
  <2>3. CASE \E e \in Editors : \E s \in Sources : \E new \in Offsets[s] : RenumberReads(e, s, new)
    <3>1. PICK e \in Editors, s \in Sources : \E new \in Offsets[s] : RenumberReads(e, s, new)
      BY <2>3
    <3>2. PICK new \in Offsets[s] : RenumberReads(e, s, new)  BY <3>1
    <3>3. patch \in [Editors -> {<<>>} \cup (Sources \X Int \X Int)]
      BY DEF ScraperTypeInv, ScraperTypeOK
    <3>4. \A f \in Editors : patch'[f] = <<s, offset[s], new>>  BY <3>2, <3>3 DEF RenumberReads
    <3>5. \A j \in ScrapeJobs : Crawling(job[j]) => s \notin job[j].todo
      BY <3>2 DEF RenumberReads, Active, Crawling
    <3>6. \A f \in Editors : patch'[f][1] = s /\ patch'[f][2] = offset[s]  BY <3>4
    <3> QED  BY <1>0, <2>1, <3>5, <3>6 DEF OffsetIsCurrent
  <2> QED  BY <1>5, <2>2, <2>3 DEF SiteChanges, SaveCookies
<1>6. CASE \E e \in Editors : RenumberCommits(e)
  <2>1. PICK e \in Editors : RenumberCommits(e)  BY <1>6
  <2> DEFINE s == patch[e][1]
  <2>2. patch' = [patch EXCEPT ![e] = <<>>] /\ UNCHANGED job  BY <2>1, CommitIs
  <2>3. offset' = offset \/ offset' = [offset EXCEPT ![s] = patch[e][3]]  BY <2>1, CommitIs
  <2>4. patch[e] # <<>>  BY <2>1 DEF RenumberCommits
  <2>5. \A f \in Editors : patch'[f] = <<>>
    BY <2>2 DEF ScraperTypeInv, ScraperTypeOK
  <2>6. ASSUME NEW j \in ScrapeJobs, Crawling(job[j])
        PROVE  offset'[Min(job[j].todo)] = offset[Min(job[j].todo)]
    <3>1. Min(job[j].todo) \in job[j].todo /\ Min(job[j].todo) \in Sources
      BY <2>6, JobIs, SrcIs
    <3>2. s \notin job[j].todo  BY <2>4, <2>6 DEF OffsetIsCurrent
    <3>3. offset \in [Sources -> Int]  BY DEF ScraperTypeInv, ScraperTypeOK
    <3> HIDE DEF s
    <3> QED  BY <2>3, <3>1, <3>2, <3>3
  <2> QED  BY <1>0, <2>2, <2>5, <2>6 DEF OffsetIsCurrent
<1>7. CASE UNCHANGED scraperVars
  BY <1>0, <1>7 DEF scraperVars, OffsetIsCurrent
<1> QED  BY <1>1, <1>2, <1>3, <1>4, <1>5, <1>6, <1>7, ScraperSteps

LEMMA AlignedStep ==
  ASSUME ScraperTypeInv, OffsetIsCurrent, ChaptersAreAligned, [ScraperNext]_scraperVars
  PROVE  ChaptersAreAligned'
<1>1. CASE UNCHANGED <<chapters, offset>>  BY <1>1 DEF ChaptersAreAligned
<1>2. CASE \E j \in ScrapeJobs : Upsert(j)
  <2>1. PICK j \in ScrapeJobs : Upsert(j)  BY <1>2
  <2>2. PICK entry \in Row :
          /\ chapters' \in {chapters, {c \in chapters : c.num # entry.num} \cup {entry}}
          /\ Crawling(job[j]) /\ entry.src = Src(j) /\ entry.num = entry.loc + job[j].off
          /\ UNCHANGED offset
    BY <2>1, UpsertIs
  <2>3. entry.num = entry.loc + offset[entry.src]  BY <2>2 DEF OffsetIsCurrent, Src
  <2> QED  BY <2>2, <2>3 DEF ChaptersAreAligned
<1>3. CASE \E e \in Editors : RenumberCommits(e)
  <2>1. PICK e \in Editors : RenumberCommits(e)  BY <1>3
  <2> DEFINE s == patch[e][1]
             new == patch[e][3]
             delta == new - patch[e][2]
  <2>2. s \in Sources /\ new \in Int /\ patch[e][2] \in Int /\ delta \in Int  BY <2>1, CommitIs
  <2>3. \/ UNCHANGED <<chapters, offset>>
        \/ /\ chapters' = (chapters \ Rows(s)) \cup Moved(s, delta)
           /\ offset' = [offset EXCEPT ![s] = new]
    BY <2>1, CommitIs
  <2>4. patch[e][2] = offset[s]  BY <2>1 DEF OffsetIsCurrent, RenumberCommits
  <2>5. /\ offset \in [Sources -> Int] /\ chapters \subseteq Row
        /\ Rows(s) = {c \in chapters : c.src = s}
    BY DEF ScraperTypeInv, ScraperTypeOK, Rows
  <2>6. delta = new - offset[s]  BY <2>4
  <2> HIDE DEF s, new, delta
  <2>7. CASE /\ chapters' = (chapters \ Rows(s)) \cup Moved(s, delta)
             /\ offset' = [offset EXCEPT ![s] = new]
    <3>1. ASSUME NEW c \in chapters \ Rows(s) PROVE c.num = c.loc + offset'[c.src]
      <4>1. c \in Row /\ c.src # s /\ c.num = c.loc + offset[c.src]
        BY <2>5 DEF ChaptersAreAligned
      <4>2. c.src \in Sources  BY <4>1 DEF Row
      <4> QED  BY <2>5, <2>7, <4>1, <4>2
    <3>2. ASSUME NEW m \in Moved(s, delta) PROVE m.num = m.loc + offset'[m.src]
      <4>1. m.src = s /\ \E c \in Rows(s) : m.num = c.num + delta /\ m.loc = c.loc
        BY <2>2, MovedIs
      <4>2. PICK c \in Rows(s) : m.num = c.num + delta /\ m.loc = c.loc  BY <4>1
      <4>3. c.num = c.loc + offset[s]  BY <2>5 DEF ChaptersAreAligned
      <4>4. c.loc \in Nat /\ offset[s] \in Int  BY <2>2, <2>5 DEF Row
      <4>5. offset'[m.src] = new  BY <2>2, <2>5, <2>7, <4>1
      <4> QED  BY <2>2, <2>6, <4>2, <4>3, <4>4, <4>5
    <3> QED  BY <2>7, <3>1, <3>2 DEF ChaptersAreAligned
  <2> QED  BY <1>1, <2>3, <2>7
<1>4. UNCHANGED <<chapters, offset>> \/ (\E j \in ScrapeJobs : Upsert(j))
      \/ \E e \in Editors : RenumberCommits(e)
  <2>1. CASE \E j \in ScrapeJobs : StartSource(j)  BY <2>1 DEF StartSource
  <2>2. CASE \E j \in ScrapeJobs : \E r : Proceeds(job[j], r) /\ Crawls(j, r)  BY <2>2 DEF Crawls
  <2>3. CASE \/ \E j \in ScrapeJobs : RequestCancel(j) \/ WorkerDies(j)
             \/ \E target \in {{s} : s \in Sources} \cup {Sources}, force \in Forces,
                   max \in Limits : Schedule(target, force, max)
    BY <2>3, CommandIs
  <2>4. CASE \/ \E s \in Sources : \E p \in DOMAIN PagesOf(s) : SiteChanges(s, p)
             \/ SaveCookies
             \/ \E e \in Editors : \E s \in Sources : \E new \in Offsets[s] :
                  RenumberReads(e, s, new)
    BY <2>4, OutsideKeepsTypes
  <2>5. CASE UNCHANGED scraperVars  BY <2>5 DEF scraperVars
  <2> QED  BY <2>1, <2>2, <2>3, <2>4, <2>5, ScraperSteps
<1> QED  BY <1>1, <1>2, <1>3, <1>4

\* A chapter's number is its number in the source plus the source's offset, in
\* every reachable state, as long as a source is renumbered by one request at a
\* time and not while a job has it to do (the condition that the code does not
\* check: without it the stale offset of scrape_source, or the unlocked read of
\* update_source_offset, breaks it).
THEOREM ChaptersStayAligned ==
  ASSUME ~RenumberAnytime, \A e, f \in Editors : e = f
  PROVE  ScraperSpec => []ChaptersAreAligned
<1> DEFINE Inv == ScraperTypeInv /\ OffsetIsCurrent /\ ChaptersAreAligned
<1>1. ScraperInit => Inv
  <2> SUFFICES ASSUME ScraperInit PROVE OffsetIsCurrent /\ ChaptersAreAligned
    BY ScraperTypeInit
  <2>1. \A j \in ScrapeJobs : ~Crawling(job[j])  BY IdleJobIs DEF ScraperInit, Crawling
  <2> QED  BY <2>1 DEF ScraperInit, OffsetIsCurrent, ChaptersAreAligned
<1>2. Inv /\ [ScraperNext]_scraperVars => Inv'
  BY ScraperTypeStep, OffsetStep, AlignedStep
<1>3. Inv => ChaptersAreAligned  OBVIOUS
<1> QED  BY <1>1, <1>2, <1>3, PTL DEF ScraperSpec

----------------------------------------------------------------------------
(* What a crawl gets through.                                              *)

\* Page p of site t holds a chapter, if only for those who may read it, and the
\* number the adapter finds on it.
HoldsChapter(t, p) ==
  t.kind = "archive" \/ (~t.pages[p].cont /\ t.pages[p].state \in {"open", "ad", "locked", "gone"})
NumberOf(t, p) ==
  IF t.kind = "archive" THEN p * 100 ELSE AdapterNumber(t.kind, t.pages[p], NoNum)

\* A site in order: its chapters are numbered and the numbers grow, and neither
\* a link nor a guess from a page's URL leads past the page after it.  Only
\* Novel543 splits chapters and only the translation sites have indexes.
InOrder(t) ==
  /\ \A p \in DOMAIN t.pages : HoldsChapter(t, p) => NumberOf(t, p) \in Nat
  /\ \A p, q \in DOMAIN t.pages :
       HoldsChapter(t, p) /\ HoldsChapter(t, q) /\ p < q => NumberOf(t, p) < NumberOf(t, q)
  /\ \A p \in DOMAIN t.pages :
       /\ t.pages[p].next <= p + 1
       /\ t.kind = "split" => t.pages[p].next \in {0, p + 1}
       /\ t.pages[p].cont => t.kind = "split" /\ p # 1
       /\ t.pages[p].state = "index" => t.kind = "catalogue"
  /\ t.kind = "paged" =>
       \A p, q \in DOMAIN t.pages : t.pages[q].path = t.pages[p].path + 100 => q <= p + 1

\* The offsets an owner may give the sources keep their chapters apart.
Apart(n) ==
  \A s, u \in DOMAIN n : s # u =>
    \A p \in DOMAIN n[s].pages : \A q \in DOMAIN n[u].pages :
      HoldsChapter(n[s], p) /\ HoldsChapter(n[u], q) =>
        \A a \in Offsets[s] : \A b \in Offsets[u] : NumberOf(n[s], p) + a # NumberOf(n[u], q) + b

BookInOrder == Apart(site) /\ \A s \in Sources : InOrder(site[s])

Holds(s, p) == HoldsChapter(site[s], p)
Num(s, p) == NumberOf(site[s], p)

\* Page p is saved, or is none that anyone will ever read a chapter on; so is
\* every page before it.
Saved(s, p) == \E d \in Rows(s) : d.page = p
Settled(s, p) ==
  PagesOf(s)[p].cont \/ PagesOf(s)[p].state \notin {"open", "locked", "gone"} \/ Saved(s, p)
Behind(s, p) == \A q \in DOMAIN PagesOf(s) : q < p => Settled(s, q)

\* The rows are those of pages with a chapter, under the chapters' numbers, and
\* nothing before them is missing.
RowsInOrder ==
  \A c \in chapters :
    Holds(c.src, c.page) /\ c.loc = Num(c.src, c.page) /\ Behind(c.src, c.page)

OpenedOK ==
  \A x \in opened : /\ x[2] \in DOMAIN PagesOf(x[1])
                    /\ PagesOf(x[1])[x[2]].state \in {"gone", "locked"}

OffsetsOK ==
  /\ \A s \in Sources : offset[s] \in Offsets[s]
  /\ \A e \in Editors : patch[e] # <<>> => patch[e][3] \in Offsets[patch[e][1]]

\* The number Novel543 goes on counting from is that of a page before p.
LastOK(r, s, p) ==
  KindOf(s) = "split" /\ r.last # NoNum =>
    \E y \in DOMAIN PagesOf(s) : y < p /\ Holds(s, y) /\ r.last = Num(s, y)

\* A crawl about to open a page has settled all before it, but for the chapter
\* it is in the middle of.
FetchOK(r, s) ==
  /\ r.queue = <<>>
  /\ r.pc = "ad" => PagesOf(s)[r.at].state = "ad"
  /\ r.at \in DOMAIN PagesOf(s) =>
     /\ \A q \in DOMAIN PagesOf(s) : q < r.at => q = r.pending \/ Settled(s, q)
     /\ r.pending = 0 => ~PagesOf(s)[r.at].cont /\ LastOK(r, s, r.at)
     /\ r.pending # 0 => /\ PagesOf(s)[r.at].cont /\ r.pending < r.at
                         /\ Holds(s, r.pending) /\ r.last = Num(s, r.pending)
                         /\ Behind(s, r.pending)

\* A crawl with chapters to take has settled all before the first of them, and
\* where there is only one all up to its page but it.
QueueOK(r, s) ==
  /\ r.pending = 0
  /\ \A k \in DOMAIN r.queue :
       /\ Holds(s, r.queue[k].page) /\ r.queue[k].num = Num(s, r.queue[k].page)
       /\ r.queue[k].page = r.queue[1].page + k - 1
  /\ r.queue # <<>> => Behind(s, r.queue[1].page)
  /\ r.pc = "write" => /\ r.prev = Num(s, r.queue[1].page)
                       /\ r.exists => Saved(s, r.queue[1].page)
  /\ KindOf(s) # "archive" =>
     /\ Len(r.queue) <= 1 /\ (r.pc = "after" => r.queue = <<>>)
     /\ \A q \in DOMAIN PagesOf(s) :
          q <= r.at => Settled(s, q) \/ (r.queue # <<>> /\ q = r.queue[1].page)
     /\ r.link \in DOMAIN PagesOf(s) =>
          /\ r.link <= r.at + 1 /\ ~PagesOf(s)[r.link].cont
          /\ KindOf(s) = "split" => r.link = r.at + 1
     /\ LastOK(r, s, r.at + 1)

PathOK(r) ==
  /\ r.pc = "source" => r.last = NoNum
  /\ Crawling(r) => IF r.pc \in {"fetch", "ad"} THEN FetchOK(r, Min(r.todo))
                                               ELSE QueueOK(r, Min(r.todo))

\* The limit the adapter is given, and whether the crawl yields its checkpoint,
\* which is saved, once more.
Inclusive(r, s) == r.resume /\ KindOf(s) # "account"
LimitOf(r, s) == IF r.max # Unlimited /\ Inclusive(r, s) THEN r.max + 1 ELSE r.max

\* What was yielded is new, but for the checkpoint of an inclusive resume, and a
\* crawl past the checkpoint is past all that was saved when it started.
Counted(r, s) ==
  /\ r.count = IF Inclusive(r, s) /\ r.count > 0 THEN r.fresh + 1 ELSE r.fresh
  /\ \A p \in r.saved : r.resume /\ p \in DOMAIN PagesOf(s) /\ Holds(s, p)
  /\ Inclusive(r, s) /\ r.count > 0 => r.prev # NoNum /\ \A p \in r.saved : Num(s, p) <= r.prev
  /\ r.resume /\ KindOf(s) = "account" =>
       r.last # NoNum /\ \A p \in r.saved : Num(s, p) <= r.last

UnderLimit(r, s) == LimitOf(r, s) # Unlimited => r.count < LimitOf(r, s)

\* An inclusive resume starts at the last of the pages that are saved.
StartsAt(r, s, p) == Inclusive(r, s) /\ r.count = 0 => p \in r.saved /\ \A q \in r.saved : q <= p

NextPage(r) ==
  IF r.pc \in {"fetch", "ad"} THEN IF r.pending = 0 THEN r.at ELSE r.pending ELSE r.queue[1].page

CountsOK(r, s) ==
  /\ Counted(r, s)
  /\ r.pc \in {"fetch", "ad", "take"} => UnderLimit(r, s) /\ StartsAt(r, s, NextPage(r))
  /\ r.pc \in {"write", "after"} =>
       r.count > 0 /\ (LimitOf(r, s) # Unlimited => r.count <= LimitOf(r, s))
  /\ r.pc = "take" /\ KindOf(s) = "account" => r.queue[1].page \notin r.saved

CountOK(r) ==
  /\ r.pc = "source" => r.count = 0 /\ r.fresh = 0
  /\ Crawling(r) /\ ~r.force => CountsOK(r, Min(r.todo))

PathInv ==
  /\ ScraperTypeInv /\ OffsetIsCurrent /\ ChaptersAreAligned
  /\ BookInOrder /\ RowsInOrder /\ OpenedOK /\ OffsetsOK
  /\ \A j \in ScrapeJobs : PathOK(job[j]) /\ CountOK(job[j])

----------------------------------------------------------------------------
\* What is known of a source in order.
LEMMA SourceInOrder ==
  ASSUME ScraperTypeOK, BookInOrder, NEW s \in Sources
  PROVE  /\ \A p \in DOMAIN PagesOf(s) : Holds(s, p) => Num(s, p) \in Nat
         /\ \A p, q \in DOMAIN PagesOf(s) : Holds(s, p) /\ Holds(s, q) =>
              /\ p < q => Num(s, p) < Num(s, q)
              /\ Num(s, p) = Num(s, q) => p = q
              /\ Num(s, p) <= Num(s, q) => p <= q
         /\ \A p \in DOMAIN PagesOf(s) :
              /\ p \in Nat /\ p > 0 /\ PagesOf(s)[p] \in Page
              /\ PagesOf(s)[p].next <= p + 1
              /\ KindOf(s) = "split" => PagesOf(s)[p].next \in {0, p + 1}
              /\ PagesOf(s)[p].cont => KindOf(s) = "split" /\ p # 1
              /\ PagesOf(s)[p].state = "index" => KindOf(s) = "catalogue"
<1>1. InOrder(site[s])  BY DEF BookInOrder
<1>2. PagesOf(s) \in Seq(Page) /\ PagesOf(s) = site[s].pages /\ KindOf(s) = site[s].kind
  BY SourceIs DEF PagesOf, KindOf
<1>3. \A p \in DOMAIN PagesOf(s) : p \in Nat /\ p > 0 /\ PagesOf(s)[p] \in Page  BY <1>2
<1>4. \A p \in DOMAIN PagesOf(s) : Holds(s, p) => Num(s, p) \in Nat
  BY <1>1, <1>2 DEF InOrder, Holds, Num
<1>5. \A p, q \in DOMAIN PagesOf(s) :
        Holds(s, p) /\ Holds(s, q) /\ p < q => Num(s, p) < Num(s, q)
  BY <1>1, <1>2 DEF InOrder, Holds, Num
<1>6. ASSUME NEW p \in DOMAIN PagesOf(s), NEW q \in DOMAIN PagesOf(s), Holds(s, p), Holds(s, q)
      PROVE  /\ p < q => Num(s, p) < Num(s, q)
             /\ Num(s, p) = Num(s, q) => p = q
             /\ Num(s, p) <= Num(s, q) => p <= q
  <2>1. p \in Nat /\ q \in Nat /\ Num(s, p) \in Nat /\ Num(s, q) \in Nat  BY <1>3, <1>4, <1>6
  <2>2. (p < q => Num(s, p) < Num(s, q)) /\ (q < p => Num(s, q) < Num(s, p))  BY <1>5, <1>6
  <2> QED  BY <2>1, <2>2
<1>7. \A p \in DOMAIN PagesOf(s) :
              /\ PagesOf(s)[p].next <= p + 1
              /\ KindOf(s) = "split" => PagesOf(s)[p].next \in {0, p + 1}
              /\ PagesOf(s)[p].cont => KindOf(s) = "split" /\ p # 1
              /\ PagesOf(s)[p].state = "index" => KindOf(s) = "catalogue"
  BY <1>1, <1>2 DEF InOrder
<1> QED  BY <1>3, <1>4, <1>6, <1>7

\* A link and a guess lead at most to the next page.
LEMMA LinkIsNear ==
  ASSUME ScraperTypeOK, BookInOrder, NEW s \in Sources, NEW p \in DOMAIN PagesOf(s)
  PROVE  /\ Link(s, p) \in Nat /\ Link(s, p) <= p + 1
         /\ KindOf(s) = "split" => Link(s, p) \in {0, p + 1}
<1>1. /\ p \in Nat /\ PagesOf(s)[p].next <= p + 1
      /\ KindOf(s) = "split" => PagesOf(s)[p].next \in {0, p + 1}
  BY SourceInOrder
<1>2. Link(s, p) \in Nat  BY LinkIs
<1>3. Link(s, p) \in {0, PagesOf(s)[p].next}  BY DEF Link
<1> QED  BY <1>1, <1>2, <1>3

LEMMA GuessIsNear ==
  ASSUME ScraperTypeOK, BookInOrder, NEW s \in Sources, NEW p \in DOMAIN PagesOf(s),
         KindOf(s) = "paged"
  PROVE  LET g == _predict_next_url(s, p)
         IN  g \in Nat /\ (g \in DOMAIN PagesOf(s) => g <= p + 1)
<1> DEFINE pg == PagesOf(s)[p]
           n == parse_chapter_number(pg)
           hits == {q \in DOMAIN PagesOf(s) : PagesOf(s)[q].path = Whole(n) + 100}
           g == _predict_next_url(s, p)
<1>1. PagesOf(s) \in Seq(Page)  BY SourceIs
<1>2. hits \in SUBSET Nat /\ ~(Len(PagesOf(s)) + 1 \in DOMAIN PagesOf(s)) /\ ~(0 \in DOMAIN PagesOf(s))
  BY <1>1
<1>3. g \in Nat  BY PredictIs
<1>4. ASSUME g \in DOMAIN PagesOf(s) PROVE g <= p + 1
  <2>1. ~(n = NoNum \/ pg.path # n \/ pg.path # Whole(pg.path)) /\ hits # {} /\ g = Min(hits)
    BY <1>2, <1>4 DEF _predict_next_url
  <2>2. g \in hits
    <3> HIDE DEF hits
    <3> QED  BY <1>2, <2>1, MinIsLeast
  <2>3. PagesOf(s)[g].path = pg.path + 100  BY <2>1, <2>2
  <2>4. \A q \in DOMAIN PagesOf(s) : PagesOf(s)[q].path = PagesOf(s)[p].path + 100 => q <= p + 1
    BY DEF BookInOrder, InOrder, PagesOf, KindOf
  <2> QED  BY <1>4, <2>3, <2>4
<1> QED  BY <1>3, <1>4

\* The row with a page's number is the row of that page.
LEMMA RowOfThePage ==
  ASSUME ScraperTypeInv, ChaptersAreAligned, BookInOrder, RowsInOrder, OffsetsOK,
         NEW s \in Sources, NEW p \in DOMAIN PagesOf(s), Holds(s, p),
         NEW c \in chapters, c.num = Num(s, p) + offset[s]
  PROVE  c.src = s /\ c.page = p /\ c.num = c.loc + offset[s]
<1>1. /\ c.src \in Sources /\ c.num = c.loc + offset[c.src]
      /\ Holds(c.src, c.page) /\ c.loc = Num(c.src, c.page) /\ c.page \in DOMAIN PagesOf(c.src)
  BY DEF ScraperTypeInv, ScraperTypeOK, Row, ChaptersAreAligned, RowsInOrder, RowsOK
<1>2. offset[s] \in Offsets[s] /\ offset[c.src] \in Offsets[c.src]  BY <1>1 DEF OffsetsOK
<1>3. c.src = s
  <2> SUFFICES ASSUME c.src # s PROVE FALSE  OBVIOUS
  <2>1. Num(s, p) + offset[s] # Num(c.src, c.page) + offset[c.src]
    BY <1>1, <1>2 DEF BookInOrder, Apart, Holds, Num, PagesOf, Sources
  <2> QED  BY <1>1, <2>1
<1>4. ScraperTypeOK /\ offset[s] \in Int  BY DEF ScraperTypeInv, ScraperTypeOK
<1>5. Num(s, p) \in Nat /\ Num(s, c.page) \in Nat  BY <1>1, <1>3, <1>4, SourceInOrder
<1>6. Num(s, p) = Num(s, c.page)  BY <1>1, <1>3, <1>4, <1>5
<1> QED  BY <1>1, <1>3, <1>4, <1>6, SourceInOrder

----------------------------------------------------------------------------
SavedStays == \A s \in Sources : \A p : Saved(s, p) => Saved(s, p)'

LEMMA SettledStays ==
  ASSUME SavedStays, UNCHANGED site, NEW s \in Sources, NEW p
  PROVE  /\ Settled(s, p) => Settled(s, p)'
         /\ Behind(s, p) => Behind(s, p)'
         /\ Holds(s, p)' <=> Holds(s, p)
         /\ Num(s, p)' = Num(s, p)
<1>1. \A q : Settled(s, q) => Settled(s, q)'  BY DEF SavedStays, Settled, PagesOf
<1>2. PagesOf(s)' = PagesOf(s)  BY DEF PagesOf
<1>3. Behind(s, p) => Behind(s, p)'  BY <1>1, <1>2 DEF Behind
<1> QED  BY <1>1, <1>3 DEF Holds, Num

LEMMA PathStays ==
  ASSUME ScraperTypeOK, SavedStays, UNCHANGED site,
         NEW r \in Job, Crawling(r) => r.todo # {}, PathOK(r), CountOK(r)
  PROVE  PathOK(r)' /\ CountOK(r)'
<1>1. CASE ~Crawling(r)  BY <1>1 DEF PathOK, CountOK, Crawling
<1>2. CASE Crawling(r)
  <2> DEFINE s == Min(r.todo)
  <2>1. s \in Sources  BY <1>2, SrcIs DEF Crawling
  <2>2. PagesOf(s)' = PagesOf(s) /\ KindOf(s)' = KindOf(s)  BY DEF PagesOf, KindOf
  <2>3. \A p : /\ Settled(s, p) => Settled(s, p)'
               /\ Behind(s, p) => Behind(s, p)'
               /\ Holds(s, p)' <=> Holds(s, p)
               /\ Num(s, p)' = Num(s, p)
               /\ Saved(s, p) => Saved(s, p)'
    BY <2>1, SettledStays DEF SavedStays
  <2> HIDE DEF s
  <2>4. \A p : LastOK(r, s, p) => LastOK(r, s, p)'  BY <2>2, <2>3 DEF LastOK
  <2>5. FetchOK(r, s) => FetchOK(r, s)'  BY <2>2, <2>3, <2>4 DEF FetchOK
  <2>6. QueueOK(r, s) => QueueOK(r, s)'
    <3> SUFFICES ASSUME QueueOK(r, s) PROVE QueueOK(r, s)'  OBVIOUS
    <3>1. LastOK(r, s, r.at + 1) => LastOK(r, s, r.at + 1)'  BY <2>4
    <3> QED  BY <2>2, <2>3, <3>1 DEF QueueOK
  <2>7. CountsOK(r, s) => CountsOK(r, s)'
    <3>1. Counted(r, s) => Counted(r, s)'  BY <2>2, <2>3 DEF Counted, Inclusive
    <3>2. /\ UnderLimit(r, s) => UnderLimit(r, s)'
          /\ StartsAt(r, s, NextPage(r)) => StartsAt(r, s, NextPage(r))'
          /\ LimitOf(r, s)' = LimitOf(r, s)
      BY <2>2 DEF UnderLimit, StartsAt, LimitOf, Inclusive, NextPage
    <3> QED  BY <2>2, <3>1, <3>2 DEF CountsOK
  <2> QED  BY <1>2, <2>5, <2>6, <2>7 DEF PathOK, CountOK, Crawling, s
<1> QED  BY <1>1, <1>2

\* The row a crawl writes, and what it replaces.
LEMMA WritesInOrder ==
  ASSUME PathInv, NEW j \in ScrapeJobs, Upsert(j),
         NEW s, s = Src(j), NEW p, p = job[j].queue[1].page
  PROVE  /\ s \in Sources /\ p \in DOMAIN PagesOf(s) /\ Saved(s, p)'
         /\ SavedStays /\ RowsInOrder' /\ UNCHANGED <<site, opened, offset, patch>>
<1> DEFINE r == job[j]
           entry == [num |-> r.prev + r.off, src |-> s, page |-> Head(r.queue).page, loc |-> r.prev]
           wrote == r.force \/ ~r.exists
<1>1. r.pc = "write" /\ Crawling(r)  BY DEF Upsert, Crawling
<1>2. ScraperTypeInv /\ BookInOrder /\ RowsInOrder /\ ChaptersAreAligned /\ OffsetsOK
  BY DEF PathInv
<1>3. /\ ScraperTypeOK /\ r \in Job /\ CrawlOK(r) /\ s \in Sources /\ s = Min(r.todo)
      /\ PagesFor(r) = DOMAIN PagesOf(s)
  BY <1>1, <1>2, JobIs
<1>4. r.queue # <<>> /\ r.prev \in Nat  BY <1>1, <1>3 DEF CrawlOK
<1>5. r.off = offset[s]  BY <1>1, <1>3 DEF PathInv, OffsetIsCurrent
<1>6. QueueOK(r, s)  BY <1>1, <1>3 DEF PathInv, PathOK
<1>7. Head(r.queue) = r.queue[1] /\ 1 \in DOMAIN r.queue
  <2>1. r.queue \in Seq([page : Nat, num : Number])  BY <1>3 DEF Job
  <2> QED  BY <1>4, <2>1, HeadIs
<1>8. /\ p \in DOMAIN PagesOf(s) /\ Holds(s, p) /\ r.prev = Num(s, p) /\ Behind(s, p)
      /\ r.exists => Saved(s, p)
  BY <1>1, <1>3, <1>4, <1>6, <1>7 DEF QueueOK, CrawlOK
<1>9. chapters' = (IF wrote THEN {c \in chapters : c.num # entry.num} \cup {entry} ELSE chapters)
      /\ UNCHANGED <<site, opened, offset, patch>>
  BY DEF Upsert
<1>10. entry.src = s /\ entry.page = p /\ entry.loc = Num(s, p) /\ entry.num = Num(s, p) + offset[s]
  BY <1>5, <1>7, <1>8
<1> HIDE DEF entry, wrote, r
<1>11. ASSUME NEW c \in chapters PROVE \E d \in chapters' : d.src = c.src /\ d.page = c.page
  <2>1. CASE c \in chapters'  BY <2>1
  <2>2. CASE c \notin chapters'
    <3>1. wrote /\ c.num = entry.num /\ entry \in chapters'  BY <1>9, <2>2
    <3>2. c.src = s /\ c.page = p  BY <1>2, <1>3, <1>8, <1>10, <3>1, RowOfThePage
    <3> QED  BY <1>10, <3>1, <3>2
  <2> QED  BY <2>1, <2>2
<1>12. SavedStays  BY <1>11 DEF SavedStays, Saved, Rows
<1>13. Saved(s, p)'
  <2>1. CASE wrote
    <3>1. entry \in chapters'  BY <1>9, <2>1
    <3> QED  BY <1>10, <3>1 DEF Saved, Rows
  <2>2. CASE ~wrote
    <3>1. Saved(s, p)  BY <1>8, <2>2 DEF wrote, r
    <3> QED  BY <1>3, <1>12, <3>1 DEF SavedStays
  <2> QED  BY <2>1, <2>2
<1>14. RowsInOrder'
  <2>1. ASSUME NEW c \in chapters' 
        PROVE  (Holds(c.src, c.page) /\ c.loc = Num(c.src, c.page) /\ Behind(c.src, c.page))'
    <3>1. /\ c.src \in Sources
          /\ Holds(c.src, c.page) /\ c.loc = Num(c.src, c.page) /\ Behind(c.src, c.page)
      <4>1. CASE c \in chapters  BY <1>2, <4>1 DEF RowsInOrder, ScraperTypeInv, ScraperTypeOK, Row
      <4>2. CASE c = entry  BY <1>3, <1>8, <1>10, <4>2
      <4> QED  BY <1>9, <2>1, <4>1, <4>2
    <3> QED  BY <1>9, <1>12, <3>1, SettledStays
  <2> QED  BY <2>1 DEF RowsInOrder
<1> QED  BY <1>3, <1>8, <1>9, <1>12, <1>13, <1>14

\* A renumbering changes neither which pages are saved nor in which order.
LEMMA RenumbersInOrder ==
  ASSUME PathInv, NEW e \in Editors, RenumberCommits(e)
  PROVE  SavedStays /\ RowsInOrder' /\ OffsetsOK' /\ UNCHANGED <<site, opened, job>>
<1> DEFINE s == patch[e][1]
           delta == patch[e][3] - patch[e][2]
<1>0. ScraperTypeInv /\ BookInOrder /\ RowsInOrder /\ OffsetsOK  BY DEF PathInv
<1>1. /\ s \in Sources /\ patch[e][3] \in Int /\ delta \in Int
      /\ patch' = [patch EXCEPT ![e] = <<>>]
      /\ UNCHANGED <<site, opened, job>>
  BY <1>0, CommitIs
<1>2. \/ UNCHANGED <<chapters, offset>>
      \/ /\ chapters' = (chapters \ Rows(s)) \cup Moved(s, delta)
         /\ offset' = [offset EXCEPT ![s] = patch[e][3]]
  BY <1>0, CommitIs
<1>3. chapters \subseteq Row /\ offset \in [Sources -> Int]
      /\ patch \in [Editors -> {<<>>} \cup (Sources \X Int \X Int)]
  BY <1>0 DEF ScraperTypeInv, ScraperTypeOK
<1>4. patch[e][3] \in Offsets[s]  BY <1>0 DEF OffsetsOK, RenumberCommits
<1>5. OffsetsOK'
  <2>1. Sources' = Sources  BY <1>1 DEF Sources
  <2>2. \A t \in Sources : offset'[t] \in Offsets[t]
    <3> HIDE DEF s
    <3> QED  BY <1>0, <1>1, <1>2, <1>3, <1>4 DEF OffsetsOK
  <2>3. \A f \in Editors : patch'[f] # <<>> => patch'[f] = patch[f]  BY <1>1, <1>3
  <2> QED  BY <1>0, <2>1, <2>2, <2>3 DEF OffsetsOK
<1> HIDE DEF s, delta
<1>6. ASSUME NEW c \in chapters PROVE \E d \in chapters' : d.src = c.src /\ d.page = c.page
  <2>1. CASE c \in chapters'  BY <2>1
  <2>2. CASE c \notin chapters'
    <3>1. c \in Rows(s) /\ chapters' = (chapters \ Rows(s)) \cup Moved(s, delta)  BY <1>2, <2>2
    <3>2. [c EXCEPT !.num = @ + delta] \in chapters'  BY <3>1 DEF Moved
    <3>3. c \in Row  BY <1>3
    <3> QED  BY <1>1, <3>2, <3>3, MovedRow
  <2> QED  BY <2>1, <2>2
<1>7. SavedStays  BY <1>6 DEF SavedStays, Saved, Rows
<1>8. RowsInOrder'
  <2>1. ASSUME NEW c \in chapters' 
        PROVE  (Holds(c.src, c.page) /\ c.loc = Num(c.src, c.page) /\ Behind(c.src, c.page))'
    <3>1. \E d \in chapters : d.src = c.src /\ d.page = c.page /\ d.loc = c.loc
      <4>1. CASE c \in chapters  BY <4>1
      <4>2. CASE c \in Moved(s, delta)
        <5>1. c.src = s /\ \E d \in Rows(s) : c.page = d.page /\ c.loc = d.loc
          BY <1>0, <1>1, <4>2, MovedIs
        <5> QED  BY <5>1 DEF Rows
      <4> QED  BY <1>2, <2>1, <4>1, <4>2
    <3>2. /\ c.src \in Sources
          /\ Holds(c.src, c.page) /\ c.loc = Num(c.src, c.page) /\ Behind(c.src, c.page)
      BY <1>0, <1>3, <3>1 DEF RowsInOrder, Row
    <3> QED  BY <1>1, <1>7, <3>2, SettledStays
  <2> QED  BY <2>1 DEF RowsInOrder
<1> QED  BY <1>1, <1>5, <1>7, <1>8

----------------------------------------------------------------------------
(* What the steps of a crawl make of it.                                   *)

OnPath(r) == PathOK(r) /\ CountOK(r)

LEMMA EndsOnPath ==
  ASSUME NEW r, NEW S
  PROVE  OnPath(Over(r)) /\ OnPath(Between(r, S)) /\ OnPath(EndSource(r))
<1>1. OnPath(IdleJob)  BY DEF OnPath, PathOK, CountOK, Crawling, IdleJob
<1>2. ASSUME NEW T PROVE OnPath(Between(r, T))
  <2>1. /\ Between(r, T).pc = "source" /\ Between(r, T).last = NoNum
        /\ Between(r, T).count = 0 /\ Between(r, T).fresh = 0
    BY DEF Between, IdleJob
  <2> QED  BY <2>1 DEF OnPath, PathOK, CountOK, Crawling
<1> QED  BY <1>1, <1>2 DEF Over, EndSource

\* The fields that the count is about.
SameBooks(x, r) ==
  /\ x.todo = r.todo /\ x.force = r.force /\ x.max = r.max /\ x.resume = r.resume
  /\ x.count = r.count /\ x.fresh = r.fresh /\ x.saved = r.saved /\ x.prev = r.prev

LEMMA SameCount ==
  ASSUME NEW x, NEW r, SameBooks(x, r), NEW s
  PROVE  /\ Inclusive(x, s) <=> Inclusive(r, s)
         /\ LimitOf(x, s) = LimitOf(r, s)
         /\ UnderLimit(x, s) <=> UnderLimit(r, s)
         /\ \A p : StartsAt(x, s, p) <=> StartsAt(r, s, p)
         /\ x.last = r.last \/ KindOf(s) # "account" => (Counted(r, s) => Counted(x, s))
<1>1. Inclusive(x, s) <=> Inclusive(r, s)  BY DEF SameBooks, Inclusive
<1>2. LimitOf(x, s) = LimitOf(r, s)  BY <1>1 DEF SameBooks, LimitOf
<1> QED  BY <1>1, <1>2 DEF SameBooks, UnderLimit, StartsAt, Counted

\* A crawl that has all of its queue behind it goes to page p.
Ready(r, s, p) ==
  /\ p \in DOMAIN PagesOf(s) =>
       Behind(s, p) /\ ~PagesOf(s)[p].cont /\ LastOK(r, s, p)
  /\ ~r.force => Counted(r, s) /\ UnderLimit(r, s) /\ StartsAt(r, s, p)

LEMMA FollowOnPath ==
  ASSUME NEW r \in Job, NEW p \in Nat, r.queue = <<>>, r.pending = 0, Ready(r, Min(r.todo), p)
  PROVE  OnPath(Follow(r, p))
<1> DEFINE s == Min(r.todo)
           f == [r EXCEPT !.at = p, !.pc = "fetch"]
<1>1. CASE p = 0  BY <1>1, EndsOnPath DEF Follow
<1>2. CASE p # 0
  <2>1. /\ f.pc = "fetch" /\ f.at = p /\ f.pending = 0 /\ f.queue = <<>> /\ f.last = r.last
        /\ SameBooks(f, r)
    BY DEF Job, SameBooks
  <2>2. Follow(r, p) = f  BY <1>2 DEF Follow
  <2> HIDE DEF f
  <2>3. Min(f.todo) = s /\ f.force = r.force /\ NextPage(f) = p  BY <2>1 DEF SameBooks, NextPage
  <2> HIDE DEF s
  <2>4. p \in DOMAIN PagesOf(s) => Behind(s, p) /\ ~PagesOf(s)[p].cont /\ LastOK(f, s, p)
    BY <2>1 DEF Ready, LastOK, s
  <2>5. FetchOK(f, s)  BY <2>1, <2>4 DEF FetchOK, Behind
  <2>6. ~f.force => CountsOK(f, s)
    <3> SUFFICES ASSUME ~f.force PROVE CountsOK(f, s)  OBVIOUS
    <3>1. Counted(r, s) /\ UnderLimit(r, s) /\ StartsAt(r, s, p)  BY <2>3 DEF Ready, s
    <3>2. Counted(f, s) /\ UnderLimit(f, s) /\ StartsAt(f, s, p)  BY <2>1, <3>1, SameCount
    <3> QED  BY <2>1, <2>3, <3>2 DEF CountsOK
  <2> QED  BY <2>1, <2>2, <2>3, <2>5, <2>6 DEF OnPath, PathOK, CountOK
<1> QED  BY <1>1, <1>2

----------------------------------------------------------------------------
LEMMA StartOnPath ==
  ASSUME PathInv, NEW j \in ScrapeJobs, StartSource(j)
  PROVE  \E r : Crawls(j, r) /\ OnPath(r)
<1> DEFINE q == job[j]
           s == Src(j)
           c == resume_url(s)
           resumed == ~q.force /\ Rows(s) # {}
           pages == IF q.force THEN {} ELSE {d.page : d \in Rows(s)}
           r == [q EXCEPT !.resume = resumed, !.off = offset[s], !.saved = pages]
           l == [r EXCEPT !.last = c.loc]
<1>1. ScraperTypeInv /\ ScraperTypeOK /\ q \in Job /\ CrawlOK(q) /\ BookInOrder
  BY DEF PathInv, ScraperTypeInv, ScraperTypeOK
<1>2. q.pc = "source" /\ q.todo # {}  BY DEF StartSource
<1>3. s \in Sources /\ s = Min(q.todo)  BY <1>1, <1>2, SrcIs DEF Src
<1>4. q.queue = <<>> /\ q.pending = 0 /\ q.last = NoNum /\ q.count = 0 /\ q.fresh = 0
  BY <1>1, <1>2 DEF CrawlOK, PathInv, PathOK, CountOK
<1>5. offset[s] \in Int /\ resumed \in BOOLEAN /\ pages \in SUBSET Nat
  <2>1. offset[s] \in Int  BY <1>1, <1>3 DEF ScraperTypeOK
  <2>2. \A d \in Rows(s) : d.page \in Nat  BY <1>1 DEF ScraperTypeOK, Rows, Row
  <2>3. pages \in SUBSET Nat  BY <2>2
  <2> QED  BY <2>1, <2>3
<1>6. \A d \in Rows(s) :
        /\ d \in Row /\ d.page \in DOMAIN PagesOf(s) /\ Holds(s, d.page)
        /\ d.loc = Num(s, d.page) /\ d.num = d.loc + offset[s] /\ Behind(s, d.page)
  BY <1>1 DEF PathInv, RowsInOrder, ChaptersAreAligned, ScraperTypeInv, RowsOK, ScraperTypeOK, Rows
<1>7. resumed =>
        /\ c \in Rows(s)
        /\ \A d \in Rows(s) : Num(s, d.page) <= Num(s, c.page) /\ d.page <= c.page
  <2> SUFFICES ASSUME resumed
               PROVE  /\ c \in Rows(s)
                      /\ \A d \in Rows(s) : Num(s, d.page) <= Num(s, c.page) /\ d.page <= c.page
    OBVIOUS
  <2>1. c \in Rows(s) /\ \A d \in Rows(s) : d.num <= c.num  BY <1>1, <1>3, ResumeRowIs
  <2> HIDE DEF c
  <2>2. ASSUME NEW d \in Rows(s) PROVE Num(s, d.page) <= Num(s, c.page) /\ d.page <= c.page
    <3>1. Num(s, d.page) \in Nat /\ Num(s, c.page) \in Nat  BY <1>1, <1>3, <1>6, <2>1, SourceInOrder
    <3>2. Num(s, d.page) + offset[s] <= Num(s, c.page) + offset[s]  BY <1>6, <2>1
    <3>3. Num(s, d.page) <= Num(s, c.page)  BY <1>5, <3>1, <3>2
    <3> QED  BY <1>1, <1>3, <1>6, <2>1, <3>3, SourceInOrder
  <2> QED  BY <2>1, <2>2
<1> HIDE DEF pages, c
<1>8. /\ r \in Job /\ r.todo = q.todo /\ r.queue = <<>> /\ r.pending = 0 /\ r.last = NoNum
      /\ r.count = 0 /\ r.fresh = 0 /\ r.force = q.force /\ r.resume = resumed /\ r.saved = pages
  <2> HIDE DEF q, resumed
  <2> QED  BY <1>1, <1>4, <1>5 DEF Job
<1> HIDE DEF r
<1>9. resumed => /\ l \in Job /\ l.todo = q.todo /\ l.queue = <<>> /\ l.pending = 0 /\ l.last = c.loc
                 /\ SameBooks(l, r)
  <2>1. resumed => c.loc \in Number  BY <1>6, <1>7 DEF Row, Number
  <2> QED  BY <1>8, <2>1 DEF Job, SameBooks
<1> HIDE DEF l
<1>10. ~r.force =>
         /\ \A p \in r.saved : r.resume /\ p \in DOMAIN PagesOf(s) /\ Holds(s, p)
         /\ UnderLimit(r, s)
         /\ resumed => \A p \in r.saved : p <= c.page /\ Num(s, p) <= Num(s, c.page)
         /\ resumed => c.page \in r.saved
  <2>1. LimitOf(r, s) # Unlimited => 0 < LimitOf(r, s)  BY <1>8, ScraperAssumptions DEF LimitOf, Job
  <2>2. UnderLimit(r, s)  BY <1>8, <2>1 DEF UnderLimit
  <2>3. ~r.force => r.saved = {d.page : d \in Rows(s)} /\ (resumed <=> Rows(s) # {})
    BY <1>8 DEF pages
  <2>4. r.resume = resumed  BY <1>8
  <2> HIDE DEF q, s, resumed
  <2>5. ASSUME ~r.force
        PROVE  /\ \A p \in r.saved : r.resume /\ p \in DOMAIN PagesOf(s) /\ Holds(s, p)
               /\ resumed => \A p \in r.saved : p <= c.page /\ Num(s, p) <= Num(s, c.page)
               /\ resumed => c.page \in r.saved
    BY <1>6, <1>7, <2>3, <2>4, <2>5
  <2> QED  BY <2>2, <2>5
<1>11. KindOf(s) # "account" /\ ~r.force => Counted(r, s)  BY <1>8, <1>10 DEF Counted
<1>12. ~resumed => OnPath(Follow(r, 1))
  <2> SUFFICES ASSUME ~resumed PROVE OnPath(Follow(r, 1))  OBVIOUS
  <2>1. ~r.force => Counted(r, s) /\ UnderLimit(r, s) /\ StartsAt(r, s, 1)
    BY <1>8, <1>10 DEF Counted, StartsAt, Inclusive
  <2>2. 1 \in DOMAIN PagesOf(s) => Behind(s, 1) /\ ~PagesOf(s)[1].cont /\ LastOK(r, s, 1)
    BY <1>1, <1>3, <1>8, SourceInOrder DEF Behind, LastOK
  <2> QED  BY <1>3, <1>8, <2>1, <2>2, FollowOnPath DEF Ready
<1>13. resumed /\ KindOf(s) # "account" => OnPath(Follow(r, c.page))
  <2> SUFFICES ASSUME resumed, KindOf(s) # "account" PROVE OnPath(Follow(r, c.page))  OBVIOUS
  <2>1. c.page \in DOMAIN PagesOf(s) /\ Behind(s, c.page) /\ Holds(s, c.page) /\ c.page \in Nat
    BY <1>6, <1>7 DEF Row
  <2>2. ~PagesOf(s)[c.page].cont
    <3>1. PagesOf(s)[c.page].cont => KindOf(s) = "split"  BY <1>1, <1>3, <2>1, SourceInOrder
    <3> QED  BY <2>1, <3>1 DEF Holds, HoldsChapter, PagesOf, KindOf
  <2>3. ~r.force => Counted(r, s) /\ UnderLimit(r, s) /\ StartsAt(r, s, c.page)
    BY <1>8, <1>10, <1>11 DEF StartsAt
  <2> QED  BY <1>3, <1>8, <2>1, <2>2, <2>3, FollowOnPath DEF Ready, LastOK
<1>14. resumed /\ KindOf(s) = "account" => OnPath(AfterCheckpoint(r, s, c))
  <2> SUFFICES ASSUME resumed, KindOf(s) = "account" PROVE OnPath(AfterCheckpoint(r, s, c))  OBVIOUS
  <2> DEFINE to == Link(s, c.page)
  <2>1. c.page \in DOMAIN PagesOf(s) /\ Behind(s, c.page) /\ c.loc = Num(s, c.page) /\ c.loc \in Nat
    BY <1>6, <1>7 DEF Row
  <2>2. to \in Nat /\ to <= c.page + 1  BY <1>1, <1>3, <2>1, LinkIsNear
  <2>3. AfterCheckpoint(r, s, c) = Follow(l, to)  BY DEF AfterCheckpoint, l
  <2> HIDE DEF to
  <2>4. Settled(s, c.page)  BY <1>7 DEF Settled, Saved
  <2>5. to \in DOMAIN PagesOf(s) => Behind(s, to) /\ ~PagesOf(s)[to].cont
    <3>1. \A p \in DOMAIN PagesOf(s) : p \in Nat /\ ~PagesOf(s)[p].cont
      BY <1>1, <1>3, SourceInOrder
    <3>2. \A p \in DOMAIN PagesOf(s) : p < to => p < c.page \/ p = c.page  BY <2>1, <2>2, <3>1
    <3> QED  BY <2>1, <2>4, <3>1, <3>2 DEF Behind
  <2>6. ~l.force => Counted(l, s) /\ UnderLimit(l, s) /\ StartsAt(l, s, to)
    <3> SUFFICES ASSUME ~l.force PROVE Counted(l, s) /\ UnderLimit(l, s) /\ StartsAt(l, s, to)  OBVIOUS
    <3>1. ~r.force /\ l.resume = r.resume /\ l.saved = r.saved /\ l.count = 0 /\ l.fresh = 0
      BY <1>8, <1>9 DEF SameBooks
    <3>2. l.last # NoNum  BY <1>9, <2>1, ScraperAssumptions
    <3>3. Counted(l, s)  BY <1>9, <1>10, <2>1, <3>1, <3>2 DEF Counted
    <3>4. UnderLimit(l, s)  BY <1>9, <1>10, <3>1, SameCount
    <3> QED  BY <3>3, <3>4 DEF StartsAt, Inclusive
  <2> QED  BY <1>3, <1>9, <2>2, <2>3, <2>5, <2>6, FollowOnPath DEF Ready, LastOK
<1>15. Crawls(j, IF ~LoggedIn(j) THEN Over(r)
                 ELSE IF ~resumed THEN Follow(r, 1)
                 ELSE IF Kind(j) = "account" THEN AfterCheckpoint(r, s, c)
                 ELSE Follow(r, c.page))
  BY DEF StartSource, Crawls, resumed, pages, r, c
<1>16. Kind(j) = KindOf(s)  BY DEF Kind
<1> HIDE DEF resumed
<1> QED  BY <1>12, <1>13, <1>14, <1>15, <1>16, EndsOnPath

LEMMA OnItsWay ==
  ASSUME PathInv, NEW j \in ScrapeJobs, Crawling(job[j])
  PROVE  /\ ScraperTypeInv /\ ScraperTypeOK /\ BookInOrder
         /\ job[j] \in Job /\ CrawlOK(job[j])
         /\ Src(j) = Min(job[j].todo) /\ Src(j) \in Sources /\ Kind(j) = KindOf(Src(j))
         /\ PagesFor(job[j]) = DOMAIN PagesOf(Src(j))
         /\ IF job[j].pc \in {"fetch", "ad"} THEN FetchOK(job[j], Src(j)) ELSE QueueOK(job[j], Src(j))
         /\ ~job[j].force => CountsOK(job[j], Src(j))
<1>1. ScraperTypeInv /\ BookInOrder /\ PathOK(job[j]) /\ CountOK(job[j])  BY DEF PathInv
<1>2. /\ ScraperTypeOK /\ job[j] \in Job /\ CrawlOK(job[j])
      /\ Src(j) = Min(job[j].todo) /\ Src(j) \in Sources /\ Kind(j) = KindOf(Src(j))
      /\ PagesFor(job[j]) = DOMAIN PagesOf(Src(j))
  BY <1>1, JobIs
<1> QED  BY <1>1, <1>2 DEF PathOK, CountOK

LEMMA VisitedSame ==
  ASSUME NEW j \in ScrapeJobs, job[j] \in Job
  PROVE  /\ Visited(j) \in Job /\ SameBooks(Visited(j), job[j]) /\ Visited(j).last = job[j].last
         /\ Visited(j).pending = job[j].pending /\ Visited(j).queue = job[j].queue
         /\ Visited(j).at = job[j].at
BY DEF Visited, Job, SameBooks

\* A crawl opens a page with no chapter and goes where it leads.
LEMMA PassOnPath ==
  ASSUME PathInv, NEW j \in ScrapeJobs, Fetched(j, "ok"),
         \/ Kind(j) = "reader" /\ State(Src(j), job[j].at) = "image"
         \/ State(Src(j), job[j].at) = "index"
  PROVE  OnPath(Follow(Visited(j), Link(Src(j), job[j].at)))
<1> DEFINE r == job[j]
           v == Visited(j)
           s == Src(j)
           p == job[j].at
           to == Link(s, p)
<1>0. ScraperTypeInv  BY DEF PathInv
<1>1. Crawling(r) /\ r.pc = "fetch" /\ p \in PagesFor(r)  BY <1>0, FetchedIs
<1>2. /\ ScraperTypeOK /\ BookInOrder /\ r \in Job /\ s \in Sources /\ s = Min(r.todo)
      /\ p \in DOMAIN PagesOf(s) /\ FetchOK(r, s) /\ (~r.force => CountsOK(r, s))
      /\ Kind(j) = KindOf(s)
  BY <1>1, OnItsWay
<1>3. PagesOf(s)[p].state \in {"image", "index"}  BY DEF State
<1>4. /\ p \in Nat /\ p > 0 /\ KindOf(s) \in {"catalogue", "reader"}
      /\ \A q \in DOMAIN PagesOf(s) : q \in Nat /\ ~PagesOf(s)[q].cont
  <2>1. PagesOf(s)[p].state = "index" => KindOf(s) = "catalogue"  BY <1>2, SourceInOrder
  <2>2. KindOf(s) \in {"catalogue", "reader"}  BY <1>2, <2>1 DEF State
  <2> QED  BY <1>2, <2>2, SourceInOrder
<1>5. to \in Nat /\ to <= p + 1  BY <1>2, LinkIsNear
<1>6. /\ v \in Job /\ SameBooks(v, r) /\ v.last = r.last /\ v.pending = r.pending /\ v.queue = r.queue
  BY <1>2, VisitedSame
<1>7. r.pending = 0 /\ r.queue = <<>> /\ Behind(s, p)
  <2>1. r.pending = 0 /\ r.queue = <<>>  BY <1>2, <1>4 DEF FetchOK
  <2>2. \A q \in DOMAIN PagesOf(s) : q # 0  BY <1>2, SourceInOrder
  <2> QED  BY <1>2, <2>1, <2>2 DEF FetchOK, Behind
<1> HIDE DEF r, v, s, p, to
<1>8. to \in DOMAIN PagesOf(s) => Behind(s, to) /\ ~PagesOf(s)[to].cont /\ LastOK(v, s, to)
  <2>1. Settled(s, p)  BY <1>3 DEF Settled
  <2>2. \A q \in DOMAIN PagesOf(s) : q < to => q < p \/ q = p  BY <1>4, <1>5
  <2>3. to \in DOMAIN PagesOf(s) => Behind(s, to)  BY <1>7, <2>1, <2>2 DEF Behind
  <2> QED  BY <1>4, <2>3 DEF LastOK
<1>9. ~v.force => Counted(v, s) /\ UnderLimit(v, s) /\ StartsAt(v, s, to)
  <2> SUFFICES ASSUME ~v.force PROVE Counted(v, s) /\ UnderLimit(v, s) /\ StartsAt(v, s, to)  OBVIOUS
  <2>1. CountsOK(r, s) /\ NextPage(r) = p
    BY <1>1, <1>2, <1>6, <1>7 DEF SameBooks, NextPage, p, r
  <2>2. Counted(r, s) /\ UnderLimit(r, s) /\ StartsAt(r, s, p)  BY <1>1, <2>1 DEF CountsOK
  <2>3. ~(Inclusive(r, s) /\ r.count = 0)
    <3>1. ~Holds(s, p)  BY <1>3, <1>4 DEF Holds, HoldsChapter, PagesOf, KindOf
    <3> QED  BY <2>2, <3>1 DEF StartsAt, Counted
  <2>4. StartsAt(r, s, to)  BY <2>3 DEF StartsAt
  <2> QED  BY <1>6, <2>2, <2>4, SameCount
<1>10. OnPath(Follow(v, to))
  <2>1. Min(v.todo) = s  BY <1>2, <1>6 DEF SameBooks
  <2> QED  BY <1>5, <1>6, <1>7, <1>8, <1>9, <2>1, FollowOnPath DEF Ready
<1> QED  BY <1>10 DEF v, to, s, p

\* The adapter finds a chapter's own number, whatever it read before.
LEMMA ReadsItsNumber ==
  ASSUME ScraperTypeOK, BookInOrder, NEW s \in Sources, NEW p \in DOMAIN PagesOf(s),
         KindOf(s) # "archive", Holds(s, p), NEW r, LastOK(r, s, p)
  PROVE  AdapterNumber(KindOf(s), PagesOf(s)[p], r.last) = Num(s, p)
<1> DEFINE pg == PagesOf(s)[p]
           parsed == parse_chapter_number(pg)
<1>1. Num(s, p) = AdapterNumber(KindOf(s), pg, NoNum) /\ Num(s, p) \in Nat
  BY SourceInOrder DEF Num, NumberOf, PagesOf, KindOf
<1>2. CASE ~(KindOf(s) = "split" /\ r.last # NoNum)
  <2>1. AdapterNumber(KindOf(s), pg, r.last) = AdapterNumber(KindOf(s), pg, NoNum)
    BY <1>2 DEF AdapterNumber
  <2> QED  BY <1>1, <2>1
<1>3. CASE KindOf(s) = "split" /\ r.last # NoNum
  <2>1. PICK y \in DOMAIN PagesOf(s) : y < p /\ Holds(s, y) /\ r.last = Num(s, y)  BY <1>3 DEF LastOK
  <2>2. Num(s, p) = parsed  BY <1>1, <1>3 DEF AdapterNumber
  <2>3. Num(s, y) < Num(s, p) /\ Num(s, y) \in Nat  BY <2>1, SourceInOrder
  <2>4. parsed # NoNum /\ ~(parsed <= r.last)  BY <1>1, <2>1, <2>2, <2>3, ScraperAssumptions
  <2> HIDE DEF parsed
  <2> QED  BY <1>3, <2>2, <2>4 DEF AdapterNumber, parsed
<1> QED  BY <1>2, <1>3

LEMMA YieldSame ==
  ASSUME NEW r \in Job, NEW p \in Nat, NEW n \in Number
  PROVE  LET x == Yield([r EXCEPT !.pending = 0], p, n)
         IN  /\ x \in Job /\ x.pc = "take" /\ SameBooks(x, r) /\ x.at = r.at /\ x.link = r.link
             /\ x.pending = 0 /\ x.last = n /\ x.queue = <<[page |-> p, num |-> n]>>
<1> DEFINE w == [r EXCEPT !.pending = 0]
           e == [page |-> p, num |-> n]
<1>1. /\ w \in Job /\ SameBooks(w, r) /\ w.at = r.at /\ w.link = r.link /\ w.pending = 0
  BY DEF Job, SameBooks
<1>2. <<e>> \in Seq([page : Nat, num : Number])  OBVIOUS
<1> HIDE DEF w, e
<1>3. LET x == [w EXCEPT !.queue = <<e>>, !.last = n, !.pc = "take"]
      IN  /\ x \in Job /\ x.pc = "take" /\ SameBooks(x, w) /\ x.at = w.at /\ x.link = w.link
          /\ x.pending = w.pending /\ x.last = n /\ x.queue = <<e>>
  BY <1>1, <1>2 DEF Job, SameBooks
<1>4. Yield(w, p, n) = [w EXCEPT !.queue = <<e>>, !.last = n, !.pc = "take"]  BY DEF Yield, e
<1> QED  BY <1>1, <1>3, <1>4 DEF w, e, SameBooks

\* A page with a chapter, or a further page of one, is read.
LEMMA ReadOnPath ==
  ASSUME PathInv, NEW j \in ScrapeJobs, job[j].pc \in {"fetch", "ad"},
         job[j].at \in PagesFor(job[j]), Kind(j) # "archive",
         PagesOf(Src(j))[job[j].at].state \in {"open", "ad", "gone", "locked"}
  PROVE  OnPath(Read(j))
<1> DEFINE r == job[j]
           s == Src(j)
           k == Kind(j)
           p == job[j].at
           to == Link(s, p)
           n == AdapterNumber(k, Here(j), r.last)
           v == Visited(j)
           link == IF to = 0 /\ k = "paged" THEN _predict_next_url(s, p) ELSE to
           guess == k = "paged" /\ to = 0
           w == [v EXCEPT !.link = link, !.predicted = guess]
           first == IF r.pending = 0 THEN p ELSE r.pending
           number == IF r.pending = 0 THEN n ELSE r.last
<1>1. Crawling(r)  BY DEF Crawling
<1>2. /\ ScraperTypeOK /\ BookInOrder /\ r \in Job /\ CrawlOK(r) /\ s \in Sources /\ s = Min(r.todo)
      /\ p \in DOMAIN PagesOf(s) /\ FetchOK(r, s) /\ (~r.force => CountsOK(r, s))
      /\ k = KindOf(s)
  BY <1>1, OnItsWay
<1>3. /\ p \in Nat /\ p > 0 /\ PagesOf(s)[p] \in Page
      /\ PagesOf(s)[p].cont => k = "split"
      /\ \A q \in DOMAIN PagesOf(s) : q \in Nat /\ q > 0 /\ (PagesOf(s)[q].cont => k = "split")
  BY <1>2, SourceInOrder
<1>4. /\ to \in Nat /\ to <= p + 1 /\ (k = "split" => to \in {0, p + 1})
  BY <1>2, LinkIsNear
<1>5. r.pending \in Nat /\ r.last \in Number /\ (r.pending # 0 => r.pending \in DOMAIN PagesOf(s))
  BY <1>1, <1>2 DEF Job, CrawlOK, PagesFor
<1>6. /\ first \in DOMAIN PagesOf(s) /\ first \in Nat /\ first <= p
      /\ Holds(s, first) /\ number = Num(s, first) /\ number \in Nat /\ Behind(s, first)
      /\ \A q \in DOMAIN PagesOf(s) : q <= p => q = first \/ Settled(s, q)
  <2>1. CASE r.pending = 0
    <3>1. first = p /\ number = n  BY <2>1
    <3>2. ~PagesOf(s)[p].cont /\ LastOK(r, s, p) /\ Behind(s, p)
      BY <1>2, <1>3, <2>1 DEF FetchOK, Behind
    <3>3. Holds(s, p)  BY <3>2 DEF Holds, HoldsChapter, PagesOf
    <3>4. n = Num(s, p)  BY <1>2, <3>2, <3>3, ReadsItsNumber DEF Here
    <3>5. \A q \in DOMAIN PagesOf(s) : q <= p => q = p \/ Settled(s, q)  BY <1>3, <3>2 DEF Behind
    <3> HIDE DEF n, k, s, p, first, number
    <3> QED  BY <1>2, <1>3, <3>1, <3>2, <3>3, <3>4, <3>5, SourceInOrder
  <2>2. CASE r.pending # 0
    <3>1. first = r.pending /\ number = r.last  BY <2>2
    <3>2. /\ PagesOf(s)[p].cont /\ first < p /\ Holds(s, first) /\ number = Num(s, first)
          /\ Behind(s, first)
          /\ \A q \in DOMAIN PagesOf(s) : q < p => q = first \/ Settled(s, q)
      BY <1>2, <2>2, <3>1 DEF FetchOK
    <3>3. Settled(s, p)  BY <3>2 DEF Settled
    <3>4. \A q \in DOMAIN PagesOf(s) : q <= p => q = first \/ Settled(s, q)  BY <1>3, <3>2, <3>3
    <3> HIDE DEF n, k, s, p, first, number
    <3> QED  BY <1>2, <1>3, <1>5, <2>2, <3>1, <3>2, <3>4, SourceInOrder
  <2> QED  BY <2>1, <2>2
<1>7. /\ v \in Job /\ SameBooks(v, r) /\ v.at = p /\ v.queue = r.queue /\ v.pending = r.pending
  BY <1>2, VisitedSame
<1>8. link \in Nat /\ guess \in BOOLEAN  BY <1>2, <1>4, PredictIs
<1>9. w \in Job /\ SameBooks(w, r) /\ w.at = p /\ w.queue = r.queue /\ w.link = link
      /\ w.pending = r.pending /\ w.pc = r.pc
  <2>1. v.pc = r.pc  BY <1>2, VisitedIs DEF Visited
  <2> HIDE DEF r, s, k, p, v, link, guess
  <2> QED  BY <1>7, <1>8, <2>1 DEF Job, SameBooks
<1>10. Read(j) = IF LeadsBack(j, to, n) THEN Over(w)
                 ELSE IF Continued(j, to) THEN [w EXCEPT !.at = to, !.pending = first, !.last = number]
                 ELSE Yield([w EXCEPT !.pending = 0], first, number)
  BY DEF Read
<1>11. Continued(j, to) <=> k = "split" /\ to # 0 /\ PagesOf(s)[to].cont  BY DEF Continued
<1>12. LeadsBack(j, to, n) \/ (k = "account" /\ r.last # NoNum => ~(number <= r.last))
  BY <1>2, <1>3 DEF LeadsBack, FetchOK
<1>13. r.queue = <<>> /\ (r.pc = "ad" => k = "account")  BY <1>1, <1>2 DEF FetchOK, CrawlOK
<1>14. NextPage(r) = first  BY DEF NextPage
<1>15. (to = 0 /\ k = "paged") => (link \in DOMAIN PagesOf(s) => link <= p + 1)
  BY <1>2, GuessIsNear
<1>16. ~(to = 0 /\ k = "paged") => link = to  OBVIOUS
<1> HIDE DEF r, s, k, p, to, n, v, link, guess, w, first, number
<1>17. \A q \in DOMAIN PagesOf(s) : q < to => q <= p  BY <1>3, <1>4
<1>18. CASE LeadsBack(j, to, n)  BY <1>10, <1>18, EndsOnPath
<1>19. CASE ~LeadsBack(j, to, n) /\ Continued(j, to)
  <2> DEFINE x == [w EXCEPT !.at = to, !.pending = first, !.last = number]
  <2>1. /\ x.pc = r.pc /\ SameBooks(x, r) /\ x.at = to /\ x.queue = <<>> /\ x.pending = first
        /\ x.last = number
    <3>1. number \in Number  BY <1>6 DEF Number
    <3> QED  BY <1>4, <1>6, <1>9, <1>13, <3>1 DEF Job, SameBooks
  <2>2. Read(j) = x  BY <1>10, <1>19
  <2> HIDE DEF x
  <2>3. r.pc = "fetch" /\ k = "split" /\ to = p + 1 /\ PagesOf(s)[to].cont /\ first # 0 /\ first < to
    BY <1>3, <1>4, <1>6, <1>11, <1>13, <1>19 DEF r
  <2>4. FetchOK(x, s)
    <3>1. \A q \in DOMAIN PagesOf(s) : q < to => q = first \/ Settled(s, q)  BY <1>6, <1>17
    <3> QED  BY <1>6, <2>1, <2>3, <3>1 DEF FetchOK
  <2>5. ~x.force => CountsOK(x, s)
    <3> SUFFICES ASSUME ~x.force PROVE CountsOK(x, s)  OBVIOUS
    <3>1. CountsOK(r, s)  BY <1>2, <2>1 DEF SameBooks
    <3>2. Counted(r, s) /\ UnderLimit(r, s) /\ StartsAt(r, s, first)
      BY <1>14, <2>3, <3>1 DEF CountsOK
    <3>3. KindOf(s) # "account"  BY <1>2, <2>3
    <3>4. Counted(x, s) /\ UnderLimit(x, s) /\ StartsAt(x, s, first)  BY <2>1, <3>2, <3>3, SameCount
    <3>5. NextPage(x) = first  BY <2>1, <2>3 DEF NextPage
    <3> QED  BY <2>1, <2>3, <3>4, <3>5 DEF CountsOK
  <2>6. Min(x.todo) = s  BY <1>2, <2>1 DEF SameBooks
  <2> QED  BY <2>1, <2>2, <2>3, <2>4, <2>5, <2>6 DEF OnPath, PathOK, CountOK
<1>20. CASE ~LeadsBack(j, to, n) /\ ~Continued(j, to)
  <2> DEFINE x == Yield([w EXCEPT !.pending = 0], first, number)
             e == [page |-> first, num |-> number]
  <2>1. /\ x.pc = "take" /\ SameBooks(x, r) /\ x.at = p /\ x.link = link
        /\ x.pending = 0 /\ x.last = number /\ x.queue = <<e>>
    <3>1. number \in Number  BY <1>6 DEF Number
    <3> QED  BY <1>6, <1>9, <3>1, YieldSame DEF SameBooks
  <2>2. Read(j) = x  BY <1>10, <1>20
  <2> HIDE DEF x
  <2>3. /\ DOMAIN x.queue = {1} /\ Len(x.queue) = 1 /\ x.queue # <<>>
        /\ x.queue[1].page = first /\ x.queue[1].num = number
    BY <2>1
  <2>4. link \in DOMAIN PagesOf(s) =>
          link <= p + 1 /\ ~PagesOf(s)[link].cont /\ (k = "split" => link = p + 1)
    <3>1. CASE to = 0 /\ k = "paged"  BY <1>3, <1>15, <3>1
    <3>2. CASE ~(to = 0 /\ k = "paged")
      <4>1. link = to  BY <1>16, <3>2
      <4> QED  BY <1>3, <1>4, <1>11, <1>20, <4>1
    <3> QED  BY <3>1, <3>2
  <2>5. LastOK(x, s, p + 1)
    <3>1. first < p + 1  BY <1>3, <1>6
    <3> QED  BY <1>6, <2>1, <3>1 DEF LastOK
  <2>6. QueueOK(x, s)
    <3>1. \A i \in DOMAIN x.queue :
            /\ Holds(s, x.queue[i].page) /\ x.queue[i].num = Num(s, x.queue[i].page)
            /\ x.queue[i].page = x.queue[1].page + i - 1
      BY <1>6, <2>3
    <3>2. \A q \in DOMAIN PagesOf(s) :
            q <= x.at => Settled(s, q) \/ (x.queue # <<>> /\ q = x.queue[1].page)
      BY <1>6, <2>1, <2>3
    <3> QED  BY <1>2, <1>6, <2>1, <2>3, <2>4, <2>5, <3>1, <3>2 DEF QueueOK
  <2>7. ~x.force => CountsOK(x, s)
    <3> SUFFICES ASSUME ~x.force PROVE CountsOK(x, s)  OBVIOUS
    <3>1. CountsOK(r, s)  BY <1>2, <2>1 DEF SameBooks
    <3>2. Counted(r, s) /\ UnderLimit(r, s) /\ StartsAt(r, s, first)
      <4>1. r.pc \in {"fetch", "ad"}  BY DEF r
      <4> QED  BY <1>14, <3>1, <4>1 DEF CountsOK
    <3>3. UnderLimit(x, s) /\ StartsAt(x, s, first)  BY <2>1, <3>2, SameCount
    <3>4. NextPage(x) = first  BY <2>1, <2>3 DEF NextPage
    <3>5. CASE k # "account"
      <4>1. KindOf(s) # "account"  BY <1>2, <3>5
      <4>2. Counted(x, s)  BY <2>1, <3>2, <4>1, SameCount
      <4> QED  BY <2>1, <3>3, <3>4, <4>1, <4>2 DEF CountsOK
    <3>6. CASE k = "account"
      <4>1. KindOf(s) = "account" /\ ~Inclusive(r, s) /\ ~Inclusive(x, s)
        BY <1>2, <2>1, <3>6 DEF Inclusive
      <4>2. \A q \in r.saved : q # first /\ Num(s, q) <= number
        <5> SUFFICES ASSUME NEW q \in r.saved PROVE q # first /\ Num(s, q) <= number  OBVIOUS
        <5>1. /\ r.resume /\ q \in DOMAIN PagesOf(s) /\ Holds(s, q)
              /\ r.last # NoNum /\ Num(s, q) <= r.last
          BY <3>2, <4>1 DEF Counted
        <5>2. Num(s, q) \in Nat  BY <1>2, <5>1, SourceInOrder
        <5>3. r.last \in Nat  BY <1>5, <5>1 DEF Number
        <5>4. ~(number <= r.last)  BY <1>12, <1>20, <3>6, <5>1
        <5> QED  BY <1>6, <5>1, <5>2, <5>3, <5>4
      <4>3. number # NoNum  BY <1>6, ScraperAssumptions
      <4>4. Counted(x, s)  BY <2>1, <3>2, <4>1, <4>2, <4>3 DEF Counted, SameBooks
      <4>5. x.queue[1].page \notin x.saved  BY <2>1, <2>3, <4>2 DEF SameBooks
      <4> QED  BY <2>1, <3>3, <3>4, <4>4, <4>5 DEF CountsOK
    <3> QED  BY <3>5, <3>6
  <2>8. Min(x.todo) = s  BY <1>2, <2>1 DEF SameBooks
  <2> QED  BY <2>1, <2>2, <2>6, <2>7, <2>8 DEF OnPath, PathOK, CountOK
<1> QED  BY <1>18, <1>19, <1>20

\* An archive is read from the checkpoint's section on.
LEMMA ArchiveOnPath ==
  ASSUME PathInv, NEW j \in ScrapeJobs, Fetched(j, "ok"), Kind(j) = "archive"
  PROVE  OnPath([Visited(j) EXCEPT
                   !.queue = archive_chapters(Src(j), job[j].at, AdapterLimit(j, job[j])),
                   !.pc = "take"])
<1> DEFINE r == job[j]
           s == Src(j)
           p == job[j].at
           v == Visited(j)
           limit == AdapterLimit(j, job[j])
           a == archive_chapters(s, p, limit)
           x == [v EXCEPT !.queue = a, !.pc = "take"]
<1>0. ScraperTypeInv  BY DEF PathInv
<1>1. Crawling(r) /\ r.pc = "fetch" /\ p \in PagesFor(r)  BY <1>0, FetchedIs
<1>2. /\ ScraperTypeOK /\ BookInOrder /\ r \in Job /\ s \in Sources /\ s = Min(r.todo)
      /\ p \in DOMAIN PagesOf(s) /\ FetchOK(r, s) /\ (~r.force => CountsOK(r, s))
      /\ KindOf(s) = "archive"
  BY <1>1, OnItsWay
<1>3. \A q \in DOMAIN PagesOf(s) : q \in Nat /\ q > 0 /\ ~PagesOf(s)[q].cont
  BY <1>2, SourceInOrder
<1>4. r.pending = 0 /\ Behind(s, p)  BY <1>2, <1>3 DEF FetchOK, Behind
<1>5. /\ v \in Job /\ SameBooks(v, r) /\ v.last = r.last /\ v.pending = 0
  BY <1>2, <1>4, VisitedSame
<1>6. limit \in (Nat \ {0}) \cup {Unlimited}
  <2>1. r.max \in (Nat \ {0}) \cup {Unlimited}  BY <1>2 DEF Job
  <2> QED  BY <2>1 DEF AdapterLimit
<1>7. /\ a \in Seq([page : Nat, num : Number]) /\ a # <<>>
      /\ \A i \in DOMAIN a : a[i].page \in DOMAIN PagesOf(s)
  <2> HIDE DEF a, limit, p, s, r
  <2> QED  BY <1>2, <1>6, ArchiveIs DEF a
<1>8. \A i \in DOMAIN a : i \in Nat /\ i > 0 /\ a[i].page = p + i - 1 /\ a[i].num = (p + i - 1) * 100
  <2>1. Len(PagesOf(s)) \in Nat
    <3>1. PagesOf(s) \in Seq(Page)  BY <1>2, SourceIs
    <3> QED  BY <3>1
  <2> HIDE DEF limit, p, s
  <2> QED  BY DEF archive_chapters
<1>9. 1 \in DOMAIN a
  <2> HIDE DEF a
  <2> QED  BY <1>7
<1> HIDE DEF a, limit
<1>10. /\ x.pc = "take" /\ SameBooks(x, r) /\ x.queue = a /\ x.pending = 0 /\ x.last = r.last
  <2> HIDE DEF r, v, s, p
  <2> QED  BY <1>5, <1>7 DEF Job, SameBooks
<1> HIDE DEF r, s, p, v, x
<1>11. \A q : Holds(s, q) /\ Num(s, q) = q * 100
  BY <1>2 DEF Holds, HoldsChapter, Num, NumberOf, KindOf
<1>12. a[1].page = p  BY <1>2, <1>3, <1>8, <1>9
<1>13. QueueOK(x, s)
  <2>1. \A i \in DOMAIN a : a[i].num = Num(s, a[i].page)
    <3>1. ASSUME NEW i \in DOMAIN a PROVE a[i].num = Num(s, a[i].page)
      <4>1. Num(s, a[i].page) = a[i].page * 100  BY <1>11
      <4> QED  BY <1>8, <4>1
    <3> QED  BY <3>1
  <2>2. \A i \in DOMAIN a : a[i].page = a[1].page + i - 1  BY <1>8, <1>12
  <2> QED  BY <1>2, <1>4, <1>7, <1>10, <1>11, <1>12, <2>1, <2>2 DEF QueueOK
<1>14. ~x.force => CountsOK(x, s)
  <2> SUFFICES ASSUME ~x.force PROVE CountsOK(x, s)  OBVIOUS
  <2>1. CountsOK(r, s) /\ NextPage(r) = p
    BY <1>1, <1>2, <1>4, <1>10 DEF SameBooks, NextPage, p, r
  <2>2. Counted(r, s) /\ UnderLimit(r, s) /\ StartsAt(r, s, p)  BY <1>1, <2>1 DEF CountsOK
  <2>3. Counted(x, s) /\ UnderLimit(x, s) /\ StartsAt(x, s, p)  BY <1>10, <2>2, SameCount
  <2>4. NextPage(x) = p  BY <1>10, <1>12 DEF NextPage
  <2> QED  BY <1>2, <1>10, <2>3, <2>4 DEF CountsOK
<1>15. Min(x.todo) = s  BY <1>2, <1>10 DEF SameBooks
<1>16. OnPath(x)  BY <1>10, <1>13, <1>14, <1>15 DEF OnPath, PathOK, CountOK
<1> QED  BY <1>16 DEF x, v, a, s, p, limit

LEMMA AdOnPath ==
  ASSUME PathInv, NEW j \in ScrapeJobs, MeetAd(j)
  PROVE  OnPath([job[j] EXCEPT !.pc = "ad"])
<1> DEFINE r == job[j]
           s == Src(j)
           x == [r EXCEPT !.pc = "ad"]
<1>0. ScraperTypeInv  BY DEF PathInv
<1>1. Crawling(r) /\ r.pc = "fetch"  BY <1>0, FetchedIs DEF MeetAd
<1>2. r \in Job /\ s = Min(r.todo) /\ FetchOK(r, s) /\ (~r.force => CountsOK(r, s))
  BY <1>1, OnItsWay
<1>3. /\ x.pc = "ad" /\ SameBooks(x, r) /\ x.queue = r.queue /\ x.pending = r.pending
      /\ x.last = r.last /\ x.at = r.at
  BY <1>2 DEF Job, SameBooks
<1>4. PagesOf(s)[r.at].state = "ad"  BY DEF MeetAd, State
<1> HIDE DEF x, r, s
<1>5. FetchOK(x, s)  BY <1>2, <1>3, <1>4 DEF FetchOK, LastOK
<1>6. ~x.force => CountsOK(x, s)
  <2> SUFFICES ASSUME ~x.force PROVE CountsOK(x, s)  OBVIOUS
  <2>1. CountsOK(r, s) /\ NextPage(r) = NextPage(x)  BY <1>1, <1>2, <1>3 DEF SameBooks, NextPage
  <2>2. Counted(r, s) /\ UnderLimit(r, s) /\ StartsAt(r, s, NextPage(x))
    BY <1>1, <2>1 DEF CountsOK
  <2>3. Counted(x, s) /\ UnderLimit(x, s) /\ StartsAt(x, s, NextPage(x))  BY <1>3, <2>2, SameCount
  <2> QED  BY <1>3, <2>3 DEF CountsOK
<1>7. Min(x.todo) = s  BY <1>2, <1>3 DEF SameBooks
<1> QED  BY <1>3, <1>5, <1>6, <1>7 DEF OnPath, PathOK, CountOK, x, r

\* The runner takes a chapter.
LEMMA TakeOnPath ==
  ASSUME PathInv, NEW j \in ScrapeJobs, Take(j)
  PROVE  \E x : Crawls(j, x) /\ OnPath(x)
<1> DEFINE r == job[j]
           s == Src(j)
           n == LocalNumber(r)
           there == \E c \in chapters : c.num = n + r.off
           more == IF Head(r.queue).page \in r.saved THEN 0 ELSE 1
           x == [r EXCEPT !.prev = n, !.exists = there, !.fresh = @ + more,
                          !.count = @ + 1, !.pc = "write"]
<1>1. r.pc = "take" /\ Crawling(r)  BY DEF Take, Crawling
<1>2. /\ ScraperTypeInv /\ ScraperTypeOK /\ BookInOrder /\ r \in Job /\ CrawlOK(r) /\ s \in Sources
      /\ s = Min(r.todo) /\ QueueOK(r, s) /\ (~r.force => CountsOK(r, s))
      /\ PagesFor(r) = DOMAIN PagesOf(s)
  BY <1>1, OnItsWay
<1>3. r.queue # <<>>  BY <1>1, <1>2 DEF CrawlOK
<1>4. Crawls(j, IF OutOfOrder(r) THEN Over(r) ELSE x)  BY DEF Take
<1>5. Head(r.queue) = r.queue[1] /\ 1 \in DOMAIN r.queue
  <2>1. r.queue \in Seq([page : Nat, num : Number])  BY <1>2 DEF Job
  <2> QED  BY <1>3, <2>1, HeadIs
<1>6. r.off = offset[s]  BY <1>1, <1>2 DEF PathInv, OffsetIsCurrent
<1> DEFINE p == r.queue[1].page
<1>7. p \in DOMAIN PagesOf(s) /\ Holds(s, p) /\ Head(r.queue).num = Num(s, p) /\ Head(r.queue).page = p
  BY <1>1, <1>2, <1>5 DEF CrawlOK, QueueOK
<1>8. Num(s, p) \in Nat /\ Num(s, p) # NoNum  BY <1>2, <1>7, SourceInOrder, ScraperAssumptions
<1>9. n = Num(s, p)  BY <1>7, <1>8 DEF LocalNumber
<1>10. there => Saved(s, p)
  <2> SUFFICES ASSUME there PROVE Saved(s, p)  OBVIOUS
  <2>1. PICK c \in chapters : c.num = Num(s, p) + offset[s]  BY <1>6, <1>9
  <2>2. ChaptersAreAligned /\ RowsInOrder /\ OffsetsOK  BY DEF PathInv
  <2> HIDE DEF p, s
  <2>3. c.src = s /\ c.page = p  BY <1>2, <1>7, <2>1, <2>2, RowOfThePage
  <2> QED  BY <2>3 DEF Saved, Rows
<1>11. r.prev \in Number /\ r.count \in Nat /\ r.fresh \in Nat  BY <1>2 DEF Job
<1>12. ~OutOfOrder(r) => (r.prev # NoNum => r.prev \in Nat /\ n > r.prev)
  <2>1. ~OutOfOrder(r) => (r.prev # NoNum => ~(n <= r.prev))  BY DEF OutOfOrder
  <2> HIDE DEF r, n
  <2> QED  BY <1>8, <1>9, <1>11, <2>1 DEF Number
<1>13. more = IF p \in r.saved THEN 0 ELSE 1  BY <1>7
<1>14. there \in BOOLEAN  OBVIOUS
<1> HIDE DEF s, n, there, more, p
<1>15. /\ x.pc = "write" /\ x.todo = r.todo /\ x.force = r.force /\ x.max = r.max
       /\ x.resume = r.resume /\ x.saved = r.saved /\ x.last = r.last /\ x.queue = r.queue
       /\ x.pending = r.pending /\ x.at = r.at /\ x.link = r.link
       /\ x.prev = n /\ x.exists = there /\ x.count = r.count + 1 /\ x.fresh = r.fresh + more
  <2> HIDE DEF r
  <2> QED  BY <1>2, <1>14 DEF Job
<1> HIDE DEF x, r
<1>16. QueueOK(x, s)
  <2>1. \A b : LastOK(r, s, b) => LastOK(x, s, b)  BY <1>15 DEF LastOK
  <2>2. x.prev = Num(s, x.queue[1].page) /\ (x.exists => Saved(s, x.queue[1].page))
    BY <1>9, <1>10, <1>15 DEF p
  <2> QED  BY <1>2, <1>15, <2>1, <2>2 DEF QueueOK
<1>17. ASSUME ~x.force, ~OutOfOrder(r) PROVE CountsOK(x, s)
  <2>1. CountsOK(r, s) /\ NextPage(r) = p  BY <1>1, <1>2, <1>15, <1>17 DEF NextPage, p
  <2>2. Counted(r, s) /\ UnderLimit(r, s) /\ StartsAt(r, s, p)
        /\ (KindOf(s) = "account" => p \notin r.saved)
    BY <1>1, <2>1 DEF CountsOK, p
  <2>3. (Inclusive(x, s) <=> Inclusive(r, s)) /\ LimitOf(x, s) = LimitOf(r, s)
    BY <1>15 DEF Inclusive, LimitOf
  <2>4. \A q \in r.saved : r.resume /\ q \in DOMAIN PagesOf(s) /\ Holds(s, q) /\ Num(s, q) \in Nat
    BY <1>2, <2>2, SourceInOrder DEF Counted
  <2>5. Inclusive(r, s) /\ r.count = 0 => more = 0 /\ \A q \in r.saved : Num(s, q) <= n
    <3> SUFFICES ASSUME Inclusive(r, s), r.count = 0
                 PROVE  more = 0 /\ \A q \in r.saved : Num(s, q) <= n
      OBVIOUS
    <3>1. p \in r.saved /\ \A q \in r.saved : q <= p  BY <2>2 DEF StartsAt
    <3>2. ASSUME NEW q \in r.saved PROVE Num(s, q) <= n
      <4>1. q \in Nat /\ p \in Nat /\ q \in DOMAIN PagesOf(s) /\ Holds(s, q)
        BY <1>2, <1>7, <2>4, SourceInOrder
      <4>2. q = p \/ q < p  BY <3>1, <4>1
      <4>3. q < p => Num(s, q) < Num(s, p)  BY <1>2, <1>7, <4>1, SourceInOrder
      <4> QED  BY <1>8, <1>9, <2>4, <4>2, <4>3
    <3> QED  BY <1>13, <3>1, <3>2
  <2>6. Inclusive(r, s) /\ r.count > 0 => more = 1 /\ \A q \in r.saved : Num(s, q) <= n
    <3> SUFFICES ASSUME Inclusive(r, s), r.count > 0
                 PROVE  more = 1 /\ \A q \in r.saved : Num(s, q) <= n
      OBVIOUS
    <3>1. r.prev \in Nat /\ n > r.prev /\ \A q \in r.saved : Num(s, q) <= r.prev
      BY <1>12, <1>17, <2>2 DEF Counted
    <3>2. \A q \in r.saved : Num(s, q) < n  BY <1>8, <1>9, <2>4, <3>1
    <3>3. p \notin r.saved  BY <1>8, <1>9, <3>2
    <3> QED  BY <1>8, <1>9, <1>13, <2>4, <3>2, <3>3
  <2>7. ~Inclusive(r, s) => more = 1
    <3>1. ~r.resume => r.saved = {}  BY <2>4
    <3> QED  BY <1>13, <2>2, <3>1 DEF Inclusive
  <2>8. x.count = (IF Inclusive(x, s) /\ x.count > 0 THEN x.fresh + 1 ELSE x.fresh)
    BY <1>11, <1>15, <2>2, <2>3, <2>5, <2>6, <2>7 DEF Counted
  <2>9. Inclusive(x, s) /\ x.count > 0 => x.prev # NoNum /\ \A q \in x.saved : Num(s, q) <= x.prev
    BY <1>8, <1>9, <1>11, <1>15, <2>3, <2>5, <2>6
  <2>10. Counted(x, s)  BY <1>15, <2>2, <2>8, <2>9 DEF Counted
  <2>11. x.count > 0 /\ (LimitOf(x, s) # Unlimited => x.count <= LimitOf(x, s))
    <3>1. LimitOf(r, s) \in (Nat \ {0}) \cup {Unlimited}
      <4>1. r.max \in (Nat \ {0}) \cup {Unlimited}  BY <1>2 DEF Job
      <4> QED  BY <4>1 DEF LimitOf
    <3> QED  BY <1>11, <1>15, <2>2, <2>3, <3>1 DEF UnderLimit
  <2> QED  BY <1>15, <2>10, <2>11 DEF CountsOK
<1>18. Min(x.todo) = s  BY <1>2, <1>15
<1>19. ~OutOfOrder(r) => OnPath(x)  BY <1>15, <1>16, <1>17, <1>18 DEF OnPath, PathOK, CountOK
<1> QED  BY <1>4, <1>19, EndsOnPath

LEMMA WrittenSame ==
  ASSUME NEW r \in Job, r.queue # <<>>, NEW w \in Nat
  PROVE  LET x == [r EXCEPT !.wrote = @ + w, !.queue = Tail(@), !.exists = FALSE, !.pc = "after"]
         IN  /\ x \in Job /\ x.pc = "after" /\ SameBooks(x, r) /\ x.last = r.last
             /\ x.at = r.at /\ x.link = r.link /\ x.pending = r.pending /\ x.queue = Tail(r.queue)
<1> DEFINE E == [page : Nat, num : Number]
<1>1. r.queue \in Seq(E) /\ r.wrote + w \in Nat  BY DEF Job
<1>2. Tail(r.queue) \in Seq(E)
  <2> HIDE DEF E
  <2> QED  BY <1>1
<1> QED  BY <1>1, <1>2 DEF Job, SameBooks

LEMMA TailShorter ==
  ASSUME NEW S, NEW q \in Seq(S), q # <<>>
  PROVE  /\ Tail(q) \in Seq(S)
         /\ \A k \in DOMAIN Tail(q) : k \in Nat /\ k + 1 \in DOMAIN q /\ Tail(q)[k] = q[k + 1]
         /\ Tail(q) # <<>> => 1 \in DOMAIN Tail(q)
         /\ Len(q) <= 1 => Tail(q) = <<>>
         /\ Len(Tail(q)) = Len(q) - 1 /\ Len(q) \in Nat
OBVIOUS

LEMMA UpsertOnPath ==
  ASSUME PathInv, NEW j \in ScrapeJobs, Upsert(j)
  PROVE  \E x : job' = [job EXCEPT ![j] = x] /\ OnPath(x)'
<1> DEFINE r == job[j]
           w == r.force \/ ~r.exists
           x == [r EXCEPT !.wrote = @ + (IF w THEN 1 ELSE 0), !.queue = Tail(@),
                          !.exists = FALSE, !.pc = "after"]
           E == [page : Nat, num : Number]
<1>0. PICK s : s = Src(j)  OBVIOUS
<1>1. PICK p : p = job[j].queue[1].page  OBVIOUS
<1>2. r.pc = "write" /\ Crawling(r)  BY DEF Upsert, Crawling
<1>3. /\ ScraperTypeOK /\ BookInOrder /\ r \in Job /\ CrawlOK(r) /\ s = Min(r.todo)
      /\ QueueOK(r, s) /\ (~r.force => CountsOK(r, s))
  BY <1>0, <1>2, OnItsWay
<1>4. /\ s \in Sources /\ p \in DOMAIN PagesOf(s) /\ Saved(s, p)' /\ SavedStays /\ UNCHANGED site
  BY <1>0, <1>1, WritesInOrder
<1>5. r.queue \in Seq(E) /\ r.queue # <<>>  BY <1>2, <1>3 DEF CrawlOK, Job
<1>6. PICK q : q = Tail(r.queue)  OBVIOUS
<1>7. /\ q \in Seq(E)
      /\ \A k \in DOMAIN q : k \in Nat /\ k + 1 \in DOMAIN r.queue /\ q[k] = r.queue[k + 1]
      /\ q # <<>> => 1 \in DOMAIN q
      /\ Len(r.queue) <= 1 => q = <<>>
      /\ Len(q) = Len(r.queue) - 1 /\ Len(r.queue) \in Nat
  <2> HIDE DEF E, r
  <2> QED  BY <1>5, <1>6, TailShorter
<1>8. /\ x.pc = "after" /\ SameBooks(x, r) /\ x.last = r.last
      /\ x.at = r.at /\ x.link = r.link /\ x.pending = r.pending /\ x.queue = q
  <2>1. (IF w THEN 1 ELSE 0) \in Nat  OBVIOUS
  <2> HIDE DEF r, w
  <2> QED  BY <1>3, <1>5, <1>6, <2>1, WrittenSame
<1>9. job' = [job EXCEPT ![j] = x]
  <2>1. job \in [ScrapeJobs -> Job]  BY <1>3 DEF ScraperTypeOK
  <2> QED  BY <2>1 DEF Upsert
<1>10. PICK y : y = x  OBVIOUS
<1>11. PICK u : u = r  OBVIOUS
<1>12. /\ u.pc = "write" /\ s = Min(u.todo) /\ QueueOK(u, s) /\ (~u.force => CountsOK(u, s))
       /\ u.queue = r.queue /\ p = u.queue[1].page
       /\ y.pc = "after" /\ SameBooks(y, u) /\ y.last = u.last
       /\ y.at = u.at /\ y.link = u.link /\ y.pending = u.pending /\ y.queue = q
  BY <1>1, <1>2, <1>3, <1>8, <1>10, <1>11
<1> HIDE DEF r, w, x
<1>13. PagesOf(s)' = PagesOf(s) /\ KindOf(s)' = KindOf(s)  BY <1>4 DEF PagesOf, KindOf
<1>14. \A z : /\ Settled(s, z) => Settled(s, z)'
              /\ Behind(s, z) => Behind(s, z)'
              /\ Holds(s, z)' <=> Holds(s, z)
              /\ Num(s, z)' = Num(s, z)
  BY <1>4, SettledStays
<1>15. Settled(s, p)'  BY <1>4 DEF Settled
<1>16. q # <<>> => Behind(s, q[1].page)'
  <2> SUFFICES ASSUME q # <<>> PROVE Behind(s, q[1].page)'  OBVIOUS
  <2>1. 1 \in DOMAIN q /\ 2 \in DOMAIN u.queue /\ q[1] = u.queue[2]  BY <1>7, <1>12
  <2>2. q[1].page = p + 1
    <3>1. u.queue[2].page = u.queue[1].page + 2 - 1  BY <1>12, <2>1 DEF QueueOK
    <3>2. p \in Nat  BY <1>3, <1>4, SourceInOrder
    <3> QED  BY <1>12, <2>1, <3>1, <3>2
  <2>3. \A z \in DOMAIN PagesOf(s) : z < p + 1 => z < p \/ z = p
    BY <1>3, <1>4, SourceInOrder
  <2>4. Behind(s, p)'
    <3>1. Behind(s, p)  BY <1>5, <1>12 DEF QueueOK
    <3> QED  BY <1>14, <3>1
  <2> QED  BY <1>13, <1>15, <2>2, <2>3, <2>4 DEF Behind
<1>17. QueueOK(y, s)'
  <2>1. \A k \in DOMAIN q : /\ Holds(s, q[k].page)' /\ q[k].num = Num(s, q[k].page)'
                            /\ q[k].page = q[1].page + k - 1
    <3> SUFFICES ASSUME NEW k \in DOMAIN q
                 PROVE  /\ Holds(s, q[k].page)' /\ q[k].num = Num(s, q[k].page)'
                        /\ q[k].page = q[1].page + k - 1
      OBVIOUS
    <3>1. /\ 1 \in DOMAIN q /\ 2 \in DOMAIN u.queue /\ q[1] = u.queue[2] /\ k \in Nat
          /\ k + 1 \in DOMAIN u.queue /\ q[k] = u.queue[k + 1]
      <4>1. q # <<>>  OBVIOUS
      <4> QED  BY <1>7, <1>12, <4>1
    <3>2. /\ Holds(s, q[k].page) /\ q[k].num = Num(s, q[k].page)
          /\ u.queue[k + 1].page = p + (k + 1) - 1 /\ u.queue[2].page = p + 2 - 1
      BY <1>12, <3>1 DEF QueueOK
    <3>3. p \in Nat  BY <1>3, <1>4, SourceInOrder
    <3> QED  BY <1>14, <3>1, <3>2, <3>3
  <2>2. KindOf(s) # "archive" =>
          /\ q = <<>>
          /\ \A z \in DOMAIN PagesOf(s) : z <= u.at => Settled(s, z)'
          /\ u.link \in DOMAIN PagesOf(s) =>
               /\ u.link <= u.at + 1 /\ ~PagesOf(s)[u.link].cont
               /\ KindOf(s) = "split" => u.link = u.at + 1
          /\ LastOK(u, s, u.at + 1)
    BY <1>7, <1>12, <1>14, <1>15 DEF QueueOK
  <2>3. LastOK(u, s, u.at + 1) => LastOK(y, s, y.at + 1)'
    BY <1>12, <1>13, <1>14 DEF LastOK
  <2>4. KindOf(s) # "archive" => Len(q) <= 1
    BY <2>2
  <2>5. u.pending = 0  BY <1>12 DEF QueueOK
  <2> QED  BY <1>12, <1>13, <1>16, <2>1, <2>2, <2>3, <2>4, <2>5 DEF QueueOK
<1>18. ~y.force => CountsOK(y, s)'
  <2> SUFFICES ASSUME ~y.force PROVE CountsOK(y, s)'  OBVIOUS
  <2>1. CountsOK(u, s)  BY <1>12 DEF SameBooks
  <2>2. Counted(y, s) /\ LimitOf(y, s) = LimitOf(u, s) /\ y.count = u.count
    <3>1. Counted(u, s)  BY <2>1 DEF CountsOK
    <3>2. SameBooks(y, u) /\ y.last = u.last  BY <1>12
    <3> QED  BY <3>1, <3>2, SameCount DEF SameBooks
  <2>3. y.count > 0 /\ (LimitOf(y, s) # Unlimited => y.count <= LimitOf(y, s))
    BY <1>12, <2>1, <2>2 DEF CountsOK
  <2>4. Counted(y, s)' /\ LimitOf(y, s)' = LimitOf(y, s)
    BY <1>13, <1>14, <2>2 DEF Counted, Inclusive, LimitOf
  <2> QED  BY <1>12, <2>3, <2>4 DEF CountsOK
<1>19. Min(y.todo) = s /\ y.pc = "after"  BY <1>12 DEF SameBooks
<1>20. OnPath(y)'  BY <1>17, <1>18, <1>19 DEF OnPath, PathOK, CountOK
<1> QED  BY <1>9, <1>10, <1>20

\* The runner goes on to the next chapter, or the adapter to the next page.
LEMMA GoOnOnPath ==
  ASSUME PathInv, NEW j \in ScrapeJobs, GoOn(j)
  PROVE  \E x : Crawls(j, x) /\ OnPath(x)
<1> DEFINE r == job[j]
           s == Src(j)
           to == IF Kind(j) = "account" THEN Link(s, r.at) ELSE r.link
           next == IF Kind(j) = "archive" THEN 0 ELSE to
           x == [r EXCEPT !.pc = "take"]
<1>1. r.pc = "after" /\ Crawling(r)  BY DEF GoOn, Crawling
<1>2. /\ ScraperTypeOK /\ BookInOrder /\ r \in Job /\ CrawlOK(r) /\ s \in Sources
      /\ s = Min(r.todo) /\ QueueOK(r, s) /\ (~r.force => CountsOK(r, s))
      /\ PagesFor(r) = DOMAIN PagesOf(s) /\ Kind(j) = KindOf(s)
  BY <1>1, OnItsWay
<1>3. Crawls(j, IF r.max # Unlimited /\ r.wrote >= r.max THEN EndSource(r)
                ELSE IF Limited(j, r) THEN EndSource(r)
                ELSE IF r.queue # <<>> THEN x ELSE Follow(r, next))
  BY DEF GoOn
<1>4. r.at \in DOMAIN PagesOf(s) /\ r.at \in Nat /\ r.link \in Nat
  BY <1>1, <1>2, SourceInOrder DEF CrawlOK, Job
<1>5. Link(s, r.at) \in Nat /\ Link(s, r.at) <= r.at + 1  BY <1>2, <1>4, LinkIsNear
<1>6. ~r.force /\ ~Limited(j, r) =>
        Counted(r, s) /\ UnderLimit(r, s) /\ \A p : StartsAt(r, s, p)
  <2> SUFFICES ASSUME ~r.force, ~Limited(j, r)
               PROVE  Counted(r, s) /\ UnderLimit(r, s) /\ \A p : StartsAt(r, s, p)
    OBVIOUS
  <2>1. CountsOK(r, s)  BY <1>2
  <2>2. AdapterLimit(j, r) = LimitOf(r, s)  BY <1>2 DEF AdapterLimit, LimitOf, Inclusive
  <2>3. LimitOf(r, s) # Unlimited => LimitOf(r, s) \in Nat
    <3>1. r.max \in (Nat \ {0}) \cup {Unlimited}  BY <1>2 DEF Job
    <3> QED  BY <3>1 DEF LimitOf
  <2>4. r.count \in Nat  BY <1>2 DEF Job
  <2>5. Counted(r, s) /\ r.count > 0  BY <1>1, <2>1 DEF CountsOK
  <2>6. LimitOf(r, s) = Unlimited \/ ~(r.count >= LimitOf(r, s))  BY <2>2 DEF Limited
  <2> HIDE DEF r, s
  <2> QED  BY <2>3, <2>4, <2>5, <2>6 DEF UnderLimit, StartsAt
<1> HIDE DEF r, s
<1>7. ~Limited(j, r) /\ r.queue = <<>> => OnPath(Follow(r, next))
  <2> SUFFICES ASSUME ~Limited(j, r), r.queue = <<>> PROVE OnPath(Follow(r, next))  OBVIOUS
  <2>1. next \in Nat  BY <1>4, <1>5
  <2>2. next \in DOMAIN PagesOf(s) =>
          Behind(s, next) /\ ~PagesOf(s)[next].cont /\ LastOK(r, s, next)
    <3> SUFFICES ASSUME next \in DOMAIN PagesOf(s)
                 PROVE  Behind(s, next) /\ ~PagesOf(s)[next].cont /\ LastOK(r, s, next)
      OBVIOUS
    <3>1. \A q \in DOMAIN PagesOf(s) : /\ q \in Nat /\ q > 0
                                       /\ PagesOf(s)[q].cont => KindOf(s) = "split"
      BY <1>2, SourceInOrder
    <3>2. KindOf(s) # "archive" /\ next = to  BY <1>2, <3>1
    <3>3. \A q \in DOMAIN PagesOf(s) : q <= r.at => Settled(s, q)
      BY <1>2, <3>2 DEF QueueOK
    <3>4. next <= r.at + 1 /\ ~PagesOf(s)[next].cont /\ (KindOf(s) = "split" => next = r.at + 1)
      <4>1. CASE Kind(j) = "account"  BY <1>2, <1>5, <3>1, <3>2, <4>1
      <4>2. CASE Kind(j) # "account"  BY <1>2, <3>2, <4>2 DEF QueueOK
      <4> QED  BY <4>1, <4>2
    <3>5. LastOK(r, s, next)
      <4>1. LastOK(r, s, r.at + 1)  BY <1>2, <3>2 DEF QueueOK
      <4> QED  BY <3>4, <4>1 DEF LastOK
    <3> HIDE DEF next
    <3>6. Behind(s, next)
      <4>1. \A q \in DOMAIN PagesOf(s) : q < next => q <= r.at  BY <1>4, <2>1, <3>1, <3>4
      <4> QED  BY <3>3, <4>1 DEF Behind
    <3> QED  BY <3>4, <3>5, <3>6
  <2>3. r.pending = 0  BY <1>2 DEF QueueOK
  <2> HIDE DEF next
  <2>4. Ready(r, s, next)  BY <1>6, <2>2 DEF Ready
  <2> QED  BY <1>2, <2>1, <2>3, <2>4, FollowOnPath
<1>8. ~Limited(j, r) /\ r.queue # <<>> => OnPath(x)
  <2> SUFFICES ASSUME ~Limited(j, r), r.queue # <<>> PROVE OnPath(x)  OBVIOUS
  <2>1. /\ x.pc = "take" /\ SameBooks(x, r) /\ x.queue = r.queue /\ x.pending = r.pending
        /\ x.last = r.last /\ x.at = r.at /\ x.link = r.link
    BY <1>2 DEF Job, SameBooks
  <2> HIDE DEF x
  <2>2. QueueOK(x, s)
    <3>1. \A b : LastOK(r, s, b) => LastOK(x, s, b)  BY <2>1 DEF LastOK
    <3> QED  BY <1>2, <2>1, <3>1 DEF QueueOK
  <2>3. ~x.force => CountsOK(x, s)
    <3> SUFFICES ASSUME ~x.force PROVE CountsOK(x, s)  OBVIOUS
    <3>1. ~r.force  BY <2>1 DEF SameBooks
    <3>2. Counted(x, s) /\ UnderLimit(x, s) /\ StartsAt(x, s, NextPage(x))
      BY <1>6, <2>1, <3>1, SameCount
    <3>3. KindOf(s) = "archive"  BY <1>1, <1>2 DEF QueueOK, r
    <3> QED  BY <2>1, <3>2, <3>3 DEF CountsOK
  <2>4. Min(x.todo) = s  BY <1>2, <2>1 DEF SameBooks
  <2> QED  BY <2>1, <2>2, <2>3, <2>4 DEF OnPath, PathOK, CountOK
<1> HIDE DEF next, x
<1> QED  BY <1>3, <1>7, <1>8, EndsOnPath DEF r

----------------------------------------------------------------------------
\* A page that is open now holds a chapter or more of one.
LEMMA OpenIs ==
  ASSUME PathInv, NEW s \in Sources, NEW p, State(s, p) = "open"
  PROVE  PagesOf(s)[p].state \in {"open", "gone", "locked"}
<1>1. CASE <<s, p>> \in opened
  <2>1. PagesOf(<<s, p>>[1])[<<s, p>>[2]].state \in {"gone", "locked"}
    BY <1>1 DEF PathInv, OpenedOK
  <2> QED  BY <2>1
<1>2. CASE <<s, p>> \notin opened  BY <1>2 DEF State
<1> QED  BY <1>1, <1>2

LEMMA CrawlOnPath ==
  ASSUME PathInv, NEW j \in ScrapeJobs, Scrapes(j) \/ FetchFails(j), ~Upsert(j)
  PROVE  \E x : Crawls(j, x) /\ OnPath(x)
<1>0. ScraperTypeInv  BY DEF PathInv
<1>1. \A r, S : OnPath(Over(r)) /\ OnPath(EndSource(r))  BY EndsOnPath
<1>2. CASE \/ MeetRepeated(j) \/ FetchFails(j) \/ FetchRefused(j) \/ FetchMissing(j)
           \/ MeetBlank(j) \/ MeetPremium(j) \/ Bail(j)
  <2>1. /\ Kind(j) \in {"account", "reader"} \/ Kind(j) \notin {"account", "reader"}
        /\ Kind(j) = "catalogue" \/ Kind(j) # "catalogue"
    OBVIOUS
  <2> QED
    BY <1>1, <1>2 DEF MeetRepeated, FetchFails, FetchRefused, FetchMissing, MeetBlank,
                      MeetPremium, Bail
<1>3. CASE OpenIndex(j)
  <2>1. OnPath(Follow(Visited(j), Link(Src(j), job[j].at)))  BY <1>3, PassOnPath DEF OpenIndex
  <2> QED  BY <1>1, <1>3, <2>1 DEF OpenIndex
<1>4. CASE PassImage(j)
  <2>1. OnPath(Follow(Visited(j), Link(Src(j), job[j].at)))  BY <1>4, PassOnPath DEF PassImage
  <2> QED  BY <1>1, <1>4, <2>1 DEF PassImage
<1>5. CASE ReadPage(j)
  <2>1. /\ Fetched(j, "ok") /\ State(Src(j), job[j].at) = "open"
        /\ Kind(j) # "archive" /\ Crawls(j, Read(j))
    BY <1>5 DEF ReadPage
  <2>2. Crawling(job[j]) /\ job[j].pc = "fetch" /\ job[j].at \in PagesFor(job[j])
    BY <1>0, <2>1, FetchedIs
  <2>3. Src(j) \in Sources  BY <2>2, OnItsWay
  <2>4. PagesOf(Src(j))[job[j].at].state \in {"open", "gone", "locked"}  BY <2>1, <2>3, OpenIs
  <2>5. OnPath(Read(j))  BY <2>1, <2>2, <2>4, ReadOnPath
  <2> QED  BY <2>1, <2>5
<1>6. CASE AdEnds(j)
  <2>1. job[j].pc = "ad" /\ Crawling(job[j])  BY <1>6 DEF AdEnds, Crawling
  <2>2. /\ CrawlOK(job[j]) /\ Kind(j) = KindOf(Src(j)) /\ Src(j) = Min(job[j].todo)
        /\ FetchOK(job[j], Src(j))
    BY <2>1, OnItsWay
  <2>3. /\ job[j].at \in PagesFor(job[j]) /\ Kind(j) # "archive"
        /\ PagesOf(Src(j))[job[j].at].state = "ad"
    BY <2>1, <2>2 DEF CrawlOK, FetchOK
  <2>4. OnPath(Read(j))  BY <2>1, <2>3, ReadOnPath
  <2> QED  BY <1>1, <1>6, <2>4 DEF AdEnds
<1>7. CASE MeetAd(j)
  <2>1. OnPath([job[j] EXCEPT !.pc = "ad"])  BY <1>7, AdOnPath
  <2> QED  BY <1>7, <2>1 DEF MeetAd
<1>8. CASE ReadArchive(j)
  <2>1. OnPath([Visited(j) EXCEPT
                   !.queue = archive_chapters(Src(j), job[j].at, AdapterLimit(j, job[j])),
                   !.pc = "take"])
    BY <1>8, ArchiveOnPath DEF ReadArchive
  <2> QED  BY <1>1, <1>8, <2>1 DEF ReadArchive
<1>9. CASE Take(j)  BY <1>9, TakeOnPath
<1>10. CASE GoOn(j)  BY <1>10, GoOnOnPath
<1>11. CASE StartSource(j)  BY <1>11, StartOnPath
<1>12. CASE Finish(j)
  <2>1. Crawls(j, Over(job[j]))  BY <1>12 DEF Finish, Crawls
  <2> QED  BY <1>1, <2>1
<1> QED
  BY <1>2, <1>3, <1>4, <1>5, <1>6, <1>7, <1>8, <1>9, <1>10, <1>11, <1>12 DEF Scrapes

\* A step that leaves the site and the chapters alone does so to what they say.
LEMMA SameSaved ==
  ASSUME UNCHANGED <<site, chapters>>
  PROVE  SavedStays /\ \A r : OnPath(r) => OnPath(r)'
<1>1. \A s : PagesOf(s)' = PagesOf(s) /\ KindOf(s)' = KindOf(s)  BY DEF PagesOf, KindOf
<1>2. \A s, p : /\ Saved(s, p)' <=> Saved(s, p)
                /\ Holds(s, p)' <=> Holds(s, p)
                /\ Num(s, p)' = Num(s, p)
  BY DEF Saved, Rows, Holds, Num
<1>3. \A s, p : (Settled(s, p)' <=> Settled(s, p)) /\ (Behind(s, p)' <=> Behind(s, p))
  BY <1>1, <1>2 DEF Settled, Behind
<1>4. ASSUME NEW r, OnPath(r) PROVE OnPath(r)'
  <2>1. \A s, p : LastOK(r, s, p)' <=> LastOK(r, s, p)  BY <1>1, <1>2 DEF LastOK
  <2>2. \A s : FetchOK(r, s)' <=> FetchOK(r, s)  BY <1>1, <1>2, <1>3, <2>1 DEF FetchOK
  <2>3. \A s : QueueOK(r, s)' <=> QueueOK(r, s)  BY <1>1, <1>2, <1>3, <2>1 DEF QueueOK
  <2>4. \A s : CountsOK(r, s)' <=> CountsOK(r, s)
    BY <1>1, <1>2
    DEF CountsOK, Counted, UnderLimit, StartsAt, LimitOf, Inclusive, NextPage
  <2> QED  BY <1>4, <2>2, <2>3, <2>4 DEF OnPath, PathOK, CountOK, Crawling
<1> QED  BY <1>2, <1>4 DEF SavedStays

\* The job that the next state has, as a value.
LEMMA NextJob ==
  ASSUME NEW i \in ScrapeJobs, NEW y, y = job'[i], OnPath(y)'
  PROVE  OnPath(job[i])'
<1>1. \A s, p : LastOK(job[i], s, p)' <=> LastOK(y, s, p)'  BY DEF LastOK
<1>2. \A s : FetchOK(job[i], s)' <=> FetchOK(y, s)'  BY <1>1 DEF FetchOK
<1>3. \A s : QueueOK(job[i], s)' <=> QueueOK(y, s)'  BY <1>1 DEF QueueOK
<1>4. \A s : LimitOf(job[i], s)' = LimitOf(y, s)'  BY DEF LimitOf, Inclusive
<1>5. \A s : Counted(job[i], s)' <=> Counted(y, s)'  BY DEF Counted, Inclusive
<1>6. \A s, p : StartsAt(job[i], s, p)' <=> StartsAt(y, s, p)'  BY DEF StartsAt, Inclusive
<1>7. NextPage(job[i])' = NextPage(y)'  BY DEF NextPage
<1>8. \A s : UnderLimit(job[i], s)' <=> UnderLimit(y, s)'  BY <1>4 DEF UnderLimit
<1>9. \A s : StartsAt(job[i], s, NextPage(job[i]))' <=> StartsAt(y, s, NextPage(y))'
  BY <1>7 DEF StartsAt, Inclusive
<1>10. \A s : CountsOK(job[i], s)' <=> CountsOK(y, s)'
  BY <1>4, <1>5, <1>8, <1>9 DEF CountsOK
<1> QED  BY <1>2, <1>3, <1>10 DEF OnPath, PathOK, CountOK, Crawling

LEMMA OthersOnPath ==
  ASSUME PathInv, SavedStays, UNCHANGED site, NEW j \in ScrapeJobs, NEW x,
         job' = [job EXCEPT ![j] = x], OnPath(x)'
  PROVE  (\A i \in ScrapeJobs : PathOK(job[i]) /\ CountOK(job[i]))'
<1>1. /\ ScraperTypeOK /\ job \in [ScrapeJobs -> Job]
      /\ \A i \in ScrapeJobs : CrawlOK(job[i]) /\ PathOK(job[i]) /\ CountOK(job[i])
  BY DEF PathInv, ScraperTypeInv, ScraperTypeOK
<1>2. ASSUME NEW i \in ScrapeJobs PROVE OnPath(job[i])'
  <2>1. PICK y : y = job'[i]  OBVIOUS
  <2>2. OnPath(y)'
    <3>1. CASE i = j  BY <1>1, <2>1, <3>1
    <3>2. CASE i # j
      <4>1. y = job[i]  BY <1>1, <2>1, <3>2
      <4>2. y \in Job /\ CrawlOK(y) /\ PathOK(y) /\ CountOK(y)  BY <1>1, <4>1
      <4>3. Crawling(y) => y.todo # {}  BY <4>2 DEF CrawlOK
      <4> QED  BY <1>1, <4>2, <4>3, PathStays DEF OnPath
    <3> QED  BY <3>1, <3>2
  <2> QED  BY <2>1, <2>2, NextJob
<1> QED  BY <1>2 DEF OnPath

LEMMA CommandOnPath ==
  ASSUME PathInv,
         \/ \E j \in ScrapeJobs : RequestCancel(j) \/ WorkerDies(j)
         \/ \E target \in {{s} : s \in Sources} \cup {Sources}, force \in Forces, max \in Limits :
              Schedule(target, force, max)
  PROVE  /\ \E j \in ScrapeJobs : \E x : job' = [job EXCEPT ![j] = x] /\ OnPath(x)
         /\ UNCHANGED <<site, opened, offset, chapters, patch>>
<1>1. UNCHANGED <<site, opened, offset, chapters, patch>>
  BY DEF RequestCancel, WorkerDies, Schedule
<1>2. job \in [ScrapeJobs -> Job]  BY DEF PathInv, ScraperTypeInv, ScraperTypeOK
<1>3. ASSUME NEW j \in ScrapeJobs, RequestCancel(j)
      PROVE  \E x : job' = [job EXCEPT ![j] = x] /\ OnPath(x)
  <2> DEFINE r == job[j]
             x == [r EXCEPT !.cancel = TRUE]
  <2>1. job' = [job EXCEPT ![j] = x]  BY <1>2, <1>3 DEF RequestCancel
  <2>2. r \in Job /\ OnPath(r)  BY <1>2 DEF PathInv, OnPath
  <2> HIDE DEF r
  <2>3. /\ x.pc = r.pc /\ SameBooks(x, r) /\ x.queue = r.queue /\ x.pending = r.pending
        /\ x.last = r.last /\ x.at = r.at /\ x.link = r.link /\ x.exists = r.exists
    BY <2>2 DEF Job, SameBooks
  <2> HIDE DEF x
  <2> DEFINE s == Min(r.todo)
  <2>4. \A p : LastOK(x, s, p) <=> LastOK(r, s, p)  BY <2>3 DEF LastOK
  <2>5. Min(x.todo) = s /\ x.force = r.force /\ x.count = r.count /\ x.fresh = r.fresh
        /\ x.prev = r.prev /\ x.saved = r.saved /\ x.resume = r.resume
    BY <2>3 DEF SameBooks
  <2> HIDE DEF s
  <2>6. FetchOK(r, s) => FetchOK(x, s)  BY <2>3, <2>4 DEF FetchOK
  <2>7. QueueOK(r, s) => QueueOK(x, s)  BY <2>3, <2>4, <2>5 DEF QueueOK
  <2>8. CountsOK(r, s) => CountsOK(x, s)
    <3>1. /\ Counted(r, s) => Counted(x, s)
          /\ UnderLimit(r, s) => UnderLimit(x, s)
          /\ \A p : StartsAt(r, s, p) => StartsAt(x, s, p)
          /\ LimitOf(x, s) = LimitOf(r, s) /\ NextPage(x) = NextPage(r)
      BY <2>3, SameCount DEF NextPage
    <3> QED  BY <2>3, <2>5, <3>1 DEF CountsOK
  <2>9. OnPath(x)
    BY <2>2, <2>3, <2>5, <2>6, <2>7, <2>8 DEF OnPath, PathOK, CountOK, Crawling, s
  <2> QED  BY <2>1, <2>9
<1>4. ASSUME NEW j \in ScrapeJobs, WorkerDies(j)
      PROVE  \E x : job' = [job EXCEPT ![j] = x] /\ OnPath(x)
  <2>1. job' = [job EXCEPT ![j] = Between(job[j], job[j].target)]  BY <1>2, <1>4 DEF WorkerDies
  <2> QED  BY <2>1, EndsOnPath
<1>5. ASSUME NEW target, NEW force, NEW max, Schedule(target, force, max)
      PROVE  \E j \in ScrapeJobs : \E x : job' = [job EXCEPT ![j] = x] /\ OnPath(x)
  <2> DEFINE j == CHOOSE i \in ScrapeJobs : ~Active(i)
             r == [IdleJob EXCEPT !.target = target, !.force = force, !.max = max]
  <2>1. j \in ScrapeJobs /\ job' = [job EXCEPT ![j] = Between(r, target)]  BY <1>5 DEF Schedule
  <2> HIDE DEF j, r
  <2> QED  BY <2>1, EndsOnPath
<1> QED  BY <1>1, <1>3, <1>4, <1>5

LEMMA PathStep ==
  ASSUME PathInv, [ScraperNext]_scraperVars, ~RenumberAnytime, \A e, f \in Editors : e = f
  PROVE  PathInv'
<1> DEFINE OnTheirWay == \A i \in ScrapeJobs : PathOK(job[i]) /\ CountOK(job[i])
<1>0. /\ ScraperTypeInv /\ OffsetIsCurrent /\ ChaptersAreAligned /\ BookInOrder /\ RowsInOrder
      /\ OpenedOK /\ OffsetsOK /\ OnTheirWay
  BY DEF PathInv
<1>1. ScraperTypeInv' /\ OffsetIsCurrent' /\ ChaptersAreAligned'
  BY <1>0, ScraperTypeStep, OffsetStep, AlignedStep
<1>2. UNCHANGED site => BookInOrder'
  BY <1>0 DEF BookInOrder, Sources
<1>3. UNCHANGED <<site, chapters>> => RowsInOrder'
  BY <1>0 DEF RowsInOrder, Holds, Num, Behind, Settled, Saved, Rows, PagesOf
<1>4. UNCHANGED <<site, opened>> => OpenedOK'  BY <1>0 DEF OpenedOK, PagesOf
<1>5. UNCHANGED <<site, offset, patch>> => OffsetsOK'  BY <1>0 DEF OffsetsOK, Sources
<1>6. UNCHANGED <<site, chapters, job>> => OnTheirWay'
  <2> SUFFICES ASSUME UNCHANGED <<site, chapters, job>> PROVE OnTheirWay'  OBVIOUS
  <2>1. ASSUME NEW i \in ScrapeJobs PROVE OnPath(job[i])'
    <3>1. PICK y : y = job[i]  OBVIOUS
    <3>2. OnPath(y)'  BY <1>0, <3>1, SameSaved DEF OnPath
    <3>3. y = job'[i]  BY <3>1
    <3> QED  BY <3>2, <3>3, NextJob
  <2> QED  BY <2>1 DEF OnPath
<1>7. CASE \E j \in ScrapeJobs : (Scrapes(j) \/ FetchFails(j)) /\ ~Upsert(j)
  <2>1. PICK j \in ScrapeJobs : (Scrapes(j) \/ FetchFails(j)) /\ ~Upsert(j)  BY <1>7
  <2>2. PICK x : Crawls(j, x) /\ OnPath(x)  BY <2>1, CrawlOnPath
  <2>3. UNCHANGED <<site, opened, offset, chapters, patch>> /\ job' = [job EXCEPT ![j] = x]
    BY <2>2 DEF Crawls
  <2>4. SavedStays /\ OnPath(x)'  BY <2>2, <2>3, SameSaved
  <2>5. OnTheirWay'  BY <2>3, <2>4, OthersOnPath
  <2> QED  BY <1>1, <1>2, <1>3, <1>4, <1>5, <2>3, <2>5 DEF PathInv
<1>8. CASE \E j \in ScrapeJobs : Upsert(j)
  <2>1. PICK j \in ScrapeJobs : Upsert(j)  BY <1>8
  <2>2. PICK x : job' = [job EXCEPT ![j] = x] /\ OnPath(x)'  BY <2>1, UpsertOnPath
  <2>3. PICK s, p : s = Src(j) /\ p = job[j].queue[1].page  OBVIOUS
  <2>4. SavedStays /\ RowsInOrder' /\ UNCHANGED <<site, opened, offset, patch>>
    BY <2>1, <2>3, WritesInOrder
  <2>5. OnTheirWay'  BY <2>2, <2>4, OthersOnPath
  <2> QED  BY <1>1, <1>2, <1>4, <1>5, <2>4, <2>5 DEF PathInv
<1>9. CASE \/ \E j \in ScrapeJobs : RequestCancel(j) \/ WorkerDies(j)
           \/ \E target \in {{s} : s \in Sources} \cup {Sources}, force \in Forces,
                 max \in Limits : Schedule(target, force, max)
  <2>1. /\ \E j \in ScrapeJobs : \E x : job' = [job EXCEPT ![j] = x] /\ OnPath(x)
        /\ UNCHANGED <<site, opened, offset, chapters, patch>>
    BY <1>9, CommandOnPath
  <2>2. PICK j \in ScrapeJobs : \E x : job' = [job EXCEPT ![j] = x] /\ OnPath(x)  BY <2>1
  <2>3. PICK x : job' = [job EXCEPT ![j] = x] /\ OnPath(x)  BY <2>2
  <2>4. SavedStays /\ OnPath(x)'  BY <2>1, <2>3, SameSaved
  <2>5. OnTheirWay'  BY <2>1, <2>3, <2>4, OthersOnPath
  <2> QED  BY <1>1, <1>2, <1>3, <1>4, <1>5, <2>1, <2>5 DEF PathInv
<1>10. CASE \E s \in Sources : \E p \in DOMAIN PagesOf(s) : SiteChanges(s, p)
  <2>1. PICK s \in Sources : \E p \in DOMAIN PagesOf(s) : SiteChanges(s, p)  BY <1>10
  <2>2. PICK p \in DOMAIN PagesOf(s) : SiteChanges(s, p)  BY <2>1
  <2>3. opened' = opened \cup {<<s, p>>} /\ UNCHANGED <<site, offset, chapters, job, patch>>
    BY <2>2 DEF SiteChanges
  <2>4. <<s, p>> \in opened \/ PagesOf(s)[p].state \in {"gone", "locked"}
    BY <2>2 DEF SiteChanges, State
  <2>5. \A x \in opened' : /\ x[2] \in DOMAIN PagesOf(x[1])
                           /\ PagesOf(x[1])[x[2]].state \in {"gone", "locked"}
    BY <1>0, <2>3, <2>4 DEF OpenedOK
  <2>6. OpenedOK'  BY <2>3, <2>5 DEF OpenedOK, PagesOf
  <2> QED  BY <1>1, <1>2, <1>3, <1>5, <1>6, <2>3, <2>6 DEF PathInv
<1>11. CASE SaveCookies
  BY <1>1, <1>2, <1>3, <1>4, <1>5, <1>6, <1>11 DEF PathInv, SaveCookies
<1>12. CASE \E e \in Editors : \E s \in Sources : \E new \in Offsets[s] : RenumberReads(e, s, new)
  <2>1. PICK e \in Editors, s \in Sources : \E new \in Offsets[s] : RenumberReads(e, s, new)
    BY <1>12
  <2>2. PICK new \in Offsets[s] : RenumberReads(e, s, new)  BY <2>1
  <2>3. UNCHANGED <<site, opened, offset, chapters, job>>
        /\ patch' = [patch EXCEPT ![e] = <<s, offset[s], new>>]
    BY <2>2 DEF RenumberReads
  <2>4. patch \in [Editors -> {<<>>} \cup (Sources \X Int \X Int)]
    BY <1>0 DEF ScraperTypeInv, ScraperTypeOK
  <2>5. \A f \in Editors : patch'[f] = patch[f] \/ patch'[f] = <<s, offset[s], new>>
    BY <2>3, <2>4
  <2>6. <<s, offset[s], new>>[1] = s /\ <<s, offset[s], new>>[3] = new  OBVIOUS
  <2>7. \A f \in Editors : patch'[f] # <<>> => patch'[f][3] \in Offsets[patch'[f][1]]
    BY <1>0, <2>2, <2>5, <2>6 DEF OffsetsOK
  <2>8. OffsetsOK'  BY <1>0, <2>3, <2>7 DEF OffsetsOK, Sources
  <2> QED  BY <1>1, <1>2, <1>3, <1>4, <1>6, <2>3, <2>8 DEF PathInv
<1>13. CASE \E e \in Editors : RenumberCommits(e)
  <2>1. PICK e \in Editors : RenumberCommits(e)  BY <1>13
  <2>2. SavedStays /\ RowsInOrder' /\ OffsetsOK' /\ UNCHANGED <<site, opened, job>>
    BY <2>1, RenumbersInOrder
  <2>3. OnTheirWay'
    <3>1. CASE ScrapeJobs = {}  BY <3>1
    <3>2. CASE ScrapeJobs # {}
      <4>1. PICK j \in ScrapeJobs : TRUE  BY <3>2
      <4>2. PICK x : x = job[j]  OBVIOUS
      <4>3. job \in [ScrapeJobs -> Job] /\ ScraperTypeOK /\ CrawlOK(x) /\ PathOK(x) /\ CountOK(x)
        BY <1>0, <4>2 DEF ScraperTypeInv, ScraperTypeOK
      <4>4. job' = [job EXCEPT ![j] = x]  BY <2>2, <4>2, <4>3
      <4>5. Crawling(x) => x.todo # {}  BY <4>3 DEF CrawlOK
      <4>6. OnPath(x)'  BY <2>2, <4>2, <4>3, <4>5, PathStays DEF OnPath
      <4> QED  BY <2>2, <4>4, <4>6, OthersOnPath
    <3> QED  BY <3>1, <3>2
  <2> QED  BY <1>1, <1>2, <1>4, <2>2, <2>3 DEF PathInv
<1>14. CASE UNCHANGED scraperVars
  BY <1>1, <1>2, <1>3, <1>4, <1>5, <1>6, <1>14 DEF PathInv, scraperVars
<1> QED
  BY <1>7, <1>8, <1>9, <1>10, <1>11, <1>12, <1>13, <1>14 DEF ScraperNext

LEMMA PathInit == ScraperInit /\ BookInOrder => PathInv
<1> SUFFICES ASSUME ScraperInit, BookInOrder PROVE PathInv  OBVIOUS
<1> USE DEF ScraperInit
<1>1. ScraperTypeInv  BY ScraperTypeInit
<1>2. OffsetIsCurrent /\ ChaptersAreAligned /\ RowsInOrder /\ OpenedOK
  <2>1. \A j \in ScrapeJobs : ~Crawling(job[j])  BY IdleJobIs DEF Crawling
  <2> QED  BY <2>1 DEF OffsetIsCurrent, ChaptersAreAligned, RowsInOrder, OpenedOK
<1>3. OffsetsOK
  <2>1. ASSUME NEW s \in Sources PROVE offset[s] \in Offsets[s]
    <3>1. Offsets[s] \subseteq Int /\ \E o \in Offsets[s] : \A x \in Offsets[s] : x <= o
      BY ScraperAssumptions DEF Sources
    <3>2. \E o \in Offsets[s] : \A x \in Offsets[s] : o >= x  BY <3>1
    <3>3. Max(Offsets[s]) \in Offsets[s]  BY <3>2 DEF Max
    <3> QED  BY <3>3
  <2> QED  BY <2>1 DEF OffsetsOK
<1>4. \A j \in ScrapeJobs : PathOK(job[j]) /\ CountOK(job[j])
  BY EndsOnPath DEF OnPath, Over
<1> QED  BY <1>1, <1>2, <1>3, <1>4 DEF PathInv

\* Nothing readable before a saved chapter is missing.
LEMMA NothingIsMissing == PathInv => NoChapterIsSkipped
<1> SUFFICES ASSUME PathInv, NEW c \in chapters, NEW p \in DOMAIN PagesOf(c.src),
                    p < c.page, Readable(c.src, p)
             PROVE  \E d \in Rows(c.src) : d.page = p /\ d.num < c.num
  BY DEF NoChapterIsSkipped
<1> DEFINE s == c.src
<1>1. ScraperTypeOK /\ BookInOrder  BY DEF PathInv, ScraperTypeInv
<1>2. s \in Sources  BY <1>1 DEF ScraperTypeOK, Row
<1>3. /\ c.page \in DOMAIN PagesOf(s) /\ Holds(s, c.page) /\ c.loc = Num(s, c.page)
      /\ Behind(s, c.page) /\ c.num = c.loc + offset[s]
  BY DEF PathInv, ScraperTypeInv, RowsOK, RowsInOrder, ChaptersAreAligned
<1>4. PagesOf(s)[p].state \in {"open", "gone", "locked"} /\ ~PagesOf(s)[p].cont
  BY <1>2, OpenIs DEF Readable
<1>5. Saved(s, p)  BY <1>3, <1>4 DEF Behind, Settled
<1>6. PICK d \in Rows(s) : d.page = p  BY <1>5 DEF Saved
<1>7. Holds(s, p) /\ d.loc = Num(s, p) /\ d.num = d.loc + offset[s]
  BY <1>6 DEF PathInv, RowsInOrder, ChaptersAreAligned, Rows
<1>8. Num(s, p) < Num(s, c.page) /\ Num(s, p) \in Nat /\ Num(s, c.page) \in Nat
  BY <1>1, <1>2, <1>3, <1>7, SourceInOrder
<1>9. offset[s] \in Int  BY <1>1, <1>2 DEF ScraperTypeOK
<1> QED  BY <1>3, <1>6, <1>7, <1>8, <1>9

\* Whatever chapter of a source is saved, every chapter before it that may be
\* read is saved too: for sites of any length and kind that are in order and
\* whose numbers the offsets keep apart, through resumes, limits, forced jobs,
\* chapters published and unlocked later, deaths of the worker and renumberings
\* (scrape_source, resume_url, the adapters' stop conditions).
THEOREM NothingIsSkipped ==
  ASSUME ~RenumberAnytime, \A e, f \in Editors : e = f
  PROVE  ScraperSpec /\ BookInOrder => []NoChapterIsSkipped
<1>1. PathInv /\ [ScraperNext]_scraperVars => PathInv'  BY PathStep
<1>2. ScraperInit /\ BookInOrder => PathInv  BY PathInit
<1> QED  BY <1>1, <1>2, NothingIsMissing, PTL DEF ScraperSpec

\* A crawl that ends at the adapter's limit has yielded as many new chapters as
\* the request asked for.
LEMMA LimitStep ==
  ASSUME PathInv
  PROVE  \A j \in ScrapeJobs :
           job[j].pc = "after" /\ Limited(j, job[j]) /\ ~job[j].force => job[j].fresh = job[j].max
<1> SUFFICES ASSUME NEW j \in ScrapeJobs, job[j].pc = "after", Limited(j, job[j]), ~job[j].force
             PROVE  job[j].fresh = job[j].max
  OBVIOUS
<1> DEFINE r == job[j]
           s == Src(j)
<1>1. Crawling(r)  BY DEF Crawling
<1>2. r \in Job /\ CountsOK(r, s) /\ Kind(j) = KindOf(s)  BY <1>1, OnItsWay
<1>3. AdapterLimit(j, r) = LimitOf(r, s)  BY <1>2 DEF AdapterLimit, LimitOf, Inclusive
<1>4. LimitOf(r, s) # Unlimited /\ r.count >= LimitOf(r, s)  BY <1>3 DEF Limited
<1>5. r.count > 0 /\ r.count <= LimitOf(r, s) /\ Counted(r, s)  BY <1>2, <1>4 DEF CountsOK
<1>6. r.count \in Nat /\ r.fresh \in Nat /\ r.max \in (Nat \ {0}) \cup {Unlimited}
  BY <1>2 DEF Job
<1>7. r.count = IF Inclusive(r, s) THEN r.fresh + 1 ELSE r.fresh  BY <1>5 DEF Counted
<1> HIDE DEF r, s
<1>8. r.max \in Nat /\ LimitOf(r, s) = IF Inclusive(r, s) THEN r.max + 1 ELSE r.max
  BY <1>4, <1>6 DEF LimitOf
<1> QED  BY <1>4, <1>5, <1>6, <1>7, <1>8 DEF r

\* A job that stops at the adapter's limit has got as many chapters further as
\* it was asked to, the checkpoint it was resumed at not counted
\* (scrape_source's limit for the adapter).
THEOREM LimitsAreReached ==
  ASSUME ~RenumberAnytime, \A e, f \in Editors : e = f
  PROVE  ScraperSpec /\ BookInOrder => LimitIsReached
<1>1. PathInv /\ [ScraperNext]_scraperVars => PathInv'  BY PathStep
<1>2. ScraperInit /\ BookInOrder => PathInv  BY PathInit
<1>3. PathInv /\ [ScraperNext]_scraperVars =>
        [\A j \in ScrapeJobs :
           /\ job[j].pc = "after" /\ job'[j].pc = "source" /\ Limited(j, job[j]) /\ ~job[j].force
           => job[j].fresh = job[j].max]_scraperVars
  BY LimitStep
<1> QED  BY <1>1, <1>2, <1>3, PTL DEF ScraperSpec, LimitIsReached
=============================================================================
