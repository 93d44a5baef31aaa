----------------------------- MODULE VaultProofs -----------------------------
(***************************************************************************)
(* What holds of Vault for any holders, digests, uploads and requests,     *)
(* whatever clients call, however requests overlap, and with crashes and   *)
(* disconnections at any point.                                            *)
(***************************************************************************)
EXTENDS Vault, TLAPS

-----------------------------------------------------------------------------
(* Types *)

\* The handlers that name an upload have one.
JobsOK == \A r \in Requests :
            pc[r] \in CommitPcs \cup AbandonPcs \cup PutPcs \cup {"grant"}
              => job[r].upload \in UploadIds

Typed == TypeOK /\ JobsOK

\* NoJob and what the handlers start from are jobs.
LEMMA JobTypes ==
  ASSUME NEW u \in UploadIds \cup {None}, NEW k \in Keys \cup {None},
         NEW c \in Chunks \cup {None}, NEW b \in {"good", "bad"},
         NEW s \in SUBSET Keys
  PROVE  /\ NoJob \in Jobs
         /\ [NoJob EXCEPT !.upload = u, !.key = k] \in Jobs
         /\ [NoJob EXCEPT !.upload = u, !.chunk = c, !.bytes = b] \in Jobs
         /\ [NoJob EXCEPT !.scope = s] \in Jobs
         /\ [NoJob EXCEPT !.key = k] \in Jobs
  BY DEF NoJob, Jobs

\* Going on and answering keep the program counters and the locals typed.
LEMMA GotoTyped ==
  ASSUME NEW r \in Requests, NEW there \in RequestPcs,
         pc \in [Requests -> RequestPcs], Goto(r, there)
  PROVE  pc' \in [Requests -> RequestPcs]
  BY DEF Goto

LEMMA AnswerTyped ==
  ASSUME NEW r \in Requests, Typed, Answer(r)
  PROVE  /\ pc' \in [Requests -> RequestPcs]
         /\ job' \in [Requests -> Jobs]
         /\ JobsOK'
<1>1. NoJob \in Jobs
  BY JobTypes DEF TypeOK
<1>2. pc' \in [Requests -> RequestPcs]
  BY DEF Answer, Typed, TypeOK, RequestPcs
<1>3. job' \in [Requests -> Jobs]
  BY <1>1 DEF Answer, Typed, TypeOK
<1>4. JobsOK'
  BY DEF Answer, Typed, TypeOK, JobsOK, CommitPcs, AbandonPcs, PutPcs
<1> QED BY <1>2, <1>3, <1>4

LEMMA TypeInit == Init => Typed
<1> SUFFICES ASSUME Init PROVE Typed
  OBVIOUS
<1>1. TypeOK
  BY EnvironmentAssumption DEF Init, TypeOK, NoJob, IdleSweep, EmptyDirectory, ChunkStates, Jobs,
      Sweeps, RequestPcs, SweepPcs
<1>2. JobsOK
  BY DEF Init, JobsOK, CommitPcs, AbandonPcs, PutPcs
<1> QED BY <1>1, <1>2 DEF Typed

\* The rows and the disk after each kind of write.
LEMMA DropTyped ==
  ASSUME NEW u, TypeOK, DropUpload(u)
  PROVE  uploads' \in [UploadIds -> Keys \cup {None}]
  BY DEF TypeOK, DropUpload

LEMMA UnlinkTyped ==
  ASSUME NEW d, TypeOK, UnlinkChunks(d)
  PROVE  chunks' \in [UploadIds -> [Chunks -> ChunkStates]]
<1>1. EmptyDirectory \in [Chunks -> ChunkStates]
  BY DEF EmptyDirectory, ChunkStates
<1> QED BY <1>1 DEF TypeOK, UnlinkChunks

LEMMA DiscardTyped ==
  ASSUME NEW u, TypeOK, DiscardUpload(u)
  PROVE  /\ incoming' \subseteq UploadIds
         /\ chunks' \in [UploadIds -> [Chunks -> ChunkStates]]
<1>1. EmptyDirectory \in [Chunks -> ChunkStates]
  BY DEF EmptyDirectory, ChunkStates
<1> QED BY <1>1 DEF TypeOK, DiscardUpload

LEMMA MarkTyped ==
  ASSUME NEW k, TypeOK, MarkUnavailable(k)
  PROVE  snapshots' \in [Keys -> {"never", "live", "erased", "unavailable"}]
  BY DEF TypeOK, MarkUnavailable

LEMMA RequestTyped ==
  ASSUME Typed, NEW r \in Requests, Request(r)
  PROVE  Typed'
<1> USE DEF RequestPcs, CommitPcs, AbandonPcs, PutPcs, ErasePcs
<1>1. ASSUME NEW u \in UploadIds, NEW k \in Keys, PreflightGrant(r, u, k)
      PROVE Typed'
  <2>1. [NoJob EXCEPT !.upload = u, !.key = k] \in Jobs
    BY JobTypes, EnvironmentAssumption
  <2>2. [NoJob EXCEPT !.upload = u, !.key = k].upload = u
    BY DEF NoJob
  <2>3. TypeOK'
    BY <1>1, <2>1 DEF PreflightGrant, Begin, Typed, TypeOK, env
  <2>4. JobsOK'
    BY <1>1, <2>2 DEF PreflightGrant, Begin, Typed, TypeOK, JobsOK
  <2> QED BY <2>3, <2>4 DEF Typed
<1>2. ASSUME NEW u \in UploadIds, NEW c \in Chunks, NEW b \in Payloads,
             PutCheck(r, u, c, b)
      PROVE Typed'
  <2>1. [NoJob EXCEPT !.upload = u, !.chunk = c, !.bytes = b] \in Jobs
    BY JobTypes, EnvironmentAssumption
  <2>2. [NoJob EXCEPT !.upload = u, !.chunk = c, !.bytes = b].upload = u
    BY DEF NoJob
  <2>3. TypeOK'
    BY <1>2, <2>1 DEF PutCheck, Begin, Typed, TypeOK, store, disk, locks, env
  <2>4. JobsOK'
    BY <1>2, <2>2 DEF PutCheck, Begin, Typed, TypeOK, JobsOK
  <2> QED BY <2>3, <2>4 DEF Typed
<1>3. ASSUME NEW u \in UploadIds, CommitCheck(r, u)
      PROVE Typed'
  <2> DEFINE j == [NoJob EXCEPT !.upload = u, !.key = uploads[u]]
  <2>1. j \in Jobs
    BY JobTypes DEF Typed, TypeOK
  <2>2. j.upload = u
    BY DEF NoJob
  <2> HIDE DEF j
  <2>3. TypeOK'
    BY <1>3, <2>1 DEF j, CommitCheck, Begin, Typed, TypeOK, store, disk, locks, env
  <2>4. JobsOK'
    BY <1>3, <2>2 DEF j, CommitCheck, Begin, Typed, TypeOK, JobsOK
  <2> QED BY <2>3, <2>4 DEF Typed
<1>4. ASSUME NEW s \in Scopes, EraseLockBlobs(r, s)
      PROVE Typed'
  <2>1. s \in SUBSET Keys
    BY DEF Scopes
  <2>2. [NoJob EXCEPT !.scope = s] \in Jobs
    BY <2>1, JobTypes
  <2>3. TypeOK'
    BY <1>4, <2>2 DEF EraseLockBlobs, Begin, Typed, TypeOK, store, disk, env
  <2>4. JobsOK'
    BY <1>4 DEF EraseLockBlobs, Begin, Typed, TypeOK, JobsOK
  <2> QED BY <2>3, <2>4 DEF Typed
<1>5. ASSUME NEW k \in Keys, DownloadRow(r, k)
      PROVE Typed'
  <2>1. [NoJob EXCEPT !.key = k] \in Jobs
    BY JobTypes
  <2>2. TypeOK'
    BY <1>5, <2>1 DEF DownloadRow, Begin, Typed, TypeOK, store, disk, locks, env
  <2>3. JobsOK'
    BY <1>5 DEF DownloadRow, Begin, Typed, TypeOK, JobsOK
  <2> QED BY <2>2, <2>3 DEF Typed
<1> QED BY <1>1, <1>2, <1>3, <1>4, <1>5 DEF Request

\* A handler that goes on with the upload it has.
LEMMA GoOnTyped ==
  ASSUME Typed, NEW r \in Requests, NEW there \in RequestPcs, Goto(r, there),
         UNCHANGED job, job[r].upload \in UploadIds
  PROVE  /\ pc' \in [Requests -> RequestPcs]
         /\ job' \in [Requests -> Jobs]
         /\ JobsOK'
<1>1. pc' \in [Requests -> RequestPcs]
  BY GotoTyped DEF Typed, TypeOK
<1>2. JobsOK'
  BY DEF Goto, Typed, TypeOK, JobsOK
<1> QED BY <1>1, <1>2 DEF Typed, TypeOK

\* The upload of a handler between its first step and its last.
LEMMA HandlersUpload ==
  ASSUME Typed, NEW r \in Requests,
         pc[r] \in CommitPcs \cup AbandonPcs \cup PutPcs \cup {"grant"}
  PROVE  job[r].upload \in UploadIds
  BY DEF Typed, JobsOK

LEMMA PutTyped ==
  ASSUME Typed, NEW r \in Requests, PutStep(r)
  PROVE  Typed'
<1> USE DEF RequestPcs, PutPcs
<1>1. job[r].upload \in UploadIds
  BY HandlersUpload DEF PutStep, PutRead, PutCreate, PutFill
<1>2. CASE PutRead(r)
  <2>1. pc' \in [Requests -> RequestPcs] /\ job' \in [Requests -> Jobs] /\ JobsOK'
    BY <1>1, <1>2, GoOnTyped, AnswerTyped DEF PutRead
  <2> QED BY <1>2, <2>1 DEF PutRead, Typed, TypeOK, store, disk, locks, env
<1>3. CASE PutCreate(r)
  <2>1. pc' \in [Requests -> RequestPcs] /\ job' \in [Requests -> Jobs] /\ JobsOK'
    BY <1>1, <1>3, GoOnTyped, AnswerTyped DEF PutCreate
  <2>2. chunks' \in [UploadIds -> [Chunks -> ChunkStates]]
    BY <1>1, <1>3 DEF PutCreate, Typed, TypeOK, ChunkStates
  <2> QED BY <1>3, <2>1, <2>2 DEF PutCreate, Typed, TypeOK, store, locks, env
<1>4. CASE PutFill(r)
  <2>1. pc' \in [Requests -> RequestPcs] /\ job' \in [Requests -> Jobs] /\ JobsOK'
    BY <1>4, AnswerTyped DEF PutFill
  <2>2. job[r].bytes \in ChunkStates
    BY DEF Typed, TypeOK, Jobs, ChunkStates
  <2>3. chunks \in [UploadIds -> [Chunks -> ChunkStates]]
    BY DEF Typed, TypeOK
  <2>4. PICK x : /\ chunks' = [chunks EXCEPT ![job[r].upload][job[r].chunk] = x]
                 /\ x \in {chunks[job[r].upload][job[r].chunk], job[r].bytes}
    BY <1>1, <1>4, <2>3 DEF PutFill
  <2>5. chunks' \in [UploadIds -> [Chunks -> ChunkStates]]
    BY <1>1, <2>2, <2>3, <2>4
  <2> QED BY <1>4, <2>1, <2>5 DEF PutFill, Typed, TypeOK, store, locks, env
<1> QED BY <1>2, <1>3, <1>4 DEF PutStep

LEMMA CommitTyped ==
  ASSUME Typed, NEW r \in Requests, CommitStep(r)
  PROVE  Typed'
<1> DEFINE Handler == /\ pc' \in [Requests -> RequestPcs]
                      /\ job' \in [Requests -> Jobs]
                      /\ JobsOK'
<1>1. job[r].upload \in UploadIds
  BY HandlersUpload
  DEF CommitStep, CommitArrival, CommitDigest, Abandon, AbandonRmdir, AbandonDrop,
      CommitLockBlobs, CommitPlace, CommitRefuse, CommitRetain, CommitDrop,
      CommitOutcome, CommitPcs, AbandonPcs
<1>2. /\ Answer(r) => Handler
      /\ \A there \in CommitPcs \cup AbandonPcs :
           Goto(r, there) /\ UNCHANGED job => Handler
  <2>1. CommitPcs \cup AbandonPcs \subseteq RequestPcs
    BY DEF RequestPcs
  <2> QED BY <1>1, <2>1, AnswerTyped, GoOnTyped
<1> HIDE DEF Handler
<1> USE <1>1, <1>2 DEF CommitPcs, AbandonPcs
<1>3. CASE CommitArrival(r)
  <2>1. Handler BY <1>3 DEF CommitArrival
  <2> QED BY <1>3, <2>1 DEF Handler, CommitArrival, Typed, TypeOK, store, disk, locks, env
<1>4. CASE CommitDigest(r)
  <2>1. Handler BY <1>4 DEF CommitDigest
  <2> QED BY <1>4, <2>1 DEF Handler, CommitDigest, Typed, TypeOK, store, disk, locks, env
<1>5. CASE Abandon(r)
  <2>1. Handler BY <1>5 DEF Abandon
  <2>2. chunks' \in [UploadIds -> [Chunks -> ChunkStates]]
    BY <1>5, UnlinkTyped DEF Abandon, Typed, TypeOK
  <2> QED BY <1>5, <2>1, <2>2 DEF Handler, Abandon, Typed, TypeOK, store, locks, env
<1>6. CASE AbandonRmdir(r)
  <2>1. Handler BY <1>6 DEF AbandonRmdir
  <2> QED BY <1>6, <2>1 DEF Handler, AbandonRmdir, Typed, TypeOK, store, locks, env
<1>7. CASE AbandonDrop(r)
  <2>1. Handler BY <1>7 DEF AbandonDrop
  <2>2. uploads' \in [UploadIds -> Keys \cup {None}]
    BY <1>7, DropTyped DEF AbandonDrop, Typed
  <2> QED BY <1>7, <2>1, <2>2 DEF Handler, AbandonDrop, Typed, TypeOK, disk, locks, env
<1>8. CASE CommitLockBlobs(r)
  <2>1. Handler BY <1>8 DEF CommitLockBlobs
  <2> QED BY <1>8, <2>1 DEF Handler, CommitLockBlobs, Typed, TypeOK, store, disk, env
<1>9. CASE CommitPlace(r)
  <2>1. Handler BY <1>9 DEF CommitPlace
  <2>2. /\ incoming' \subseteq UploadIds
        /\ chunks' \in [UploadIds -> [Chunks -> ChunkStates]]
        /\ dest' \in [Keys -> UploadIds \cup {None}]
    BY <1>9, DiscardTyped DEF CommitPlace, PlaceUpload, Typed, TypeOK, disk
  <2>3. storeLock' \in Requests \cup {None} /\ blobLock' \in Requests \cup {None, Sweeper}
    BY <1>9 DEF CommitPlace, Typed, TypeOK
  <2> QED BY <1>9, <2>1, <2>2, <2>3 DEF Handler, CommitPlace, Typed, TypeOK, store, env
<1>10. CASE CommitRefuse(r)
  <2>1. Handler BY <1>10 DEF CommitRefuse
  <2>2. uploads' \in [UploadIds -> Keys \cup {None}]
    BY <1>10, DropTyped DEF CommitRefuse, Typed
  <2> QED BY <1>10, <2>1, <2>2 DEF Handler, CommitRefuse, Typed, TypeOK, disk, env
<1>11. CASE CommitRetain(r)
  <2>1. Handler BY <1>11 DEF CommitRetain
  <2>2. snapshots' \in [Keys -> {"never", "live", "erased", "unavailable"}]
    BY <1>11 DEF CommitRetain, Typed, TypeOK
  <2> QED BY <1>11, <2>1, <2>2 DEF Handler, CommitRetain, Typed, TypeOK, disk, locks, env
<1>12. CASE CommitDrop(r)
  <2>1. Handler BY <1>12 DEF CommitDrop
  <2>2. uploads' \in [UploadIds -> Keys \cup {None}]
    BY <1>12, DropTyped DEF CommitDrop, Typed
  <2> QED BY <1>12, <2>1, <2>2 DEF Handler, CommitDrop, Typed, TypeOK, disk, locks, env
<1>13. CASE CommitOutcome(r)
  <2>1. Handler BY <1>13 DEF CommitOutcome
  <2> QED BY <1>13, <2>1 DEF Handler, CommitOutcome, Typed, TypeOK, disk, env
<1> QED BY <1>3, <1>4, <1>5, <1>6, <1>7, <1>8, <1>9, <1>10, <1>11, <1>12, <1>13
        DEF CommitStep

\* A handler that works on no upload.
LEMMA GoElsewhereTyped ==
  ASSUME Typed, NEW r \in Requests, NEW there \in ErasePcs \cup {"mark"},
         Goto(r, there), NEW j \in Jobs,
         job' = job \/ job' = [job EXCEPT ![r] = j]
  PROVE  /\ pc' \in [Requests -> RequestPcs]
         /\ job' \in [Requests -> Jobs]
         /\ JobsOK'
<1>1. pc' \in [Requests -> RequestPcs]
  BY GotoTyped DEF Typed, TypeOK, RequestPcs, ErasePcs
<1>2. there \notin CommitPcs \cup AbandonPcs \cup PutPcs \cup {"grant"}
  BY DEF CommitPcs, AbandonPcs, PutPcs, ErasePcs
<1>3. JobsOK'
  BY <1>2 DEF Goto, Typed, TypeOK, JobsOK
<1> QED BY <1>1, <1>3 DEF Typed, TypeOK

LEMMA EraseTyped ==
  ASSUME Typed, NEW r \in Requests, EraseStep(r)
  PROVE  Typed'
<1> USE DEF ErasePcs
<1>1. CASE EraseDecide(r)
  <2> DEFINE doomed == job[r].scope \cap LiveKeys
  <2>1. [job[r] EXCEPT !.scope = doomed] \in Jobs
    BY DEF Typed, TypeOK, Jobs
  <2>2. pc' \in [Requests -> RequestPcs] /\ job' \in [Requests -> Jobs] /\ JobsOK'
    <3>1. CASE doomed = {}
      BY <1>1, <3>1, AnswerTyped DEF EraseDecide
    <3>2. CASE doomed # {}
      <4>1. Goto(r, "unlink") /\ job' = [job EXCEPT ![r] = [job[r] EXCEPT !.scope = doomed]]
        BY <1>1, <3>2 DEF EraseDecide, Typed, TypeOK
      <4> QED BY <2>1, <4>1, GoElsewhereTyped
    <3> QED BY <3>1, <3>2
  <2>3. snapshots' \in [Keys -> {"never", "live", "erased", "unavailable"}]
    BY <1>1 DEF EraseDecide, Typed, TypeOK
  <2>4. blobLock' \in Requests \cup {None, Sweeper}
    BY <1>1 DEF EraseDecide, Typed, TypeOK
  <2> QED BY <1>1, <2>2, <2>3, <2>4 DEF EraseDecide, Typed, TypeOK, disk, env
<1>2. CASE EraseUnlink(r)
  <2>1. PICK k \in job[r].scope :
          /\ IF dest[k] # None THEN UnlinkChunks(dest[k]) ELSE UNCHANGED chunks
          /\ job' = [job EXCEPT ![r].key = k]
    BY <1>2 DEF EraseUnlink
  <2>2. [job[r] EXCEPT !.key = k] \in Jobs
    BY DEF Typed, TypeOK, Jobs
  <2>3. Goto(r, "rmdir") /\ job' = [job EXCEPT ![r] = [job[r] EXCEPT !.key = k]]
    BY <1>2, <2>1 DEF EraseUnlink, Typed, TypeOK
  <2>4. pc' \in [Requests -> RequestPcs] /\ job' \in [Requests -> Jobs] /\ JobsOK'
    BY <2>2, <2>3, GoElsewhereTyped
  <2>5. chunks' \in [UploadIds -> [Chunks -> ChunkStates]]
    BY <2>1, UnlinkTyped DEF Typed, TypeOK
  <2> QED BY <1>2, <2>4, <2>5 DEF EraseUnlink, Typed, TypeOK, store, locks, env
<1>3. CASE EraseRmdir(r)
  <2> DEFINE rest == job[r].scope \ {job[r].key}
  <2>1. [job[r] EXCEPT !.scope = rest, !.key = None] \in Jobs
    <3>1. job[r] \in Jobs
      BY DEF Typed, TypeOK
    <3> QED BY <3>1 DEF Jobs
  <2>2. pc' \in [Requests -> RequestPcs] /\ job' \in [Requests -> Jobs] /\ JobsOK'
    <3>1. CASE rest = {}
      BY <1>3, <3>1, AnswerTyped DEF EraseRmdir
    <3>2. CASE rest # {}
      <4>1. /\ Goto(r, "unlink")
            /\ job' = [job EXCEPT ![r] = [job[r] EXCEPT !.scope = rest, !.key = None]]
        BY <1>3, <3>2 DEF EraseRmdir, Typed, TypeOK
      <4> QED BY <2>1, <4>1, GoElsewhereTyped
    <3> QED BY <3>1, <3>2
  <2>3. dest' \in [Keys -> UploadIds \cup {None}]
    BY <1>3 DEF EraseRmdir, RmdirDest, Typed, TypeOK
  <2>4. blobLock' \in Requests \cup {None, Sweeper}
    BY <1>3 DEF EraseRmdir, Typed, TypeOK
  <2> QED BY <1>3, <2>2, <2>3, <2>4 DEF EraseRmdir, Typed, TypeOK, store, env
<1> QED BY <1>1, <1>2, <1>3 DEF EraseStep

LEMMA HandlerTyped ==
  ASSUME Typed, NEW r \in Requests, HandlerStep(r)
  PROVE  Typed'
<1>1. CASE PreflightRow(r)
  <2>1. job[r].key \in Keys \cup {None}
    BY DEF Typed, TypeOK, Jobs
  <2>2. uploads' \in [UploadIds -> Keys \cup {None}]
    BY <1>1, <2>1 DEF PreflightRow, Typed, TypeOK
  <2>3. pc' \in [Requests -> RequestPcs] /\ job' \in [Requests -> Jobs] /\ JobsOK'
    BY <1>1, AnswerTyped DEF PreflightRow
  <2> QED BY <1>1, <2>2, <2>3 DEF PreflightRow, Typed, TypeOK, disk, env
<1>2. CASE DownloadPaths(r)
  <2>1. NoJob \in Jobs
    BY JobTypes
  <2>2. pc' \in [Requests -> RequestPcs] /\ job' \in [Requests -> Jobs] /\ JobsOK'
    BY <1>2, <2>1, AnswerTyped, GoElsewhereTyped DEF DownloadPaths
  <2> QED BY <1>2, <2>2 DEF DownloadPaths, Typed, TypeOK, store, disk, locks, env
<1>3. CASE DownloadMark(r)
  <2>1. snapshots' \in [Keys -> {"never", "live", "erased", "unavailable"}]
    BY <1>3, MarkTyped DEF DownloadMark, Typed
  <2>2. pc' \in [Requests -> RequestPcs] /\ job' \in [Requests -> Jobs] /\ JobsOK'
    BY <1>3, AnswerTyped DEF DownloadMark
  <2> QED BY <1>3, <2>1, <2>2 DEF DownloadMark, Typed, TypeOK, disk, locks, env
<1> QED BY <1>1, <1>2, <1>3, PutTyped, CommitTyped, EraseTyped
        DEF HandlerStep, DownloadStep

\* What the sweep writes in its locals.
LEMMA SweepLocals ==
  ASSUME NEW s \in Sweeps, NEW p \in SweepPcs, NEW us \in SUBSET UploadIds,
         NEW u \in UploadIds
  PROVE  /\ [s EXCEPT !.pc = p, !.upload = u, !.uploads = us] \in Sweeps
         /\ [s EXCEPT !.uploads = us, !.upload = u, !.pc = p] \in Sweeps
  BY DEF Sweeps

LEMMA SweepTyped ==
  ASSUME Typed, SweepStep
  PROVE  Typed'
<1> USE DEF SweepPcs
<1>1. sweep \in Sweeps
  BY DEF Typed, TypeOK
<1>2. IdleSweep \in Sweeps
  BY DEF IdleSweep, Sweeps
<1>3. UNCHANGED <<pc, job>> => JobsOK'
  BY DEF Typed, JobsOK
<1>4. CASE SweepExpired
  <2>1. sweep' \in Sweeps
    BY <1>2, <1>4 DEF SweepExpired, IdleSweep, Sweeps
  <2> QED BY <1>3, <1>4, <2>1 DEF SweepExpired, Typed, TypeOK, store, disk, locks, env
<1>5. CASE SweepExpiredUnlink
  <2>1. PICK u \in sweep.uploads :
          IF u \in incoming
          THEN /\ UnlinkChunks(u)
               /\ sweep' = [sweep EXCEPT !.pc = "expiredRmdir", !.upload = u,
                                         !.uploads = @ \ {u}]
          ELSE /\ sweep' = [sweep EXCEPT !.pc = "expiredDrop", !.upload = u,
                                         !.uploads = @ \ {u}]
               /\ UNCHANGED chunks
    BY <1>5 DEF SweepExpiredUnlink
  <2>2. sweep' \in Sweeps
    <3>1. u \in UploadIds /\ sweep.uploads \ {u} \in SUBSET UploadIds
      BY <1>1 DEF Sweeps
    <3>2. \A there \in SweepPcs :
            [sweep EXCEPT !.pc = there, !.upload = u,
                          !.uploads = sweep.uploads \ {u}] \in Sweeps
      <4> HIDE DEF SweepPcs
      <4> QED BY <1>1, <3>1, SweepLocals
    <3> QED BY <2>1, <3>2
  <2>3. chunks' \in [UploadIds -> [Chunks -> ChunkStates]]
    BY <2>1, UnlinkTyped DEF Typed, TypeOK
  <2> QED BY <1>3, <1>5, <2>2, <2>3 DEF SweepExpiredUnlink, Typed, TypeOK, store, locks, env
<1>6. CASE SweepExpiredRmdir
  <2>1. sweep' \in Sweeps
    BY <1>1, <1>6 DEF SweepExpiredRmdir, SweepGoto, Sweeps
  <2> QED BY <1>3, <1>6, <2>1 DEF SweepExpiredRmdir, Typed, TypeOK, store, locks, env
<1>7. CASE SweepExpiredDrop
  <2>1. sweep' \in Sweeps
    BY <1>1, <1>7 DEF SweepExpiredDrop, SweepGoto, Sweeps
  <2>2. uploads' \in [UploadIds -> Keys \cup {None}]
    BY <1>7, DropTyped DEF SweepExpiredDrop, Typed
  <2> QED BY <1>3, <1>7, <2>1, <2>2 DEF SweepExpiredDrop, Typed, TypeOK, disk, locks, env
<1>8. CASE SweepWalkIncoming
  <2>1. sweep' \in Sweeps
    BY <1>1, <1>8 DEF SweepWalkIncoming, Sweeps, Typed, TypeOK
  <2> QED BY <1>3, <1>8, <2>1 DEF SweepWalkIncoming, Typed, TypeOK, store, disk, locks, env
<1>9. CASE SweepOrphanRow
  <2>1. sweep' \in Sweeps
    <3>1. PICK u \in sweep.uploads :
            sweep' = [sweep EXCEPT !.uploads = @ \ {u}, !.upload = u,
                        !.pc = IF Granted(u) THEN "orphan" ELSE "orphanUnlink"]
      BY <1>9 DEF SweepOrphanRow
    <3>2. u \in UploadIds /\ sweep.uploads \ {u} \in SUBSET UploadIds
      BY <1>1 DEF Sweeps
    <3>3. \A there \in SweepPcs :
            [sweep EXCEPT !.uploads = sweep.uploads \ {u}, !.upload = u,
                          !.pc = there] \in Sweeps
      <4> HIDE DEF SweepPcs
      <4> QED BY <1>1, <3>2, SweepLocals
    <3> QED BY <3>1, <3>3
  <2> QED BY <1>3, <1>9, <2>1 DEF SweepOrphanRow, Typed, TypeOK, store, disk, locks, env
<1>10. CASE SweepOrphanUnlink
  <2>1. sweep' \in Sweeps
    BY <1>1, <1>10 DEF SweepOrphanUnlink, SweepGoto, Sweeps
  <2>2. chunks' \in [UploadIds -> [Chunks -> ChunkStates]]
    BY <1>10, UnlinkTyped DEF SweepOrphanUnlink, Typed, TypeOK
  <2> QED BY <1>3, <1>10, <2>1, <2>2 DEF SweepOrphanUnlink, Typed, TypeOK, store, locks, env
<1>11. CASE SweepOrphanRmdir
  <2>1. sweep' \in Sweeps
    BY <1>1, <1>11 DEF SweepOrphanRmdir, SweepGoto, Sweeps
  <2> QED BY <1>3, <1>11, <2>1 DEF SweepOrphanRmdir, Typed, TypeOK, store, locks, env
<1>12. CASE SweepClaim
  <2>1. sweep' \in Sweeps
    BY <1>1, <1>12 DEF SweepClaim, LiveKeys, Sweeps
  <2> QED BY <1>3, <1>12, <2>1 DEF SweepClaim, Typed, TypeOK, store, disk, locks, env
<1>13. CASE SweepVerifyLock
  <2>1. sweep' \in Sweeps
    BY <1>1, <1>13 DEF SweepVerifyLock, Sweeps
  <2> QED BY <1>3, <1>13, <2>1 DEF SweepVerifyLock, Typed, TypeOK, store, disk, env
<1>14. CASE SweepVerifyRow
  <2>1. sweep' \in Sweeps
    BY <1>1, <1>14 DEF SweepVerifyRow, SweepGoto, Sweeps
  <2>2. snapshots' \in [Keys -> {"never", "live", "erased", "unavailable"}]
    BY <1>14, MarkTyped DEF SweepVerifyRow, Typed, TypeOK
  <2> QED BY <1>3, <1>14, <2>1, <2>2 DEF SweepVerifyRow, Typed, TypeOK, disk, env
<1>15. CASE SweepSurvey
  <2>1. sweep' \in Sweeps
    BY <1>1, <1>15 DEF SweepSurvey, LiveKeys, Sweeps
  <2> QED BY <1>3, <1>15, <2>1 DEF SweepSurvey, Typed, TypeOK, store, disk, locks, env
<1>16. CASE SweepWalkRetained
  <2>1. sweep' \in Sweeps
    BY <1>1, <1>16 DEF SweepWalkRetained, Sweeps
  <2> QED BY <1>3, <1>16, <2>1 DEF SweepWalkRetained, Typed, TypeOK, store, disk, locks, env
<1>17. CASE SweepStrayLock
  <2>1. sweep' \in Sweeps
    BY <1>1, <1>17 DEF SweepStrayLock, Sweeps
  <2> QED BY <1>3, <1>17, <2>1 DEF SweepStrayLock, Typed, TypeOK, store, disk, env
<1>18. CASE SweepStrayRow
  <2>1. sweep' \in Sweeps
    BY <1>1, <1>18 DEF SweepStrayRow, SweepGoto, Sweeps
  <2>2. blobLock' \in Requests \cup {None, Sweeper}
    BY <1>18 DEF SweepStrayRow, Typed, TypeOK
  <2> QED BY <1>3, <1>18, <2>1, <2>2 DEF SweepStrayRow, Typed, TypeOK, store, disk, env
<1>19. CASE SweepStrayUnlink
  <2>1. sweep' \in Sweeps
    BY <1>1, <1>19 DEF SweepStrayUnlink, SweepGoto, Sweeps
  <2>2. chunks' \in [UploadIds -> [Chunks -> ChunkStates]]
    BY <1>19, UnlinkTyped DEF SweepStrayUnlink, Typed, TypeOK
  <2> QED BY <1>3, <1>19, <2>1, <2>2 DEF SweepStrayUnlink, Typed, TypeOK, store, locks, env
<1>20. CASE SweepStrayRmdir
  <2>1. sweep' \in Sweeps
    BY <1>1, <1>20 DEF SweepStrayRmdir, SweepGoto, Sweeps
  <2>2. dest' \in [Keys -> UploadIds \cup {None}]
    BY <1>20 DEF SweepStrayRmdir, RmdirDest, Typed, TypeOK
  <2> QED BY <1>3, <1>20, <2>1, <2>2 DEF SweepStrayRmdir, Typed, TypeOK, store, env
<1>21. CASE SweepDone
  BY <1>2, <1>3, <1>21 DEF SweepDone, Typed, TypeOK, store, disk, locks, env
<1> QED BY <1>4, <1>5, <1>6, <1>7, <1>8, <1>9, <1>10, <1>11, <1>12, <1>13, <1>14,
           <1>15, <1>16, <1>17, <1>18, <1>19, <1>20, <1>21, SweepStep DEF SweepStep

LEMMA TypeStep == Typed /\ [Next]_vars => Typed'
<1> SUFFICES ASSUME Typed, [Next]_vars PROVE Typed'
  OBVIOUS
<1>1. ASSUME NEW r \in Requests, Disconnect(r) PROVE Typed'
  <2>1. pc' \in [Requests -> RequestPcs] /\ job' \in [Requests -> Jobs] /\ JobsOK'
    BY <1>1, AnswerTyped DEF Disconnect, Typed, TypeOK, JobsOK
  <2>2. /\ blobLock' \in Requests \cup {None, Sweeper}
        /\ disconnects' \in 0 .. MaxDisconnects
    BY <1>1, EnvironmentAssumption DEF Disconnect, Typed, TypeOK
  <2> QED BY <1>1, <2>1, <2>2 DEF Disconnect, Typed, TypeOK, store, disk
<1>2. ASSUME NEW u \in UploadIds, GrantExpires(u) PROVE Typed'
  BY <1>2 DEF GrantExpires, Typed, TypeOK, JobsOK, disk, locks, env
<1>3. CASE Crash
  <2>1. NoJob \in Jobs
    BY JobTypes
  <2>2. IdleSweep \in Sweeps
    BY DEF IdleSweep, Sweeps, SweepPcs
  <2>3. JobsOK'
    BY <1>3 DEF Crash, JobsOK, CommitPcs, AbandonPcs, PutPcs
  <2>4. pc' \in [Requests -> RequestPcs] /\ job' \in [Requests -> Jobs]
    BY <1>3, <2>1 DEF Crash, RequestPcs
  <2>5. crashes' \in 0 .. MaxCrashes
    BY <1>3, EnvironmentAssumption DEF Crash, Typed, TypeOK
  <2> QED BY <1>3, <2>2, <2>3, <2>4, <2>5 DEF Crash, Typed, TypeOK, store, disk
<1>4. CASE UNCHANGED vars
  BY <1>4 DEF vars, store, disk, locks, env, Typed, TypeOK, JobsOK
<1> QED BY <1>1, <1>2, <1>3, <1>4, RequestTyped, HandlerTyped, SweepTyped DEF Next

\* Every value the code stores is of its kind, in every execution.
THEOREM TypeCorrect == Spec => []TypeOK
<1>1. Typed => TypeOK
  BY DEF Typed
<1> QED BY <1>1, TypeInit, TypeStep, PTL DEF Spec
=============================================================================
