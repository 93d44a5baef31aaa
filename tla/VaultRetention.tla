--------------------------- MODULE VaultRetention ---------------------------
(***************************************************************************)
(* "Retained" means the bytes are there, for any holders, digests, uploads *)
(* and requests, with any interleaving and any number of crashes, of an    *)
(* operator whose environment is orderly: one request per upload at a      *)
(* time, no commit that outlives its grant, no client that hangs up. TLC   *)
(* finds the property violated when any one of the three is let go.        *)
(*                                                                         *)
(* The argument: the blob lock keeps whoever empties a destination apart   *)
(* from whoever makes its row live, and a directory that a commit has      *)
(* verified is out of everyone's reach until it is renamed: the sweep      *)
(* takes only directories whose grant ran out or has no row, and no other  *)
(* request works on that upload.                                           *)
(***************************************************************************)
EXTENDS VaultSafety

\* The environments the theorem is about.
Orderly == ~Overlap /\ ~LateCommits /\ MaxDisconnects = 0

\* Nobody hangs up.
LEMMA NobodyHangsUp ==
  ASSUME Orderly, Typed, NEW r \in Requests
  PROVE  ~Disconnect(r)
  BY DEF Orderly, Typed, TypeOK, Disconnect

-----------------------------------------------------------------------------
(* What a step does to the disk *)

\* The steps that unlink the files of directory u: each reached it under the
\* name that its guard mentions.
Unlinks(u) ==
  \/ \E r \in Requests : /\ Abandon(r) \/ CommitPlace(r)
                         /\ u = job[r].upload /\ u \in incoming
  \/ /\ SweepExpiredUnlink /\ u \in sweep.uploads /\ u \in incoming
  \/ /\ SweepOrphanUnlink /\ u = sweep.upload /\ u \in incoming
  \/ \E r \in Requests : EraseUnlink(r) /\ \E k \in job[r].scope : u = dest[k]
  \/ /\ SweepStrayUnlink /\ u = dest[sweep.key]

\* Nothing but an unlinking spoils verified bytes: a chunk that is there is
\* never written again.
LEMMA VerifiedStep ==
  ASSUME Typed, [Next]_vars, NEW u \in UploadIds, Verified(u), ~Unlinks(u)
  PROVE  Verified(u)'
<1> USE DEF Typed, TypeOK
<1>1. SUFFICES \A c \in Chunks : chunks[u][c] = "good" => chunks'[u][c] = "good"
  BY DEF Verified
<1>2. ASSUME chunks' = chunks
      PROVE  \A c \in Chunks : chunks[u][c] = "good" => chunks'[u][c] = "good"
  BY <1>2
<1>3. ASSUME NEW d, UnlinkChunks(d), d # u
      PROVE  \A c \in Chunks : chunks[u][c] = "good" => chunks'[u][c] = "good"
  BY <1>3 DEF UnlinkChunks
<1>4. ASSUME NEW r \in Requests, Request(r) \/ PreflightRow(r) \/ DownloadStep(r)
      PROVE  chunks' = chunks
  BY <1>4 DEF Request, PreflightGrant, PutCheck, CommitCheck, EraseLockBlobs,
              DownloadRow, PreflightRow, DownloadStep, DownloadPaths, DownloadMark, disk
<1>5. ASSUME NEW r \in Requests, PutStep(r)
      PROVE  \A c \in Chunks : chunks[u][c] = "good" => chunks'[u][c] = "good"
  <2>1. CASE PutRead(r)
    BY <1>2, <2>1 DEF PutRead, disk
  <2>2. CASE PutCreate(r)
    BY <2>2 DEF PutCreate, ChunkFile
  <2>3. CASE PutFill(r)
    BY <2>3 DEF PutFill
  <2> QED BY <1>5, <2>1, <2>2, <2>3 DEF PutStep
<1>6. ASSUME NEW r \in Requests, CommitStep(r)
      PROVE  \A c \in Chunks : chunks[u][c] = "good" => chunks'[u][c] = "good"
  <2>1. CASE Abandon(r)
    <3>1. job[r].upload \in incoming => job[r].upload # u /\ UnlinkChunks(job[r].upload)
      BY <2>1 DEF Unlinks, Abandon
    <3>2. job[r].upload \notin incoming => chunks' = chunks
      BY <2>1 DEF Abandon
    <3> QED BY <1>2, <1>3, <3>1, <3>2
  <2>2. CASE CommitPlace(r)
    <3>1. \/ chunks' = chunks
          \/ /\ job[r].upload \in incoming
             /\ chunks' = [chunks EXCEPT ![job[r].upload] = EmptyDirectory]
      BY <2>2 DEF CommitPlace, PlaceUpload, DiscardUpload, disk
    <3>2. job[r].upload \in incoming => job[r].upload # u
      BY <2>2 DEF Unlinks
    <3> QED BY <1>2, <1>3, <3>1, <3>2 DEF UnlinkChunks
  <2>3. CASE ~Abandon(r) /\ ~CommitPlace(r)
    <3>1. chunks' = chunks
      BY <1>6, <2>3 DEF CommitStep, CommitArrival, CommitDigest, AbandonRmdir,
         AbandonDrop, CommitLockBlobs, CommitRefuse, CommitRetain, CommitDrop,
         CommitOutcome, disk
    <3> QED BY <1>2, <3>1
  <2> QED BY <2>1, <2>2, <2>3
<1>7. ASSUME NEW r \in Requests, EraseStep(r)
      PROVE  \A c \in Chunks : chunks[u][c] = "good" => chunks'[u][c] = "good"
  <2>1. CASE EraseUnlink(r)
    <3>1. PICK k \in job[r].scope :
            IF dest[k] # None THEN UnlinkChunks(dest[k]) ELSE UNCHANGED chunks
      BY <2>1 DEF EraseUnlink
    <3>2. dest[k] # u
      BY <2>1 DEF Unlinks
    <3> QED BY <1>2, <1>3, <3>1, <3>2
  <2>2. CASE EraseDecide(r) \/ EraseRmdir(r)
    BY <1>2, <2>2 DEF EraseDecide, EraseRmdir, disk
  <2> QED BY <1>7, <2>1, <2>2 DEF EraseStep
<1>8. ASSUME SweepStep
      PROVE  \A c \in Chunks : chunks[u][c] = "good" => chunks'[u][c] = "good"
  <2>1. CASE SweepExpiredUnlink
    <3>1. PICK v \in sweep.uploads : \/ v \in incoming /\ UnlinkChunks(v)
                                     \/ chunks' = chunks
      BY <2>1 DEF SweepExpiredUnlink
    <3>2. v \in incoming => v # u
      BY <2>1 DEF Unlinks
    <3> QED BY <1>2, <1>3, <3>1, <3>2
  <2>2. CASE SweepOrphanUnlink
    <3>1. \/ sweep.upload \in incoming /\ UnlinkChunks(sweep.upload) /\ sweep.upload # u
          \/ chunks' = chunks
      BY <2>2 DEF SweepOrphanUnlink, Unlinks
    <3> QED BY <1>2, <1>3, <3>1
  <2>3. CASE SweepStrayUnlink
    <3>1. \/ UnlinkChunks(dest[sweep.key]) /\ dest[sweep.key] # u
          \/ chunks' = chunks
      BY <2>3 DEF SweepStrayUnlink, Unlinks
    <3> QED BY <1>2, <1>3, <3>1
  <2>4. CASE ~SweepExpiredUnlink /\ ~SweepOrphanUnlink /\ ~SweepStrayUnlink
    <3>1. chunks' = chunks
      BY <1>8, <2>4 DEF SweepStep, SweepExpired, SweepExpiredRmdir, SweepExpiredDrop,
         SweepWalkIncoming, SweepOrphanRow, SweepOrphanRmdir, SweepClaim,
         SweepVerifyLock, SweepVerifyRow, SweepSurvey, SweepWalkRetained,
         SweepStrayLock, SweepStrayRow, SweepStrayRmdir, SweepDone, disk
    <3> QED BY <1>2, <3>1
  <2> QED BY <2>1, <2>2, <2>3, <2>4
<1>9. ASSUME \/ \E r \in Requests : Disconnect(r)
             \/ \E v \in UploadIds : GrantExpires(v)
             \/ Crash \/ UNCHANGED vars
      PROVE  chunks' = chunks
  BY <1>9 DEF Disconnect, GrantExpires, Crash, vars, disk
<1> QED BY <1>2, <1>4, <1>5, <1>6, <1>7, <1>8, <1>9 DEF Next, HandlerStep

\* A destination is filled by a commit's rename and given up only empty.
LEMMA DestStep ==
  ASSUME Typed, [Next]_vars, NEW k \in Keys
  PROVE  \/ dest'[k] = dest[k]
         \/ dest'[k] = None /\ dest[k] # None /\ chunks[dest[k]] = EmptyDirectory
         \/ \E r \in Requests : /\ CommitPlace(r) /\ k = job[r].key
                                /\ job[r].upload \in incoming
                                /\ dest'[k] = job[r].upload /\ dest[k] = None
<1> USE DEF Typed, TypeOK
<1>1. ASSUME NEW l, RmdirDest(l)
      PROVE  \/ dest'[k] = dest[k]
             \/ dest'[k] = None /\ dest[k] # None /\ chunks[dest[k]] = EmptyDirectory
  BY <1>1 DEF RmdirDest
<1>2. ASSUME NEW r \in Requests,
             Request(r) \/ PreflightRow(r) \/ DownloadStep(r) \/ PutStep(r) \/ Disconnect(r)
      PROVE  dest' = dest
  BY <1>2 DEF Request, PreflightGrant, PutCheck, CommitCheck, EraseLockBlobs,
              DownloadRow, PreflightRow, DownloadStep, DownloadPaths, DownloadMark,
              PutStep, PutRead, PutCreate, PutFill, Disconnect, disk
<1>3. ASSUME NEW r \in Requests, CommitStep(r), ~CommitPlace(r)
      PROVE  dest' = dest
  BY <1>3 DEF CommitStep, CommitArrival, CommitDigest, Abandon, AbandonRmdir,
         AbandonDrop, CommitLockBlobs, CommitRefuse, CommitRetain, CommitDrop,
         CommitOutcome, disk
<1>4. ASSUME NEW r \in Requests, CommitPlace(r), dest'[k] # dest[k]
      PROVE  /\ k = job[r].key /\ job[r].upload \in incoming
             /\ dest'[k] = job[r].upload /\ dest[k] = None
  BY <1>4 DEF CommitPlace, PlaceUpload, disk
<1>5. ASSUME NEW r \in Requests, EraseStep(r)
      PROVE  dest' = dest \/ RmdirDest(job[r].key)
  BY <1>5 DEF EraseStep, EraseDecide, EraseUnlink, EraseRmdir, disk
<1>6. ASSUME SweepStep PROVE dest' = dest \/ RmdirDest(sweep.key)
  BY <1>6 DEF SweepStep, SweepExpired, SweepExpiredUnlink, SweepExpiredRmdir,
     SweepExpiredDrop, SweepWalkIncoming, SweepOrphanRow, SweepOrphanUnlink,
     SweepOrphanRmdir, SweepClaim, SweepVerifyLock, SweepVerifyRow, SweepSurvey,
     SweepWalkRetained, SweepStrayLock, SweepStrayRow, SweepStrayUnlink,
     SweepStrayRmdir, SweepDone, disk
<1>7. ASSUME (\E v \in UploadIds : GrantExpires(v)) \/ Crash \/ UNCHANGED vars
      PROVE  dest' = dest
  BY <1>7 DEF GrantExpires, Crash, vars, disk
<1> QED BY <1>1, <1>2, <1>3, <1>4, <1>5, <1>6, <1>7 DEF Next, HandlerStep

\* A directory leaves incoming/ by the request that works on it, or by the
\* sweep that has picked it.
LEMMA IncomingLeft ==
  ASSUME Typed, [Next]_vars, NEW u \in incoming, u \notin incoming'
  PROVE  \/ \E r \in Requests : (AbandonRmdir(r) \/ CommitPlace(r)) /\ u = job[r].upload
         \/ sweep.pc \in ExpiredPcs \cup OrphanPcs /\ u = sweep.upload
<1>1. ASSUME NEW r \in Requests,
             Request(r) \/ PreflightRow(r) \/ DownloadStep(r) \/ PutStep(r)
               \/ EraseStep(r) \/ Disconnect(r)
      PROVE  FALSE
  BY <1>1 DEF Request, PreflightGrant, PutCheck, CommitCheck, EraseLockBlobs,
              DownloadRow, PreflightRow, DownloadStep, DownloadPaths, DownloadMark,
              PutStep, PutRead, PutCreate, PutFill, EraseStep, EraseDecide,
              EraseUnlink, EraseRmdir, Disconnect, disk
<1>2. ASSUME NEW r \in Requests, CommitStep(r), ~CommitPlace(r), ~AbandonRmdir(r)
      PROVE  FALSE
  BY <1>2 DEF CommitStep, CommitArrival, CommitDigest, Abandon,
         AbandonDrop, CommitLockBlobs, CommitRefuse, CommitRetain, CommitDrop,
         CommitOutcome, disk
<1>3. ASSUME NEW r \in Requests, CommitPlace(r) \/ AbandonRmdir(r)
      PROVE  u = job[r].upload
  BY <1>3 DEF CommitPlace, PlaceUpload, DiscardUpload, AbandonRmdir, disk
<1>4. ASSUME SweepStep
      PROVE  sweep.pc \in ExpiredPcs \cup OrphanPcs /\ u = sweep.upload
  BY <1>4 DEF SweepStep, SweepExpired, SweepExpiredUnlink, SweepExpiredRmdir,
     SweepExpiredDrop, SweepWalkIncoming, SweepOrphanRow, SweepOrphanUnlink,
     SweepOrphanRmdir, SweepClaim, SweepVerifyLock, SweepVerifyRow, SweepSurvey,
     SweepWalkRetained, SweepStrayLock, SweepStrayRow, SweepStrayUnlink,
     SweepStrayRmdir, SweepDone, disk, ExpiredPcs, OrphanPcs
<1>5. ASSUME (\E v \in UploadIds : GrantExpires(v)) \/ Crash \/ UNCHANGED vars
      PROVE  FALSE
  BY <1>5 DEF GrantExpires, Crash, vars, disk
<1> QED BY <1>1, <1>2, <1>3, <1>4, <1>5 DEF Next, HandlerStep

\* So does a row.
LEMMA RowLeft ==
  ASSUME Typed, [Next]_vars, NEW u \in UploadIds, uploads[u] # None,
         uploads'[u] # uploads[u]
  PROVE  \/ \E r \in Requests :
              /\ \/ AbandonDrop(r) \/ CommitRefuse(r) \/ CommitDrop(r)
                 \/ PreflightRow(r)
              /\ u = job[r].upload
         \/ sweep.pc \in ExpiredPcs /\ u = sweep.upload
<1> USE DEF Typed, TypeOK
<1>1. ASSUME NEW v, DropUpload(v) PROVE u = v
  BY <1>1 DEF DropUpload
<1>2. ASSUME NEW r \in Requests,
             Request(r) \/ DownloadStep(r) \/ PutStep(r) \/ EraseStep(r) \/ Disconnect(r)
      PROVE  FALSE
  BY <1>2 DEF Request, PreflightGrant, PutCheck, CommitCheck, EraseLockBlobs,
              DownloadRow, DownloadStep, DownloadPaths, DownloadMark,
              PutStep, PutRead, PutCreate, PutFill, EraseStep, EraseDecide,
              EraseUnlink, EraseRmdir, Disconnect, store
<1>3. ASSUME NEW r \in Requests, PreflightRow(r) PROVE u = job[r].upload
  BY <1>3 DEF PreflightRow
<1>4. ASSUME NEW r \in Requests, CommitStep(r), ~AbandonDrop(r), ~CommitRefuse(r),
             ~CommitDrop(r)
      PROVE  FALSE
  BY <1>4 DEF CommitStep, CommitArrival, CommitDigest, Abandon, AbandonRmdir,
         CommitLockBlobs, CommitPlace, CommitRetain, CommitOutcome, store
<1>5. ASSUME NEW r \in Requests, AbandonDrop(r) \/ CommitRefuse(r) \/ CommitDrop(r)
      PROVE  u = job[r].upload
  BY <1>1, <1>5 DEF AbandonDrop, CommitRefuse, CommitDrop
<1>6. ASSUME SweepStep, ~SweepExpiredDrop PROVE FALSE
  BY <1>6 DEF SweepStep, SweepExpired, SweepExpiredUnlink, SweepExpiredRmdir,
     SweepWalkIncoming, SweepOrphanRow, SweepOrphanUnlink,
     SweepOrphanRmdir, SweepClaim, SweepVerifyLock, SweepVerifyRow, SweepSurvey,
     SweepWalkRetained, SweepStrayLock, SweepStrayRow, SweepStrayUnlink,
     SweepStrayRmdir, SweepDone, store
<1>7. ASSUME SweepExpiredDrop PROVE sweep.pc \in ExpiredPcs /\ u = sweep.upload
  BY <1>1, <1>7 DEF SweepExpiredDrop, ExpiredPcs
<1>8. ASSUME (\E v \in UploadIds : GrantExpires(v)) \/ Crash \/ UNCHANGED vars
      PROVE  FALSE
  BY <1>8 DEF GrantExpires, Crash, vars, store
<1> QED BY <1>2, <1>3, <1>4, <1>5, <1>6, <1>7, <1>8 DEF Next, HandlerStep

\* A request takes an upload where no other has it, and keeps it until its
\* answer.
LEMMA JobStep ==
  ASSUME Orderly, Typed, [Next]_vars, NEW r \in Requests
  PROVE  \/ job'[r].upload \in {job[r].upload, None}
         \/ \E u \in UploadIds :
              /\ job'[r].upload = u
              /\ \A s \in Requests \ {r} : job'[s] = job[s]
              /\ \/ /\ Granted(u) /\ lease[u] = "running"
                    /\ \A s \in Requests : job[s].upload # u
                 \/ lease[u] = "unissued" /\ lease'[u] = "running"
<1> USE DEF Typed, TypeOK
<1>1. ASSUME NEW s \in Requests, s # r, Request(s) \/ HandlerStep(s) \/ Disconnect(s)
      PROVE  job'[r] = job[r]
  BY <1>1, HandlerFrame
<1>2. ASSUME NEW u \in UploadIds, NEW k \in Keys, PreflightGrant(r, u, k)
      PROVE  /\ job'[r].upload = u /\ lease[u] = "unissued" /\ lease'[u] = "running"
             /\ \A s \in Requests \ {r} : job'[s] = job[s]
  BY <1>2 DEF PreflightGrant, Begin, NoJob
<1>3. ASSUME NEW u \in UploadIds, NEW c \in Chunks, NEW b \in Payloads,
             PutCheck(r, u, c, b)
      PROVE  /\ job'[r].upload = u /\ Granted(u) /\ lease[u] = "running"
             /\ \A s \in Requests : job[s].upload # u
             /\ \A s \in Requests \ {r} : job'[s] = job[s]
  BY <1>3 DEF PutCheck, Begin, NoJob, Alone, Orderly
<1>4. ASSUME NEW u \in UploadIds, CommitCheck(r, u)
      PROVE  /\ job'[r].upload = u /\ Granted(u) /\ lease[u] = "running"
             /\ \A s \in Requests : job[s].upload # u
             /\ \A s \in Requests \ {r} : job'[s] = job[s]
  BY <1>4 DEF CommitCheck, Begin, NoJob, Alone, Orderly
<1>5. ASSUME \/ \E scope \in Scopes : EraseLockBlobs(r, scope)
             \/ \E k \in Keys : DownloadRow(r, k)
      PROVE  job'[r].upload = None
  BY <1>5 DEF EraseLockBlobs, DownloadRow, Begin, NoJob
<1>6. ASSUME HandlerStep(r) PROVE job'[r].upload \in {job[r].upload, None}
  <2>1. CASE Answer(r)
    BY <2>1 DEF Answer, NoJob
  <2>2. CASE job' = job
    BY <2>2
  <2>3. CASE PreflightRow(r) \/ DownloadStep(r) \/ PutStep(r)
    BY <2>1, <2>2, <2>3 DEF PreflightRow, DownloadStep, DownloadPaths, DownloadMark,
                            PutStep, PutRead, PutCreate, PutFill
  <2>4. CASE CommitStep(r)
    BY <2>1, <2>2, <2>4
    DEF CommitStep, CommitArrival, CommitDigest, Abandon, AbandonRmdir, AbandonDrop,
        CommitLockBlobs, CommitPlace, CommitRefuse, CommitRetain, CommitDrop,
        CommitOutcome
  <2>5. CASE EraseStep(r)
    <3>1. job[r] \in Jobs
      OBVIOUS
    <3>2. ASSUME NEW f, NEW k, job' = [job EXCEPT ![r].scope = f, ![r].key = k]
          PROVE  job'[r].upload = job[r].upload
      BY <3>1, <3>2 DEF Jobs
    <3>3. ASSUME NEW f, job' = [job EXCEPT ![r].scope = f]
          PROVE  job'[r].upload = job[r].upload
      BY <3>1, <3>3 DEF Jobs
    <3>4. ASSUME NEW k, job' = [job EXCEPT ![r].key = k]
          PROVE  job'[r].upload = job[r].upload
      BY <3>1, <3>4 DEF Jobs
    <3> QED BY <2>1, <2>5, <3>2, <3>3, <3>4
            DEF EraseStep, EraseDecide, EraseUnlink, EraseRmdir
  <2> QED BY <1>6, <2>3, <2>4, <2>5 DEF HandlerStep
<1>7. ASSUME Crash PROVE job'[r].upload = None
  BY <1>7 DEF Crash, NoJob
<1>8. ASSUME SweepStep \/ (\E v \in UploadIds : GrantExpires(v)) \/ UNCHANGED vars
      PROVE  job' = job
  BY <1>8, SweepFrame DEF GrantExpires, vars
<1>9. CASE Request(r)
  BY <1>2, <1>3, <1>4, <1>5, <1>9 DEF Request
<1> QED BY <1>1, <1>6, <1>7, <1>8, <1>9, NobodyHangsUp DEF Next

-----------------------------------------------------------------------------
(* The blob lock *)

\* Nobody hangs up, so a handler in a section of it holds it.
BlobLockOK == /\ \A r \in Requests : pc[r] \in BlobSections => blobLock = r
              /\ sweep.pc \in SweepBlobSections => blobLock = Sweeper

LEMMA BlobLockStep ==
  ASSUME Orderly, Typed, BlobLockOK, [Next]_vars
  PROVE  BlobLockOK'
<1> USE NamesAssumption DEF BlobLockOK, BlobSections
<1>1. ASSUME NEW r \in Requests, Request(r) PROVE BlobLockOK'
  <2>1. CASE \E scope \in Scopes : EraseLockBlobs(r, scope)
    BY <2>1 DEF Typed, TypeOK, EraseLockBlobs, Begin, BlobsFree
  <2>2. ASSUME NEW there \in {"grant", "read", "arrival", "paths"}, NEW j,
               Begin(r, there, j), blobLock' = blobLock, sweep' = sweep
        PROVE  BlobLockOK'
    BY <2>2 DEF Typed, TypeOK, Begin
  <2>3. CASE \E u \in UploadIds, k \in Keys : PreflightGrant(r, u, k)
    BY <2>2, <2>3 DEF PreflightGrant
  <2>4. CASE \E u \in UploadIds, c \in Chunks, b \in Payloads : PutCheck(r, u, c, b)
    BY <2>2, <2>4 DEF PutCheck, locks
  <2>5. CASE \E u \in UploadIds : CommitCheck(r, u)
    BY <2>2, <2>5 DEF CommitCheck, locks
  <2>6. CASE \E k \in Keys : DownloadRow(r, k)
    BY <2>2, <2>6 DEF DownloadRow, locks
  <2> QED BY <1>1, <2>1, <2>3, <2>4, <2>5, <2>6 DEF Request
<1>2. ASSUME NEW r \in Requests, HandlerStep(r) PROVE BlobLockOK'
  <2> USE DEF Typed, TypeOK
  <2>1. CASE PreflightRow(r) \/ DownloadStep(r) \/ PutStep(r)
    BY <2>1 DEF PreflightRow, DownloadStep, DownloadPaths, DownloadMark, PutStep,
                PutRead, PutCreate, PutFill, Answer, Goto, locks
  <2>2. CASE CommitArrival(r) \/ CommitDigest(r) \/ Abandon(r) \/ AbandonRmdir(r)
               \/ AbandonDrop(r)
    BY <2>2 DEF CommitArrival, CommitDigest, Abandon, AbandonRmdir, AbandonDrop,
                Answer, Goto, locks
  <2>3. CASE CommitLockBlobs(r)
    BY <2>3 DEF CommitLockBlobs, BlobsFree, Goto
  <2>4. CASE CommitPlace(r)
    BY <2>4 DEF CommitPlace, Answer, Goto, SweepBlobSections
  <2>5. CASE CommitRetain(r) \/ CommitDrop(r)
    BY <2>5 DEF CommitRetain, CommitDrop, Goto, locks
  <2>6. CASE CommitRefuse(r) \/ CommitOutcome(r)
    BY <2>6 DEF CommitRefuse, CommitOutcome, Answer
  <2>7. CASE EraseDecide(r)
    BY <2>7 DEF EraseDecide, Answer, Goto
  <2>8. CASE EraseUnlink(r)
    BY <2>8 DEF EraseUnlink, Goto, locks
  <2>9. CASE EraseRmdir(r)
    BY <2>9 DEF EraseRmdir, Answer, Goto
  <2> QED BY <1>2, <2>1, <2>2, <2>3, <2>4, <2>5, <2>6, <2>7, <2>8, <2>9
          DEF HandlerStep, CommitStep, EraseStep
<1>3. CASE SweepStep
  <2> USE DEF SweepBlobSections
  <2>1. sweep \in Sweeps /\ pc' = pc
    BY <1>3, SweepFrame DEF Typed, TypeOK
  <2>2. ASSUME sweep'.pc \notin SweepBlobSections, blobLock' = blobLock
        PROVE  BlobLockOK'
    BY <2>1, <2>2
  <2>3. CASE SweepExpired \/ SweepDone
    <3>1. IdleSweep \in Sweeps /\ IdleSweep.pc = "sleep"
      BY DEF IdleSweep, Sweeps, SweepPcs
    <3>2. CASE SweepExpired
      <4>1. sweep'.pc = "expired"
        BY <3>1, <3>2 DEF SweepExpired, Sweeps
      <4> QED BY <2>2, <3>2, <4>1 DEF SweepExpired, locks
    <3>3. CASE SweepDone
      BY <2>2, <3>1, <3>3 DEF SweepDone, locks
    <3> QED BY <2>3, <3>2, <3>3
  <2>4. CASE SweepExpiredUnlink \/ SweepWalkIncoming
    <3>1. sweep'.pc \notin SweepBlobSections
      BY <2>1, <2>4 DEF SweepExpiredUnlink, SweepWalkIncoming, Sweeps
    <3> QED BY <2>2, <2>4, <3>1 DEF SweepExpiredUnlink, SweepWalkIncoming, locks
  <2>5. CASE SweepOrphanRow
    <3>1. sweep'.pc \in {"orphan", "orphanUnlink"}
      BY <2>1, <2>5 DEF SweepOrphanRow, Sweeps
    <3> QED BY <2>2, <2>5, <3>1 DEF SweepOrphanRow, locks
  <2>6. CASE SweepExpiredRmdir \/ SweepExpiredDrop \/ SweepOrphanUnlink \/ SweepOrphanRmdir
    <3>1. sweep'.pc \notin SweepBlobSections
      BY <2>1, <2>6 DEF SweepExpiredRmdir, SweepExpiredDrop, SweepOrphanUnlink,
                        SweepOrphanRmdir, SweepGoto, Sweeps
    <3> QED BY <2>2, <2>6, <3>1 DEF SweepExpiredRmdir, SweepExpiredDrop,
               SweepOrphanUnlink, SweepOrphanRmdir, locks
  <2>7. CASE SweepClaim \/ SweepSurvey \/ SweepWalkRetained
    <3>1. sweep'.pc \notin SweepBlobSections
      BY <2>1, <2>7 DEF SweepClaim, SweepSurvey, SweepWalkRetained, Sweeps
    <3> QED BY <2>2, <2>7, <3>1 DEF SweepClaim, SweepSurvey, SweepWalkRetained, locks
  <2>8. CASE SweepVerifyLock \/ SweepStrayLock
    <3>1. BlobsFree /\ blobLock' = Sweeper
      BY <2>8 DEF SweepVerifyLock, SweepStrayLock
    <3> QED BY <2>1, <3>1 DEF BlobsFree
  <2>9. CASE SweepVerifyRow \/ SweepStrayRmdir
    <3>1. sweep.pc \in SweepBlobSections /\ sweep'.pc \in {"verify", "stray"}
      BY <2>1, <2>9 DEF SweepVerifyRow, SweepStrayRmdir, SweepGoto, Sweeps
    <3> QED BY <2>1, <3>1
  <2>10. CASE SweepStrayRow \/ SweepStrayUnlink
    <3>1. /\ sweep.pc \in SweepBlobSections
          /\ sweep'.pc = "stray" \/ blobLock' = blobLock
      BY <2>1, <2>10 DEF SweepStrayRow, SweepStrayUnlink, SweepGoto, Sweeps, locks
    <3> QED BY <2>1, <3>1
  <2> QED BY <1>3, <2>3, <2>4, <2>5, <2>6, <2>7, <2>8, <2>9, <2>10 DEF SweepStep
<1>4. CASE Crash
  BY <1>4 DEF Crash, IdleSweep, SweepBlobSections
<1>5. CASE (\E v \in UploadIds : GrantExpires(v)) \/ UNCHANGED vars
  BY <1>5 DEF GrantExpires, vars, locks
<1> QED BY <1>1, <1>2, <1>3, <1>4, <1>5, NobodyHangsUp DEF Next

-----------------------------------------------------------------------------
(* Uploads in flight *)

\* An in-flight request is the only one on its upload, whose id was issued.
UploadsAlone ==
  \A r \in Requests : job[r].upload \in UploadIds =>
    /\ lease[job[r].upload] # "unissued"
    /\ \A s \in Requests \ {r} : job[s].upload # job[r].upload

LEMMA UploadsAloneStep ==
  ASSUME Orderly, Typed, UploadsAlone, [Next]_vars
  PROVE  UploadsAlone'
<1> SUFFICES ASSUME NEW r \in Requests, job'[r].upload \in UploadIds
             PROVE  /\ lease'[job'[r].upload] # "unissued"
                    /\ \A s \in Requests \ {r} : job'[s].upload # job'[r].upload
  BY DEF UploadsAlone
<1>1. job'[r].upload # None
  BY NamesAssumption
<1>2. CASE job'[r].upload = job[r].upload
  <2>1. lease'[job'[r].upload] # "unissued"
    BY <1>2, LeaseMovesOn DEF UploadsAlone
  <2>2. ASSUME NEW s \in Requests \ {r} PROVE job'[s].upload # job'[r].upload
    <3>1. CASE job'[s].upload \in {job[s].upload, None}
      BY <1>1, <1>2, <3>1 DEF UploadsAlone
    <3>2. CASE \E u \in UploadIds :
                 /\ job'[s].upload = u
                 /\ \/ \A q \in Requests : job[q].upload # u
                    \/ lease[u] = "unissued"
      BY <1>2, <3>2 DEF UploadsAlone
    <3> QED BY <3>1, <3>2, JobStep
  <2> QED BY <2>1, <2>2
<1>3. CASE job'[r].upload # job[r].upload
  <2>1. PICK u \in UploadIds :
          /\ job'[r].upload = u
          /\ \A s \in Requests \ {r} : job'[s] = job[s]
          /\ \/ /\ lease[u] = "running"
                /\ \A s \in Requests : job[s].upload # u
             \/ lease[u] = "unissued" /\ lease'[u] = "running"
    BY <1>1, <1>3, JobStep
  <2>2. lease'[u] # "unissued"
    BY <2>1, LeaseMovesOn
  <2>3. \A s \in Requests : job[s].upload # u
    BY <2>1 DEF UploadsAlone
  <2> QED BY <2>1, <2>2, <2>3
<1> QED BY <1>2, <1>3

\* A commit past its check holds a grant that still runs: its clock waits.
CommitsRunning ==
  \A r \in Requests : pc[r] \in CommitPcs => lease[job[r].upload] = "running"

LEMMA CommitsRunningStep ==
  ASSUME Orderly, Typed, CommitsRunning, [Next]_vars
  PROVE  CommitsRunning'
<1> SUFFICES ASSUME NEW r \in Requests, pc'[r] \in CommitPcs
             PROVE  lease'[job'[r].upload] = "running"
  BY DEF CommitsRunning
<1>1. ASSUME NEW u \in UploadIds, CommitCheck(r, u)
      PROVE  lease'[job'[r].upload] = "running"
  BY <1>1 DEF CommitCheck, Begin, NoJob, store, Typed, TypeOK
<1>2. CASE pc[r] \in CommitPcs /\ job'[r] = job[r]
  <2> DEFINE u == job[r].upload
  <2>1. u \in UploadIds /\ lease[u] = "running"
    BY <1>2, HandlersUpload DEF CommitsRunning
  <2>2. ~GrantExpires(u)
    BY <1>2 DEF GrantExpires, PastCheck, Orderly
  <2>3. \A s \in Requests, k \in Keys : ~PreflightGrant(s, u, k)
    BY <2>1 DEF PreflightGrant
  <2> HIDE DEF u
  <2>4. lease'[u] = lease[u]
    BY <2>1, <2>2, <2>3, LeaseStep
  <2> QED BY <1>2, <2>1, <2>4 DEF u
<1> QED BY <1>1, <1>2, CommitPcStep

\* Before it places its bytes, a commit's row stands and names its snapshot.
BeforePlace == {"arrival", "digest", "awaitBlobs", "awaitStore"}

CommitsGranted ==
  \A r \in Requests : pc[r] \in BeforePlace => uploads[job[r].upload] = job[r].key

\* A commit that is still before its place was there, or has just begun.
LEMMA BeforePlaceStep ==
  ASSUME Typed, [Next]_vars, NEW r \in Requests, pc'[r] \in BeforePlace
  PROVE  \/ \E u \in UploadIds : CommitCheck(r, u)
         \/ pc[r] \in BeforePlace /\ job'[r] = job[r] /\ ~CommitPlace(r)
<1>1. pc'[r] \in CommitPcs
  BY DEF BeforePlace, CommitPcs
<1>2. ASSUME CommitStep(r) PROVE pc[r] \in BeforePlace /\ ~CommitPlace(r)
  BY <1>2 DEF CommitStep, CommitArrival, CommitDigest, Abandon, AbandonRmdir,
     AbandonDrop, CommitLockBlobs, CommitPlace, CommitRefuse, CommitRetain,
     CommitDrop, CommitOutcome, Answer, Goto, BeforePlace, Typed, TypeOK
<1>3. ASSUME CommitPlace(r) PROVE FALSE
  BY <1>2, <1>3 DEF CommitStep
<1> QED BY <1>1, <1>2, <1>3, CommitPcStep

LEMMA CommitsGrantedStep ==
  ASSUME Orderly, Typed, CommitKeysOK, UploadsAlone, CommitsRunning, SweepListsOK,
         CommitsGranted, [Next]_vars
  PROVE  CommitsGranted'
<1> SUFFICES ASSUME NEW r \in Requests, pc'[r] \in BeforePlace
             PROVE  uploads'[job'[r].upload] = job'[r].key
  BY DEF CommitsGranted
<1>1. ASSUME NEW u \in UploadIds, CommitCheck(r, u)
      PROVE  uploads'[job'[r].upload] = job'[r].key
  BY <1>1 DEF CommitCheck, Begin, NoJob, store, Typed, TypeOK
<1>2. CASE pc[r] \in BeforePlace /\ job'[r] = job[r]
  <2> DEFINE u == job[r].upload
  <2>1. pc[r] \in CommitPcs
    BY <1>2 DEF BeforePlace, CommitPcs
  <2>2. /\ u \in UploadIds /\ lease[u] = "running"
        /\ uploads[u] = job[r].key /\ uploads[u] # None
    BY <1>2, <2>1, HandlersUpload, NamesAssumption
    DEF CommitsRunning, CommitsGranted, CommitKeysOK
  <2>3. ~(sweep.pc \in ExpiredPcs /\ u = sweep.upload)
    BY <2>2 DEF SweepListsOK, ExpiredListOK
  <2>4. ASSUME NEW s \in Requests, u = job[s].upload PROVE s = r
    BY <2>2, <2>4 DEF UploadsAlone
  <2>5. /\ ~AbandonDrop(r) /\ ~CommitRefuse(r) /\ ~CommitDrop(r) /\ ~PreflightRow(r)
    BY <1>2 DEF AbandonDrop, CommitRefuse, CommitDrop, PreflightRow, BeforePlace
  <2> HIDE DEF u
  <2>6. uploads'[u] = uploads[u]
    BY <2>2, <2>3, <2>4, <2>5, RowLeft DEF u
  <2> QED BY <1>2, <2>2, <2>6 DEF u
<1> QED BY <1>1, <1>2, BeforePlaceStep

-----------------------------------------------------------------------------
(* Bytes *)

\* A directory at a destination is at no other, is no longer under incoming/
\* and its id was issued, so nothing is going to be put there again.
DestOK ==
  \A k \in Keys : dest[k] # None =>
    /\ dest[k] \notin incoming
    /\ lease[dest[k]] # "unissued"
    /\ \A l \in Keys : dest[l] = dest[k] => l = k

LEMMA DestOKStep ==
  ASSUME Typed, Grants, DestOK, [Next]_vars
  PROVE  DestOK'
<1>1. ASSUME NEW k \in Keys, dest'[k] # None, dest'[k] = dest[k]
      PROVE  dest'[k] \notin incoming' /\ lease'[dest'[k]] # "unissued"
  <2>1. /\ dest[k] \in UploadIds /\ dest[k] \notin incoming
        /\ lease[dest[k]] # "unissued"
    BY <1>1 DEF DestOK, Typed, TypeOK
  <2>2. \A r \in Requests, l \in Keys : ~PreflightGrant(r, dest[k], l)
    BY <2>1 DEF PreflightGrant
  <2> QED BY <1>1, <2>1, <2>2, IncomingStep, LeaseMovesOn
<1>2. CASE \E r \in Requests : CommitPlace(r) /\ dest' # dest
  <2>1. PICK r \in Requests : CommitPlace(r) /\ dest' # dest
    BY <1>2
  <2> DEFINE u == job[r].upload
  <2>2. /\ u \in incoming /\ incoming' = incoming \ {u}
        /\ dest' = [dest EXCEPT ![job[r].key] = u]
    BY <2>1 DEF CommitPlace, PlaceUpload, disk
  <2>3. u \in UploadIds /\ lease[u] # "unissued"
    BY <2>2 DEF Grants, UnissuedIsUnused, Typed, TypeOK
  <2>4. lease'[u] # "unissued"
    BY <2>3, LeaseMovesOn
  <2>5. \A k \in Keys : dest[k] # u
    BY <2>2, <2>3, NamesAssumption DEF DestOK
  <2> QED BY <1>1, <2>2, <2>3, <2>4, <2>5 DEF DestOK, Typed, TypeOK
<1>3. CASE ~\E r \in Requests : CommitPlace(r) /\ dest' # dest
  <2>1. \A k \in Keys : dest'[k] \in {dest[k], None}
    <3> TAKE k \in Keys
    <3>1. ASSUME NEW r \in Requests, CommitPlace(r) PROVE dest'[k] = dest[k]
      BY <1>3, <3>1
    <3> QED BY <3>1, DestStep
  <2> QED BY <1>1, <2>1 DEF DestOK
<1> QED BY <1>2, <1>3

\* What the sweep empties has no live row, and gets none while it holds the
\* lock.
StrayPcs == {"strayUnlink", "strayRmdir"}

StrayOK == /\ sweep.pc \in StrayPcs \cup {"strayRow"} => sweep.key \in Keys
           /\ sweep.pc \in StrayPcs => ~Live(sweep.key)

LEMMA StrayOKStep ==
  ASSUME Typed, BlobLockOK, StrayOK, [Next]_vars
  PROVE  StrayOK'
<1> USE DEF StrayPcs
<1>1. sweep \in Sweeps /\ sweep.keys \subseteq Keys
  BY DEF Typed, TypeOK, Sweeps
<1>2. sweep.pc \in StrayPcs => \A r \in Requests : ~CommitRetain(r)
  BY NamesAssumption DEF BlobLockOK, BlobSections, SweepBlobSections, CommitRetain
<1>3. ASSUME NEW k \in Keys, ~Live(k), \A r \in Requests : ~CommitRetain(r)
      PROVE  ~Live(k)'
  BY <1>3, SnapshotStep DEF Live
<1>4. ASSUME sweep' = sweep PROVE StrayOK'
  BY <1>2, <1>3, <1>4 DEF StrayOK
<1>5. CASE SweepStep
  <2>1. ASSUME sweep'.pc \notin StrayPcs \cup {"strayRow"} PROVE StrayOK'
    BY <2>1 DEF StrayOK
  <2>2. CASE SweepExpired \/ SweepDone
    <3>1. IdleSweep \in Sweeps /\ IdleSweep.pc = "sleep"
      BY DEF IdleSweep, Sweeps, SweepPcs
    <3>2. CASE SweepExpired
      <4>1. sweep'.pc = "expired"
        BY <3>1, <3>2 DEF SweepExpired, Sweeps
      <4> QED BY <2>1, <4>1
    <3>3. CASE SweepDone
      BY <2>1, <3>1, <3>3 DEF SweepDone
    <3> QED BY <2>2, <3>2, <3>3
  <2>3. CASE SweepExpiredUnlink \/ SweepWalkIncoming
    <3>1. sweep'.pc \in {"expiredRmdir", "expiredDrop", "orphan"}
      BY <1>1, <2>3 DEF SweepExpiredUnlink, SweepWalkIncoming, Sweeps
    <3> QED BY <2>1, <3>1
  <2>4. CASE SweepOrphanRow
    <3>1. sweep'.pc \in {"orphan", "orphanUnlink"}
      BY <1>1, <2>4 DEF SweepOrphanRow, Sweeps
    <3> QED BY <2>1, <3>1
  <2>5. CASE SweepExpiredRmdir \/ SweepExpiredDrop \/ SweepOrphanUnlink \/ SweepOrphanRmdir
    <3>1. sweep'.pc \in {"expired", "expiredDrop", "orphan", "orphanRmdir"}
      BY <1>1, <2>5 DEF SweepExpiredRmdir, SweepExpiredDrop, SweepOrphanUnlink,
                        SweepOrphanRmdir, SweepGoto, Sweeps
    <3> QED BY <2>1, <3>1
  <2>6. CASE SweepClaim \/ SweepSurvey \/ SweepWalkRetained
    <3>1. sweep'.pc \in {"verify", "walkRetained", "stray"}
      BY <1>1, <2>6 DEF SweepClaim, SweepSurvey, SweepWalkRetained, Sweeps
    <3> QED BY <2>1, <3>1
  <2>7. CASE SweepVerifyLock
    <3>1. sweep'.pc = "verifyRow"
      BY <1>1, <2>7 DEF SweepVerifyLock, Sweeps
    <3> QED BY <2>1, <3>1
  <2>8. CASE SweepVerifyRow \/ SweepStrayRmdir
    <3>1. sweep'.pc \in {"verify", "stray"}
      BY <1>1, <2>8 DEF SweepVerifyRow, SweepStrayRmdir, SweepGoto, Sweeps
    <3> QED BY <2>1, <3>1
  <2>9. CASE SweepStrayLock
    <3>1. sweep'.pc = "strayRow" /\ sweep'.key \in Keys
      BY <1>1, <2>9 DEF SweepStrayLock, Sweeps
    <3> QED BY <3>1 DEF StrayOK
  <2>10. CASE SweepStrayRow
    <3>1. /\ sweep.pc = "strayRow" /\ sweep'.key = sweep.key
          /\ sweep'.pc = "stray" \/ ~Live(sweep.key)
          /\ snapshots' = snapshots
      BY <1>1, <2>10 DEF SweepStrayRow, SweepGoto, Sweeps, store
    <3> QED BY <2>1, <3>1 DEF StrayOK, Live
  <2>11. CASE SweepStrayUnlink
    <3>1. sweep.pc = "strayUnlink" /\ sweep'.key = sweep.key /\ snapshots' = snapshots
      BY <1>1, <2>11 DEF SweepStrayUnlink, SweepGoto, Sweeps, store
    <3> QED BY <3>1 DEF StrayOK, Live
  <2> QED BY <1>5, <2>2, <2>3, <2>4, <2>5, <2>6, <2>7, <2>8, <2>9, <2>10, <2>11
          DEF SweepStep
<1>6. CASE Crash
  BY <1>6 DEF Crash, IdleSweep, StrayOK
<1>7. ASSUME NEW r \in Requests, Request(r) \/ HandlerStep(r) \/ Disconnect(r)
      PROVE  sweep' = sweep
  BY <1>7, HandlerFrame
<1>8. ASSUME (\E v \in UploadIds : GrantExpires(v)) \/ UNCHANGED vars
      PROVE  sweep' = sweep
  BY <1>8 DEF GrantExpires, vars
<1> QED BY <1>4, <1>5, <1>6, <1>7, <1>8 DEF Next

\* The bytes a commit has verified stay as they are until it renames them.
CommitsVerified ==
  \A r \in Requests : pc[r] \in {"awaitBlobs", "awaitStore"} =>
    job[r].upload \in incoming /\ Verified(job[r].upload)

\* A directory under incoming/ that a commit has seen is out of reach of the
\* sweep, of an erasure and of every other request.
LEMMA OutOfReach ==
  ASSUME Orderly, Typed, CommitKeysOK, UploadsAlone, CommitsRunning, SweepListsOK,
         CommitsGranted, DestOK, StrayOK, [Next]_vars,
         NEW r \in Requests, pc[r] \in {"awaitBlobs", "awaitStore"}, ~CommitPlace(r),
         job[r].upload \in incoming
  PROVE  job[r].upload \in incoming' /\ ~Unlinks(job[r].upload)
<1> DEFINE u == job[r].upload
<1>1. pc[r] \in CommitPcs /\ pc[r] \in BeforePlace
  BY DEF CommitPcs, BeforePlace
<1>2. /\ u \in UploadIds /\ lease[u] = "running"
      /\ uploads[u] = job[r].key /\ uploads[u] # None
  BY <1>1, HandlersUpload, NamesAssumption DEF CommitsRunning, CommitsGranted, CommitKeysOK
<1>3. ASSUME NEW s \in Requests, u = job[s].upload PROVE s = r
  BY <1>2, <1>3 DEF UploadsAlone
<1>4. ~Abandon(r) /\ ~AbandonRmdir(r) /\ ~CommitPlace(r)
  BY DEF Abandon, AbandonRmdir
<1>5. ~(sweep.pc \in ExpiredPcs \cup OrphanPcs /\ u = sweep.upload)
  BY <1>2 DEF SweepListsOK, ExpiredListOK, OrphanListOK
<1>6. u \in incoming'
  <2> HIDE DEF u
  <2> QED BY <1>3, <1>4, <1>5, IncomingLeft DEF u
<1>7. ~(SweepExpiredUnlink /\ u \in sweep.uploads)
  BY <1>2 DEF SweepExpiredUnlink, SweepListsOK, ExpiredListOK
<1>8. ~(SweepOrphanUnlink /\ u = sweep.upload)
  BY <1>5 DEF SweepOrphanUnlink, OrphanPcs
<1>9. \A k \in Keys : dest[k] # u
  BY <1>2, NamesAssumption DEF DestOK
<1>10. \A s \in Requests : job[s].scope \subseteq Keys
  BY DEF Typed, TypeOK, Jobs
<1>11. SweepStrayUnlink => u # dest[sweep.key]
  BY <1>9 DEF SweepStrayUnlink, StrayOK, StrayPcs
<1> HIDE DEF u
<1> QED BY <1>3, <1>4, <1>6, <1>7, <1>8, <1>9, <1>10, <1>11 DEF Unlinks, u

LEMMA CommitsVerifiedStep ==
  ASSUME Orderly, Typed, CommitKeysOK, UploadsAlone, CommitsRunning, SweepListsOK,
         CommitsGranted, DestOK, StrayOK, CommitsVerified, [Next]_vars
  PROVE  CommitsVerified'
<1> SUFFICES ASSUME NEW r \in Requests, pc'[r] \in {"awaitBlobs", "awaitStore"}
             PROVE  job'[r].upload \in incoming' /\ Verified(job[r].upload)'
  BY DEF CommitsVerified
<1>1. /\ pc[r] \in BeforePlace /\ job'[r] = job[r] /\ ~CommitPlace(r)
  <2>1. ~\E u \in UploadIds : CommitCheck(r, u)
    BY DEF CommitCheck, Begin, Typed, TypeOK
  <2> QED BY <2>1, BeforePlaceStep DEF BeforePlace
<1>2. job[r].upload \in UploadIds
  BY <1>1, HandlersUpload DEF BeforePlace, CommitPcs
<1>3. CASE pc[r] \in {"awaitBlobs", "awaitStore"}
  <2>1. job[r].upload \in incoming' /\ ~Unlinks(job[r].upload)
    BY <1>1, <1>3, OutOfReach DEF CommitsVerified
  <2>2. Verified(job[r].upload)
    BY <1>3 DEF CommitsVerified
  <2>3. \A u \in UploadIds : Verified(u) /\ ~Unlinks(u) => Verified(u)'
    BY VerifiedStep
  <2>4. ASSUME NEW u \in UploadIds, u = job[r].upload
        PROVE  Verified(u)'
    BY <2>1, <2>2, <2>3, <2>4
  <2> QED BY <1>1, <1>2, <2>1, <2>4 DEF Verified
<1>4. CASE pc[r] \in {"arrival", "digest"}
  <2>1. CommitStep(r)
    <3>1. ~\E u \in UploadIds : CommitCheck(r, u)
      BY DEF CommitCheck, Begin, Typed, TypeOK
    <3>2. pc'[r] \in CommitPcs /\ pc'[r] # pc[r]
      BY <1>4 DEF CommitPcs
    <3> QED BY <3>1, <3>2, CommitPcStep
  <2>2. CommitDigest(r)
    BY <1>4, <2>1 DEF CommitStep, CommitArrival, Abandon, AbandonRmdir, AbandonDrop,
       CommitLockBlobs, CommitPlace, CommitRefuse, CommitRetain, CommitDrop,
       CommitOutcome, Answer, Goto, Typed, TypeOK
  <2>3. Missing(job[r].upload) = {} /\ Verified(job[r].upload)
    BY <2>2 DEF CommitDigest, Answer, Goto, Typed, TypeOK
  <2>4. job[r].upload \in incoming
    BY <2>3, ChunksAssumption DEF Missing
  <2>5. incoming' = incoming /\ chunks' = chunks
    BY <2>2 DEF CommitDigest, disk
  <2> QED BY <1>1, <2>3, <2>4, <2>5 DEF Verified
<1> QED BY <1>1, <1>3, <1>4 DEF BeforePlace

\* What an erasure empties has no live row.
ErasingOK ==
  \A r \in Requests : pc[r] \in {"unlink", "rmdir"} =>
    \A k \in job[r].scope : ~Live(k)

LEMMA ErasingOKStep ==
  ASSUME Orderly, Typed, BlobLockOK, ErasingOK, [Next]_vars
  PROVE  ErasingOK'
<1> SUFFICES ASSUME NEW r \in Requests, pc'[r] \in {"unlink", "rmdir"},
                    NEW k \in job'[r].scope
             PROVE  ~Live(k)'
  BY DEF ErasingOK
<1>1. CASE EraseDecide(r)
  <2>1. k \in job[r].scope \cap LiveKeys /\ job[r].scope \subseteq Keys
    BY <1>1 DEF EraseDecide, Answer, Goto, Typed, TypeOK, Jobs
  <2>2. snapshots'[k] = "erased"
    BY <1>1, <2>1 DEF EraseDecide
  <2> QED BY <2>2 DEF Live
<1>2. ASSUME pc[r] \in {"unlink", "rmdir"}, job'[r].scope \subseteq job[r].scope
      PROVE  ~Live(k)'
  <2>1. k \in Keys /\ ~Live(k)
    BY <1>2 DEF ErasingOK, Typed, TypeOK, Jobs
  <2>2. \A s \in Requests : ~CommitRetain(s)
    BY <1>2 DEF BlobLockOK, BlobSections, CommitRetain
  <2> QED BY <2>1, <2>2, SnapshotStep DEF Live
<1>3. ASSUME NEW s \in Requests, s # r, Request(s) \/ HandlerStep(s) \/ Disconnect(s)
      PROVE  pc[r] \in {"unlink", "rmdir"} /\ job'[r] = job[r]
  BY <1>3, HandlerFrame
<1>4. ~Request(r)
  <2>1. ASSUME NEW there \in {"grant", "read", "arrival", "decide", "paths"}, NEW j
        PROVE  ~Begin(r, there, j)
    BY DEF Begin, Typed, TypeOK
  <2>2. ASSUME NEW u \in UploadIds, NEW l \in Keys PROVE ~PreflightGrant(r, u, l)
    BY <2>1 DEF PreflightGrant
  <2>3. ASSUME NEW u \in UploadIds, NEW c \in Chunks, NEW b \in Payloads
        PROVE  ~PutCheck(r, u, c, b)
    BY <2>1 DEF PutCheck
  <2>4. ASSUME NEW u \in UploadIds PROVE ~CommitCheck(r, u)
    BY <2>1 DEF CommitCheck
  <2>5. ASSUME NEW scope \in Scopes PROVE ~EraseLockBlobs(r, scope)
    BY <2>1 DEF EraseLockBlobs
  <2>6. ASSUME NEW l \in Keys PROVE ~DownloadRow(r, l)
    BY <2>1 DEF DownloadRow
  <2> QED BY <2>2, <2>3, <2>4, <2>5, <2>6 DEF Request
<1>5. ASSUME HandlerStep(r) PROVE EraseStep(r)
  <2> USE DEF Answer, Goto, Typed, TypeOK
  <2>1. ~PreflightRow(r) /\ ~DownloadStep(r) /\ ~PutStep(r)
    BY DEF PreflightRow, DownloadStep, DownloadPaths, DownloadMark, PutStep,
           PutRead, PutCreate, PutFill
  <2>2. ~CommitStep(r)
    BY DEF CommitStep, CommitArrival, CommitDigest, Abandon, AbandonRmdir,
       AbandonDrop, CommitLockBlobs, CommitPlace, CommitRefuse, CommitRetain,
       CommitDrop, CommitOutcome
  <2> QED BY <1>5, <2>1, <2>2 DEF HandlerStep
<1>6. ASSUME EraseUnlink(r) \/ EraseRmdir(r)
      PROVE  pc[r] \in {"unlink", "rmdir"} /\ job'[r].scope \subseteq job[r].scope
  <2>1. job \in [Requests -> Jobs]
    BY DEF Typed, TypeOK
  <2>2. CASE EraseUnlink(r)
    <3>1. PICK l : job' = [job EXCEPT ![r].key = l]
      BY <2>2 DEF EraseUnlink
    <3>2. job'[r].scope = job[r].scope
      BY <2>1, <3>1 DEF Jobs
    <3> QED BY <2>2, <3>2 DEF EraseUnlink
  <2>3. CASE EraseRmdir(r)
    <3>1. /\ pc[r] = "rmdir"
          /\ job' = [job EXCEPT ![r].scope = job[r].scope \ {job[r].key}, ![r].key = None]
      BY <2>3 DEF EraseRmdir, Answer, Typed, TypeOK
    <3>2. job'[r].scope = job[r].scope \ {job[r].key}
      BY <2>1, <3>1 DEF Jobs
    <3> QED BY <3>1, <3>2
  <2> QED BY <1>6, <2>2, <2>3
<1>7. CASE Crash
  BY <1>7 DEF Crash
<1>8. ASSUME SweepStep \/ (\E v \in UploadIds : GrantExpires(v)) \/ UNCHANGED vars
      PROVE  pc[r] \in {"unlink", "rmdir"} /\ job'[r] = job[r]
  BY <1>8, SweepFrame DEF GrantExpires, vars
<1> QED BY <1>1, <1>2, <1>3, <1>4, <1>5, <1>6, <1>7, <1>8, NobodyHangsUp
        DEF Next, EraseStep

\* A snapshot the operator has promised, or is about to: it has placed the
\* bytes and not yet written the row.
Held(k) == Live(k) \/ \E r \in Requests : pc[r] = "retain" /\ job[r].key = k

HeldHasBytes == \A k \in Keys : Held(k) => Verified(dest[k])

\* The bytes of a held snapshot are out of everyone's reach.
LEMMA HeldKeepsBytes ==
  ASSUME Typed, BlobLockOK, DestOK, StrayOK, ErasingOK, HeldHasBytes, [Next]_vars,
         NEW k \in Keys, Held(k)
  PROVE  dest'[k] = dest[k] /\ Verified(dest[k])'
<1>1. dest[k] \in UploadIds /\ Verified(dest[k])
  BY DEF HeldHasBytes, Verified, Typed, TypeOK
<1>2. dest[k] \notin incoming /\ \A l \in Keys : dest[l] = dest[k] => l = k
  BY <1>1, NamesAssumption DEF DestOK
<1>3. ASSUME NEW r \in Requests, EraseUnlink(r), NEW l \in job[r].scope, dest[k] = dest[l]
      PROVE  FALSE
  <2>1. l \in Keys /\ ~Live(l) /\ blobLock = r /\ pc[r] = "unlink"
    BY <1>3 DEF EraseUnlink, ErasingOK, BlobLockOK, BlobSections, Typed, TypeOK, Jobs
  <2>2. \A s \in Requests : pc[s] # "retain"
    BY <2>1 DEF BlobLockOK, BlobSections
  <2> QED BY <1>2, <1>3, <2>1, <2>2 DEF Held
<1>4. ASSUME SweepStrayUnlink, dest[k] = dest[sweep.key]
      PROVE  FALSE
  <2>1. sweep.key \in Keys /\ ~Live(sweep.key) /\ blobLock = Sweeper
    BY <1>4 DEF SweepStrayUnlink, StrayOK, StrayPcs, BlobLockOK, SweepBlobSections
  <2>2. \A s \in Requests : pc[s] # "retain"
    BY <2>1, NamesAssumption DEF BlobLockOK, BlobSections
  <2> QED BY <1>2, <1>4, <2>1, <2>2 DEF Held
<1>5. ~Unlinks(dest[k])
  BY <1>2, <1>3, <1>4 DEF Unlinks
<1>6. chunks[dest[k]] # EmptyDirectory
  BY <1>1, ChunksAssumption DEF Verified, EmptyDirectory
<1>7. dest'[k] = dest[k]
  BY <1>1, <1>6, DestStep DEF Verified
<1>8. \A u \in UploadIds : Verified(u) /\ ~Unlinks(u) => Verified(u)'
  BY VerifiedStep
<1>9. ASSUME NEW u \in UploadIds, u = dest[k]
      PROVE  Verified(u)'
  BY <1>1, <1>5, <1>8, <1>9
<1> QED BY <1>1, <1>7, <1>9 DEF Verified

\* A snapshot becomes held when a commit places its bytes.
LEMMA HeldStep ==
  ASSUME Typed, CommitKeysOK, [Next]_vars, NEW k \in Keys, Held(k)'
  PROVE  \/ Held(k)
         \/ \E r \in Requests :
              CommitPlace(r) /\ pc'[r] = "retain" /\ job[r].key = k
<1>1. CASE Live(k)'
  <2>1. ASSUME NEW r \in Requests, CommitRetain(r) PROVE Held(k)
    <3>1. pc[r] = "retain" /\ snapshots' = [snapshots EXCEPT ![job[r].key] = "live"]
      BY <2>1 DEF CommitRetain
    <3> QED BY <1>1, <3>1 DEF Held, Live, Typed, TypeOK
  <2>2. ASSUME \A r \in Requests : ~CommitRetain(r) PROVE Live(k)
    BY <1>1, <2>2, SnapshotStep DEF Live
  <2> QED BY <2>1, <2>2 DEF Held
<1>2. ASSUME NEW r \in Requests, pc'[r] = "retain", job'[r].key = k
      PROVE  \/ pc[r] = "retain" /\ job[r].key = k
             \/ CommitPlace(r) /\ job[r].key = k
  <2>1. ~\E u \in UploadIds : CommitCheck(r, u)
    BY <1>2 DEF CommitCheck, Begin, Typed, TypeOK
  <2>2. job'[r] = job[r] /\ (pc[r] = "retain" \/ CommitStep(r))
    BY <1>2, <2>1, CommitPcStep DEF CommitPcs
  <2>3. ASSUME CommitStep(r) PROVE CommitPlace(r)
    BY <1>2, <2>3 DEF CommitStep, CommitArrival, CommitDigest, Abandon, AbandonRmdir,
       AbandonDrop, CommitLockBlobs, CommitRefuse, CommitRetain, CommitDrop,
       CommitOutcome, Answer, Goto, Typed, TypeOK
  <2> QED BY <1>2, <2>2, <2>3
<1> QED BY <1>1, <1>2 DEF Held

LEMMA HeldHasBytesStep ==
  ASSUME Orderly, Typed, CommitKeysOK, BlobLockOK, DestOK, StrayOK, ErasingOK,
         CommitsVerified, HeldHasBytes, [Next]_vars
  PROVE  HeldHasBytes'
<1> SUFFICES ASSUME NEW k \in Keys, Held(k)'
             PROVE  Verified(dest[k])'
  BY DEF HeldHasBytes
<1>1. CASE Held(k)
  BY <1>1, HeldKeepsBytes DEF Verified
<1>2. ASSUME NEW r \in Requests, CommitPlace(r), pc'[r] = "retain", job[r].key = k
      PROVE  Verified(dest[k])'
  <2> DEFINE u == job[r].upload
  <2>1. u \in incoming /\ Verified(u) /\ PlaceUpload(u, k)
    BY <1>2 DEF CommitsVerified, CommitPlace, Answer, Goto, Typed, TypeOK
  <2>2. CASE dest[k] # None
    <3>1. /\ Verified(dest[k]) /\ dest' = dest
          /\ chunks' = [chunks EXCEPT ![u] = EmptyDirectory]
      BY <2>1, <2>2 DEF PlaceUpload, DiscardUpload
    <3>2. dest[k] # u
      BY <2>1, <2>2 DEF DestOK
    <3>3. chunks'[dest[k]] = chunks[dest[k]]
      BY <2>2, <3>1, <3>2 DEF Typed, TypeOK
    <3> QED BY <3>1, <3>3 DEF Verified
  <2>3. CASE dest[k] = None
    <3>1. dest' = [dest EXCEPT ![k] = u] /\ chunks' = chunks
      BY <2>1, <2>3 DEF PlaceUpload
    <3>2. dest'[k] = u
      BY <3>1 DEF Typed, TypeOK
    <3> QED BY <2>1, <3>1, <3>2 DEF Verified
  <2> QED BY <2>2, <2>3
<1> QED BY <1>1, <1>2, HeldStep

-----------------------------------------------------------------------------
(* The theorem *)

\* The inductive invariant, beside Safe.
Promise == /\ BlobLockOK
           /\ UploadsAlone
           /\ CommitsRunning
           /\ CommitsGranted
           /\ DestOK
           /\ StrayOK
           /\ ErasingOK
           /\ CommitsVerified
           /\ HeldHasBytes

LEMMA PromiseInit == Init => Promise
<1> SUFFICES ASSUME Init PROVE Promise
  OBVIOUS
<1>1. BlobLockOK
  BY DEF Init, IdleSweep, BlobLockOK, BlobSections, SweepBlobSections
<1>2. UploadsAlone
  BY NamesAssumption DEF Init, NoJob, UploadsAlone
<1>3. CommitsRunning /\ CommitsGranted /\ ErasingOK /\ CommitsVerified
  BY DEF Init, CommitsRunning, CommitPcs, CommitsGranted, BeforePlace, ErasingOK,
         CommitsVerified
<1>4. DestOK /\ StrayOK /\ HeldHasBytes
  BY DEF Init, IdleSweep, DestOK, StrayOK, StrayPcs, HeldHasBytes, Held, Live
<1> QED BY <1>1, <1>2, <1>3, <1>4 DEF Promise

LEMMA PromiseStep ==
  ASSUME Orderly
  PROVE  Safe /\ Promise /\ [Next]_vars => Promise'
<1> SUFFICES ASSUME Safe, Promise, [Next]_vars PROVE Promise'
  OBVIOUS
<1>1. Typed /\ Grants /\ CommitKeysOK /\ SweepListsOK
  BY DEF Safe, Retentions
<1>2. BlobLockOK' /\ UploadsAlone' /\ CommitsRunning' /\ DestOK' /\ StrayOK' /\ ErasingOK'
  BY <1>1, BlobLockStep, UploadsAloneStep, CommitsRunningStep, DestOKStep, StrayOKStep,
     ErasingOKStep DEF Promise
<1>3. CommitsGranted' /\ CommitsVerified' /\ HeldHasBytes'
  BY <1>1, CommitsGrantedStep, CommitsVerifiedStep, HeldHasBytesStep DEF Promise
<1> QED BY <1>2, <1>3 DEF Promise

\* Whenever a row says "retained" its destination holds every chunk and they
\* hash to the digest: commit, erase, the sweep and any number of crashes
\* keep it so while the environment is orderly.
THEOREM RetainedIsThere ==
  ASSUME Orderly
  PROVE  Spec => []RetainedHasBytes
<1>1. Safe /\ Promise /\ [Next]_vars => Promise'
  BY PromiseStep
<1>2. Promise => RetainedHasBytes
  BY DEF Promise, HeldHasBytes, Held, RetainedHasBytes
<1> QED BY <1>1, <1>2, PromiseInit, AlwaysSafe, PTL DEF Spec

-----------------------------------------------------------------------------
(* The end of a retention *)

\* Nobody downloads or exports.
NoDownloads == \A r \in Requests : pc[r] \notin {"paths", "mark"}

LEMMA NoDownloadsStep ==
  ASSUME "download" \notin Ops, Typed, NoDownloads, [Next]_vars
  PROVE  NoDownloads'
<1> USE DEF NoDownloads, Typed, TypeOK
<1>1. ASSUME NEW r \in Requests, NEW there \in RequestPcs \ {"paths", "mark"},
             pc' = [pc EXCEPT ![r] = there]
      PROVE  NoDownloads'
  BY <1>1
<1>2. ASSUME NEW r \in Requests, Answer(r) PROVE NoDownloads'
  BY <1>2 DEF Answer
<1>3. ASSUME NEW r \in Requests, Request(r) PROVE NoDownloads'
  <2>1. ASSUME NEW there \in {"grant", "read", "arrival", "decide"}, NEW j,
               Begin(r, there, j)
        PROVE  NoDownloads'
    BY <2>1 DEF Begin
  <2>2. ASSUME NEW u \in UploadIds, NEW k \in Keys, PreflightGrant(r, u, k)
        PROVE  NoDownloads'
    BY <2>1, <2>2 DEF PreflightGrant
  <2>3. ASSUME NEW u \in UploadIds, NEW c \in Chunks, NEW b \in Payloads,
               PutCheck(r, u, c, b)
        PROVE  NoDownloads'
    BY <2>1, <2>3 DEF PutCheck
  <2>4. ASSUME NEW u \in UploadIds, CommitCheck(r, u) PROVE NoDownloads'
    BY <2>1, <2>4 DEF CommitCheck
  <2>5. ASSUME NEW scope \in Scopes, EraseLockBlobs(r, scope) PROVE NoDownloads'
    BY <2>1, <2>5 DEF EraseLockBlobs
  <2>6. ASSUME NEW k \in Keys PROVE ~DownloadRow(r, k)
    BY DEF DownloadRow
  <2> QED BY <1>3, <2>2, <2>3, <2>4, <2>5, <2>6 DEF Request
<1>4. ASSUME NEW r \in Requests, HandlerStep(r) PROVE NoDownloads'
  <2>1. CASE PreflightRow(r) \/ PutStep(r)
    BY <1>2, <2>1 DEF PreflightRow, PutStep, PutRead, PutCreate, PutFill, Goto, Answer
  <2>2. CASE CommitStep(r)
    BY <2>2 DEF CommitStep, CommitArrival, CommitDigest, Abandon, AbandonRmdir,
       AbandonDrop, CommitLockBlobs, CommitPlace, CommitRefuse, CommitRetain,
       CommitDrop, CommitOutcome, Answer, Goto
  <2>3. CASE EraseStep(r)
    BY <2>3 DEF EraseStep, EraseDecide, EraseUnlink, EraseRmdir, Answer, Goto
  <2>4. ~DownloadStep(r)
    BY DEF DownloadStep, DownloadPaths, DownloadMark
  <2> QED BY <1>4, <2>1, <2>2, <2>3, <2>4 DEF HandlerStep
<1>5. ASSUME NEW r \in Requests, Disconnect(r) PROVE NoDownloads'
  BY <1>5 DEF Disconnect, Answer
<1>6. CASE SweepStep \/ (\E v \in UploadIds : GrantExpires(v)) \/ UNCHANGED vars
  BY <1>6, SweepFrame DEF GrantExpires, vars
<1>7. CASE Crash
  BY <1>7 DEF Crash
<1> QED BY <1>3, <1>4, <1>5, <1>6, <1>7 DEF Next

\* Without downloads and exports only an erasure ends a retention, or bytes
\* that are not there at that moment: overlapping requests, late commits,
\* hang-ups and crashes included.
THEOREM RetentionEndsRightly ==
  ASSUME "download" \notin Ops
  PROVE  Spec => RetentionKept
<1>1. Init => NoDownloads
  BY DEF Init, NoDownloads
<1>2. Typed /\ NoDownloads /\ [Next]_vars => NoDownloads'
  BY NoDownloadsStep
<1>3. Typed /\ NoDownloads /\ [Next]_vars =>
        [\A k \in Keys : Live(k) /\ ~Live(k)' =>
           snapshots[k]' = "erased" \/ ~Whole(dest[k])]_vars
  <2> SUFFICES ASSUME Typed, NoDownloads, [Next]_vars,
                      NEW k \in Keys, Live(k), ~Live(k)'
               PROVE  snapshots'[k] = "erased" \/ ~Whole(dest[k])
    OBVIOUS
  <2> USE DEF Live, Typed, TypeOK
  <2>1. snapshots'[k] # snapshots[k]
    OBVIOUS
  <2>2. ASSUME NEW r \in Requests PROVE ~DownloadMark(r)
    BY DEF NoDownloads, DownloadMark
  <2>3. ASSUME NEW r \in Requests, CommitRetain(r) PROVE FALSE
    BY <2>1, <2>3 DEF CommitRetain
  <2>4. ASSUME NEW r \in Requests, EraseDecide(r) PROVE snapshots'[k] = "erased"
    BY <2>1, <2>4 DEF EraseDecide
  <2>5. CASE SweepVerifyRow
    BY <2>1, <2>5 DEF SweepVerifyRow, MarkUnavailable
  <2> QED BY <2>1, <2>2, <2>3, <2>4, <2>5, SnapshotWriters
<1> QED BY <1>1, <1>2, <1>3, TypeInit, TypeStep, PTL DEF Spec, RetentionKept
=============================================================================
