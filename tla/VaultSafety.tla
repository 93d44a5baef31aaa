----------------------------- MODULE VaultSafety -----------------------------
(***************************************************************************)
(* The safety properties of Vault that hold whatever clients do: grants,   *)
(* the quota, what the sweep may take, the answer "retained", and the      *)
(* order in which the two locks are taken.                                 *)
(*                                                                         *)
(* The argument: the store lock is held across every step of a critical    *)
(* section, so what one of them has read of the rows is still so when it   *)
(* writes. The parts of the invariant say what each section has read.      *)
(***************************************************************************)
EXTENDS VaultProofs, FiniteSetTheorems

-----------------------------------------------------------------------------
(* The store lock *)

\* Between the steps of a critical section of the store.
StoreSections == {"grant", "retain", "drop", "outcome", "refuse"}

StoreLockOK == \A r \in Requests : pc[r] \in StoreSections => storeLock = r

\* With the store free nobody is in a section, and two never are.
LEMMA StoreExclusion ==
  ASSUME StoreLockOK
  PROVE  /\ StoreFree => \A r \in Requests : pc[r] \notin StoreSections
         /\ \A r, s \in Requests :
              pc[r] \in StoreSections /\ pc[s] \in StoreSections => r = s
  BY NamesAssumption DEF StoreLockOK, StoreFree

\* A handler moves only itself, and leaves the sweep alone.
LEMMA HandlerFrame ==
  ASSUME Typed, NEW r \in Requests, Request(r) \/ HandlerStep(r) \/ Disconnect(r)
  PROVE  /\ sweep' = sweep
         /\ \A s \in Requests \ {r} : pc'[s] = pc[s] /\ job'[s] = job[s]
<1> USE DEF Typed, TypeOK
<1>1. CASE Request(r)
  <2>1. ASSUME NEW there, NEW j, Begin(r, there, j)
        PROVE  \A s \in Requests \ {r} : pc'[s] = pc[s] /\ job'[s] = job[s]
    BY <2>1 DEF Begin
  <2>2. CASE \/ \E u \in UploadIds, k \in Keys : PreflightGrant(r, u, k)
             \/ \E u \in UploadIds, c \in Chunks, b \in Payloads : PutCheck(r, u, c, b)
    BY <2>1, <2>2 DEF PreflightGrant, PutCheck
  <2>3. CASE \/ \E u \in UploadIds : CommitCheck(r, u)
             \/ \E scope \in Scopes : EraseLockBlobs(r, scope)
             \/ \E k \in Keys : DownloadRow(r, k)
    BY <2>1, <2>3 DEF CommitCheck, EraseLockBlobs, DownloadRow
  <2> QED BY <1>1, <2>2, <2>3 DEF Request
<1>2. CASE PreflightRow(r) \/ DownloadStep(r)
  BY <1>2 DEF PreflightRow, DownloadStep, DownloadPaths, DownloadMark, Answer, Goto
<1>3. CASE PutStep(r)
  BY <1>3 DEF PutStep, PutRead, PutCreate, PutFill, Answer, Goto
<1>4. CASE CommitStep(r)
  BY <1>4 DEF CommitStep, CommitArrival, CommitDigest, Abandon, AbandonRmdir,
              AbandonDrop, CommitLockBlobs, CommitPlace, CommitRefuse, CommitRetain,
              CommitDrop, CommitOutcome, Answer, Goto
<1>5. CASE EraseStep(r)
  BY <1>5 DEF EraseStep, EraseDecide, EraseUnlink, EraseRmdir, Answer, Goto
<1>6. CASE Disconnect(r)
  BY <1>6 DEF Disconnect, Answer
<1> QED BY <1>1, <1>2, <1>3, <1>4, <1>5, <1>6 DEF HandlerStep

\* The sweep moves no handler, holds the store lock across none of its steps
\* and adds nothing to the rows or to incoming/.
LEMMA SweepFrame ==
  ASSUME Typed, SweepStep
  PROVE  /\ UNCHANGED <<pc, job, storeLock, lease, outcomes>>
         /\ incoming' \subseteq incoming
         /\ \A u \in UploadIds : uploads'[u] \in {uploads[u], None}
<1> USE DEF store, disk, locks
<1>1. CASE SweepExpiredDrop
  <2>1. \A u \in UploadIds : uploads'[u] \in {uploads[u], None}
    BY <1>1 DEF SweepExpiredDrop, DropUpload, Typed, TypeOK
  <2> QED BY <1>1, <2>1 DEF SweepExpiredDrop
<1>2. CASE SweepExpired \/ SweepExpiredUnlink \/ SweepExpiredRmdir
             \/ SweepWalkIncoming \/ SweepOrphanRow \/ SweepOrphanUnlink \/ SweepOrphanRmdir
  BY <1>2 DEF SweepExpired, SweepExpiredUnlink, SweepExpiredRmdir, SweepWalkIncoming,
              SweepOrphanRow, SweepOrphanUnlink, SweepOrphanRmdir
<1>3. CASE SweepClaim \/ SweepVerifyLock \/ SweepVerifyRow
  BY <1>3 DEF SweepClaim, SweepVerifyLock, SweepVerifyRow
<1>4. CASE SweepSurvey \/ SweepWalkRetained \/ SweepStrayLock \/ SweepStrayRow
             \/ SweepStrayUnlink \/ SweepStrayRmdir \/ SweepDone
  BY <1>4 DEF SweepSurvey, SweepWalkRetained, SweepStrayLock, SweepStrayRow,
              SweepStrayUnlink, SweepStrayRmdir, SweepDone
<1> QED BY <1>1, <1>2, <1>3, <1>4 DEF SweepStep

LEMMA StoreLockStep ==
  ASSUME Typed, StoreLockOK, [Next]_vars
  PROVE  StoreLockOK'
<1> USE DEF StoreLockOK, StoreSections
<1>1. ASSUME NEW r \in Requests, Request(r) PROVE StoreLockOK'
  <2>1. CASE \E u \in UploadIds, k \in Keys : PreflightGrant(r, u, k)
    BY <2>1, NamesAssumption DEF Typed, TypeOK, PreflightGrant, Begin, StoreFree
  <2>2. CASE \/ \E u \in UploadIds, c \in Chunks, b \in Payloads : PutCheck(r, u, c, b)
             \/ \E u \in UploadIds : CommitCheck(r, u)
             \/ \E scope \in Scopes : EraseLockBlobs(r, scope)
             \/ \E k \in Keys : DownloadRow(r, k)
    BY <2>2 DEF Typed, TypeOK, PutCheck, CommitCheck, EraseLockBlobs, DownloadRow,
                Begin, locks
  <2> QED BY <1>1, <2>1, <2>2 DEF Request
<1>2. ASSUME NEW r \in Requests, HandlerStep(r) PROVE StoreLockOK'
  <2>1. CASE PreflightRow(r) \/ DownloadStep(r)
    BY <2>1, NamesAssumption
    DEF Typed, TypeOK, PreflightRow, DownloadStep, DownloadPaths, DownloadMark,
        Answer, Goto, locks
  <2>2. CASE PutStep(r)
    BY <2>2 DEF Typed, TypeOK, PutStep, PutRead, PutCreate, PutFill, Answer, Goto, locks
  <2>3. CASE CommitArrival(r) \/ CommitDigest(r) \/ Abandon(r) \/ AbandonRmdir(r)
               \/ AbandonDrop(r) \/ CommitLockBlobs(r)
    BY <2>3 DEF Typed, TypeOK, CommitArrival, CommitDigest, Abandon, AbandonRmdir,
                AbandonDrop, CommitLockBlobs, Answer, Goto, locks
  <2>4. CASE CommitPlace(r)
    BY <2>4, NamesAssumption DEF Typed, TypeOK, CommitPlace, Answer, Goto, StoreFree
  <2>5. CASE CommitRetain(r) \/ CommitDrop(r)
    BY <2>5 DEF Typed, TypeOK, CommitRetain, CommitDrop, Goto, locks
  <2>6. CASE CommitRefuse(r) \/ CommitOutcome(r)
    BY <2>6 DEF Typed, TypeOK, CommitRefuse, CommitOutcome, Answer
  <2>7. CASE EraseStep(r)
    BY <2>7 DEF Typed, TypeOK, EraseStep, EraseDecide, EraseUnlink, EraseRmdir,
                Answer, Goto, locks
  <2> QED BY <1>2, <2>1, <2>2, <2>3, <2>4, <2>5, <2>6, <2>7 DEF HandlerStep, CommitStep
<1>3. ASSUME NEW r \in Requests, Disconnect(r) PROVE StoreLockOK'
  BY <1>3 DEF Disconnect, Answer, Typed, TypeOK
<1>4. CASE SweepStep
  BY <1>4, SweepFrame
<1>5. ASSUME NEW u \in UploadIds, GrantExpires(u) PROVE StoreLockOK'
  BY <1>5 DEF GrantExpires, locks
<1>6. CASE Crash
  BY <1>6 DEF Crash
<1>7. CASE UNCHANGED vars
  BY <1>7 DEF vars, locks
<1> QED BY <1>1, <1>2, <1>3, <1>4, <1>5, <1>6, <1>7 DEF Next
-----------------------------------------------------------------------------
(* The order of the locks *)

\* The steps before which a handler, or the sweep, took the blob lock.
BlobSections == {"awaitStore", "retain", "drop", "outcome", "refuse",
                 "decide", "unlink", "rmdir"}
SweepBlobSections == {"verifyRow", "strayRow", "strayUnlink", "strayRmdir"}

\* A lock is held only by one that is on its way to let it go: the holder of
\* the store lock waits for nothing, the holder of the blob lock for the store
\* at most, and nobody leaves a section, by any answer, with a lock in hand
\* (AppState.blob_mutations is taken before AppState.store and never after it:
\* uploads.rs, erasures.rs, sweep.rs). So there is no cycle to wait in.
LocksInOrder ==
  /\ storeLock # None => pc[storeLock] \in StoreSections
  /\ blobLock \in Requests => pc[blobLock] \in BlobSections
  /\ blobLock = Sweeper => sweep.pc \in SweepBlobSections

\* A request that has begun has taken the locks of the section it begins in.
LEMMA RequestLocks ==
  ASSUME Typed, LocksInOrder, NEW r \in Requests, Request(r)
  PROVE  LocksInOrder'
<1> USE NamesAssumption DEF Typed, TypeOK, LocksInOrder, StoreSections, BlobSections
<1>1. ASSUME NEW u \in UploadIds, NEW k \in Keys, PreflightGrant(r, u, k)
      PROVE  LocksInOrder'
  BY <1>1 DEF PreflightGrant, Begin
<1>2. ASSUME NEW scope \in Scopes, EraseLockBlobs(r, scope)
      PROVE  LocksInOrder'
  BY <1>2 DEF EraseLockBlobs, Begin
<1>3. ASSUME NEW there, NEW j, Begin(r, there, j), UNCHANGED <<locks, sweep>>
      PROVE  LocksInOrder'
  BY <1>3 DEF Begin, locks
<1>4. CASE \/ \E u \in UploadIds, c \in Chunks, b \in Payloads : PutCheck(r, u, c, b)
           \/ \E u \in UploadIds : CommitCheck(r, u)
           \/ \E k \in Keys : DownloadRow(r, k)
  BY <1>3, <1>4 DEF PutCheck, CommitCheck, DownloadRow
<1> QED BY <1>1, <1>2, <1>4 DEF Request

\* A handler that moves on keeps a lock into the next step of its section, and
\* lets it go with its answer.
LEMMA HandlerLocks ==
  ASSUME Typed, LocksInOrder, NEW r \in Requests, HandlerStep(r)
  PROVE  LocksInOrder'
<1> USE NamesAssumption DEF Typed, TypeOK, LocksInOrder, StoreSections, BlobSections
<1>1. sweep' = sweep /\ \A s \in Requests \ {r} : pc'[s] = pc[s]
  BY HandlerFrame
<1>2. CASE PreflightRow(r) \/ DownloadStep(r) \/ PutStep(r)
  BY <1>1, <1>2 DEF PreflightRow, DownloadStep, DownloadPaths, DownloadMark, PutStep,
                    PutRead, PutCreate, PutFill, Answer, Goto, locks
<1>3. CASE CommitArrival(r) \/ CommitDigest(r) \/ Abandon(r) \/ AbandonRmdir(r)
             \/ AbandonDrop(r)
  BY <1>1, <1>3 DEF CommitArrival, CommitDigest, Abandon, AbandonRmdir, AbandonDrop,
                    Answer, Goto, locks
<1>4. CASE CommitLockBlobs(r)
  BY <1>1, <1>4 DEF CommitLockBlobs, Goto
<1>5. CASE CommitPlace(r)
  BY <1>1, <1>5 DEF CommitPlace, StoreFree, Answer, Goto
<1>6. CASE CommitRetain(r) \/ CommitDrop(r)
  BY <1>1, <1>6 DEF CommitRetain, CommitDrop, Goto, locks
<1>7. CASE CommitRefuse(r) \/ CommitOutcome(r)
  BY <1>7, <1>1 DEF CommitRefuse, CommitOutcome
<1>8. CASE EraseDecide(r)
  BY <1>1, <1>8 DEF EraseDecide, StoreFree, Answer, Goto
<1>9. CASE EraseUnlink(r)
  BY <1>1, <1>9 DEF EraseUnlink, Goto, locks
<1>10. CASE EraseRmdir(r)
  BY <1>1, <1>10 DEF EraseRmdir, Answer, Goto
<1> QED BY <1>2, <1>3, <1>4, <1>5, <1>6, <1>7, <1>8, <1>9, <1>10
        DEF HandlerStep, CommitStep, EraseStep

\* The sweep takes the blob lock for one destination, and lets it go there.
LEMMA SweepLocks ==
  ASSUME Typed, LocksInOrder, SweepStep
  PROVE  LocksInOrder'
<1> USE NamesAssumption DEF LocksInOrder, SweepBlobSections
<1>1. sweep \in Sweeps /\ UNCHANGED <<pc, storeLock>>
  BY SweepFrame DEF Typed, TypeOK
<1>2. ASSUME UNCHANGED blobLock, sweep.pc \notin SweepBlobSections
      PROVE  LocksInOrder'
  BY <1>1, <1>2
<1>3. ASSUME blobLock' = None PROVE LocksInOrder'
  BY <1>1, <1>3 DEF Typed, TypeOK
<1>4. CASE SweepExpired \/ SweepExpiredUnlink \/ SweepExpiredRmdir \/ SweepExpiredDrop
  BY <1>2, <1>4 DEF SweepExpired, SweepExpiredUnlink, SweepExpiredRmdir,
                    SweepExpiredDrop, locks
<1>5. CASE SweepWalkIncoming \/ SweepOrphanRow \/ SweepOrphanUnlink \/ SweepOrphanRmdir
  BY <1>2, <1>5 DEF SweepWalkIncoming, SweepOrphanRow, SweepOrphanUnlink,
                    SweepOrphanRmdir, locks
<1>6. CASE SweepClaim \/ SweepSurvey \/ SweepWalkRetained \/ SweepDone
  BY <1>2, <1>6 DEF SweepClaim, SweepSurvey, SweepWalkRetained, SweepDone, locks
<1>7. CASE SweepVerifyLock \/ SweepStrayLock
  <2>1. blobLock' = Sweeper /\ sweep'.pc \in {"verifyRow", "strayRow"}
    BY <1>1, <1>7 DEF SweepVerifyLock, SweepStrayLock, Sweeps
  <2> QED BY <1>1, <2>1
<1>8. CASE SweepVerifyRow \/ SweepStrayRmdir
  BY <1>3, <1>8 DEF SweepVerifyRow, SweepStrayRmdir
<1>9. CASE SweepStrayRow
  <2>1. blobLock' = None \/ (sweep'.pc = "strayUnlink" /\ blobLock' = blobLock)
    BY <1>1, <1>9 DEF SweepStrayRow, SweepGoto, Sweeps
  <2> QED BY <1>1, <1>3, <2>1
<1>10. CASE SweepStrayUnlink
  <2>1. sweep'.pc = "strayRmdir" /\ blobLock' = blobLock
    BY <1>1, <1>10 DEF SweepStrayUnlink, SweepGoto, Sweeps, locks
  <2> QED BY <1>1, <2>1
<1> QED BY <1>4, <1>5, <1>6, <1>7, <1>8, <1>9, <1>10 DEF SweepStep

LEMMA LocksStep ==
  ASSUME Typed, LocksInOrder, [Next]_vars
  PROVE  LocksInOrder'
<1> USE DEF LocksInOrder
<1>1. ASSUME NEW r \in Requests, Disconnect(r) PROVE LocksInOrder'
  BY <1>1, NamesAssumption
  DEF Disconnect, Answer, Typed, TypeOK, StoreSections, BlobSections
<1>2. CASE Crash
  BY <1>2, NamesAssumption DEF Crash
<1>3. CASE (\E u \in UploadIds : GrantExpires(u)) \/ UNCHANGED vars
  BY <1>3 DEF GrantExpires, vars, locks
<1> QED BY <1>1, <1>2, <1>3, RequestLocks, HandlerLocks, SweepLocks DEF Next

-----------------------------------------------------------------------------
(* What a step does to the rows of uploads, to the leases and to incoming/ *)

\* A row appears only when preflight writes it.
LEMMA RowStep ==
  ASSUME Typed, [Next]_vars, NEW u \in UploadIds
  PROVE  \/ uploads'[u] \in {uploads[u], None}
         \/ \E r \in Requests : PreflightRow(r) /\ u = job[r].upload
<1> USE DEF Typed, TypeOK
<1>1. ASSUME NEW v, DropUpload(v) PROVE uploads'[u] \in {uploads[u], None}
  BY <1>1 DEF DropUpload
<1>2. ASSUME NEW r \in Requests, Request(r)
      PROVE  uploads' = uploads
  BY <1>2 DEF Request, PreflightGrant, PutCheck, CommitCheck, EraseLockBlobs,
              DownloadRow, store
<1>3. ASSUME NEW r \in Requests, PreflightRow(r), u # job[r].upload
      PROVE  uploads'[u] = uploads[u]
  BY <1>3 DEF PreflightRow
<1>4. ASSUME NEW r \in Requests, DownloadStep(r) \/ PutStep(r) \/ EraseStep(r)
      PROVE  uploads' = uploads
  BY <1>4 DEF DownloadStep, DownloadPaths, DownloadMark, PutStep, PutRead, PutCreate,
              PutFill, EraseStep, EraseDecide, EraseUnlink, EraseRmdir, store
<1>5. ASSUME NEW r \in Requests, CommitStep(r)
      PROVE  uploads' = uploads \/ DropUpload(job[r].upload)
  BY <1>5 DEF CommitStep, CommitArrival, CommitDigest, Abandon, AbandonRmdir,
              AbandonDrop, CommitLockBlobs, CommitPlace, CommitRefuse, CommitRetain,
              CommitDrop, CommitOutcome, store
<1>6. ASSUME NEW r \in Requests, Disconnect(r) PROVE uploads' = uploads
  BY <1>6 DEF Disconnect, store
<1>7. ASSUME (\E v \in UploadIds : GrantExpires(v)) \/ Crash \/ UNCHANGED vars
      PROVE  uploads' = uploads
  BY <1>7 DEF GrantExpires, Crash, vars, store
<1> QED BY <1>1, <1>2, <1>3, <1>4, <1>5, <1>6, <1>7, SweepFrame DEF Next, HandlerStep

\* A lease starts once and runs out once.
LEMMA LeaseStep ==
  ASSUME Typed, [Next]_vars, NEW u \in UploadIds
  PROVE  \/ lease'[u] = lease[u]
         \/ GrantExpires(u) /\ lease[u] = "running" /\ lease'[u] = "expired"
         \/ \E r \in Requests, k \in Keys : PreflightGrant(r, u, k)
<1> USE DEF Typed, TypeOK
<1>1. ASSUME NEW r \in Requests, Request(r)
      PROVE  lease'[u] = lease[u] \/ \E k \in Keys : PreflightGrant(r, u, k)
  BY <1>1 DEF Request, PreflightGrant, PutCheck, CommitCheck, EraseLockBlobs,
              DownloadRow, store
<1>2. ASSUME NEW r \in Requests, PreflightRow(r) \/ DownloadStep(r) \/ PutStep(r) \/ EraseStep(r)
      PROVE  lease' = lease
  BY <1>2 DEF PreflightRow, DownloadStep, DownloadPaths, DownloadMark, PutStep,
              PutRead, PutCreate, PutFill, EraseStep, EraseDecide, EraseUnlink,
              EraseRmdir, store
<1>3. ASSUME NEW r \in Requests, CommitStep(r) PROVE lease' = lease
  BY <1>3 DEF CommitStep, CommitArrival, CommitDigest, Abandon, AbandonRmdir,
              AbandonDrop, CommitLockBlobs, CommitPlace, CommitRefuse, CommitRetain,
              CommitDrop, CommitOutcome, store
<1>4. ASSUME NEW r \in Requests, Disconnect(r) PROVE lease' = lease
  BY <1>4 DEF Disconnect, store
<1>5. ASSUME NEW v \in UploadIds, GrantExpires(v)
      PROVE  \/ lease'[u] = lease[u]
             \/ GrantExpires(u) /\ lease[u] = "running" /\ lease'[u] = "expired"
  BY <1>5 DEF GrantExpires
<1>6. ASSUME Crash \/ UNCHANGED vars PROVE lease' = lease
  BY <1>6 DEF Crash, vars, store
<1> QED BY <1>1, <1>2, <1>3, <1>4, <1>5, <1>6, SweepFrame DEF Next, HandlerStep

\* A directory appears under incoming/ only when preflight makes it.
LEMMA IncomingStep ==
  ASSUME Typed, [Next]_vars, NEW u \in incoming' \ incoming
  PROVE  \E r \in Requests, k \in Keys : PreflightGrant(r, u, k)
<1>1. ASSUME NEW r \in Requests, Request(r)
      PROVE  \E k \in Keys : PreflightGrant(r, u, k)
  BY <1>1 DEF Request, PreflightGrant, PutCheck, CommitCheck, EraseLockBlobs,
              DownloadRow, disk
<1>2. ASSUME NEW r \in Requests, PreflightRow(r) \/ DownloadStep(r) \/ PutStep(r) \/ EraseStep(r)
      PROVE  FALSE
  BY <1>2 DEF PreflightRow, DownloadStep, DownloadPaths, DownloadMark, PutStep,
              PutRead, PutCreate, PutFill, EraseStep, EraseDecide, EraseUnlink,
              EraseRmdir, disk
<1>3. ASSUME NEW r \in Requests, CommitStep(r) PROVE FALSE
  BY <1>3 DEF CommitStep, CommitArrival, CommitDigest, Abandon, AbandonRmdir,
              AbandonDrop, CommitLockBlobs, CommitPlace, PlaceUpload, DiscardUpload,
              CommitRefuse, CommitRetain, CommitDrop, CommitOutcome, disk
<1>4. ASSUME NEW r \in Requests, Disconnect(r) PROVE FALSE
  BY <1>4 DEF Disconnect, disk
<1>5. ASSUME (\E v \in UploadIds : GrantExpires(v)) \/ Crash \/ UNCHANGED vars
      PROVE  FALSE
  BY <1>5 DEF GrantExpires, Crash, vars, disk
<1> QED BY <1>1, <1>2, <1>3, <1>4, <1>5, SweepFrame DEF Next, HandlerStep

\* A preflight between its directory and its row got there by making it.
LEMMA GrantPcStep ==
  ASSUME Typed, [Next]_vars, NEW r \in Requests, pc'[r] = "grant"
  PROVE  \/ pc[r] = "grant" /\ job'[r] = job[r] /\ ~PreflightRow(r)
         \/ \E u \in UploadIds, k \in Keys : PreflightGrant(r, u, k)
<1> USE DEF Typed, TypeOK
<1>0. ~PreflightRow(r)
  BY DEF PreflightRow, Answer
<1>1. ASSUME NEW s \in Requests, s # r, Request(s) \/ HandlerStep(s) \/ Disconnect(s)
      PROVE  pc[r] = "grant" /\ job'[r] = job[r]
  BY <1>1, HandlerFrame
<1>2. CASE Request(r)
  BY <1>2 DEF Request, PutCheck, CommitCheck, EraseLockBlobs, DownloadRow, Begin
<1>3. CASE PreflightRow(r) \/ DownloadStep(r) \/ PutStep(r) \/ EraseStep(r)
  BY <1>3 DEF PreflightRow, DownloadStep, DownloadPaths, DownloadMark, PutStep,
              PutRead, PutCreate, PutFill, EraseStep, EraseDecide, EraseUnlink,
              EraseRmdir, Answer, Goto
<1>4. CASE CommitStep(r)
  BY <1>4 DEF CommitStep, CommitArrival, CommitDigest, Abandon, AbandonRmdir,
              AbandonDrop, CommitLockBlobs, CommitPlace, CommitRefuse, CommitRetain,
              CommitDrop, CommitOutcome, Answer, Goto
<1>5. CASE Disconnect(r)
  BY <1>5 DEF Disconnect, Answer
<1>6. CASE (\E v \in UploadIds : GrantExpires(v)) \/ UNCHANGED vars
  BY <1>0, <1>6 DEF GrantExpires, vars
<1>7. CASE Crash
  BY <1>7 DEF Crash
<1> QED BY <1>0, <1>1, <1>2, <1>3, <1>4, <1>5, <1>6, <1>7, SweepFrame
        DEF Next, HandlerStep
-----------------------------------------------------------------------------
(* Grants *)

\* The grants a reference has open.
LEMMA OpenGrantIs ==
  ASSUME NEW k \in Keys
  PROVE  OpenGrantFor(k) = {u \in UploadIds : uploads[u] = k /\ lease[u] = "running"}
  BY NamesAssumption DEF OpenGrantFor, OpenGrants, Granted

\* An upload id that was never issued has left no trace, and preflight, with
\* the lock, still stands by what it found: no row, and no open grant.
UnissuedIsUnused ==
  \A u \in UploadIds : lease[u] = "unissued" => uploads[u] = None /\ u \notin incoming

GrantStandsAlone ==
  \A r \in Requests : pc[r] = "grant" =>
    /\ job[r].key \in Keys
    /\ uploads[job[r].upload] = None
    /\ lease[job[r].upload] # "unissued"
    /\ \A u \in UploadIds : ~(uploads[u] = job[r].key /\ lease[u] = "running")

Grants == UnissuedIsUnused /\ GrantStandsAlone /\ OneOpenGrant

LEMMA GrantMade ==
  ASSUME Typed, StoreLockOK, Grants,
         NEW r \in Requests, NEW u \in UploadIds, NEW k \in Keys, PreflightGrant(r, u, k)
  PROVE  Grants'
<1> USE DEF Typed, TypeOK, Grants
<1>1. /\ lease[u] = "unissued" /\ lease' = [lease EXCEPT ![u] = "running"]
      /\ uploads' = uploads /\ uploads[u] = None
      /\ incoming' = incoming \cup {u}
  BY DEF PreflightGrant, UnissuedIsUnused
<1>2. UnissuedIsUnused'
  BY <1>1 DEF UnissuedIsUnused
<1>3. GrantStandsAlone'
  <2>1. /\ pc' = [pc EXCEPT ![r] = "grant"]
        /\ job' = [job EXCEPT ![r] = [NoJob EXCEPT !.upload = u, !.key = k]]
        /\ \A s \in Requests : pc[s] # "grant"
    BY StoreExclusion DEF PreflightGrant, Begin, StoreSections
  <2>2. job'[r].upload = u /\ job'[r].key = k
    BY <2>1 DEF NoJob
  <2>3. \A v \in UploadIds : ~(uploads[v] = k /\ lease[v] = "running")
    BY OpenGrantIs DEF PreflightGrant, GrantsAllowed
  <2>4. \A v \in UploadIds : ~(uploads'[v] = k /\ lease'[v] = "running")
    BY <1>1, <2>3, NamesAssumption
  <2> QED BY <1>1, <2>1, <2>2, <2>4 DEF GrantStandsAlone
<1>4. OneOpenGrant'
  BY <1>1 DEF OneOpenGrant, Granted
<1> QED BY <1>2, <1>3, <1>4

LEMMA GrantWritten ==
  ASSUME Typed, StoreLockOK, Grants, NEW r \in Requests, PreflightRow(r)
  PROVE  Grants'
<1> USE DEF Typed, TypeOK, Grants
<1>1. /\ pc[r] = "grant" /\ uploads' = [uploads EXCEPT ![job[r].upload] = job[r].key]
      /\ lease' = lease /\ incoming' = incoming
      /\ \A s \in Requests : pc'[s] # "grant"
  BY StoreExclusion DEF PreflightRow, Answer, StoreSections, disk
<1>2. job[r].upload \in UploadIds
  BY <1>1, HandlersUpload
<1>3. UnissuedIsUnused' /\ GrantStandsAlone'
  BY <1>1, <1>2 DEF UnissuedIsUnused, GrantStandsAlone
<1>4. OneOpenGrant'
  BY <1>1, <1>2 DEF OneOpenGrant, GrantStandsAlone, Granted
<1> QED BY <1>3, <1>4

LEMMA GrantsStep ==
  ASSUME Typed, StoreLockOK, Grants, [Next]_vars
  PROVE  Grants'
<1>1. CASE \E r \in Requests, u \in UploadIds, k \in Keys : PreflightGrant(r, u, k)
  BY <1>1, GrantMade
<1>2. CASE \E r \in Requests : PreflightRow(r)
  BY <1>2, GrantWritten
<1>3. CASE /\ ~\E r \in Requests, u \in UploadIds, k \in Keys : PreflightGrant(r, u, k)
           /\ ~\E r \in Requests : PreflightRow(r)
  <2>1. \A u \in UploadIds : /\ uploads'[u] \in {uploads[u], None}
                             /\ \/ lease'[u] = lease[u]
                                \/ lease[u] = "running" /\ lease'[u] = "expired"
    BY <1>3, RowStep, LeaseStep
  <2>2. incoming' \subseteq incoming
    <3> SUFFICES ASSUME NEW u \in incoming' \ incoming PROVE FALSE
      OBVIOUS
    <3>1. u \in UploadIds
      BY TypeStep DEF Typed, TypeOK
    <3> QED BY <1>3, <3>1, IncomingStep
  <2>3. ASSUME NEW r \in Requests, pc'[r] = "grant"
        PROVE  pc[r] = "grant" /\ job'[r] = job[r]
    <3>1. ~\E u \in UploadIds, k \in Keys : PreflightGrant(r, u, k)
      BY <1>3
    <3> QED BY <2>3, <3>1, GrantPcStep
  <2>4. UnissuedIsUnused'
    BY <2>1, <2>2 DEF Grants, UnissuedIsUnused
  <2>5. GrantStandsAlone'
    <3> SUFFICES ASSUME NEW r \in Requests, pc'[r] = "grant"
                 PROVE  /\ job'[r].key \in Keys
                        /\ uploads'[job'[r].upload] = None
                        /\ lease'[job'[r].upload] # "unissued"
                        /\ \A u \in UploadIds :
                             ~(uploads'[u] = job'[r].key /\ lease'[u] = "running")
      BY DEF GrantStandsAlone
    <3>1. pc[r] = "grant" /\ job'[r] = job[r]
      BY <2>3
    <3>2. job[r].upload \in UploadIds
      BY <3>1, HandlersUpload
    <3> QED BY <2>1, <3>1, <3>2, NamesAssumption DEF Grants, GrantStandsAlone
  <2>6. OneOpenGrant'
    BY <2>1, NamesAssumption DEF Grants, OneOpenGrant, Granted
  <2> QED BY <2>4, <2>5, <2>6 DEF Grants
<1> QED BY <1>1, <1>2, <1>3

-----------------------------------------------------------------------------
(* Retention *)

\* A commit keeps its upload and its snapshot from its check to its answer.
LEMMA CommitPcStep ==
  ASSUME Typed, [Next]_vars, NEW r \in Requests, pc'[r] \in CommitPcs
  PROVE  \/ \E u \in UploadIds : CommitCheck(r, u)
         \/ /\ pc[r] \in CommitPcs /\ job'[r] = job[r]
            /\ pc'[r] = pc[r] \/ CommitStep(r)
<1> USE DEF Typed, TypeOK
<1>1. ASSUME NEW s \in Requests, s # r, Request(s) \/ HandlerStep(s) \/ Disconnect(s)
      PROVE  pc[r] = pc'[r] /\ job'[r] = job[r]
  BY <1>1, HandlerFrame
<1>2. ASSUME Request(r) PROVE \E u \in UploadIds : CommitCheck(r, u)
  <2>1. pc'[r] \notin {"grant", "read", "decide", "paths"}
    BY DEF CommitPcs
  <2>2. ASSUME NEW there \in {"grant", "read", "decide", "paths"}, NEW j
        PROVE  ~Begin(r, there, j)
    BY <2>1 DEF Begin
  <2>3. ASSUME NEW u \in UploadIds, NEW k \in Keys PROVE ~PreflightGrant(r, u, k)
    BY <2>2 DEF PreflightGrant
  <2>4. ASSUME NEW u \in UploadIds, NEW c \in Chunks, NEW b \in Payloads
        PROVE  ~PutCheck(r, u, c, b)
    BY <2>2 DEF PutCheck
  <2>5. ASSUME NEW scope \in Scopes PROVE ~EraseLockBlobs(r, scope)
    BY <2>2 DEF EraseLockBlobs
  <2>6. ASSUME NEW k \in Keys PROVE ~DownloadRow(r, k)
    BY <2>2 DEF DownloadRow
  <2> QED BY <1>2, <2>3, <2>4, <2>5, <2>6 DEF Request
<1>3. CASE PreflightRow(r) \/ DownloadStep(r) \/ PutStep(r) \/ EraseStep(r)
  BY <1>3 DEF PreflightRow, DownloadStep, DownloadPaths, DownloadMark, PutStep,
              PutRead, PutCreate, PutFill, EraseStep, EraseDecide, EraseUnlink,
              EraseRmdir, Answer, Goto, CommitPcs
<1>4. CASE CommitStep(r)
  BY <1>4 DEF CommitStep, CommitArrival, CommitDigest, Abandon, AbandonRmdir,
              AbandonDrop, CommitLockBlobs, CommitPlace, CommitRefuse, CommitRetain,
              CommitDrop, CommitOutcome, Answer, Goto, CommitPcs
<1>5. CASE Disconnect(r)
  BY <1>5 DEF Disconnect, Answer, CommitPcs
<1>6. CASE (\E v \in UploadIds : GrantExpires(v)) \/ UNCHANGED vars
  BY <1>6 DEF GrantExpires, vars
<1>7. CASE Crash
  BY <1>7 DEF Crash, CommitPcs
<1> QED BY <1>1, <1>2, <1>3, <1>4, <1>5, <1>6, <1>7, SweepFrame DEF Next, HandlerStep

\* Who writes snapshots: a commit, an erasure, a download that found bytes
\* missing and step (3) of the sweep.
LEMMA SnapshotWriters ==
  ASSUME Typed, [Next]_vars
  PROVE  \/ snapshots' = snapshots
         \/ \E r \in Requests : CommitRetain(r) \/ EraseDecide(r) \/ DownloadMark(r)
         \/ SweepVerifyRow
<1>1. ASSUME NEW r \in Requests, Request(r) PROVE snapshots' = snapshots
  BY <1>1 DEF Request, PreflightGrant, PutCheck, CommitCheck, EraseLockBlobs,
              DownloadRow, store
<1>2. ASSUME NEW r \in Requests,
             PreflightRow(r) \/ PutStep(r) \/ DownloadPaths(r) \/ EraseUnlink(r) \/ EraseRmdir(r)
      PROVE  snapshots' = snapshots
  BY <1>2 DEF PreflightRow, PutStep, PutRead, PutCreate, PutFill, DownloadPaths,
              EraseUnlink, EraseRmdir, store
<1>3. ASSUME NEW r \in Requests, CommitStep(r), ~CommitRetain(r)
      PROVE  snapshots' = snapshots
  BY <1>3 DEF CommitStep, CommitArrival, CommitDigest, Abandon, AbandonRmdir,
              AbandonDrop, CommitLockBlobs, CommitPlace, CommitRefuse,
              CommitDrop, CommitOutcome, store
<1>4. ASSUME NEW r \in Requests, Disconnect(r) PROVE snapshots' = snapshots
  BY <1>4 DEF Disconnect, store
<1>5. ASSUME SweepStep, ~SweepVerifyRow PROVE snapshots' = snapshots
  BY <1>5 DEF SweepStep, SweepExpired, SweepExpiredUnlink, SweepExpiredRmdir,
      SweepExpiredDrop, SweepWalkIncoming, SweepOrphanRow, SweepOrphanUnlink,
      SweepOrphanRmdir, SweepClaim, SweepVerifyLock, SweepSurvey, SweepWalkRetained,
      SweepStrayLock, SweepStrayRow, SweepStrayUnlink, SweepStrayRmdir, SweepDone, store
<1>6. ASSUME (\E v \in UploadIds : GrantExpires(v)) \/ Crash \/ UNCHANGED vars
      PROVE  snapshots' = snapshots
  BY <1>6 DEF GrantExpires, Crash, vars, store
<1> QED BY <1>1, <1>2, <1>3, <1>4, <1>5, <1>6
        DEF Next, HandlerStep, EraseStep, DownloadStep

\* A commit makes a row live; every other change of a row waits for the
\* store to be free and makes none live.
LEMMA SnapshotStep ==
  ASSUME Typed, [Next]_vars
  PROVE  \/ \E r \in Requests : CommitRetain(r)
         \/ snapshots' = snapshots
         \/ /\ StoreFree
            /\ \A k \in Keys : snapshots'[k] \in {snapshots[k], "erased", "unavailable"}
<1> USE DEF Typed, TypeOK
<1>1. ASSUME NEW k, MarkUnavailable(k)
      PROVE  \A l \in Keys : snapshots'[l] \in {snapshots[l], "erased", "unavailable"}
  BY <1>1 DEF MarkUnavailable
<1>2. ASSUME NEW r \in Requests, EraseDecide(r)
      PROVE  /\ StoreFree
             /\ \A k \in Keys : snapshots'[k] \in {snapshots[k], "erased", "unavailable"}
  BY <1>2 DEF EraseDecide
<1>3. ASSUME NEW r \in Requests, DownloadMark(r)
      PROVE  StoreFree /\ MarkUnavailable(job[r].key)
  BY <1>3 DEF DownloadMark
<1>4. ASSUME SweepVerifyRow
      PROVE  StoreFree /\ (MarkUnavailable(sweep.key) \/ snapshots' = snapshots)
  BY <1>4 DEF SweepVerifyRow
<1> QED BY <1>1, <1>2, <1>3, <1>4, SnapshotWriters

\* A row that stops being live takes nothing from a quota, one that starts
\* takes one.
LEMMA UsageMonotone ==
  ASSUME NEW h, \A k \in Keys : Live(k)' => Live(k)
  PROVE  Usage(h)' <= Usage(h) /\ Usage(h) \in Nat /\ Usage(h)' \in Nat
<1> DEFINE S == {k \in LiveKeys : k[1] = h}
<1>1. S \subseteq Keys /\ S' \subseteq S
  BY DEF LiveKeys
<1>2. IsFiniteSet(S)
  BY <1>1, FiniteAssumption, FS_Subset
<1>3. IsFiniteSet(S') /\ Cardinality(S') <= Cardinality(S)
  BY <1>1, <1>2, FS_Subset
<1> QED BY <1>2, <1>3, FS_CardinalityType DEF Usage

LEMMA UsageGrows ==
  ASSUME NEW h, NEW l \in Keys, \A k \in Keys \ {l} : Live(k)' => Live(k)
  PROVE  /\ Usage(h)' <= Usage(h) + 1 /\ Usage(h) \in Nat /\ Usage(h)' \in Nat
         /\ l[1] # h => Usage(h)' <= Usage(h)
<1> DEFINE S == {k \in LiveKeys : k[1] = h}
<1>1. S \subseteq Keys /\ S' \subseteq S \cup {l}
  BY DEF LiveKeys
<1>2. IsFiniteSet(S) /\ IsFiniteSet(S \cup {l})
  BY <1>1, FiniteAssumption, FS_Subset, FS_AddElement
<1>3. Cardinality(S \cup {l}) <= Cardinality(S) + 1 /\ Cardinality(S) \in Nat
  BY <1>2, FS_AddElement, FS_CardinalityType
<1>4. IsFiniteSet(S') /\ Cardinality(S') \in Nat /\ Cardinality(S') <= Cardinality(S \cup {l})
  BY <1>1, <1>2, FS_Subset, FS_CardinalityType
<1>5. l[1] # h => S' \subseteq S
  BY <1>1
<1>6. l[1] # h => Cardinality(S') <= Cardinality(S)
  BY <1>2, <1>5, FS_Subset
<1>7. Cardinality(S \cup {l}) \in Nat
  BY <1>2, FS_CardinalityType
<1> HIDE DEF S
<1>8. Cardinality(S') <= Cardinality(S) + 1
  BY <1>3, <1>4, <1>7
<1> QED BY <1>3, <1>4, <1>6, <1>8 DEF S, Usage

\* What a commit knows: its snapshot, and once it is about to write the row,
\* that there is room for it.
CommitKeysOK == \A r \in Requests : pc[r] \in CommitPcs => job[r].key \in Keys

RoomToRetain ==
  \A r \in Requests : pc[r] = "retain" =>
    Live(job[r].key) \/ Usage(job[r].key[1]) < MaxRetained

Retentions == CommitKeysOK /\ RoomToRetain /\ RetainedIsTrueWhenSaid /\ QuotaHeld

LEMMA CommitKeysStep ==
  ASSUME Typed, CommitKeysOK, [Next]_vars
  PROVE  CommitKeysOK'
<1> SUFFICES ASSUME NEW r \in Requests, pc'[r] \in CommitPcs
             PROVE  job'[r].key \in Keys
  BY DEF CommitKeysOK
<1>1. ASSUME NEW u \in UploadIds, CommitCheck(r, u)
      PROVE  job'[r].key \in Keys
  <2>1. uploads[u] \in Keys
    BY <1>1 DEF CommitCheck, Granted, Typed, TypeOK
  <2>2. job'[r] = [NoJob EXCEPT !.upload = u, !.key = uploads[u]]
    BY <1>1 DEF CommitCheck, Begin, Typed, TypeOK
  <2> QED BY <2>1, <2>2 DEF NoJob
<1> QED BY <1>1, CommitPcStep DEF CommitKeysOK

\* The quota check and the lock it is made under.
LEMMA RetentionPlaced ==
  ASSUME Typed, StoreLockOK, Retentions, NEW r \in Requests, CommitPlace(r)
  PROVE  RoomToRetain' /\ RetainedIsTrueWhenSaid' /\ QuotaHeld'
<1> USE DEF Typed, TypeOK
<1>1. snapshots' = snapshots /\ pc[r] = "awaitStore"
  BY DEF CommitPlace, store
<1>2. \A s \in Requests : pc[s] \notin StoreSections
  BY StoreExclusion DEF CommitPlace
<1>3. \A s \in Requests \ {r} : pc'[s] \notin StoreSections
  BY <1>2, HandlerFrame DEF HandlerStep, CommitStep
<1>4. pc'[r] \notin {"drop", "outcome"}
  BY DEF CommitPlace, Answer, Goto
<1>5. pc'[r] = "retain" => ~OverQuota(job[r].key) /\ job'[r] = job[r]
  BY DEF CommitPlace, Answer, Goto
<1>6. /\ \A k : Live(k)' <=> Live(k)
      /\ \A h : Usage(h)' = Usage(h)
  BY <1>1 DEF Live, Usage, LiveKeys
<1>7. job[r].key \in Keys
  BY <1>1 DEF Retentions, CommitKeysOK, CommitPcs
<1>8. Usage(job[r].key[1]) \in Nat
  BY UsageGrows, <1>6, <1>7
<1>9. RoomToRetain'
  BY <1>3, <1>5, <1>6, <1>8, QuotaAssumption DEF RoomToRetain, OverQuota, StoreSections
<1>10. RetainedIsTrueWhenSaid'
  BY <1>3, <1>4 DEF RetainedIsTrueWhenSaid, StoreSections
<1>11. QuotaHeld'
  BY <1>6 DEF Retentions, QuotaHeld
<1> QED BY <1>9, <1>10, <1>11

\* The row is written: it is live, and the room there was for it is taken.
LEMMA RetentionMade ==
  ASSUME Typed, StoreLockOK, Retentions, NEW r \in Requests, CommitRetain(r)
  PROVE  RoomToRetain' /\ RetainedIsTrueWhenSaid' /\ QuotaHeld'
<1> USE DEF Typed, TypeOK
<1> DEFINE k == job[r].key
<1>1. /\ pc[r] = "retain" /\ k \in Keys
      /\ snapshots' = [snapshots EXCEPT ![k] = "live"]
      /\ pc' = [pc EXCEPT ![r] = "drop"] /\ job' = job
  BY DEF CommitRetain, Goto, Retentions, CommitKeysOK, CommitPcs
<1>2. \A s \in Requests \ {r} : pc[s] \notin StoreSections
  BY <1>1, StoreExclusion DEF StoreSections
<1>3. RoomToRetain'
  BY <1>1, <1>2 DEF RoomToRetain, StoreSections
<1>4. RetainedIsTrueWhenSaid'
  BY <1>1, <1>2 DEF RetainedIsTrueWhenSaid, StoreSections, Live
<1>5. Live(k) \/ Usage(k[1]) < MaxRetained
  BY <1>1 DEF Retentions, RoomToRetain
<1>6. QuotaHeld'
  <2> SUFFICES ASSUME NEW h \in Holders PROVE Usage(h)' <= MaxRetained
    BY DEF QuotaHeld
  <2>1. Usage(h) <= MaxRetained
    BY DEF Retentions, QuotaHeld
  <2>2. \A l \in Keys \ {k} : Live(l)' => Live(l)
    BY <1>1 DEF Live
  <2>3. /\ Usage(h)' <= Usage(h) + 1 /\ Usage(h) \in Nat /\ Usage(h)' \in Nat
        /\ k[1] # h => Usage(h)' <= Usage(h)
    BY <1>1, <2>2, UsageGrows
  <2>4. CASE Live(k)
    <3>1. \A l \in Keys : Live(l)' => Live(l)
      BY <1>1, <2>2, <2>4
    <3>2. Usage(h)' <= Usage(h)
      BY <3>1, UsageMonotone
    <3> QED BY <2>1, <2>3, <3>2, QuotaAssumption
  <2>5. CASE ~Live(k) /\ k[1] # h
    BY <2>1, <2>3, <2>5, QuotaAssumption
  <2>6. CASE ~Live(k) /\ k[1] = h
    <3>1. Usage(h) < MaxRetained
      BY <1>5, <2>6
    <3> QED BY <2>3, <3>1, QuotaAssumption
  <2> QED BY <2>4, <2>5, <2>6
<1> QED BY <1>3, <1>4, <1>6

\* Any other step: who is in a section stays where he was, and the rows stay
\* with him.
LEMMA RetentionKeptOtherwise ==
  ASSUME Typed, StoreLockOK, Retentions, [Next]_vars,
         \A r \in Requests : ~CommitPlace(r) /\ ~CommitRetain(r)
  PROVE  RoomToRetain' /\ RetainedIsTrueWhenSaid' /\ QuotaHeld'
<1>1. ASSUME NEW r \in Requests
      PROVE  /\ pc'[r] = "retain" => pc[r] = "retain" /\ job'[r] = job[r]
             /\ pc'[r] \in {"drop", "outcome"} =>
                  pc[r] \in {"drop", "outcome"} /\ job'[r] = job[r]
  <2>1. ASSUME NEW u \in UploadIds, CommitCheck(r, u) PROVE pc'[r] = "arrival"
    BY <2>1 DEF CommitCheck, Begin, Typed, TypeOK
  <2>2. ASSUME CommitStep(r), pc'[r] \in {"retain", "drop", "outcome"}
        PROVE  pc[r] = "drop" /\ pc'[r] = "outcome"
    BY <2>2 DEF CommitStep, CommitArrival, CommitDigest, Abandon, AbandonRmdir,
                AbandonDrop, CommitLockBlobs, CommitRefuse, CommitDrop, CommitOutcome,
                Answer, Goto, Typed, TypeOK
  <2> QED BY <2>1, <2>2, CommitPcStep DEF CommitPcs
<1>2. \A k \in Keys : Live(k)' => Live(k)
  BY SnapshotStep DEF Live
<1>3. QuotaHeld'
  <2> SUFFICES ASSUME NEW h \in Holders PROVE Usage(h)' <= MaxRetained
    BY DEF QuotaHeld
  <2>1. Usage(h)' <= Usage(h) /\ Usage(h) \in Nat /\ Usage(h)' \in Nat
    BY <1>2, UsageMonotone
  <2>2. Usage(h) <= MaxRetained
    BY DEF Retentions, QuotaHeld
  <2> QED BY <2>1, <2>2, QuotaAssumption
<1>4. CASE \E r \in Requests : pc[r] \in {"retain", "drop", "outcome"}
  <2>1. ~StoreFree
    BY <1>4, StoreExclusion DEF StoreSections
  <2>2. snapshots' = snapshots
    BY <2>1, SnapshotStep
  <2>3. /\ \A k : Live(k)' <=> Live(k)
        /\ \A h : Usage(h)' = Usage(h)
    BY <2>2 DEF Live, Usage, LiveKeys
  <2>4. RoomToRetain' /\ RetainedIsTrueWhenSaid'
    BY <1>1, <2>3 DEF Retentions, RoomToRetain, RetainedIsTrueWhenSaid
  <2> QED BY <1>3, <2>4
<1>5. CASE \A r \in Requests : pc[r] \notin {"retain", "drop", "outcome"}
  <2>1. \A r \in Requests : pc'[r] \notin {"retain", "drop", "outcome"}
    BY <1>1, <1>5
  <2> QED BY <1>3, <2>1 DEF RoomToRetain, RetainedIsTrueWhenSaid
<1> QED BY <1>4, <1>5

LEMMA RetentionsStep ==
  ASSUME Typed, StoreLockOK, Retentions, [Next]_vars
  PROVE  Retentions'
BY CommitKeysStep, RetentionPlaced, RetentionMade, RetentionKeptOtherwise
   DEF Retentions

-----------------------------------------------------------------------------
(* What the sweep takes from incoming/ *)

ExpiredPcs == {"expiredRmdir", "expiredDrop"}
OrphanPcs == {"orphanUnlink", "orphanRmdir"}

\* The work lists: grants that ran out, and directories that were issued. An
\* orphan has no row and no preflight on the way to writing one: its id was
\* used, so nothing will bring a row back.
ExpiredListOK ==
  /\ sweep.pc \in ExpiredPcs \cup {"expired"} =>
       \A u \in sweep.uploads : lease[u] = "expired"
  /\ sweep.pc \in ExpiredPcs =>
       sweep.upload \in UploadIds /\ lease[sweep.upload] = "expired"

OrphanListOK ==
  /\ sweep.pc \in OrphanPcs \cup {"orphan"} =>
       \A u \in sweep.uploads : lease[u] # "unissued"
  /\ sweep.pc \in OrphanPcs =>
       /\ sweep.upload \in UploadIds /\ lease[sweep.upload] # "unissued"
       /\ uploads[sweep.upload] = None
       /\ \A r \in Requests : pc[r] = "grant" => job[r].upload # sweep.upload

SweepListsOK == ExpiredListOK /\ OrphanListOK

\* Leases only move on.
LEMMA LeaseMovesOn ==
  ASSUME Typed, [Next]_vars, NEW u \in UploadIds
  PROVE  /\ lease[u] = "expired" => lease'[u] = "expired"
         /\ lease[u] # "unissued" => lease'[u] # "unissued"
  BY LeaseStep DEF PreflightGrant

LEMMA SweepListsUndisturbed ==
  ASSUME Typed, SweepListsOK, [Next]_vars, sweep' = sweep, ~SweepStep, ~Crash
  PROVE  SweepListsOK'
<1>1. sweep.uploads \subseteq UploadIds
  BY DEF Typed, TypeOK, Sweeps
<1>2. ExpiredListOK'
  BY <1>1, LeaseMovesOn DEF SweepListsOK, ExpiredListOK
<1>3. ASSUME NEW u \in UploadIds, uploads[u] = None, lease[u] # "unissued",
             \A r \in Requests : pc[r] = "grant" => job[r].upload # u
      PROVE  /\ uploads'[u] = None
             /\ \A r \in Requests : pc'[r] = "grant" => job'[r].upload # u
  <2>1. uploads'[u] = None
    BY <1>3, RowStep DEF PreflightRow
  <2>2. ASSUME NEW r \in Requests, pc'[r] = "grant" PROVE job'[r].upload # u
    <3>1. ASSUME NEW v \in UploadIds, NEW k \in Keys, PreflightGrant(r, v, k)
          PROVE  job'[r].upload # u
      <4>1. lease[v] = "unissued" /\ job'[r] = [NoJob EXCEPT !.upload = v, !.key = k]
        BY <3>1 DEF PreflightGrant, Begin, Typed, TypeOK
      <4> QED BY <1>3, <4>1 DEF NoJob
    <3> QED BY <1>3, <2>2, <3>1, GrantPcStep
  <2> QED BY <2>1, <2>2
<1>4. OrphanListOK'
  BY <1>1, <1>3, LeaseMovesOn DEF SweepListsOK, OrphanListOK
<1> QED BY <1>2, <1>4 DEF SweepListsOK

LEMMA SweepListsMoved ==
  ASSUME Typed, StoreLockOK, Grants, SweepListsOK, SweepStep
  PROVE  SweepListsOK'
<1> USE DEF SweepListsOK, ExpiredListOK, OrphanListOK, ExpiredPcs, OrphanPcs
<1>1. sweep \in Sweeps /\ incoming \subseteq UploadIds /\ sweep.uploads \subseteq UploadIds
  BY DEF Typed, TypeOK, Sweeps
<1>2. /\ UNCHANGED <<pc, job, lease>>
      /\ \A u \in UploadIds : uploads[u] = None => uploads'[u] = None
  BY SweepFrame
<1>3. CASE SweepExpired
  BY <1>2, <1>3 DEF SweepExpired, IdleSweep
<1>4. CASE SweepExpiredUnlink
  <2>1. PICK u \in sweep.uploads : \E there \in ExpiredPcs :
          sweep' = [sweep EXCEPT !.pc = there, !.upload = u, !.uploads = @ \ {u}]
    BY <1>4 DEF SweepExpiredUnlink
  <2>2. sweep'.pc \in ExpiredPcs /\ sweep'.upload = u /\ sweep'.uploads \subseteq sweep.uploads
    BY <1>1, <2>1 DEF Sweeps
  <2>3. sweep.pc = "expired"
    BY <1>4 DEF SweepExpiredUnlink
  <2> QED BY <1>1, <1>2, <2>2, <2>3
<1>5. CASE SweepExpiredRmdir \/ SweepExpiredDrop
  <2>1. /\ sweep.pc \in ExpiredPcs
        /\ sweep'.pc \in {"expired", "expiredDrop"}
        /\ sweep'.uploads = sweep.uploads /\ sweep'.upload = sweep.upload
    BY <1>1, <1>5 DEF SweepExpiredRmdir, SweepExpiredDrop, SweepGoto, Sweeps
  <2> QED BY <1>2, <2>1
<1>6. CASE SweepWalkIncoming
  <2>1. sweep'.pc = "orphan" /\ sweep'.uploads = incoming
    BY <1>1, <1>6 DEF SweepWalkIncoming, Sweeps
  <2>2. \A u \in incoming : lease[u] # "unissued"
    BY <1>1 DEF Grants, UnissuedIsUnused
  <2> QED BY <1>2, <2>1, <2>2
<1>7. CASE SweepOrphanRow
  <2>1. PICK u \in sweep.uploads :
          sweep' = [sweep EXCEPT !.uploads = @ \ {u}, !.upload = u,
                      !.pc = IF Granted(u) THEN "orphan" ELSE "orphanUnlink"]
    BY <1>7 DEF SweepOrphanRow
  <2>2. /\ sweep'.uploads \subseteq sweep.uploads /\ sweep'.upload = u
        /\ sweep'.pc = IF Granted(u) THEN "orphan" ELSE "orphanUnlink"
    BY <1>1, <2>1 DEF Sweeps
  <2>3. \A r \in Requests : pc[r] # "grant"
    BY <1>7, StoreExclusion DEF SweepOrphanRow, StoreSections
  <2>4. sweep.pc = "orphan"
    BY <1>7 DEF SweepOrphanRow
  <2> QED BY <1>1, <1>2, <2>2, <2>3, <2>4 DEF Granted
<1>8. CASE SweepOrphanUnlink \/ SweepOrphanRmdir
  <2>1. /\ sweep.pc \in OrphanPcs
        /\ sweep'.pc \in {"orphan", "orphanRmdir"}
        /\ sweep'.uploads = sweep.uploads /\ sweep'.upload = sweep.upload
    BY <1>1, <1>8 DEF SweepOrphanUnlink, SweepOrphanRmdir, SweepGoto, Sweeps
  <2> QED BY <1>1, <1>2, <2>1
<1>9. CASE SweepClaim \/ SweepVerifyLock \/ SweepVerifyRow \/ SweepSurvey
  <2>1. sweep'.pc \in {"verify", "verifyRow", "walkRetained"}
    BY <1>1, <1>9 DEF SweepClaim, SweepVerifyLock, SweepVerifyRow, SweepSurvey,
                      SweepGoto, Sweeps
  <2> QED BY <2>1
<1>10. CASE SweepWalkRetained \/ SweepStrayLock \/ SweepDone
  <2>1. CASE SweepWalkRetained
    BY <1>1, <2>1 DEF SweepWalkRetained, Sweeps
  <2>2. CASE SweepStrayLock
    BY <1>1, <2>2 DEF SweepStrayLock, Sweeps
  <2>3. CASE SweepDone
    BY <2>3 DEF SweepDone, IdleSweep
  <2> QED BY <1>10, <2>1, <2>2, <2>3
<1>11. CASE SweepStrayRow \/ SweepStrayUnlink \/ SweepStrayRmdir
  <2>1. sweep'.pc \in {"stray", "strayUnlink", "strayRmdir"}
    BY <1>1, <1>11 DEF SweepStrayRow, SweepStrayUnlink, SweepStrayRmdir, SweepGoto,
                       Sweeps
  <2> QED BY <2>1
<1> QED BY <1>3, <1>4, <1>5, <1>6, <1>7, <1>8, <1>9, <1>10, <1>11 DEF SweepStep

LEMMA SweepListsStep ==
  ASSUME Typed, StoreLockOK, Grants, SweepListsOK, [Next]_vars
  PROVE  SweepListsOK'
<1>1. CASE SweepStep
  BY <1>1, SweepListsMoved
<1>2. CASE Crash
  BY <1>2 DEF Crash, IdleSweep, SweepListsOK, ExpiredListOK, OrphanListOK,
              ExpiredPcs, OrphanPcs
<1>3. CASE ~SweepStep /\ ~Crash
  <2>1. ASSUME NEW r \in Requests, Request(r) \/ HandlerStep(r) \/ Disconnect(r)
        PROVE  sweep' = sweep
    BY <2>1, HandlerFrame
  <2>2. ASSUME (\E u \in UploadIds : GrantExpires(u)) \/ UNCHANGED vars
        PROVE  sweep' = sweep
    BY <2>2 DEF GrantExpires, vars
  <2>3. sweep' = sweep
    BY <1>3, <2>1, <2>2 DEF Next
  <2> QED BY <1>3, <2>3, SweepListsUndisturbed
<1> QED BY <1>1, <1>2, <1>3

-----------------------------------------------------------------------------
(* The theorems *)

\* The inductive invariant.
Safe == /\ Typed
        /\ StoreLockOK
        /\ LocksInOrder
        /\ Grants
        /\ Retentions
        /\ SweepListsOK

LEMMA SafeInit == Init => Safe
<1> SUFFICES ASSUME Init PROVE Safe
  OBVIOUS
<1>1. StoreLockOK
  BY DEF Init, StoreLockOK, StoreSections
<1>2. LocksInOrder
  BY NamesAssumption DEF Init, LocksInOrder
<1>3. Grants
  BY DEF Init, Grants, UnissuedIsUnused, GrantStandsAlone, OneOpenGrant, Granted
<1>4. QuotaHeld
  <2> SUFFICES ASSUME NEW h \in Holders PROVE Usage(h) <= MaxRetained
    BY DEF QuotaHeld
  <2>1. {k \in LiveKeys : k[1] = h} = {}
    BY DEF Init, LiveKeys, Live
  <2> QED BY <2>1, FS_EmptySet, QuotaAssumption DEF Usage
<1>5. CommitKeysOK /\ RoomToRetain /\ RetainedIsTrueWhenSaid
  BY DEF Init, CommitKeysOK, CommitPcs, RoomToRetain, RetainedIsTrueWhenSaid
<1>6. SweepListsOK
  BY DEF Init, IdleSweep, SweepListsOK, ExpiredListOK, OrphanListOK, ExpiredPcs,
         OrphanPcs
<1> QED BY <1>1, <1>3, <1>4, <1>5, <1>6, <1>2, TypeInit DEF Safe, Retentions

LEMMA SafeStep == Safe /\ [Next]_vars => Safe'
  BY TypeStep, StoreLockStep, LocksStep, GrantsStep, RetentionsStep, SweepListsStep DEF Safe

LEMMA AlwaysSafe == Spec => []Safe
  BY SafeInit, SafeStep, PTL DEF Spec

\* A reference never has two open grants, however preflights interleave with
\* each other, with expiry and with crashes.
THEOREM GrantIsUnique == Spec => []OneOpenGrant
<1>1. Safe => OneOpenGrant
  BY DEF Safe, Grants
<1> QED BY <1>1, AlwaysSafe, PTL

\* No holder exceeds the quota, for any number of concurrent commits.
THEOREM QuotaIsHeld == Spec => []QuotaHeld
<1>1. Safe => QuotaHeld
  BY DEF Safe, Retentions
<1> QED BY <1>1, AlwaysSafe, PTL

\* The row still says "retained" when the commit is about to answer so.
THEOREM AnswerIsTrue == Spec => []RetainedIsTrueWhenSaid
<1>1. Safe => RetainedIsTrueWhenSaid
  BY DEF Safe, Retentions
<1> QED BY <1>1, AlwaysSafe, PTL

\* The sweep never takes the directory or the row of an open grant.
THEOREM SweepIsCareful == Spec => []SweepSparesOpenGrants
<1>1. Safe => SweepSparesOpenGrants
  BY DEF Safe, SweepListsOK, ExpiredListOK, OrphanListOK, ExpiredPcs, OrphanPcs,
         SweepSparesOpenGrants, Granted
<1> QED BY <1>1, AlwaysSafe, PTL

\* Nobody ever waits for a lock of one that waits for him: the handlers and the
\* sweep take the blob lock before the store lock and never the other way, and
\* no answer, hang-up or crash leaves a lock behind (erasures.rs:65).
THEOREM LocksNeverCross == Spec => []LocksInOrder
<1>1. Safe => LocksInOrder
  BY DEF Safe
<1> QED BY <1>1, AlwaysSafe, PTL
=============================================================================
