------------------------ MODULE VaultRefinementProofs ------------------------
(***************************************************************************)
(* The vault implements Retention: every step of every handler and of the  *)
(* sweep is one of Retention's steps or is not seen. For any constants, in *)
(* an orderly environment without downloads (see VaultRetention).          *)
(*                                                                         *)
(* To what VaultRetention proves of the vault this adds that an erasure    *)
(* keeps the scope it came with until it decides, and that no file at a    *)
(* destination is still being written.                                     *)
(***************************************************************************)
EXTENDS VaultRetention, VaultRefinement

\* An erasure that has not decided has one of the scopes a client can ask.
Scoped == \A r \in Requests : pc[r] = "decide" => job[r].scope \in Scopes

LEMMA ScopedStep ==
  ASSUME Typed, Scoped, [Next]_vars
  PROVE  Scoped'
<1> USE DEF Typed, TypeOK
<1> SUFFICES ASSUME NEW r \in Requests, pc'[r] = "decide"
             PROVE  job'[r].scope \in Scopes
  BY DEF Scoped, Scopes
<1>1. ASSUME NEW s \in Requests, s # r, Request(s) \/ HandlerStep(s) \/ Disconnect(s)
      PROVE  pc'[r] = pc[r] /\ job'[r] = job[r]
  BY <1>1, HandlerFrame
<1>2. ASSUME Request(r) PROVE job'[r].scope \in Scopes
  <2>1. ASSUME NEW there \in {"grant", "read", "arrival", "paths"}, NEW j
        PROVE  ~Begin(r, there, j)
    BY DEF Begin
  <2>2. \A u \in UploadIds, k \in Keys : ~PreflightGrant(r, u, k)
    BY <2>1 DEF PreflightGrant
  <2>3. \A u \in UploadIds, c \in Chunks, b \in Payloads : ~PutCheck(r, u, c, b)
    BY <2>1 DEF PutCheck
  <2>4. (\A u \in UploadIds : ~CommitCheck(r, u)) /\ (\A k \in Keys : ~DownloadRow(r, k))
    BY <2>1 DEF CommitCheck, DownloadRow
  <2>5. PICK scope \in Scopes : EraseLockBlobs(r, scope)
    BY <1>2, <2>2, <2>3, <2>4 DEF Request
  <2>6. job'[r] = [NoJob EXCEPT !.scope = scope]
    BY <2>5 DEF EraseLockBlobs, Begin
  <2> QED BY <2>6 DEF NoJob
<1>3. ~HandlerStep(r)
  <2> USE DEF Answer, Goto
  <2>1. ~PreflightRow(r) /\ ~DownloadStep(r) /\ ~PutStep(r)
    BY DEF PreflightRow, DownloadStep, DownloadPaths, DownloadMark, PutStep,
           PutRead, PutCreate, PutFill
  <2>2. ~CommitStep(r)
    BY DEF CommitStep, CommitArrival, CommitDigest, Abandon, AbandonRmdir,
       AbandonDrop, CommitLockBlobs, CommitPlace, CommitRefuse, CommitRetain,
       CommitDrop, CommitOutcome
  <2>3. ~EraseStep(r)
    BY DEF EraseStep, EraseDecide, EraseUnlink, EraseRmdir
  <2> QED BY <2>1, <2>2, <2>3 DEF HandlerStep
<1>4. ASSUME Disconnect(r) PROVE FALSE
  BY <1>4 DEF Disconnect, Answer
<1>5. ~Crash
  BY DEF Crash
<1>6. ASSUME SweepStep \/ (\E v \in UploadIds : GrantExpires(v)) \/ UNCHANGED vars
      PROVE  pc'[r] = pc[r] /\ job'[r] = job[r]
  BY <1>6, SweepFrame DEF GrantExpires, vars
<1> QED BY <1>1, <1>2, <1>3, <1>4, <1>5, <1>6 DEF Next, Scoped

-----------------------------------------------------------------------------
(* The files of one directory *)

\* What a step does to them: nothing, all go, or a request that is putting a
\* chunk makes or finishes one.
LEMMA FilesStep ==
  ASSUME Typed, [Next]_vars, NEW u \in UploadIds
  PROVE  \/ chunks'[u] = chunks[u]
         \/ chunks'[u] = EmptyDirectory
         \/ u \in incoming /\ dest' = dest /\ snapshots' = snapshots
         \/ /\ dest' = dest /\ snapshots' = snapshots
            /\ \A c \in Chunks : chunks[u][c] # "torn" => chunks'[u][c] = chunks[u][c]
<1> USE DEF Typed, TypeOK
<1>1. ASSUME NEW d, UnlinkChunks(d)
      PROVE  chunks'[u] = chunks[u] \/ chunks'[u] = EmptyDirectory
  BY <1>1 DEF UnlinkChunks
<1>2. ASSUME NEW r \in Requests, Request(r) \/ PreflightRow(r) \/ DownloadStep(r)
      PROVE  chunks' = chunks
  BY <1>2 DEF Request, PreflightGrant, PutCheck, CommitCheck, EraseLockBlobs,
              DownloadRow, PreflightRow, DownloadStep, DownloadPaths, DownloadMark, disk
<1>3. ASSUME NEW r \in Requests, PutRead(r) \/ EraseDecide(r) \/ EraseRmdir(r)
      PROVE  chunks' = chunks
  BY <1>3 DEF PutRead, EraseDecide, EraseRmdir, disk
<1>4. ASSUME NEW r \in Requests, PutCreate(r)
      PROVE  chunks'[u] = chunks[u] \/ (u \in incoming /\ dest' = dest /\ snapshots' = snapshots)
  BY <1>4 DEF PutCreate, store
<1>5. ASSUME NEW r \in Requests, PutFill(r)
      PROVE  /\ dest' = dest /\ snapshots' = snapshots
             /\ \A c \in Chunks : chunks[u][c] # "torn" => chunks'[u][c] = chunks[u][c]
  BY <1>5 DEF PutFill, store
<1>6. ASSUME NEW r \in Requests, CommitStep(r)
      PROVE  chunks'[u] = chunks[u] \/ chunks'[u] = EmptyDirectory
  <2>1. CASE Abandon(r)
    BY <1>1, <2>1 DEF Abandon
  <2>2. CASE CommitPlace(r)
    BY <2>2 DEF CommitPlace, PlaceUpload, DiscardUpload, disk
  <2>3. CASE ~Abandon(r) /\ ~CommitPlace(r)
    BY <1>6, <2>3 DEF CommitStep, CommitArrival, CommitDigest, AbandonRmdir,
       AbandonDrop, CommitLockBlobs, CommitRefuse, CommitRetain, CommitDrop,
       CommitOutcome, disk
  <2> QED BY <2>1, <2>2, <2>3
<1>7. ASSUME NEW r \in Requests, EraseUnlink(r)
      PROVE  chunks'[u] = chunks[u] \/ chunks'[u] = EmptyDirectory
  BY <1>1, <1>7 DEF EraseUnlink
<1>8. ASSUME SweepStep
      PROVE  chunks'[u] = chunks[u] \/ chunks'[u] = EmptyDirectory
  <2>1. CASE SweepExpiredUnlink \/ SweepOrphanUnlink \/ SweepStrayUnlink
    BY <1>1, <2>1 DEF SweepExpiredUnlink, SweepOrphanUnlink, SweepStrayUnlink
  <2>2. CASE ~SweepExpiredUnlink /\ ~SweepOrphanUnlink /\ ~SweepStrayUnlink
    BY <1>8, <2>2 DEF SweepStep, SweepExpired, SweepExpiredRmdir, SweepExpiredDrop,
       SweepWalkIncoming, SweepOrphanRow, SweepOrphanRmdir, SweepClaim,
       SweepVerifyLock, SweepVerifyRow, SweepSurvey, SweepWalkRetained,
       SweepStrayLock, SweepStrayRow, SweepStrayRmdir, SweepDone, disk
  <2> QED BY <2>1, <2>2
<1>9. ASSUME \/ \E r \in Requests : Disconnect(r)
             \/ \E v \in UploadIds : GrantExpires(v)
             \/ Crash \/ UNCHANGED vars
      PROVE  chunks' = chunks
  BY <1>9 DEF Disconnect, GrantExpires, Crash, vars, disk
<1> QED BY <1>2, <1>3, <1>4, <1>5, <1>6, <1>7, <1>8, <1>9
        DEF Next, HandlerStep, PutStep, EraseStep

\* No file at a destination is still being written.
Settled == \A k \in Keys : dest[k] # None => \A c \in Chunks : chunks[dest[k]][c] # "torn"

LEMMA SettledStep ==
  ASSUME Typed, DestOK, CommitsVerified, Settled, [Next]_vars
  PROVE  Settled'
<1> USE DEF Typed, TypeOK
<1> SUFFICES ASSUME NEW k \in Keys, dest'[k] # None, NEW c \in Chunks
             PROVE  chunks'[dest'[k]][c] # "torn"
  BY DEF Settled
<1>1. CASE dest'[k] = dest[k]
  <2>1. /\ dest[k] \in UploadIds /\ dest[k] \notin incoming
        /\ chunks[dest[k]][c] # "torn"
    BY <1>1 DEF Settled, DestOK
  <2> QED BY <1>1, <2>1, FilesStep DEF EmptyDirectory
<1>2. CASE dest'[k] # dest[k]
  <2>1. PICK r \in Requests : /\ CommitPlace(r) /\ dest[k] = None
                              /\ dest'[k] = job[r].upload
    BY <1>2, DestStep
  <2>2. pc[r] = "awaitStore" /\ job[r].upload \in incoming /\ Verified(job[r].upload)
    BY <2>1 DEF CommitPlace, CommitsVerified
  <2>3. chunks' = chunks
    BY <1>2, <2>1 DEF CommitPlace, PlaceUpload, disk
  <2> QED BY <2>1, <2>2, <2>3 DEF Verified
<1> QED BY <1>1, <1>2

-----------------------------------------------------------------------------
(* What is seen of a step *)

\* Bytes are taken in, or given up, one reference at a time, and never in
\* the step that changes a row.
LEMMA PossessionStep ==
  ASSUME Orderly, Safe, Promise, Settled, [Next]_vars
  PROVE  \/ Possessed' = Possessed
         \/ /\ snapshots' = snapshots
            /\ \E k \in Keys \ Possessed : Possessed' = Possessed \cup {k}
         \/ /\ snapshots' = snapshots
            /\ \E k \in Possessed : Possessed' = Possessed \ {k}
<1> USE DEF Typed, TypeOK
<1>1. Typed /\ DestOK /\ CommitsVerified
  BY DEF Safe, Promise
<1>2. ASSUME NEW r \in Requests, CommitPlace(r), dest' # dest
      PROVE  /\ snapshots' = snapshots
             /\ \E k \in Keys \ Possessed : Possessed' = Possessed \cup {k}
  <2>1. /\ job[r].key \in Keys /\ job[r].upload \in UploadIds
        /\ Verified(job[r].upload)
    BY <1>1, <1>2 DEF CommitPlace, CommitsVerified, Safe, Retentions, CommitKeysOK,
                      CommitPcs, JobsOK
  <2>2. /\ dest' = [dest EXCEPT ![job[r].key] = job[r].upload]
        /\ dest[job[r].key] = None /\ chunks' = chunks /\ snapshots' = snapshots
    BY <1>2 DEF CommitPlace, PlaceUpload, disk, store
  <2>3. job[r].key \notin Possessed
    BY <2>2 DEF Possessed, Verified
  <2>4. Possessed' = Possessed \cup {job[r].key}
    BY <1>1, <2>1, <2>2 DEF Possessed, Verified
  <2> QED BY <2>1, <2>2, <2>3, <2>4
<1>3. ASSUME \A r \in Requests : ~(CommitPlace(r) /\ dest' # dest)
      PROVE  Possessed' \subseteq Possessed
  <2> SUFFICES ASSUME NEW k \in Keys, Verified(dest[k])' PROVE Verified(dest[k])
    BY DEF Possessed
  <2>1. dest'[k] = dest[k] /\ dest[k] \in UploadIds
    BY <1>1, <1>3, DestStep DEF Verified
  <2>2. dest[k] \notin incoming /\ \A c \in Chunks : chunks[dest[k]][c] # "torn"
    BY <1>1, <2>1, NamesAssumption DEF DestOK, Settled
  <2>3. \A c \in Chunks : chunks'[dest[k]][c] = "good"
    BY <2>1 DEF Verified
  <2>4. chunks'[dest[k]] # EmptyDirectory
    BY <2>3, ChunksAssumption DEF EmptyDirectory
  <2> QED BY <1>1, <2>1, <2>2, <2>3, <2>4, FilesStep DEF Verified
<1>4. ASSUME NEW k \in Possessed \ Possessed'
      PROVE  Unlinks(dest[k]) /\ dest[k] \notin incoming
  <2>1. k \in Keys /\ Verified(dest[k]) /\ ~Verified(dest[k])'
    BY DEF Possessed
  <2>2. dest[k] \in UploadIds /\ dest[k] \notin incoming
    BY <1>1, <2>1 DEF Verified, DestOK
  <2>3. chunks[dest[k]] # EmptyDirectory
    BY <2>1, ChunksAssumption DEF Verified, EmptyDirectory
  <2>4. dest'[k] = dest[k]
    BY <1>1, <2>1, <2>2, <2>3, DestStep DEF Verified
  <2> QED BY <1>1, <2>1, <2>2, <2>4, VerifiedStep DEF Verified
<1>5. ASSUME NEW d \in UploadIds \cup {None}, UnlinkChunks(d), dest' = dest, snapshots' = snapshots,
             Possessed' \subseteq Possessed, Possessed' # Possessed
      PROVE  \E k \in Possessed : Possessed' = Possessed \ {k}
  <2>1. \A k \in Possessed \ Possessed' : k \in Keys /\ dest[k] = d /\ d # None
    BY <1>5 DEF Possessed, Verified, UnlinkChunks
  <2>2. PICK k \in Possessed : k \notin Possessed'
    BY <1>5
  <2>3. \A l \in Possessed \ Possessed' : l = k
    BY <1>1, <2>1, <2>2 DEF DestOK
  <2> QED BY <1>5, <2>2, <2>3
<1>6. ASSUME NEW r \in Requests, EraseUnlink(r), Possessed' \subseteq Possessed,
             Possessed' # Possessed
      PROVE  snapshots' = snapshots /\ \E k \in Possessed : Possessed' = Possessed \ {k}
  <2>1. PICK k \in job[r].scope :
          IF dest[k] # None THEN UnlinkChunks(dest[k]) ELSE UNCHANGED chunks
    BY <1>6 DEF EraseUnlink
  <2>2. dest' = dest /\ snapshots' = snapshots /\ k \in Keys
    BY <1>1, <1>6 DEF EraseUnlink, store, Jobs
  <2>3. chunks' # chunks
    BY <1>6, <2>2 DEF Possessed, Verified
  <2> QED BY <1>1, <1>5, <1>6, <2>1, <2>2, <2>3
<1>7. ASSUME SweepStrayUnlink, Possessed' \subseteq Possessed, Possessed' # Possessed
      PROVE  snapshots' = snapshots /\ \E k \in Possessed : Possessed' = Possessed \ {k}
  <2>1. dest' = dest /\ snapshots' = snapshots /\ sweep.key \in Keys
    BY <1>7 DEF SweepStrayUnlink, store, Promise, StrayOK, StrayPcs
  <2>2. chunks' # chunks
    BY <1>7, <2>1 DEF Possessed, Verified
  <2>3. UnlinkChunks(dest[sweep.key])
    BY <1>7, <2>2 DEF SweepStrayUnlink
  <2> QED BY <1>1, <1>5, <1>7, <2>1, <2>3
<1>8. ASSUME ~SweepStrayUnlink, \A r \in Requests : ~EraseUnlink(r),
             NEW k \in Possessed \ Possessed'
      PROVE  FALSE
  BY <1>4, <1>8 DEF Unlinks
<1> QED BY <1>2, <1>3, <1>6, <1>7, <1>8

\* Retention counts as the vault does.
LEMMA SameCount == \A S : Promised!Cardinality(S) = Cardinality(S)
  BY DEF Promised!Cardinality, Cardinality

LEMMA RetainedAre ==
  ASSUME Typed, NEW h
  PROVE  Promised!RetainedOf(h) = {k \in LiveKeys : k[1] = h}
<1>1. \A k \in Keys : Told[k] = "retained" <=> Live(k)
  BY DEF Told, Live, Typed, TypeOK
<1> QED BY <1>1 DEF Promised!RetainedOf, Promised!References, LiveKeys, Keys

\* A row becomes live over bytes that are there, within the quota.
LEMMA RetainSeen ==
  ASSUME Safe, Promise, NEW r \in Requests, CommitRetain(r)
  PROVE  \/ UNCHANGED <<Told, Possessed>>
         \/ \E k \in Keys : Promised!Retain(k)
<1> USE DEF Typed, TypeOK
<1> DEFINE k == job[r].key
<1>1. Typed /\ pc[r] = "retain" /\ k \in Keys
  BY DEF Safe, CommitRetain, Retentions, CommitKeysOK, CommitPcs
<1>2. /\ snapshots' = [snapshots EXCEPT ![k] = "live"]
      /\ dest' = dest /\ chunks' = chunks
  BY DEF CommitRetain, disk
<1>3. Possessed' = Possessed
  BY <1>2 DEF Possessed, Verified
<1>4. CASE Live(k)
  <2>1. snapshots' = snapshots
    BY <1>1, <1>2, <1>4 DEF Live
  <2> QED BY <1>3, <2>1 DEF Told, Live
<1>5. CASE ~Live(k)
  <2>1. k \in Possessed
    BY <1>1 DEF Promise, HeldHasBytes, Held, Possessed
  <2>2. Promised!Cardinality(Promised!RetainedOf(k[1])) < MaxRetained
    BY <1>1, <1>5, RetainedAre, SameCount DEF Safe, Retentions, RoomToRetain, Usage
  <2>3. Told' = [Told EXCEPT ![k] = "retained"]
    BY <1>1, <1>2 DEF Told, Live
  <2>4. Told[k] # "retained"
    BY <1>1, <1>5 DEF Told, Live
  <2> QED BY <1>1, <1>3, <2>1, <2>2, <2>3, <2>4 DEF Promised!Retain
<1> QED BY <1>4, <1>5

\* An erasure is seen whole: everything of the holder's, one snapshot, or
\* nothing at all.
LEMMA EraseSeen ==
  ASSUME Typed, Scoped, NEW r \in Requests, EraseDecide(r)
  PROVE  \/ UNCHANGED <<Told, Possessed>>
         \/ \E h \in Holders : Promised!Erase(h)
<1> USE DEF Typed, TypeOK
<1> DEFINE doomed == job[r].scope \cap LiveKeys
<1>1. /\ snapshots' = [k \in Keys |-> IF k \in doomed THEN "erased" ELSE snapshots[k]]
      /\ dest' = dest /\ chunks' = chunks /\ pc[r] = "decide"
  BY DEF EraseDecide, disk
<1>2. Possessed' = Possessed
  BY <1>1 DEF Possessed, Verified
<1>3. Told' = [k \in Keys |-> IF k \in doomed THEN "erased" ELSE Told[k]]
  BY <1>1 DEF Told, Live
<1>4. job[r].scope \in Scopes
  BY <1>1 DEF Scoped
<1>5. CASE doomed = {}
  BY <1>2, <1>3, <1>5 DEF Told
<1>6. ASSUME NEW h \in Holders,
             doomed \in {Promised!RetainedOf(h)} \cup {{k} : k \in Promised!RetainedOf(h)}
      PROVE  Promised!Erase(h)
  BY <1>2, <1>3, <1>6 DEF Promised!Erase, Promised!References, Keys
<1>7. ASSUME NEW h \in Holders, job[r].scope = {k \in Keys : k[1] = h}
      PROVE  Promised!Erase(h)
  <2>1. doomed = Promised!RetainedOf(h)
    BY <1>7, RetainedAre DEF LiveKeys
  <2> QED BY <1>6, <2>1
<1>8. ASSUME NEW k \in Keys, job[r].scope = {k}, doomed # {}
      PROVE  \E h \in Holders : Promised!Erase(h)
  <2>1. doomed = {k} /\ k \in LiveKeys /\ k[1] \in Holders
    BY <1>8 DEF Keys
  <2>2. k \in Promised!RetainedOf(k[1])
    BY <2>1, RetainedAre
  <2> QED BY <1>6, <2>1, <2>2
<1> QED BY <1>4, <1>5, <1>7, <1>8 DEF Scopes

\* The inductive invariant, beside Safe and Promise.
Kept == Settled /\ Scoped /\ NoDownloads

LEMMA StepIsSeen ==
  ASSUME Orderly, Safe, Promise, Promise', Kept, [Next]_vars
  PROVE  [Promised!Next]_<<Told, Possessed>>
<1>1. Typed
  BY DEF Safe
<1>2. ASSUME snapshots' = snapshots
      PROVE  Told' = Told
  BY <1>2 DEF Told, Live
<1>3. ASSUME snapshots' = snapshots, Possessed' # Possessed
      PROVE  Promised!Next
  <2>1. \A k \in Keys : (Told[k] = "retained") <=> Live(k)
    BY <1>1 DEF Told, Live, Typed, TypeOK
  <2>2. \A k \in Keys : Live(k) => k \in Possessed /\ k \in Possessed'
    BY <1>3 DEF Promise, HeldHasBytes, Held, Possessed, Live
  <2>3. CASE \E k \in Keys \ Possessed : Possessed' = Possessed \cup {k}
    <3>1. PICK k \in Keys \ Possessed : Possessed' = Possessed \cup {k}
      BY <2>3
    <3>2. Promised!Receive(k)
      BY <1>2, <1>3, <2>1, <2>2, <3>1 DEF Promised!Receive
    <3> QED BY <3>1, <3>2 DEF Promised!Next, Promised!References, Keys
  <2>4. CASE \E k \in Possessed : Possessed' = Possessed \ {k}
    <3>1. PICK k \in Possessed : Possessed' = Possessed \ {k}
      BY <2>4
    <3>2. k \in Keys
      BY <3>1 DEF Possessed
    <3>3. Promised!Dispose(k)
      BY <1>2, <1>3, <2>1, <2>2, <3>1, <3>2 DEF Promised!Dispose
    <3> QED BY <3>2, <3>3 DEF Promised!Next, Promised!References, Keys
  <2> QED BY <1>3, <2>3, <2>4, PossessionStep DEF Kept
<1>4. ASSUME NEW r \in Requests, CommitRetain(r)
      PROVE  [Promised!Next]_<<Told, Possessed>>
  BY <1>4, RetainSeen DEF Promised!Next, Promised!References, Keys
<1>5. ASSUME NEW r \in Requests, EraseDecide(r)
      PROVE  [Promised!Next]_<<Told, Possessed>>
  BY <1>1, <1>5, EraseSeen DEF Kept, Promised!Next
<1>6. ASSUME NEW r \in Requests PROVE ~DownloadMark(r)
  BY DEF Kept, NoDownloads, DownloadMark
<1>7. ASSUME SweepVerifyRow PROVE snapshots' = snapshots
  <2>1. ASSUME NEW k, Live(k), k \in Keys PROVE Whole(dest[k])
    BY <2>1 DEF Promise, HeldHasBytes, Held, Verified, Whole
  <2>2. ASSUME MarkUnavailable(sweep.key), sweep.key \notin Keys
        PROVE  snapshots' = snapshots
    BY <1>1, <2>2 DEF MarkUnavailable, Typed, TypeOK
  <2> QED BY <1>7, <2>1, <2>2 DEF SweepVerifyRow
<1> QED BY <1>1, <1>2, <1>3, <1>4, <1>5, <1>6, <1>7, SnapshotWriters

LEMMA InitIsSeen == Init => Promised!Init /\ Kept
<1> SUFFICES ASSUME Init PROVE Promised!Init /\ Kept
  OBVIOUS
<1>1. Told = [k \in Keys |-> "never"] /\ Possessed = {}
  BY DEF Init, Told, Live, Possessed, Verified
<1>2. Kept
  BY DEF Init, Kept, Settled, Scoped, NoDownloads
<1> QED BY <1>1, <1>2 DEF Promised!Init, Promised!References, Keys

\* The vault keeps the promise of Retention: "retained" is said of bytes that
\* are there and within the quota, stands until the holder erases, one
\* snapshot or all of them in a step, and bytes go only when nobody is told
\* that they are retained. For any constants, in an orderly environment
\* without downloads (commit, erase and the sweep).
THEOREM VaultKeepsPromise ==
  ASSUME Orderly, "download" \notin Ops
  PROVE  Spec => PromiseKept
<1>1. Init => Safe /\ Promise /\ Kept /\ Promised!Init
  BY SafeInit, PromiseInit, InitIsSeen
<1>2. Safe /\ Promise /\ Kept /\ [Next]_vars => (Safe /\ Promise /\ Kept)'
  BY SafeStep, PromiseStep, SettledStep, ScopedStep, NoDownloadsStep
     DEF Kept, Safe, Promise
<1>3. Safe /\ Promise /\ Promise' /\ Kept /\ [Next]_vars
        => [Promised!Next]_<<Told, Possessed>>
  BY StepIsSeen
<1> QED BY <1>1, <1>2, <1>3, PTL DEF Spec, PromiseKept, Promised!Spec
-----------------------------------------------------------------------------
(* What Retention is worth *)

\* What a holder who knows nothing but Retention can rely on.
Sound ==
  /\ DOMAIN Told = Keys
  /\ \A k \in Keys : Told[k] = "retained" => k \in Possessed
  /\ \A h \in Holders : /\ IsFiniteSet(Promised!RetainedOf(h))
                        /\ Cardinality(Promised!RetainedOf(h)) <= MaxRetained

\* A row that stops being retained is one of those its holder took back.
ErasedWhole ==
  \A k \in Keys : Told[k] = "retained" /\ Told'[k] # "retained" => Told'[k] = "erased"

LEMMA SoundStep ==
  ASSUME Sound, [Promised!Next]_<<Told, Possessed>>
  PROVE  Sound' /\ ErasedWhole
<1>0. Promised!References = Keys
  BY DEF Promised!References, Keys
<1>1. ASSUME Told' = Told,
             \A k \in Keys : Told[k] = "retained" /\ k \in Possessed => k \in Possessed'
      PROVE  Sound' /\ ErasedWhole
  <2>1. \A h \in Holders : Promised!RetainedOf(h)' = Promised!RetainedOf(h)
    BY <1>1 DEF Promised!RetainedOf, Promised!References
  <2> QED BY <1>1, <2>1 DEF Sound, ErasedWhole
<1>2. ASSUME NEW k \in Keys, Promised!Retain(k) PROVE Sound' /\ ErasedWhole
  <2>1. /\ Told' = [Told EXCEPT ![k] = "retained"] /\ Possessed' = Possessed
        /\ k \in Possessed /\ Told[k] # "retained"
        /\ Cardinality(Promised!RetainedOf(k[1])) < MaxRetained
    BY <1>2, SameCount DEF Promised!Retain
  <2>h. k[1] \in Holders
    BY DEF Keys
  <2>2. DOMAIN Told' = Keys
    BY <2>1 DEF Sound
  <2>3. \A l \in Keys : Told'[l] = IF l = k THEN "retained" ELSE Told[l]
    BY <2>1 DEF Sound
  <2>4. ASSUME NEW h \in Holders
        PROVE  /\ IsFiniteSet(Promised!RetainedOf(h)')
               /\ Cardinality(Promised!RetainedOf(h)') <= MaxRetained
    <3>1. CASE h = k[1]
      <4>1. Promised!RetainedOf(h)' = Promised!RetainedOf(h) \cup {k}
        BY <1>0, <2>3, <3>1 DEF Promised!RetainedOf, Promised!References
      <4>2. k \notin Promised!RetainedOf(h)
        BY <2>1 DEF Promised!RetainedOf
      <4>3. Cardinality(Promised!RetainedOf(h)') = Cardinality(Promised!RetainedOf(h)) + 1
              /\ IsFiniteSet(Promised!RetainedOf(h)')
              /\ Cardinality(Promised!RetainedOf(h)) \in Nat
        BY <2>h, <3>1, <4>1, <4>2, FS_AddElement, FS_CardinalityType DEF Sound
      <4> QED BY <2>1, <2>h, <3>1, <4>3, QuotaAssumption
    <3>2. CASE h # k[1]
      <4>1. Promised!RetainedOf(h)' = Promised!RetainedOf(h)
        BY <1>0, <2>3, <3>2 DEF Promised!RetainedOf, Promised!References
      <4> QED BY <4>1 DEF Sound
    <3> QED BY <3>1, <3>2
  <2> QED BY <2>1, <2>2, <2>3, <2>4 DEF Sound, ErasedWhole
<1>3. ASSUME NEW h \in Holders, Promised!Erase(h) PROVE Sound' /\ ErasedWhole
  <2>1. PICK doomed \in SUBSET Keys :
               /\ Told' = [k \in Keys |-> IF k \in doomed THEN "erased" ELSE Told[k]]
               /\ Possessed' = Possessed
    BY <1>0, <1>3 DEF Promised!Erase, Promised!RetainedOf
  <2>2. ASSUME NEW g \in Holders
        PROVE  /\ IsFiniteSet(Promised!RetainedOf(g)')
               /\ Cardinality(Promised!RetainedOf(g)') <= MaxRetained
    <3>1. Promised!RetainedOf(g)' \subseteq Promised!RetainedOf(g)
      BY <1>0, <2>1 DEF Promised!RetainedOf, Promised!References
    <3>2. /\ Cardinality(Promised!RetainedOf(g)) \in Nat
          /\ IsFiniteSet(Promised!RetainedOf(g)') /\ Cardinality(Promised!RetainedOf(g)') \in Nat
          /\ Cardinality(Promised!RetainedOf(g)') <= Cardinality(Promised!RetainedOf(g))
      BY <3>1, FS_Subset, FS_CardinalityType DEF Sound
    <3> QED BY <3>2, QuotaAssumption DEF Sound
  <2> QED BY <2>1, <2>2 DEF Sound, ErasedWhole
<1> QED BY <1>0, <1>1, <1>2, <1>3
        DEF Promised!Next, Promised!Receive, Promised!Dispose

LEMMA SoundMeans ==
  ASSUME Sound
  PROVE  RetainedHasBytes /\ QuotaHeld
<1>1. RetainedHasBytes
  BY DEF Sound, RetainedHasBytes, Told, Possessed
<1>2. ASSUME NEW h \in Holders PROVE Usage(h) <= MaxRetained
  <2> DEFINE S == {k \in LiveKeys : k[1] = h}
  <2>1. S \subseteq Promised!RetainedOf(h)
    BY DEF LiveKeys, Promised!RetainedOf, Promised!References, Keys, Told
  <2>2. /\ Cardinality(Promised!RetainedOf(h)) \in Nat /\ Cardinality(S) \in Nat
        /\ Cardinality(S) <= Cardinality(Promised!RetainedOf(h))
    BY <2>1, FS_Subset, FS_CardinalityType DEF Sound
  <2> QED BY <2>2, QuotaAssumption DEF Sound, Usage
<1> QED BY <1>1, <1>2 DEF QuotaHeld

\* Retention alone, and so every vault that keeps it, promises the bytes, the
\* quota, and that only its holder ends a snapshot: no order of writes, lock or
\* look at the disk is needed to say so. (A row is read by what it can say.)
THEOREM RetentionSuffices ==
  []TypeOK /\ PromiseKept => []RetainedHasBytes /\ []QuotaHeld /\ RetentionKept
<1>1. Promised!Init => Sound
  <2> SUFFICES ASSUME Promised!Init PROVE Sound
    OBVIOUS
  <2>1. Told = [k \in Keys |-> "never"]
    BY DEF Promised!Init, Promised!References, Keys
  <2>2. \A h \in Holders : Promised!RetainedOf(h) = {}
    BY <2>1 DEF Promised!RetainedOf, Promised!References, Keys
  <2>3. IsFiniteSet({}) /\ Cardinality({}) = 0
    BY FS_EmptySet
  <2> QED BY <2>1, <2>2, <2>3, QuotaAssumption DEF Sound
<1>2. Sound /\ [Promised!Next]_<<Told, Possessed>> => Sound' /\ ErasedWhole
  BY SoundStep
<1>3. Sound => RetainedHasBytes /\ QuotaHeld
  BY SoundMeans
<1>4. TypeOK /\ TypeOK' /\ ErasedWhole =>
        [\A k \in Keys : Live(k) /\ ~Live(k)' =>
           snapshots[k]' = "erased" \/ ~Whole(dest[k])]_vars
  BY DEF ErasedWhole, Told, Live, TypeOK
<1> QED BY <1>1, <1>2, <1>3, <1>4, PTL DEF PromiseKept, Promised!Spec, RetentionKept

==============================================================================
