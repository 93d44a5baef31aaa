-------------------------------- MODULE Vault --------------------------------
(***************************************************************************)
(* The snapshot vault of a retention operator that charges nothing: the    *)
(* SQLite rows, the blob directories, the two locks that order them, the   *)
(* request handlers that write them (preflight, put_chunk, commit, erase,  *)
(* download) and the reconciliation sweep.                                 *)
(*                                                                         *)
(* An action is what a handler does between two points where another task  *)
(* can run: one critical section of the store lock, one step of unlocked   *)
(* disk work, one statement after which a crash leaves the rest undone.    *)
(*                                                                         *)
(* A directory is named by the upload it was made for, which a rename does *)
(* not change: `incoming` holds the directories under incoming/, `dest[k]` *)
(* is the directory at a snapshot's destination, and `chunks[u]` is what   *)
(* directory u holds, wherever it is. So a step that opened a directory    *)
(* under one name acts on it after it was moved, as file handles do.       *)
(***************************************************************************)
EXTENDS Naturals, FiniteSets

CONSTANTS
  Holders,      \* holder handles
  Digests,      \* digests a holder may ask to have retained
  UploadIds,    \* upload ids the operator can mint (uuids: each used once)
  Chunks,       \* chunk indices of a snapshot: 0..chunk_count-1
  Requests,     \* slots for requests in flight at the same time
  MaxRetained,  \* config.maximum_retained_snapshots
  None          \* no upload, no directory, no lock holder

\* What the environment does in a run.
CONSTANTS
  Ops,              \* the operations clients call
  Payloads,         \* bytes clients send for a chunk: "good" ones fit the digest
  Overlap,          \* may two requests on one upload be in flight together
  LateCommits,      \* may a grant run out while its commit is past the check
  MaxCrashes,       \* bound on crashes of the operator
  MaxDisconnects    \* bound on clients that hang up before their answer

Sweeper == "sweeper"
Keys == Holders \X Digests
AllOps == {"put", "commit", "erase", "download"}

ASSUME QuotaAssumption == MaxRetained \in Nat \ {0}
ASSUME FiniteAssumption == IsFiniteSet(Keys) /\ IsFiniteSet(UploadIds)
\* preflight refuses a sealed size of nothing, so there is a first chunk.
ASSUME ChunksAssumption == Chunks # {}
ASSUME EnvironmentAssumption ==
         /\ Ops \subseteq AllOps
         /\ Payloads \subseteq {"good", "bad"}
         /\ Overlap \in BOOLEAN
         /\ LateCommits \in BOOLEAN
         /\ MaxCrashes \in Nat
         /\ MaxDisconnects \in Nat
ASSUME NamesAssumption ==
         /\ None \notin Requests \cup UploadIds \cup Keys \cup Chunks
         /\ None # Sweeper
         /\ Sweeper \notin Requests

VARIABLES
  uploads,    \* table uploads: the snapshot each grant is for, None without a row
  lease,      \* the grant's clock: "unissued", "running" or past expires_at
  snapshots,  \* table snapshots: the state of each row
  outcomes,   \* table operation_outcomes: uploads whose commit is recorded
  incoming,   \* directories under incoming/
  dest,       \* the directory at each snapshot's destination, None if absent
  chunks,     \* the chunk files of each directory
  storeLock,  \* AppState.store: who holds it across steps
  blobLock,   \* AppState.blob_mutations
  pc,         \* where the handler of each request slot is
  job,        \* the locals of that handler
  sweep,      \* the sweep's place and work lists
  crashes, disconnects

store == <<uploads, lease, snapshots, outcomes>>
disk  == <<incoming, dest, chunks>>
locks == <<storeLock, blobLock>>
env   == <<crashes, disconnects>>
vars  == <<store, disk, locks, pc, job, sweep, env>>

-----------------------------------------------------------------------------
(* Values *)

NoJob == [upload |-> None, key |-> None, chunk |-> None, bytes |-> "good",
          scope |-> {}]

IdleSweep == [pc |-> "sleep", uploads |-> {}, keys |-> {}, upload |-> None,
              key |-> None]

EmptyDirectory == [c \in Chunks |-> "absent"]

\* A file write_chunk has created and not finished is "torn".
ChunkStates == {"absent", "torn", "good", "bad"}

\* Where a handler can be between two of its steps.
CommitPcs == {"arrival", "digest", "awaitBlobs", "awaitStore", "retain",
              "drop", "outcome", "refuse"}
AbandonPcs == {"abandon", "abandonRmdir", "abandonDrop"}
PutPcs == {"read", "create", "fill"}
ErasePcs == {"decide", "unlink", "rmdir"}
RequestPcs == CommitPcs \cup AbandonPcs \cup PutPcs \cup ErasePcs
                \cup {"idle", "grant", "paths", "mark"}

SweepPcs == {"sleep", "expired", "expiredRmdir", "expiredDrop", "walkIncoming",
             "orphan", "orphanUnlink", "orphanRmdir", "claim", "verify",
             "verifyRow", "survey", "walkRetained", "stray", "strayRow",
             "strayUnlink", "strayRmdir"}

Jobs == [upload : UploadIds \cup {None}, key : Keys \cup {None},
         chunk : Chunks \cup {None}, bytes : {"good", "bad"},
         scope : SUBSET Keys]

Sweeps == [pc : SweepPcs, uploads : SUBSET UploadIds, keys : SUBSET Keys,
           upload : UploadIds \cup {None}, key : Keys \cup {None}]

-----------------------------------------------------------------------------
(* Questions the code asks of the rows and of the disk *)

Live(k) == snapshots[k] = "live"

LiveKeys == {k \in Keys : Live(k)}

\* store.rs usage: the rows that count against the holder's quota.
Usage(h) == Cardinality({k \in LiveKeys : k[1] = h})

Granted(u) == uploads[u] # None

\* store.rs open_grants and open_grant_for: a row whose lease still runs.
OpenGrants(h) ==
  {u \in UploadIds : Granted(u) /\ lease[u] = "running" /\ uploads[u][1] = h}

OpenGrantFor(k) == {u \in OpenGrants(k[1]) : uploads[u] = k}

\* blobs.rs chunk_paths: every chunk file there at its full length. The
\* bytes are not hashed.
Whole(d) == d # None /\ \A c \in Chunks : chunks[d][c] \in {"good", "bad"}

\* blobs.rs digest_of and digest_paths: the bytes hash to the digest.
Verified(d) == d # None /\ \A c \in Chunks : chunks[d][c] = "good"

\* blobs.rs arrival: a chunk file that is not there, at any length.
Missing(u) == IF u \in incoming THEN {c \in Chunks : chunks[u][c] = "absent"}
                                ELSE Chunks

-----------------------------------------------------------------------------
(* Steps shared by the handlers *)

Goto(r, there) == pc' = [pc EXCEPT ![r] = there]

Answer(r) == /\ pc' = [pc EXCEPT ![r] = "idle"]
             /\ job' = [job EXCEPT ![r] = NoJob]

Begin(r, there, j) == /\ pc[r] = "idle"
                      /\ pc' = [pc EXCEPT ![r] = there]
                      /\ job' = [job EXCEPT ![r] = j]

StoreFree == storeLock = None
BlobsFree == blobLock = None

\* The upload an in-flight request works on, where it may be the only one.
Alone(u) == Overlap \/ \A r \in Requests : job[r].upload # u

\* Mutant: the row is marked and stays in the table.
MarkDropped(u) == uploads' = [uploads EXCEPT ![u] = "dropped"]

DropUpload(u) == uploads' = [uploads EXCEPT ![u] = None]

\* store.rs mark_unavailable: only a live row changes.
MarkUnavailable(k) ==
  snapshots' = [snapshots EXCEPT ![k] = IF @ = "live" THEN "unavailable" ELSE @]

\* remove_dir_all, first half: the files of the directory.
UnlinkChunks(d) == chunks' = [chunks EXCEPT ![d] = EmptyDirectory]

\* remove_dir_all, second half: the name, unless something was put back.
\* A name that is no longer there is not an error.
CanRmdirIncoming(u) == u \in incoming => chunks[u] = EmptyDirectory

-----------------------------------------------------------------------------
(* POST /v1/preflight *)

\* Mutant: the grant this reference already has is not looked for.
GrantsAllowedAgain(k) ==
  /\ ~Live(k)
  /\ Usage(k[1]) + Cardinality(OpenGrants(k[1])) < MaxRetained

\* Open grants count beside retained rows, and resuming one mints nothing.
GrantsAllowed(k) == /\ OpenGrantFor(k) = {}
                    /\ ~Live(k)
                    /\ Usage(k[1]) + Cardinality(OpenGrants(k[1])) < MaxRetained

\* Mutant: the store lock is let go between the directory and the row.
PreflightGrantUnlocked(r, u, k) ==
  /\ StoreFree
  /\ lease[u] = "unissued"
  /\ GrantsAllowed(k)
  /\ Begin(r, "grant", [NoJob EXCEPT !.upload = u, !.key = k])
  /\ lease' = [lease EXCEPT ![u] = "running"]
  /\ incoming' = incoming \cup {u}
  /\ UNCHANGED <<uploads, snapshots, outcomes, dest, chunks, locks, sweep, env>>

\* blobs.begin_upload: the directory, under the store lock.
PreflightGrant(r, u, k) ==
  /\ StoreFree
  /\ lease[u] = "unissued"
  /\ GrantsAllowed(k)
  /\ Begin(r, "grant", [NoJob EXCEPT !.upload = u, !.key = k])
  /\ storeLock' = r
  /\ lease' = [lease EXCEPT ![u] = "running"]
  /\ incoming' = incoming \cup {u}
  /\ UNCHANGED <<uploads, snapshots, outcomes, dest, chunks, blobLock, sweep, env>>

\* store.begin_upload: the row that makes the directory a grant.
PreflightRow(r) ==
  /\ pc[r] = "grant"
  /\ uploads' = [uploads EXCEPT ![job[r].upload] = job[r].key]
  /\ storeLock' = None
  /\ Answer(r)
  /\ UNCHANGED <<lease, snapshots, outcomes, disk, blobLock, sweep, env>>

-----------------------------------------------------------------------------
(* PUT /v1/uploads/{id}/chunks/{index} *)

\* The row check, under the store lock. The write that follows holds no lock.
PutCheck(r, u, c, b) ==
  /\ "put" \in Ops
  /\ StoreFree
  /\ Granted(u) /\ lease[u] = "running"
  /\ Alone(u)
  /\ Begin(r, "read", [NoJob EXCEPT !.upload = u, !.chunk = c, !.bytes = b])
  /\ UNCHANGED <<store, disk, locks, sweep, env>>

\* The chunk file that is there now, "absent" where its directory is not.
ChunkFile(r) == IF job[r].upload \in incoming
                THEN chunks[job[r].upload][job[r].chunk] ELSE "absent"

\* The same bytes are accepted again, any others are a mismatch: either way
\* the file stays as it is.
PutRead(r) ==
  /\ pc[r] = "read"
  /\ IF ChunkFile(r) = "absent" THEN Goto(r, "create") /\ UNCHANGED job
                                ELSE Answer(r)
  /\ UNCHANGED <<store, disk, locks, sweep, env>>

\* create_new: fails when the directory went, or another request was first.
PutCreate(r) ==
  /\ pc[r] = "create"
  /\ IF job[r].upload \in incoming /\ ChunkFile(r) = "absent"
     THEN /\ chunks' = [chunks EXCEPT ![job[r].upload][job[r].chunk] = "torn"]
          /\ Goto(r, "fill")
          /\ UNCHANGED job
     ELSE Answer(r) /\ UNCHANGED chunks
  /\ UNCHANGED <<store, incoming, dest, locks, sweep, env>>

\* write_all, sync_all: a file unlinked meanwhile takes the bytes with it.
PutFill(r) ==
  /\ pc[r] = "fill"
  /\ chunks' = [chunks EXCEPT ![job[r].upload][job[r].chunk] =
                  IF @ = "torn" THEN job[r].bytes ELSE @]
  /\ Answer(r)
  /\ UNCHANGED <<store, incoming, dest, locks, sweep, env>>

-----------------------------------------------------------------------------
(* POST /v1/uploads/{id}/commit *)

\* The row is read and its expiry compared under the store lock, once.
CommitCheck(r, u) ==
  /\ "commit" \in Ops
  /\ StoreFree
  /\ Granted(u) /\ lease[u] = "running"
  /\ Alone(u)
  /\ Begin(r, "arrival", [NoJob EXCEPT !.upload = u, !.key = uploads[u]])
  /\ UNCHANGED <<store, disk, locks, sweep, env>>

\* A gap keeps the grant; every chunk there and the total wrong gives it up.
CommitArrival(r) ==
  /\ pc[r] = "arrival"
  /\ \/ /\ Missing(job[r].upload) # {}
        /\ Answer(r)
     \/ /\ Missing(job[r].upload) = {}
        /\ Goto(r, IF Whole(job[r].upload) THEN "digest" ELSE "abandon")
        /\ UNCHANGED job
  /\ UNCHANGED <<store, disk, locks, sweep, env>>

\* Mutant: a directory of the right length is taken for the right bytes.
CommitDigestByLength(r) ==
  /\ pc[r] = "digest"
  /\ \/ /\ Missing(job[r].upload) # {}
        /\ Answer(r)
     \/ /\ Missing(job[r].upload) = {}
        /\ Goto(r, IF Whole(job[r].upload) THEN "awaitBlobs" ELSE "abandon")
        /\ UNCHANGED job
  /\ UNCHANGED <<store, disk, locks, sweep, env>>

\* digest_of reads the files again: one that went meanwhile is an error.
CommitDigest(r) ==
  /\ pc[r] = "digest"
  /\ \/ /\ Missing(job[r].upload) # {}
        /\ Answer(r)
     \/ /\ Missing(job[r].upload) = {}
        /\ Goto(r, IF Verified(job[r].upload) THEN "awaitBlobs" ELSE "abandon")
        /\ UNCHANGED job
  /\ UNCHANGED <<store, disk, locks, sweep, env>>

\* abandon: bytes first, holding no lock, then the row.
Abandon(r) ==
  /\ pc[r] = "abandon"
  /\ IF job[r].upload \in incoming
     THEN UnlinkChunks(job[r].upload) /\ Goto(r, "abandonRmdir")
     ELSE Goto(r, "abandonDrop") /\ UNCHANGED chunks
  /\ UNCHANGED <<store, incoming, dest, locks, job, sweep, env>>

AbandonRmdir(r) ==
  /\ pc[r] = "abandonRmdir"
  /\ IF CanRmdirIncoming(job[r].upload)
     THEN /\ incoming' = incoming \ {job[r].upload}
          /\ Goto(r, "abandonDrop")
          /\ UNCHANGED job
     ELSE Answer(r) /\ UNCHANGED incoming
  /\ UNCHANGED <<store, dest, chunks, locks, sweep, env>>

AbandonDrop(r) ==
  /\ pc[r] = "abandonDrop"
  /\ StoreFree
  /\ DropUpload(job[r].upload)
  /\ Answer(r)
  /\ UNCHANGED <<lease, snapshots, outcomes, disk, locks, sweep, env>>

\* The lock on blob mutations, then the store's.
CommitLockBlobs(r) ==
  /\ pc[r] = "awaitBlobs"
  /\ BlobsFree
  /\ blobLock' = r
  /\ Goto(r, "awaitStore")
  /\ UNCHANGED <<store, disk, storeLock, job, sweep, env>>

\* Mutant: one past the limit.
OverQuotaByOne(k) == ~Live(k) /\ Usage(k[1]) > MaxRetained

\* The authoritative quota check. A digest already held adds no bytes.
OverQuota(k) == ~Live(k) /\ Usage(k[1]) >= MaxRetained

DiscardUpload(u) == /\ incoming' = incoming \ {u}
                    /\ chunks' = IF u \in incoming
                                 THEN [chunks EXCEPT ![u] = EmptyDirectory]
                                 ELSE chunks

\* blobs.commit: an existing destination stands if its bytes verify, an
\* absent one takes the uploaded directory by rename. Anything else fails.
PlaceUpload(u, k) ==
  \/ /\ dest[k] # None /\ Verified(dest[k])
     /\ DiscardUpload(u)
     /\ UNCHANGED dest
  \/ /\ dest[k] = None /\ u \in incoming
     /\ dest' = [dest EXCEPT ![k] = u]
     /\ incoming' = incoming \ {u}
     /\ UNCHANGED chunks

CannotPlace(u, k) == IF dest[k] = None THEN u \notin incoming
                                       ELSE ~Verified(dest[k])

CommitPlace(r) ==
  LET u == job[r].upload
      k == job[r].key
  IN  /\ pc[r] = "awaitStore"
      /\ StoreFree
      /\ \/ /\ OverQuota(k)
            /\ DiscardUpload(u)
            /\ Goto(r, "refuse")
            /\ storeLock' = r
            /\ UNCHANGED <<dest, blobLock, job>>
         \/ /\ ~OverQuota(k)
            /\ PlaceUpload(u, k)
            /\ Goto(r, "retain")
            /\ storeLock' = r
            /\ UNCHANGED <<blobLock, job>>
         \/ /\ ~OverQuota(k)
            /\ CannotPlace(u, k)
            /\ Answer(r)
            /\ blobLock' = None
            /\ UNCHANGED <<disk, storeLock>>
      /\ UNCHANGED <<store, sweep, env>>

\* A refused upload's row goes after its bytes.
CommitRefuse(r) ==
  /\ pc[r] = "refuse"
  /\ DropUpload(job[r].upload)
  /\ Answer(r)
  /\ storeLock' = None /\ blobLock' = None
  /\ UNCHANGED <<lease, snapshots, outcomes, disk, sweep, env>>

\* Three statements, each its own transaction: the snapshot's row, the
\* upload's row, the outcome.
CommitRetain(r) ==
  /\ pc[r] = "retain"
  /\ snapshots' = [snapshots EXCEPT ![job[r].key] = "live"]
  /\ Goto(r, "drop")
  /\ UNCHANGED <<uploads, lease, outcomes, disk, locks, job, sweep, env>>

CommitDrop(r) ==
  /\ pc[r] = "drop"
  /\ DropUpload(job[r].upload)
  /\ Goto(r, "outcome")
  /\ UNCHANGED <<lease, snapshots, outcomes, disk, locks, job, sweep, env>>

CommitOutcome(r) ==
  /\ pc[r] = "outcome"
  /\ outcomes' = outcomes \cup {job[r].upload}
  /\ Answer(r)
  /\ storeLock' = None /\ blobLock' = None
  /\ UNCHANGED <<uploads, lease, snapshots, disk, sweep, env>>

-----------------------------------------------------------------------------
(* POST /v1/erasures *)

\* One reference, or every one of the holder's.
Scopes == {{k} : k \in Keys} \cup {{k \in Keys : k[1] = h} : h \in Holders}

EraseLockBlobs(r, scope) ==
  /\ "erase" \in Ops
  /\ BlobsFree
  /\ Begin(r, "decide", [NoJob EXCEPT !.scope = scope])
  /\ blobLock' = r
  /\ UNCHANGED <<store, disk, storeLock, sweep, env>>

\* Mutant: an erasure with nothing to unlink keeps the lock.
EraseDecideKeepsLock(r) ==
  LET doomed == job[r].scope \cap LiveKeys
  IN  /\ pc[r] = "decide"
      /\ StoreFree
      /\ snapshots' = [k \in Keys |-> IF k \in doomed THEN "erased"
                                                      ELSE snapshots[k]]
      /\ IF doomed = {}
         THEN Answer(r)
         ELSE Goto(r, "unlink") /\ job' = [job EXCEPT ![r].scope = doomed]
      /\ UNCHANGED <<uploads, lease, outcomes, disk, locks, sweep, env>>

\* commit_erasure marks every live row in scope in one transaction. A scope
\* with none is answered from what the rows and receipts still say.
EraseDecide(r) ==
  LET doomed == job[r].scope \cap LiveKeys
  IN  /\ pc[r] = "decide"
      /\ StoreFree
      /\ snapshots' = [k \in Keys |-> IF k \in doomed THEN "erased"
                                                      ELSE snapshots[k]]
      /\ IF doomed = {}
         THEN Answer(r) /\ blobLock' = None
         ELSE /\ Goto(r, "unlink")
              /\ job' = [job EXCEPT ![r].scope = doomed]
              /\ UNCHANGED blobLock
      /\ UNCHANGED <<uploads, lease, outcomes, disk, storeLock, sweep, env>>

\* Bytes last, each snapshot in turn, by its name.
EraseUnlink(r) ==
  /\ pc[r] = "unlink"
  /\ \E k \in job[r].scope :
       /\ IF dest[k] # None THEN UnlinkChunks(dest[k]) ELSE UNCHANGED chunks
       /\ job' = [job EXCEPT ![r].key = k]
  /\ Goto(r, "rmdir")
  /\ UNCHANGED <<store, incoming, dest, locks, sweep, env>>

\* A directory that is not empty stays: the failure is logged.
RmdirDest(k) ==
  dest' = IF dest[k] # None /\ chunks[dest[k]] = EmptyDirectory
          THEN [dest EXCEPT ![k] = None] ELSE dest

\* The lock goes with the last one, unless the client hung up and took the
\* handler, and the lock, with it: the blocking task runs on.
EraseRmdir(r) ==
  LET rest == job[r].scope \ {job[r].key}
  IN  /\ pc[r] = "rmdir"
      /\ RmdirDest(job[r].key)
      /\ IF rest = {}
         THEN /\ Answer(r)
              /\ blobLock' = IF blobLock = r THEN None ELSE blobLock
         ELSE /\ Goto(r, "unlink")
              /\ job' = [job EXCEPT ![r].scope = rest, ![r].key = None]
              /\ UNCHANGED blobLock
      /\ UNCHANGED <<store, incoming, chunks, storeLock, sweep, env>>

-----------------------------------------------------------------------------
(* GET /v1/snapshots/{digest} and /v1/exports/{digest} *)

DownloadRow(r, k) ==
  /\ "download" \in Ops
  /\ StoreFree
  /\ Live(k)
  /\ Begin(r, "paths", [NoJob EXCEPT !.key = k])
  /\ UNCHANGED <<store, disk, locks, sweep, env>>

\* chunk_paths, unlocked: served when whole, reported lost when not.
DownloadPaths(r) ==
  /\ pc[r] = "paths"
  /\ IF Whole(dest[job[r].key]) THEN Answer(r)
                                ELSE Goto(r, "mark") /\ UNCHANGED job
  /\ UNCHANGED <<store, disk, locks, sweep, env>>

\* Mutant: the row is marked without waiting for the store.
DownloadMarkAnyTime(r) ==
  /\ pc[r] = "mark"
  /\ MarkUnavailable(job[r].key)
  /\ Answer(r)
  /\ UNCHANGED <<uploads, lease, outcomes, disk, locks, sweep, env>>

\* Back under the store lock, with what was seen before.
DownloadMark(r) ==
  /\ pc[r] = "mark"
  /\ StoreFree
  /\ MarkUnavailable(job[r].key)
  /\ Answer(r)
  /\ UNCHANGED <<uploads, lease, outcomes, disk, locks, sweep, env>>

-----------------------------------------------------------------------------
(* sweep::reconcile, its steps (1) to (4) *)

SweepGoto(there) == sweep' = [sweep EXCEPT !.pc = there]

\* Mutant: only the grants whose directory is there are listed.
SweepExpiredOnDisk ==
  /\ sweep.pc = "sleep"
  /\ StoreFree
  /\ sweep' = [IdleSweep EXCEPT !.pc = "expired",
                 !.uploads = {u \in incoming : Granted(u) /\ lease[u] = "expired"}]
  /\ UNCHANGED <<store, disk, locks, pc, job, env>>

\* (1) The grants that ran out, listed under the store lock.
SweepExpired ==
  /\ sweep.pc = "sleep"
  /\ StoreFree
  /\ sweep' = [IdleSweep EXCEPT !.pc = "expired",
                 !.uploads = {u \in UploadIds : Granted(u) /\ lease[u] = "expired"}]
  /\ UNCHANGED <<store, disk, locks, pc, job, env>>

\* Their bytes go first, holding no lock and asking nothing again.
SweepExpiredUnlink ==
  /\ sweep.pc = "expired"
  /\ \E u \in sweep.uploads :
       IF u \in incoming
       THEN /\ UnlinkChunks(u)
            /\ sweep' = [sweep EXCEPT !.pc = "expiredRmdir", !.upload = u,
                                      !.uploads = @ \ {u}]
       ELSE /\ sweep' = [sweep EXCEPT !.pc = "expiredDrop", !.upload = u,
                                      !.uploads = @ \ {u}]
            /\ UNCHANGED chunks
  /\ UNCHANGED <<store, incoming, dest, locks, pc, job, env>>

SweepExpiredRmdir ==
  /\ sweep.pc = "expiredRmdir"
  /\ IF CanRmdirIncoming(sweep.upload)
     THEN incoming' = incoming \ {sweep.upload} /\ SweepGoto("expiredDrop")
     ELSE UNCHANGED incoming /\ SweepGoto("expired")
  /\ UNCHANGED <<store, dest, chunks, locks, pc, job, env>>

SweepExpiredDrop ==
  /\ sweep.pc = "expiredDrop"
  /\ StoreFree
  /\ DropUpload(sweep.upload)
  /\ SweepGoto("expired")
  /\ UNCHANGED <<lease, snapshots, outcomes, disk, locks, pc, job, env>>

\* (2) Directories under incoming/ with no grant behind them.
SweepWalkIncoming ==
  /\ sweep.pc = "expired" /\ sweep.uploads = {}
  /\ sweep' = [sweep EXCEPT !.pc = "orphan", !.uploads = incoming, !.upload = None]
  /\ UNCHANGED <<store, disk, locks, pc, job, env>>

SweepOrphanRow ==
  /\ sweep.pc = "orphan"
  /\ StoreFree
  /\ \E u \in sweep.uploads :
       sweep' = [sweep EXCEPT !.uploads = @ \ {u}, !.upload = u,
                              !.pc = IF Granted(u) THEN "orphan" ELSE "orphanUnlink"]
  /\ UNCHANGED <<store, disk, locks, pc, job, env>>

SweepOrphanUnlink ==
  /\ sweep.pc = "orphanUnlink"
  /\ IF sweep.upload \in incoming
     THEN UnlinkChunks(sweep.upload) /\ SweepGoto("orphanRmdir")
     ELSE UNCHANGED chunks /\ SweepGoto("orphan")
  /\ UNCHANGED <<store, incoming, dest, locks, pc, job, env>>

SweepOrphanRmdir ==
  /\ sweep.pc = "orphanRmdir"
  /\ incoming' = IF CanRmdirIncoming(sweep.upload)
                 THEN incoming \ {sweep.upload} ELSE incoming
  /\ SweepGoto("orphan")
  /\ UNCHANGED <<store, dest, chunks, locks, pc, job, env>>

\* (3) Rows whose bytes are absent or incomplete.
SweepClaim ==
  /\ sweep.pc = "orphan" /\ sweep.uploads = {}
  /\ StoreFree
  /\ sweep' = [sweep EXCEPT !.pc = "verify", !.keys = LiveKeys, !.upload = None]
  /\ UNCHANGED <<store, disk, locks, pc, job, env>>

SweepVerifyLock ==
  /\ sweep.pc = "verify"
  /\ BlobsFree
  /\ \E k \in sweep.keys :
       sweep' = [sweep EXCEPT !.pc = "verifyRow", !.key = k, !.keys = @ \ {k}]
  /\ blobLock' = Sweeper
  /\ UNCHANGED <<store, disk, storeLock, pc, job, env>>

\* Mutant: what the work list said is marked without another look.
SweepVerifyRowBlindly ==
  /\ sweep.pc = "verifyRow"
  /\ StoreFree
  /\ MarkUnavailable(sweep.key)
  /\ blobLock' = None
  /\ SweepGoto("verify")
  /\ UNCHANGED <<uploads, lease, outcomes, disk, storeLock, pc, job, env>>

\* Mutant: a destination that is there passes, whatever it holds.
SweepVerifyRowByName ==
  /\ sweep.pc = "verifyRow"
  /\ StoreFree
  /\ IF Live(sweep.key) /\ dest[sweep.key] = None
     THEN MarkUnavailable(sweep.key) ELSE UNCHANGED snapshots
  /\ blobLock' = None
  /\ SweepGoto("verify")
  /\ UNCHANGED <<uploads, lease, outcomes, disk, storeLock, pc, job, env>>

\* Re-checked, inspected and marked under the blob lock.
SweepVerifyRow ==
  /\ sweep.pc = "verifyRow"
  /\ StoreFree
  /\ IF Live(sweep.key) /\ ~Whole(dest[sweep.key])
     THEN MarkUnavailable(sweep.key) ELSE UNCHANGED snapshots
  /\ blobLock' = None
  /\ SweepGoto("verify")
  /\ UNCHANGED <<uploads, lease, outcomes, disk, storeLock, pc, job, env>>

\* Mutant: an erased or unavailable row protects its destination too.
SweepSurveyEveryRow ==
  /\ sweep.pc = "verify" /\ sweep.keys = {}
  /\ StoreFree
  /\ sweep' = [sweep EXCEPT !.pc = "walkRetained", !.key = None,
                 !.keys = {k \in Keys : snapshots[k] # "never"}]
  /\ UNCHANGED <<store, disk, locks, pc, job, env>>

\* (4) Destinations with no live row. The live set is read once, then the
\* disk is walked.
SweepSurvey ==
  /\ sweep.pc = "verify" /\ sweep.keys = {}
  /\ StoreFree
  /\ sweep' = [sweep EXCEPT !.pc = "walkRetained", !.keys = LiveKeys, !.key = None]
  /\ UNCHANGED <<store, disk, locks, pc, job, env>>

SweepWalkRetained ==
  /\ sweep.pc = "walkRetained"
  /\ sweep' = [sweep EXCEPT !.pc = "stray",
                 !.keys = {k \in Keys : dest[k] # None} \ sweep.keys]
  /\ UNCHANGED <<store, disk, locks, pc, job, env>>

SweepStrayLock ==
  /\ sweep.pc = "stray"
  /\ BlobsFree
  /\ \E k \in sweep.keys :
       sweep' = [sweep EXCEPT !.pc = "strayRow", !.key = k, !.keys = @ \ {k}]
  /\ blobLock' = Sweeper
  /\ UNCHANGED <<store, disk, storeLock, pc, job, env>>

\* Mutant: the live set read before the walk decides.
SweepStrayRowUnread ==
  /\ sweep.pc = "strayRow"
  /\ StoreFree
  /\ SweepGoto("strayUnlink")
  /\ UNCHANGED <<store, disk, locks, pc, job, env>>

\* The row decides, read again under the lock the unlink is done under.
SweepStrayRow ==
  /\ sweep.pc = "strayRow"
  /\ StoreFree
  /\ IF Live(sweep.key)
     THEN SweepGoto("stray") /\ blobLock' = None
     ELSE SweepGoto("strayUnlink") /\ UNCHANGED blobLock
  /\ UNCHANGED <<store, disk, storeLock, pc, job, env>>

SweepStrayUnlink ==
  /\ sweep.pc = "strayUnlink"
  /\ IF dest[sweep.key] # None THEN UnlinkChunks(dest[sweep.key])
                               ELSE UNCHANGED chunks
  /\ SweepGoto("strayRmdir")
  /\ UNCHANGED <<store, incoming, dest, locks, pc, job, env>>

SweepStrayRmdir ==
  /\ sweep.pc = "strayRmdir"
  /\ RmdirDest(sweep.key)
  /\ blobLock' = None
  /\ SweepGoto("stray")
  /\ UNCHANGED <<store, incoming, chunks, storeLock, pc, job, env>>

SweepDone ==
  /\ sweep.pc = "stray" /\ sweep.keys = {}
  /\ sweep' = IdleSweep
  /\ UNCHANGED <<store, disk, locks, pc, job, env>>

-----------------------------------------------------------------------------
(* What happens to the operator *)

\* A commit of u, or the giving up of one, that is past the expiry check.
PastCheck(u) == \E r \in Requests :
                  job[r].upload = u /\ pc[r] \in CommitPcs \cup AbandonPcs

\* The clock passes a grant's expires_at.
GrantExpires(u) ==
  /\ lease[u] = "running"
  /\ Granted(u)
  /\ LateCommits \/ ~PastCheck(u)
  /\ lease' = [lease EXCEPT ![u] = "expired"]
  /\ UNCHANGED <<uploads, snapshots, outcomes, disk, locks, pc, job, sweep, env>>

\* The process dies and starts again: rows and files stay as they are.
Crash ==
  /\ crashes < MaxCrashes
  /\ crashes' = crashes + 1
  /\ pc' = [r \in Requests |-> "idle"]
  /\ job' = [r \in Requests |-> NoJob]
  /\ sweep' = IdleSweep
  /\ storeLock' = None /\ blobLock' = None
  /\ UNCHANGED <<store, disk, disconnects>>

\* The client hangs up: the handler is dropped at the await it is at, with
\* the guards it holds. What the blocking pool is doing is not dropped.
Disconnect(r) ==
  /\ disconnects < MaxDisconnects
  /\ disconnects' = disconnects + 1
  /\ \/ /\ pc[r] \in {"arrival", "digest", "awaitBlobs", "awaitStore",
                      "abandonDrop", "decide", "mark"}
        /\ Answer(r)
     \/ /\ pc[r] \in {"unlink", "rmdir"}
        /\ UNCHANGED <<pc, job>>
  /\ blobLock' = IF blobLock = r THEN None ELSE blobLock
  /\ UNCHANGED <<store, disk, storeLock, sweep, crashes>>

-----------------------------------------------------------------------------
(* Specification *)

Init ==
  /\ uploads = [u \in UploadIds |-> None]
  /\ lease = [u \in UploadIds |-> "unissued"]
  /\ snapshots = [k \in Keys |-> "never"]
  /\ outcomes = {}
  /\ incoming = {}
  /\ dest = [k \in Keys |-> None]
  /\ chunks = [u \in UploadIds |-> EmptyDirectory]
  /\ storeLock = None /\ blobLock = None
  /\ pc = [r \in Requests |-> "idle"]
  /\ job = [r \in Requests |-> NoJob]
  /\ sweep = IdleSweep
  /\ crashes = 0 /\ disconnects = 0

Request(r) ==
  \/ \E u \in UploadIds, k \in Keys : PreflightGrant(r, u, k)
  \/ \E u \in UploadIds, c \in Chunks, b \in Payloads : PutCheck(r, u, c, b)
  \/ \E u \in UploadIds : CommitCheck(r, u)
  \/ \E scope \in Scopes : EraseLockBlobs(r, scope)
  \/ \E k \in Keys : DownloadRow(r, k)

PutStep(r) == PutRead(r) \/ PutCreate(r) \/ PutFill(r)

CommitStep(r) ==
  \/ CommitArrival(r) \/ CommitDigest(r)
  \/ Abandon(r) \/ AbandonRmdir(r) \/ AbandonDrop(r)
  \/ CommitLockBlobs(r) \/ CommitPlace(r) \/ CommitRefuse(r)
  \/ CommitRetain(r) \/ CommitDrop(r) \/ CommitOutcome(r)

EraseStep(r) == EraseDecide(r) \/ EraseUnlink(r) \/ EraseRmdir(r)

DownloadStep(r) == DownloadPaths(r) \/ DownloadMark(r)

HandlerStep(r) == PreflightRow(r) \/ PutStep(r) \/ CommitStep(r)
                    \/ EraseStep(r) \/ DownloadStep(r)

SweepStep ==
  \/ SweepExpired \/ SweepExpiredUnlink \/ SweepExpiredRmdir \/ SweepExpiredDrop
  \/ SweepWalkIncoming \/ SweepOrphanRow \/ SweepOrphanUnlink \/ SweepOrphanRmdir
  \/ SweepClaim \/ SweepVerifyLock \/ SweepVerifyRow
  \/ SweepSurvey \/ SweepWalkRetained \/ SweepStrayLock \/ SweepStrayRow
  \/ SweepStrayUnlink \/ SweepStrayRmdir \/ SweepDone

Next ==
  \/ \E r \in Requests : Request(r) \/ HandlerStep(r) \/ Disconnect(r)
  \/ SweepStep
  \/ \E u \in UploadIds : GrantExpires(u)
  \/ Crash

Spec == Init /\ [][Next]_vars

\* Tasks run until they are done, and both locks are first come, first
\* served, so a task that keeps finding one free gets it in the end. The
\* sweep's timer always fires again. Nothing obliges a client to call.
Fairness == /\ \A r \in Requests : SF_vars(HandlerStep(r))
            /\ SF_vars(SweepStep)

FairSpec == Spec /\ Fairness

-----------------------------------------------------------------------------
(* Properties *)

\* Every variable holds a value of its kind.
TypeOK ==
  /\ uploads \in [UploadIds -> Keys \cup {None}]
  /\ lease \in [UploadIds -> {"unissued", "running", "expired"}]
  /\ snapshots \in [Keys -> {"never", "live", "erased", "unavailable"}]
  /\ outcomes \subseteq UploadIds
  /\ incoming \subseteq UploadIds
  /\ dest \in [Keys -> UploadIds \cup {None}]
  /\ chunks \in [UploadIds -> [Chunks -> ChunkStates]]
  /\ storeLock \in Requests \cup {None}
  /\ blobLock \in Requests \cup {None, Sweeper}
  /\ pc \in [Requests -> RequestPcs]
  /\ job \in [Requests -> Jobs]
  /\ sweep \in Sweeps
  /\ crashes \in 0 .. MaxCrashes
  /\ disconnects \in 0 .. MaxDisconnects

\* The operator never says "retained" about bytes it does not hold: a live
\* row's destination has every chunk, and they hash to the digest. (sweep.rs
\* on the word `retained`; the order of writes in commit and erase.)
RetainedHasBytes == \A k \in Keys : Live(k) => Verified(dest[k])

\* However many uploads were granted against a count that had not moved, a
\* holder never has more live snapshots than the quota (the re-check in
\* commit, with the retain in the same critical section).
QuotaHeld == \A h \in Holders : Usage(h) <= MaxRetained

\* A reference has at most one open grant: only expiry releases the first
\* (preflight's resume, before everything else).
OneOpenGrant ==
  \A u, v \in UploadIds :
    (/\ Granted(u) /\ lease[u] = "running"
     /\ Granted(v) /\ lease[v] = "running"
     /\ uploads[u] = uploads[v]) => u = v

\* While a commit is about to answer "retained" the row says so: nothing can
\* erase it or give it up in between (commit holds both locks to the end).
RetainedIsTrueWhenSaid ==
  \A r \in Requests : pc[r] \in {"drop", "outcome"} => Live(job[r].key)

\* What the sweep takes from incoming/ is never an open grant's, although it
\* walks the disk and unlinks without the lock preflight writes under.
SweepSparesOpenGrants ==
  sweep.pc \in {"expiredRmdir", "expiredDrop", "orphanUnlink", "orphanRmdir"}
    => ~(Granted(sweep.upload) /\ lease[sweep.upload] = "running")

\* A row stops being live because its holder erased it, or because the bytes
\* are not there at that moment: never on an older look at the disk.
RetentionKept ==
  [][\A k \in Keys : Live(k) /\ ~Live(k)' =>
       snapshots[k]' = "erased" \/ ~Whole(dest[k])]_vars

\* A live row whose bytes are gone, however they went, is given up in the end
\* and not reported as retained forever (step 3 of the sweep).
LostBytesNoticed ==
  \A k \in Keys : (Live(k) /\ ~Whole(dest[k])) ~> (~Live(k) \/ Whole(dest[k]))

\* Bytes at a destination whose row is not live (a crash after the rename,
\* a crash or a failure while unlinking an erasure) go in the end.
StrayBytesCollected ==
  \A k \in Keys : (dest[k] # None /\ ~Live(k)) ~> (dest[k] = None \/ Live(k))

\* A grant that ran out leaves neither a row nor a directory behind.
ExpiredGrantsCollected ==
  \A u \in UploadIds : (lease[u] = "expired") ~> (~Granted(u) /\ u \notin incoming)

\* Every handler gets the locks it waits for and answers.
RequestsAnswered == \A r \in Requests : (pc[r] # "idle") ~> (pc[r] = "idle")

=============================================================================
