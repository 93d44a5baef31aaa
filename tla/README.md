# Verification of onym-backup

TLA+ models of the onym-backup retention operator, the TLC runs that check them
on small instances and the TLAPS proofs that hold for every instance. Every
definition is a translation of code under `src/operator/src`; `PROJECT.json`
maps each one to the lines it stands for, names the runs, the theorems, the
hazards they are aimed at, and the disagreements between code and
documentation that came up while modelling.

Contents: [the system](#1-the-system), [what must be true of it](#2-what-must-be-true),
[the modules](#3-the-modules), [the runs](#4-the-runs), [the proofs](#5-the-proofs),
[disagreements](#6-where-code-and-documentation-disagree),
[limits](#7-what-is-not-modelled), [the plan](#8-plan).

## 1. The system

One process (axum on tokio) that keeps sealed snapshots for *holders*, who are
public keys. It has two stores: SQLite for the bookkeeping and a directory tree
for the bytes. Nothing makes the two atomic; all of the design is about the
order in which they are written and who can look in between.

| part | file | state it keeps | operations |
|---|---|---|---|
| upload handlers | `uploads.rs` | locals of a request | `preflight`, `put_chunk`, `commit` (with `abandon`), `list`, `download` |
| erasure handler | `erasures.rs` | locals of a request | `erase`, receipts composed and signed before the rows change |
| blob store | `blobs.rs` | `incoming/<upload>/<chunk>`, `holders/<handle>/<digest>/<chunk>` | `begin_upload`, `write_chunk`, `arrival`, `digest_of`, `commit`, `discard_upload`, `chunk_paths`, `erase`, two walks |
| bookkeeping | `store.rs` | tables `uploads`, `snapshots`, `operation_outcomes`, `erasure_receipts`, `receipt_snapshots`, `seen_nonces`, `holder_entitlements`, `lapse_state`, `revocation_cache`, `terms_documents` | one method per statement or transaction |
| sweep | `sweep.rs` | the work lists of one pass | `reconcile`, at boot and every hour |
| lapse | `lapse.rs` | none: derived from entitlements and pinned terms | `evaluate`, `require`, `post_grace_due`, `derive_lapse_state` |
| entitlements | `entitlements.rs` | table `holder_entitlements` | `register`, `presented`, `verify` |
| revocation | `revocation.rs`, `main.rs` | the epoch in force, the cached epoch | `install`, `fetch`, `health`, the poll loop |
| request authentication | `auth.rs`, `payload.rs` | table `seen_nonces` | `authenticate` |
| shared state | `api.rs` | the mutexes `store` and `blob_mutations` | routing, health |
| export | `export.rs` | none | manifest, snapshot, receipts |
| outcome lookup | `operations.rs` | none | `query` |
| documents, configuration, errors | `documents.rs`, `config.rs`, `error.rs` | none after boot | canonical bytes, signatures, parsing |

**How they interact.** Handlers are tokio tasks; all of them and the sweep share
one `Mutex<Store>` and one `Mutex<()>` on blob mutations. Disk work runs on the
blocking pool (`blocking`, `uploads.rs:519`), and most of it holds no lock:
chunks are written, counted and hashed with nothing held. `commit` and `erase`
take the blob lock and then the store's. The sweep takes the store lock in short
bursts and walks the disk without it; it takes the blob lock for steps (3) and
(4) only.

**What is hard about it.**

- *Interleaving.* A commit's hash, a sweep's list and a download's look at the
  disk are all read without a lock and used later.
- *Failure between two steps.* A crash leaves bytes without a row or a row
  without bytes. A client that hangs up drops the handler's future, with the
  guards in it, while what it sent to the blocking pool runs on.
- *Ordering of writes.* `retain`, `drop_upload`, `record_outcome` are three
  transactions; an erasure marks its rows first and unlinks afterwards; the
  sweep unlinks an expired grant first and drops its row afterwards.
- *Time.* A grant runs out while its commit is hashing. A lapse is derived from
  the latest horizon any record declares, and the record itself ages out. What
  is remembered of an erasure ages out in three tables and two statements, and
  a handler stamps what it writes with a clock it read before it waited.
- *Numbers.* Windows come from the environment, are doubled and subtracted from
  the clock, declared in the terms in the largest unit that fits and read back
  from there by two other functions.

## 2. What must be true

| part | properties |
|---|---|
| uploads, blobs, sweep | a row that says retained has its verified bytes; the quota holds; a reference has one open grant, which its holder can finish; lost bytes are noticed and stray bytes collected; every handler answers |
| erasures | a row stops being live only by its holder's erasure or by the loss of its bytes; the bytes of an erased row go |
| lapse | a snapshot is expired only after its own terms' window, counted from the latest horizon the operator still knows; no snapshot whose holder lapsed is held for ever; the request path and the sweep agree |
| revocation | a revocation that is on disk ends only by a newer epoch; a restart does not forget what was served; "current" means recent |
| receipts | every remembered erasure has its receipt; a repeated erasure is answered with the receipts of the latest erasure that covers it, and says `receipt_expired` only if they aged out |
| terms | what a snapshot, a grant or a receipt pins can be fetched for ever |
| nonces | a signed request is honoured once, however often it arrives |
| windows | a window that a boot accepts can be swept, and is declared as it is enforced; nothing is remembered past its window for ever |

Seen from outside, the first two rows come to one promise, which `Retention`
states with no handler, lock or file in it and `Vault` is shown to keep. The third
comes to another, which `Tenancy` states with no credential, table, revocation or
sweep in it and `Lapse` is shown to keep. The fifth comes to a third: `Evidence`
says what must be remembered of each digest and for how long, with no handler,
restart or sweep in it, and `Receipts` is shown to keep it.

## 3. The modules

| module | what it is |
|---|---|
| `Vault` | the vault: rows, directories, the two locks, every handler that writes them, the sweep, crashes and disconnections |
| `Retention` | the abstract vault: what a holder is told, which bytes are held, and what may change either |
| `VaultRefinement` | the mapping from `Vault` to `Retention`, and the property that one implements the other |
| `Lapse` | payment: credentials, revocation, the derived lapse row, the windows each snapshot's terms promise, and the sweep's steps (0), (3b), (3c), (3d) |
| `Tenancy` | the abstract tenancy: what each holder paid for, under which terms each snapshot is kept, and what may change either |
| `LapseRefinement` | the mapping from `Lapse` to `Tenancy`, and the property that one implements the other |
| `Receipts` | what is remembered after the fact: erased and lost rows, receipts and their coverage, outcomes, terms documents, restarts under other terms, steps (6-7) and (8) |
| `Evidence` | the abstract record: what became of each digest, what was signed of it, and when either may be forgotten |
| `ReceiptsRefinement` | `Receipts` seen as `Evidence`, and the property that one implements the other |
| `Revocation` | the broker's epochs: fetched out of order, in force in memory, cached in SQLite, read back at boot, reported by health |
| `Figures` | the operator's arithmetic on time: integers and timestamps of fixed width, windows from the configuration, durations written and read back |
| `Replay` | authentication: freshness, nonces, step (5), and the windows that boots accept |
| `MCVault`, `MCLapse`, `MCReceipts`, `MCRevocation`, `MCReplay` | the sets TLC's configurations are built from, and the symmetry |
| `VaultProofs`, `VaultSafety`, `VaultRetention` | of `Vault`: type correctness; the invariants that hold whatever the environment does; retained means the bytes are there, and what ends a retention |
| `VaultRefinementProofs` | `Vault` implements `Retention`, and what `Retention` alone is worth |
| `LapseProofs` | type correctness; that a horizon is neither lost nor moved back, nobody who pays is lapsed, every window is honoured, by the sweep and at the gate; `Lapse` implements `Tenancy`, and what `Tenancy` alone is worth |
| `ReceiptsProofs` | type correctness, pinned terms, erasures and their receipts, outcomes, evidence; `Receipts` implements `Evidence`, and what `Evidence` alone is worth |
| `RevocationProofs` | type correctness; that revocations stand and "current" means recent |
| `ReplayProofs` | type correctness; that requests are honoured once and repeats are told by themselves; that the sweep's floors can always be computed, and windows are read back as they are enforced |

The modules meet in tables and nowhere else, which is how the code's own parts
meet. `Vault` is the operator that takes no payment and `Lapse` the one that
does: a commit that `Vault` ends in a live row is one action of `Lapse`, and a
row that `Lapse` marks expired is one whose directory step (4) of `Vault`
collects. An erasure whose rows `Vault` marks under its two locks is the one
action of `Receipts` that also signs and records; the row of a lost snapshot,
`Lose` there, is `DownloadMark` or `SweepVerifyRow` of `Vault`. `Lapse` installs
any set of revoked ids at any time, so what it shows holds for every behaviour
of `Revocation`. The nonce of `Replay` is written by every authenticated request
before any of the handlers above begins.

### Vault: state

| variable | in the code |
|---|---|
| `uploads[u]` | the row of table `uploads`: the reference (holder, digest) a grant is for, `None` without a row |
| `lease[u]` | the row's `expires_at` against the clock: not minted, running, past it |
| `snapshots[k]` | the row of table `snapshots`: none, live, `erased_at` set, `unavailable_at` set |
| `outcomes` | table `operation_outcomes`, as far as commits write it |
| `incoming` | the directories under `incoming/` |
| `dest[k]` | the directory at `holders/<handle>/<digest>` |
| `chunks[u]` | the chunk files of a directory: absent, being written, written with good or bad bytes |
| `storeLock`, `blobLock` | the mutexes of `AppState`, where they are held across a step |
| `pc[r]`, `job[r]` | the place and the locals of the request in slot `r` |
| `sweep` | the place and the work lists of the pass |
| `crashes`, `disconnects` | counters that bound the environment |

A directory is named by the upload it was made for, which `rename` does not
change. That is how a file handle and a `remove_dir_all` behave that reached the
directory under the old name, and two of the runs below depend on it.

### Vault: actions

An action is what a task does between two points where another can run. A
critical section of the store lock is one action when the database is all it
touches, and several with `storeLock` held where a crash can fall between its
statements. `remove_dir_all` is two: the files, then the directory, which fails
if something was put back.

| handler | actions, in order |
|---|---|
| preflight | `PreflightGrant` (the directory, under the lock), `PreflightRow` |
| put_chunk | `PutCheck` (the row), `PutRead`, `PutCreate` (`create_new`), `PutFill` (`write_all`, `sync_all`) |
| commit | `CommitCheck`, `CommitArrival`, `CommitDigest`, `CommitLockBlobs`, `CommitPlace` (quota, rename), `CommitRetain`, `CommitDrop`, `CommitOutcome`; `CommitRefuse` over the quota; `Abandon`, `AbandonRmdir`, `AbandonDrop` when the bytes are wrong |
| erase | `EraseLockBlobs`, `EraseDecide`, then `EraseUnlink`, `EraseRmdir` for each snapshot |
| download, export | `DownloadRow`, `DownloadPaths` (no lock), `DownloadMark` |
| sweep (1) | `SweepExpired`, `SweepExpiredUnlink`, `SweepExpiredRmdir`, `SweepExpiredDrop` |
| sweep (2) | `SweepWalkIncoming`, `SweepOrphanRow`, `SweepOrphanUnlink`, `SweepOrphanRmdir` |
| sweep (3) | `SweepClaim`, `SweepVerifyLock`, `SweepVerifyRow` |
| sweep (4) | `SweepSurvey`, `SweepWalkRetained`, `SweepStrayLock`, `SweepStrayRow`, `SweepStrayUnlink`, `SweepStrayRmdir`, `SweepDone` |
| environment | `GrantExpires`, `Crash`, `Disconnect` |

What is abstracted: a chunk's bytes are the ones that fit the digest (`good`) or
others (`bad`), so `digest_of` succeeds exactly when every chunk is good. A file
that is created and not yet full is `torn`: `arrival` counts its chunk as there
and its length is short, which is how `chunk_paths` and `commit` see it. An
uploads row is reduced to its reference; sizes, counts and terms are constants
of a digest. The operator is a free one, for which `lapse::require` lets every
request through and steps (0) and (3b) to (3d) of the sweep do nothing.

### Vault: parameters and assumptions

`Holders`, `Digests`, `UploadIds`, `Chunks`, `Requests`, `MaxRetained` are the
system's. `Ops`, `Payloads`, `Overlap`, `LateCommits`, `MaxCrashes` and
`MaxDisconnects` say what the environment does in a run: which operations
clients call, whether two requests on one upload are in flight together, whether
a grant may run out while its commit is past the expiry check.

- `QuotaAssumption`: the quota is a positive number (`config.rs` refuses others).
- `FiniteAssumption`: references and upload ids are finite in number, so that
  rows can be counted.
- `ChunksAssumption`: a snapshot has a first chunk; preflight refuses a sealed
  size of nothing.
- `EnvironmentAssumption`, `NamesAssumption`: the parameters are of their kinds
  and `None` and the sweeper are not names of something else.

### Lapse: state

| variable | in the code |
|---|---|
| `clock` | the system clock, in ticks |
| `records` | table `holder_entitlements`: id, holder, start and expiry of each |
| `lapse[h]` | the row of table `lapse_state`: when the holder lapsed, when the last window closes, what happens then |
| `revoked` | the ids in the epoch in force (`AppState`) |
| `snapshots[k]` | the terms a live snapshot pins, or that it is absent or expired |
| `grants[k]` | the row of table `uploads`: the terms it will pin and its expiry |
| `inserted` | the credential of a registration between its two statements |
| `sweep` | the place, the clock reading and the work lists of the pass |
| `paid[h]` | history, not in the code: the latest expiry the holder ever registered |
| `crashes`, `failures` | counters that bound the environment |

`LifecycleHorizon(h)` is what everything else is measured from: the latest
expiry among the records, revoked ones included, and the derived row once there
are no records. `WindowEnd(k, at)` adds the window of the terms that snapshot
pins. `Entitled`, `Permits`, `Due` and `LapseStates` are `lapse.rs` on top of
these.

### Lapse: actions

| part | actions |
|---|---|
| registration | `Register` and `RegisterForget`, the two statements of `register_entitlement`, between which a crash can fall |
| requests | `Preflight` (gated), `GrantEnds`, `Commit` (not gated: its grant authorizes it), `Erase` (gated, open in a grace whose terms say so) |
| revocation | `InstallEpoch`: any set of ids replaces the one in force |
| sweep (0) | `SweepBegin`, `SweepDue` (one holder's due snapshots, under one hold of the lock), `SweepExpire` (each marked under another) |
| sweep (3b) | `SweepLosing`, `SweepDerive` (the row is written), `SweepDropRecords` (the records go), `SweepSuperseded` |
| sweep (3c) | `SweepUnrecorded`, `SweepAdopt` |
| sweep (3d) | `SweepLapsed`, `SweepRetire`, `SweepDone` |
| environment | `Tick`, `Crash` |

A list the sweep makes under one hold of the lock and acts on under another is a
field of `sweep`, as old in the model as in the code. A write that fails is
`Fails`: the code logs it and skips what depends on it. A read that fails has
the effect of a holder skipped, which a failing write has too.

What is abstracted: a terms document is its window (notice and grace together),
the operations it keeps open in grace and what it does afterwards, `erase` or a
state this operator does not implement. Time is a tick, coarse enough that an
expiry, a window and a revocation interval are a few of them. Bytes, chunks and
receipts are not here. The operations of `lapse.rs` are three sets, those that
are never closed, the one that is closed even in grace, and those that terms may
keep open; `Permits(h, op)` is the whole of `require`. A download changes nothing
here and has no action; what the gate answers to it is what it answers to an
erasure, and `Erase` has that.

### Lapse: parameters and assumptions

`Holders`, `Digests`, `Credentials`, `Terms` with `Window`, `DuringGrace` and
`AfterGrace`, `PollInterval` and `GrantLife` are the system's. `RenewalRaces` and
`TornRegistrations` say what the environment does: whether a holder may register
while the sweep acts on a list made before, whether a crash may fall between the
two statements of a registration. `MaxTime`, `MaxCrashes` and `MaxFailures` bound
a run.

- `CredentialsAssumption`: a credential belongs to a holder and expires no
  earlier than it starts.
- `TermsAssumption`: each document has a window, operations and an end.
- `BoundsAssumption`: durations are numbers, a grant lasts at least a tick, and
  `MaxExpiry` and `MaxWindow` bound expiries and windows.
- `DistinctAssumption`: `None` and the names of states that are not live are
  not names of something else.

### Retention and the mapping

`Retention` has two variables: `status`, what a holder is told of each reference
(never, retained, erased, unavailable), and `bytes`, the references whose
verified bytes are held. Bytes may come (`Receive`) and go (`Dispose`) while
nobody is told they are retained; a holder is told (`Retain`) only of bytes that
are there and within the quota; an erasure (`Erase`) is of one snapshot or of all
that are retained, in one step. Nothing else happens.

`VaultRefinement` maps `status` to what the row of each reference says (`Told`)
and `bytes` to the references whose destination holds every chunk, verified
(`Possessed`). `incoming/`, grants, locks, work lists and handlers are not seen.
So the three actions of an erasure map to one `Erase` and to one `Dispose` for
each directory, at the moment its files go; a commit maps to `Receive` at its
rename and `Retain` at its insert; nearly everything else stutters.

### Tenancy and the mapping

`Tenancy` has three variables: the clock, `paid`, the moment each holder is paid up
to, and `kept`, the terms each snapshot is kept under or what became of it. A
holder pays (`Pay`), never for the past; something is retained (`Retain`) only
while they are paid up or a grant drawn then may still last, and never in place
of what is kept; they take back one snapshot or all of them (`TakeBack`); the
operator gives one up (`GiveUp`) only if its terms say that it goes, and after
their window. Nothing else happens: no step changes the terms of what is kept.

`LapseRefinement` maps `kept` to `snapshots`, and clock and payments to themselves.
Credentials, their revocation, the lapse rows, grants, the sweep's lists and
failures are not seen, and none of them may matter. A registration is a `Pay`
when it shows a later expiry than any before; a commit is a `Retain`, by a grant
and not by a payment; an erasure is one `TakeBack`; each mark of step (0) is a
`GiveUp`. Everything else stutters, most of the sweep included.

### Receipts: state

Every statement here is for one holder's handle, so the module is one holder.

| variable | in the code |
|---|---|
| `clock` | the system clock |
| `current` | the terms this boot publishes (`Documents`) |
| `published` | table `terms_documents` |
| `rows[d]` | the row of table `snapshots`: live, erased or lost, the terms it pins, when it was erased |
| `grants[d]` | the row of table `uploads`, and whether its bytes were moved already |
| `receipts` | tables `erasure_receipts` and `receipt_snapshots`: scope, terms, moment, coverage |
| `outcomes[op]` | table `operation_outcomes` |
| `tasks[r]` | place and locals of the request in slot `r`, its reading of the clock among them |
| `locked` | the handler that holds both locks over several statements |
| `sweep` | the place of the pass and the reading its floors come from |
| `boots`, `failures` | counters that bound the environment |

### Receipts: actions

| part | actions |
|---|---|
| preflight | `Preflight`: a new grant pins the terms of the boot; `GrantEnds` |
| commit | `CommitBegin`, `CommitRefused`, `CommitRetain`, `CommitDrop`, `CommitOutcome`: three statements between which a crash can fall |
| erase | `EraseBegin` (the clock is read), then one of `EraseMint` (rows, receipts, coverage and outcome in one transaction), `EraseReplay`, `EraseRefused` |
| loss | `Lose`: `mark_unavailable`, by a download or the sweep |
| sweep | `SweepBegin`, `SweepMetadata` (6-7), `SweepReferences` (8) |
| environment | `Tick`, `Restart` under any terms |

`Decision` is the order of the branches of the handler, `Newest` is
`latest_receipts_for_erased_scope`. What a holder can read (`TermsServed`,
`ListedTerms`, `ContainerTerms`, `Fetched`, `Reconciled`) are the read routes, as
definitions, since they change nothing. A receipt's id is random and stands for
the erasure and the terms, which is what `ReceiptId` is; two erasures have two
readings of the clock. Signatures, wording and the deadline are left out.

### Evidence and the mapping

`Evidence` has three variables: the clock, `rows`, what became of each digest under
which terms and when, and `receipts`, what was signed. Something is retained
(`Retain`) or found lost (`Lose`); an erasure (`Erase`) is of one digest or of all
that are retained, at one moment later than every moment that is on record,
and signs one receipt for each terms document, of what was retained and of
nothing else. Receipts are forgotten (`ForgetReceipts`) by age: as of some moment
that has passed, all that are past their window and no other, so that an older
one never outlives a newer one. An erasure is forgotten (`ForgetErased`) past its
own window and never before the last receipt that covers it.

`ReceiptsRefinement` maps each of the three to the variable of its name in
`Receipts`. Grants, outcomes, published terms, handlers, locks, the sweep's place
and restarts are not seen. `CommitRetain` is a `Retain` unless the row is live
already, `EraseMint` an `Erase` at its handler's reading of the clock, `SweepMetadata`
a `ForgetReceipts` as of the sweep's reading, `SweepReferences` a `ForgetErased`, and
whatever reads the clock is a `Tick`. A retry stutters: it signs nothing.

### Revocation: state and actions

`documents` are the epochs brokers ever signed, `pins` the issuers in the
configuration, `current` the epoch in force with the moment it was fetched,
`cache` the table `revocation_cache`, `poll` the place of the polling task.

| part | actions |
|---|---|
| broker | `Publish`: the next number, any list |
| poll | `FetchBegin`, then `FetchInstalled` (in force in memory) or `FetchKept` (no answer, a bad one, an older one), `CacheInsert`, `CacheDelete`; `CacheFails` |
| process | `Restart`: the row of the highest number, if it verifies; or none, when the table cannot be read |
| environment | `Tick` |

A fetch may bring what was replaced no more than `Lag` ago: the age a cache in
front of the URL may have and the time an answer takes. A document is its
issuer, number and list; whether it verifies is whether its issuer is pinned.

### Replay and Figures: state and actions

`config` is what a boot accepted, `signed[r]` the timestamp a holder signed a
request with, `seen[r]` its row in `seen_nonces`, `handlers[h]` the copy in a slot
with its reading of the clock, `honoured[r]` how often it was honoured (history,
not in the code), `sweep` the floor of the pass.

| part | actions |
|---|---|
| clients | `Sign` with any clock, `Arrive` any number of times |
| `authenticate` | `Honour` (fresh, not seen, recorded), `Refuse` |
| sweep (5) | `SweepBegin` (only if both floors can be computed), `SweepNonces` |
| environment | `Tick`, `Restart` with any configuration that `from_env` accepts |

`Figures` has the arithmetic: `CheckedMul`, `CheckedAdd` and `AsSigned` of an
integer of fixed width, `CheckedSub` of a timestamp, `ParsePastWindow` of
`config.rs`, `IsoDuration` and `DurationSeconds` of `documents.rs`, `Iso8601Days` of
`erasures.rs`. A duration is the sequence of its items, not its text. The word
`none`, which stands for no window, is not one.

### Parameters and assumptions of Receipts, Revocation and Replay

- `Receipts`: the three windows; `InOrder`, whether erasures take the locks in the
  order of their clocks; `MaxWait`, how long a handler may take; `MayLose`, which
  bytes may be found absent. `WindowsAssumption`: the two windows of what is kept
  long are positive (`config.rs` refuses others).
- `Revocation`: `PollInterval`; `Lag`; `MayRepin`, whether a restart may come with
  another issuer. `IntervalAssumption`: the interval is positive.
- `Replay`: `Skews` and `Polls`, what an operator may configure; `Stamps`, what a
  client's clock may say; `Prompt`, whether a request is decided before a later
  sweep gets to the nonces; `MayReconfigure`. `Figures` adds the width of integers,
  the last timestamp, the ticks in a second and the units, each a multiple of
  the one before (`WidthAssumption`, `UnitsAssumption`).
- `MaxTime`, `MaxBoots`, `MaxFailures` and `MaxEpoch` bound a run; each module's
  `EnvironmentAssumption` says what kind they are.

## 4. The runs

| run | what is checked | bounds | result |
|---|---|---|---|
| `vault_orderly` | `TypeOK`, `RetainedHasBytes`, `OneOpenGrant`, `RetentionKept`, `PromiseKept` | 2 digests, 2 uploads, 1 chunk, 2 requests, quota 2, good and bad bytes, 2 crashes, no download, no overlap, no late commit, no disconnection | holds, 0.8 million states |
| `vault_hostile` | `QuotaHeld`, `SweepSparesOpenGrants`, `RetainedIsTrueWhenSaid` | 2 digests, 2 uploads, 2 chunks, 2 requests, quota 1, every operation, good bytes only, overlap, late commits, 1 disconnection | holds, 1.9 million states |
| `vault_progress` | `LostBytesNoticed`, `StrayBytesCollected`, `ExpiredGrantsCollected`, `RequestsAnswered` | 1 digest, 1 upload, 1 chunk, 2 requests, every operation, overlap, late commits, 1 crash, 1 disconnection; `FairSpec` | holds, 0.1 million states |
| `lapse_terms` | `TypeOK`, `NobodyPayingIsLapsed`, `GraceHonoured`, `HorizonKept`, `TenancyKept` | 1 holder, 2 digests, 2 credentials that overlap, 2 terms, time 0 to 5, 1 crash, 1 failed write, no renewal races, no torn registration | holds, 0.8 million states |
| `lapse_progress` | `HorizonFound`, `DueIsExpired`, `RecordsAgeOut`, `RowsRetire` | 1 holder, 1 digest, 2 credentials, terms that erase and terms that keep, time 0 to 5, 1 crash, 1 failed write, renewal races and torn registrations; `FairSpec` | holds, 0.2 million states |
| `receipts` | `TypeOK`, `PinnedTermsKept`, `ErasedIsReceipted`, `LatestErasureAnswered`, `EvidenceNotDenied`, `OutcomeLeadsToReceipt`, `EvidenceKept` | 2 digests, 2 terms, 1 operation id, 2 requests at a time, windows of 1 and upload outcomes of 0, time 0 to 3, 1 restart, nothing lost, nothing fails | holds, 1.3 million states |
| `receipts_progress` | `TracesAgeOut`: `ReceiptsAgeOut`, `OutcomesAgeOut` and `ReferencesAgeOut` | 1 digest, 1 terms, 1 operation id, time 0 to 3, 1 restart, 1 failed statement, bytes may be lost; `FairSpec` | holds, 0.04 million states |
| `revocation` | `TypeOK`, `CurrentIsRecent`, `NeverUnrevoked`, `RevocationReaches`, `EpochIsSaved` | 1 issuer, 1 id, 2 epochs, interval 1, lag 1, time 0 to 4, 2 restarts, 1 failure; `FairSpec` | holds, 0.07 million states |
| `replay` | `TypeOK`, `AtMostOnce`, `OnlyItselfRepeats`, `SweepIsPossible`, `DeclaredIsEnforced`, `NoncesAgeOut` | 2 holders who draw the same nonce, 2 copies in flight, clocks before and after, skews 1 and 6 of which the first boot accepts one, 16-valued half of the integers, timestamps 0 to 30, time 10 to 13, 1 restart; `FairSpec` | holds, 0.05 million states |
| `vault_late_commit` | `RetainedHasBytes` | as orderly with late commits | violated |
| `lapse_stale_list` | `WindowHonoured` | 1 digest, renewal races, nothing fails | violated |
| `revocation_repinned` | `NeverUnrevoked` | 2 issuers, restarts that change the pin, no time passes, nothing fails | violated |

**Why these bounds.** Every interaction in the code is between two requests, or
one and the sweep, over one reference or two: locks are global, directories are
per upload, and a handler never touches more than one upload. Two upload ids
are needed for an upload, an erasure and a second upload of the same digest, two
digests for the quota and for an erasure of everything, two chunks for a
directory that is half there. The two safety runs share the rest. What
`vault_orderly` checks is about bytes: it has bad ones, and one chunk, which is
there, not there, or wrong, since the code asks of a directory only whether all of it
fits. What `vault_hostile` checks is about rows, locks and grants: it has two
chunks, so that requests overlap on an upload half done, and good bytes. One
crash leaves each intermediate state behind; the second falls into what the
sweep does about the first. A bound that matters
is named in the module, and the theorems remove it for all safety properties.

In `Lapse` one holder is enough: no statement of the code and no property relates
two, except that the sweep's lists hold several, and what it does for one holder
does not read what it did for another. Two digests under two terms are needed
for windows that end apart and for a snapshot that keeps open in grace what another closes,
two credentials that overlap for a revocation that
leaves the earlier one and for a renewal before the end. The windows are 1 and 2
ticks, grants last 3, so that a grant outlives records and windows: with
`PollInterval` 0 a record is dropped on the tick after its expiry. Every
credential expires by 3 and the last grant is minted at 2, so by time 5 a window
counted from any expiry has closed, every grant has run out, and the sweep can
have run after each. A snapshot adopted late has a window beyond the bound; what
ends it is checked for the ones adopted earlier. `WindowHonoured` is not in
`lapse_terms`: `TenancyKept`, which is, implies it (`TenancySuffices`), and
`lapse_stale_list` shows it broken.

In `receipts`, two digests are an erasure of one, of the other and of all, in any
order, with uploads in between, and two terms are two receipts from one erasure
and a restart under other terms. Two requests are an erasure that waits while
another, or a commit, is at work. Three ticks are an erasure, a second one with
what was uploaded in between, and the pass that forgets the first and keeps the
second: what tells two receipts apart is their order, and the theorems cover
longer histories and any number of requests. The clock moves with every
erasure, as nanoseconds do. The windows of receipts and of
erased references are equal, as they are by default (`config.rs:217`). Losses are
in `receipts_progress`: they end in a row that no receipt is about.

In `revocation`, two epochs are one that revokes and one that does not, in either
order; the lag lets the first be fetched after the second; four ticks are two
intervals, the lag and one more; two restarts are one with and one without a
readable table. In `replay` the units are 2, 4 and 8 seconds, so that every
duration up to the clock is declared in one of the four, and timestamps end
close enough that the skew of 6, doubled, does not fit and has to be refused at
boot. The clock passes the two windows of the accepted skew and one tick more,
so that a nonce goes and its request comes again.

**Symmetry** permutes digests, uploads, chunks and requests of `Vault`, digests of
`Lapse` in `lapse_terms`, and digests, terms and requests of `Receipts`, which no
definition tells apart. The liveness runs and all others use none.

**Fairness** is strong for each handler and for the sweep, and nothing else. A
task on a tokio runtime runs until it is done, and both locks are tokio mutexes,
which are first come, first served: a task that finds a lock free again and
again gets it. Weak fairness would not do, since a lock is taken and let go
infinitely often by others. The sweep's loop waits for a timer that always fires
again (`main.rs`). No client has to call anything, so nothing is promised that
takes one. In `Lapse` the sweep is strongly fair for the same reason, and the
second statement of a registration, under a lock already held, is weakly fair.
Time need not pass and nobody has to pay: a liveness property starts from what
the clock has already reached.

In `Receipts` and `Replay` a handler is strongly fair and so is each statement of
the sweep, for the same reasons; the beginning of a pass, which waits for its
timer only, is weakly fair. A statement that can fail is fair as a whole: what
bounds its failures is `MaxFailures`. In `Revocation` the loop is weakly fair, and
what is promised rests on the world outside as well: that a fetch which brings
the newest epoch happens again and again, and that each write succeeds again and
again, are strong fairness. An operator whose broker is gone for ever makes no
such promise; `CurrentIsRecent`, which needs no fairness, is what it has.

**Deadlock** is checked in every run.

## 5. The proofs

`tlapm` checks every theorem to its last leaf. Those of `Vault` are stated for
any holders, digests, uploads, chunks, requests and quota, those of `Lapse` for
any credentials, terms, windows and intervals, those of `Receipts` for any
digests, terms, requests and windows, those of `Revocation` for any issuers and
epochs, those of `Replay` for any holders, nonces, handlers, windows and widths of
integers, all for any number of crashes or restarts.

Of `Vault`:

| theorem | says | assuming |
|---|---|---|
| `TypeCorrect` | `Spec => []TypeOK` | the assumptions of `Vault` |
| `GrantIsUnique` | `Spec => []OneOpenGrant` | the same |
| `QuotaIsHeld` | `Spec => []QuotaHeld` | the same |
| `AnswerIsTrue` | `Spec => []RetainedIsTrueWhenSaid` | the same |
| `SweepIsCareful` | `Spec => []SweepSparesOpenGrants` | the same |
| `LocksNeverCross` | `Spec => []LocksInOrder` | the same |
| `RetainedIsThere` | `Spec => []RetainedHasBytes` | `Orderly`: no overlap, no late commit, no disconnection |
| `RetentionEndsRightly` | `Spec => RetentionKept` | no download |
| `VaultKeepsPromise` | `Spec => PromiseKept` | `Orderly`, no download |
| `RetentionSuffices` | `[]TypeOK /\ PromiseKept => []RetainedHasBytes /\ []QuotaHeld /\ RetentionKept` | the assumptions of `Vault` |

The first six hold in every environment the module knows. The last speaks of
`Retention` and not of the steps of `Vault`. The three between carry hypotheses that are needed: with any one of them dropped TLC finds a property
broken (`vault_late_commit`, and the constants named in
[section 6](#6-where-code-and-documentation-disagree)).

**Safe** (`VaultSafety`) is inductive and gives the first six. Its parts, and
why a property alone is not inductive:

- `StoreLockOK`: a handler inside a critical section that spans steps holds the
  lock. What follows rests on this mutual exclusion.
- `LocksInOrder`: the converse, for both locks. Whoever holds the store lock is
  inside a section of it, where it waits for nothing; whoever holds the blob lock
  waits for the store at most; no answer, hang-up or crash leaves a lock behind.
  So requests and sweep cannot wait on each other in a circle, in any
  environment and for any number of requests. No run
  lists it: `vault_progress` has `RequestsAnswered` and the deadlock check for the
  same hazard, with two requests and the sweep, and every run of `Vault` the latter.
- `Grants`: between the directory and the row a grant is minted but not written,
  so `OneOpenGrant` needs to know that no other open grant of that reference
  exists while a preflight is there (`GrantStandsAlone`), and that an id not
  minted has neither row nor directory.
- `Retentions`: `QuotaHeld` is broken by `CommitRetain` unless there is room;
  `RoomToRetain` carries the outcome of the check in `CommitPlace` over to it.
  Nothing else may make a row live in between, which the lock gives.
- `SweepListsOK`: the sweep's lists are old. A listed grant stays expired, since
  a clock does not go back; an id found in `incoming/` without a row never gets
  one, since the directory is made under the lock that the row is written under.

**Promise** (`VaultRetention`) is inductive together with `Safe` and gives
`RetainedIsThere`. `HeldHasBytes` strengthens the property to the moment between
the rename and the row. A destination in use by an erasure or by step (4) has
no live row (`ErasingOK`, `StrayOK`), under the blob lock (`BlobLockOK`). What a
commit has verified is still verified when it is renamed (`CommitsVerified`),
because nobody else can reach the directory: its grant is still running
(`CommitsRunning`), its row is there (`CommitsGranted`), no other request works
on that upload (`UploadsAlone`), and a destination never shares a directory with
`incoming/` or with another destination (`DestOK`).

**The refinement** (`VaultRefinementProofs`) needs both and three facts more
(`Kept`): an erasure has one of the scopes a client can name until it decides
(`Scoped`), no file at a destination is still being written (`Settled`), and no
request is a download. `StepIsSeen` then goes through the actions. A step that
changes no row can only take bytes in, at the rename, or dispose of the bytes of
a reference that is not live, because `Promise` holds after the step as well; a
step that changes rows is an insert, which `QuotaHeld`'s strengthening gives the
room for, or an erasure, whose targets are one row or all live rows.

Of `Lapse`:

| theorem | says | assuming |
|---|---|---|
| `TypeCorrect` | `Spec => []TypeOK` | the assumptions of `Lapse` |
| `HorizonIsKept` | `Spec => HorizonKept` | `UniqueIds`: no two credentials under one id |
| `NobodyPayingLapses` | `Spec => []NobodyPayingIsLapsed` | `Undisturbed`: registrations keep away from what the sweep has listed, and none is torn |
| `WindowIsHonoured` | `Spec => WindowHonoured` | `UniqueIds`, `Undisturbed` |
| `GraceIsHonoured` | `Spec => []GraceHonoured` | the same |
| `LapseKeepsTenancy` | `Spec => TenancyKept` | the same |
| `TenancySuffices` | `TenancyKept => WindowHonoured` | the assumptions of `Lapse` |

The first six hold with revocations, crashes and failed writes anywhere, and the
first two of them with renewals that race the sweep and torn registrations as well.
Each assumption is needed, as section 6 shows: `HorizonKept` fails with a
credential reissued under its id, `NobodyPayingIsLapsed` and `WindowHonoured` when
a renewal races the sweep, and `WindowHonoured` when a registration is torn.
`TenancyKept` fails wherever `WindowHonoured` does, which is what `TenancySuffices` says.

`TypeOK` needs `ListedOK`: a row that step (3d) refreshes was there when it was
listed, or the moment it hands on would be nothing.

**Carried** (`LapseProofs`) is inductive and gives `HorizonKept`. A horizon passes
from the records to the row, and can be lost or moved back at the moments when
one of them is written or dropped:

- `DropOK`: when step (3b) drops the records of a holder, all of them go, and if
  anything is retained the row already says the expiry of the last of them. This
  is the order of writes that the code's comment at `sweep.rs:303` argues for.
- `RegistrationOK`: a registration drops the row only beside a record it has
  written, and never between the two writes of step (3b).
- `AdoptOK`: whoever is still to be adopted has no horizon to overwrite, unless
  they registered in the meantime, and then the record counts and not the row.
- `RetireOK`: a row still to be refreshed says what it said when it was listed,
  unless its holder registered; step (3d) writes the moment that it listed.
- `PastOK`: what is remembered of a lapse is in the past, so that a credential
  that is registered now, which has not expired, lies no earlier.

`Payers` adds to `NobodyPayingIsLapsed` that whoever steps (3c) and (3d) are about to
write a row for, from a list, does not pay (`PastListed`): a list is made of such
holders, and `Undisturbed` keeps them from registering until it is worked off.

**Reaching** is inductive beside `Carried` and gives `WindowHonoured`, which looks at
one step and speaks of every expiry a holder ever showed (`paid`). It says where
that expiry is to be found at each moment:

- `RecordsReach`, `UnrecordedPast`, `RowsReach`: a holder with records has it in one
  of them; one without has seen it pass before the sweep's pass began; a lapse row
  says it or a later moment. So step (3b) writes rows that are late enough, and
  step (3c), which writes its own pass's moment, does too.
- `ListedReach`: the same for what steps (3c) and (3d) have listed.
- `LiveUngranted`, `DueReach`: what step (0) has listed is over, and nothing else
  comes in its place before it is marked, though the lock is free in between. A
  commit would need a grant; there is none beside a live snapshot, and its holder
  cannot get one, because nobody whose every record ran out is entitled
  (`NotEntitled`).

The same invariant gives `GraceHonoured`. The gate counts from the horizon the
operator knows and the promise from the latest expiry ever shown; `HorizonReaches`
says that the first is no earlier, so a snapshot whose promised window runs is
in grace (`StillInGrace`) and what its terms keep open is allowed, whatever the
windows of the others. It is promised only while there is a horizon: a snapshot
committed after everything is gone has none until step (3c), and in that time its
holder is refused, as [section 6](#6-where-code-and-documentation-disagree) says.

**The refinement** of `Tenancy` adds `Paying`: a record's expiry is among those its
holder showed, and a grant runs out less than a grant's life after the latest of
them, because a preflight needs a credential that is good (`Entitled`, and not a
grace). With it `CommitSeen` finds each commit in time. `ExpireSeen` has what is due
from `DueReach`, which carries from the listing to the mark that the terms are
the same ones and say erase; `EraseSeen` finds an erasure's scope whole.
`StepIsSeen` joins them: `SnapshotSteps` says which actions touch a snapshot, and
`OnlyRegistering` which touch a payment or the clock.

`GreatestExists` and `LastExpiryIs` establish that the latest of some expiries
exists and is one of them, which the code gets from `MAX` in SQL.

Of `Receipts`:

| theorem | says | assuming |
|---|---|---|
| `TypeCorrect` | `Spec => []TypeOK` | the assumptions of `Receipts` |
| `PinnedTermsAreKept` | `Spec => []PinnedTermsKept` | the same |
| `ErasuresAreReceipted` | `Spec => []ErasedIsReceipted` | `InOrder` |
| `LatestErasureIsAnswered` | `Spec => []LatestErasureAnswered` | `InOrder` |
| `OutcomesLeadToReceipts` | `Spec => []OutcomeLeadsToReceipt` | the assumptions of `Receipts` |
| `EvidenceIsNotDenied` | `Spec => []EvidenceNotDenied` | `InOrder`, `ReceiptsGoFirst` |
| `ReceiptsKeepEvidence` | `Spec => EvidenceKept` | the same |
| `EvidenceSuffices` | `EvidenceKept => [](ErasedIsReceipted /\ LatestErasureAnswered /\ EvidenceNotDenied)` | the assumptions of `Receipts` |

`Pinned` is inductive for the second: what a commit in flight carries, and what a
boot offers, is published too. `Remembered` is inductive for the two after it. An
erased row and its receipt carry one reading of the clock, so they age together,
if later readings are told apart from earlier ones (`StampsOK`). `LatestOK` says
that the receipt of a row's own erasure is the last issued of all that cover it,
and the last to go; so the newest candidate is that one, unless none is left. A
receipt for one digest covers it (`CoverageOK`), which is why the two ways to be
a candidate agree. Without `InOrder`, `StampsOK` is lost.

`Named` is all that outcomes need: the sweep's clock is not ahead, so what it takes
is past its window. For `EvidenceIsNotDenied` a receipt has to go before the row it
covers, hence `ReceiptsGoFirst`: a handler is answered within the window of
receipts, that window is no longer than that of references, and no statement of
the sweep fails. `Evident` carries it through the pass: between the two statements
no receipt is left that is past its window, not even one signed in between with
an old reading of the clock, and whatever a receipt covers has a row (`Standing`).

**The refinement** of `Evidence` has one lemma for each action that is seen.
`MintIsSeen` has the moment of an erasure later than all on record from `StampsOK`,
and its receipts from `Minted`; `MetadataIsSeen` needs that the sweep's reading is not
ahead of the clock; `ReferencesAreSeen` needs `SweptUncovered`, that step (8) takes no
row a receipt still covers, which is where `Evident` and `ReceiptsGoFirst` come in.
Without either assumption the same traces that break the invariants in
[section 6](#6-where-code-and-documentation-disagree) are no behaviour of `Evidence`.

**What the abstract specifications are worth.** A refinement says no more than what
is refined to. `RetentionSuffices`, `TenancySuffices` and `EvidenceSuffices` start from the
abstract specification alone, and derive from it the properties a holder relies
on, by invariants of a few lines (`Sound`, `Reliable`) in which no handler, lock or
sweep occurs. `Reliable` has `LatestOK` and `CoverageOK` in common with the proof from
the code, so that `LatestFollows` and `EvidenceFollows` serve both. `RetentionSuffices`
takes the types of rows as well, since a row is mapped to what a holder is told.

Of `Revocation`:

| theorem | says | assuming |
|---|---|---|
| `TypeCorrect` | `Spec => []TypeOK` | the pins stay |
| `RevocationsStand` | `Spec => NeverUnrevoked` | the pins stay |
| `CurrentMeansRecent` | `Spec => []CurrentIsRecent` | the pins stay |

A broker's number names one document (`Numbered`), and memory and disk hold that
broker's only (`Pinned`). If the epoch in force is on disk, the row a restart reads
is of no lower number; if it is of the same number it is the same document.
`Timely` is what health rests on: when an epoch was fetched nothing newer had been
out for longer than the lag, and it keeps that moment on disk and through a boot.

Of `Replay`:

| theorem | says | assuming |
|---|---|---|
| `TypeCorrect` | `Spec => []TypeOK` | the assumptions of `Replay` and `Figures` |
| `RepeatsAreTheHoldersOwn` | `Spec => []OnlyItselfRepeats` | the same |
| `TermsDeclareWhatIsEnforced` | `Spec => []DeclaredIsEnforced` | the same |
| `SweepNeverRunsOut` | `Spec => []SweepIsPossible` | `PollsFit`: no poll interval reaches back before the first timestamp |
| `RequestsAreHonouredOnce` | `Spec => []AtMostOnce` | `Steady` |

The first three hold whatever is configured, restarted or delayed. `SweepNeverRunsOut`
carries from boot to boot that the configuration in force would be accepted
again (`AcceptedStaysSo`): time only adds room for a window. `PollsFit` is what the
code leaves to the operator, and TLC finds the property broken without it
(section 6). In `TermsDeclareWhatIsEnforced` a window is declared as one item, of
the largest unit that divides it (`DivExact`). `FoldOne` evaluates the fold of
`duration_seconds` over one item, which needs no induction: the library's fold is
a function on the subsets of the domain, and here that is `{1}`. Texts of several
items, which no boot of this operator writes, are not covered.

`Steady` is three things: whole seconds, `Prompt`, and one configuration. A request
that was honoured has its row, written within the window of its stamp
(`InWindow`), or is past its window for the clock and for every copy in flight
(`Past`). The sweep takes a row only when the floor, two windows back, has passed
it, and then the stamp, at most one window later than the row, is more than one
window old. Each part of `Steady` closes one way around this argument; that the
configuration is one cannot be weakened to a skew that only grows, or only shrinks
(section 6).

**Only model-checked**: the liveness properties, which rest on fairness and
`ENABLED`, beyond this prover. Every invariant, every action property and all three
refinements that a passing run checks are also proved.

## 6. Where code and documentation disagree

Three are runs that TLC ends with a short trace.

- `vault_late_commit`: a grant runs out while its commit is hashing. Step (1)
  of the sweep has listed it, empties its directory without a lock
  (`sweep.rs:160`), and the commit renames the emptied directory and answers
  retained. The header of `sweep.rs` says that every deletion re-checks the
  bookkeeping under the lock.
- `lapse_stale_list`: step (0) lists what is due under one hold of the lock and
  marks it under another without looking at the horizon again (`sweep.rs:142`).
  A renewal registered in between moves the horizon, and the snapshot of a
  holder who pays is marked and then collected. The same header of `sweep.rs`
  says the bookkeeping is re-checked.
- `revocation_repinned`: `cache_epoch` deletes rows of lower numbers only
  (`store.rs:917`) and `latest_epoch` returns the highest. After an operator pins
  another broker whose numbers are lower, the old broker's row stays on top of
  the new one; a restart reads it, ignores it as unverifiable (`main.rs:151`) and
  starts with no revocations, against `store.rs:907`.

The others are parameters. Each is off in the runs above; what it breaks, and how
to see it, is said here.

In `Vault`, with the constants of `vault_orderly`:

- *A client hangs up on an erasure* (`MaxDisconnects = 1`). The erasure's guard on
  blob mutations lives in the handler's future and the unlinking on the blocking
  pool. The guard goes and the unlinking goes on, next to a re-upload that
  `erasures.rs:62` says the lock keeps out: `RetainedHasBytes` fails.
- *Requests overlap on one upload* (`Overlap = TRUE`). A commit sent while the last
  chunk is being written sees a short file, takes it for a wrong size and gives
  the upload up (`uploads.rs:423`), unlocked; a second commit verifies the bytes
  and renames the directory the first is emptying: `RetainedHasBytes` fails.
- *A stale download* (`Ops <- EveryOp`). A download that looked at the disk between
  an erasure and a re-upload marks the new row unavailable (`uploads.rs:648`, the
  same in `export.rs`), and the sweep then deletes good bytes: `RetentionKept`
  fails.
- *A crashed commit.* After a crash between the rename and the insert the grant is
  open, has no directory and cannot be finished; preflight keeps returning it
  until it expires. The comment at `uploads.rs:137` calls finishing those bytes
  the bounded promise.

In `Lapse`:

- *A credential issued again under its id.* A registration replaces the record of
  its id, whichever of the two expires later (`store.rs:596`). A credential shown
  again after its renewal under the same id moves the horizon back, which the
  comment there gives as the very thing replacing avoids. `HorizonKept` fails with
  `Credentials <- Reissued`.
- *A payer adopted* (`RenewalRaces = TRUE`). Step (3c) adopts from its list (`sweep.rs:371`) and asks
  again only whether something is retained. A holder who registers in between
  keeps a lapse row beside a good record, against what `store.rs:690` and
  `store.rs:825` say of the two tables. `NobodyPayingIsLapsed` fails under
  `RenewalRaces`. The row does no harm while there is a record, and step (3b)
  overwrites it before the record goes, if anything is retained then.
- *A torn registration* (`TornRegistrations = TRUE`). `register_entitlement` writes two statements outside a
  transaction (`store.rs:595`). After a crash between them the old row stays. If
  nothing is retained when the records age out, step (3b) writes no new one, and
  a commit just before step (3d) is measured from the earlier lapse:
  `WindowHonoured` fails under `TornRegistrations`.

- *A late commit without a horizon.* Not a disagreement but worth knowing: a
  snapshot committed after its holder's records went has no horizon until step
  (3c) finds it, and in that time its holder is refused download and erasure both
  (`sweep.rs:344`). `HorizonFound` says that it ends.

In `Receipts`:

- *A retry is not always answered with its receipt.* The test at `erasures.rs:573`
  says that retrying an erasure returns the receipt already earned. In a scope of
  several digests of which one is erased and another lost, or where the erased
  one was uploaded again and then lost, the handler looks for what is lost first
  (`erasures.rs:101`) and answers `retention_expired`; the receipt is fetched by its
  id or by the operation's outcome. `LatestErasureAnswered` and `EvidenceNotDenied`
  say nothing of that answer.
- *Outcomes outlive receipts.* `store.rs:1273` says that an erasure's outcome must
  neither predecease nor outlive the receipts it names. A retry records an outcome
  of its own moment naming receipts of an earlier one (`erasures.rs:117`), which
  outlives them by as much. `OutcomeLeadsToReceipt` therefore counts from the
  receipts' moment.
- *The order of erasures* (`InOrder = FALSE`, two requests, `MaxWait = 3`). The clock is read
  before the locks are waited for (`erasures.rs:58`). An erasure that reads first
  and takes the locks second, with an upload in between, stamps the later erasure
  with the earlier moment, and a retry is answered with the receipt of the wrong
  one: `LatestErasureAnswered` fails. A clock that is set back would do the same.
- *One of two statements fails* (`MaxFailures = 1`), or the window of erased
  references is set shorter than that of receipts. A reference is forgotten while
  its receipt is kept, and a retry is told that there never was a snapshot:
  `EvidenceNotDenied` fails. The two windows are independent settings, equal by
  default.
- *Rows of lost snapshots stay.* They have no `erased_at`, so step (8) never takes
  them (`store.rs:1260`); `ReferencesAgeOut` is about erased ones.

In `Revocation`: a crash between putting an epoch in force and writing it is the
reason for the premise `Saved` of `NeverUnrevoked`: the restart may read an older
one, and a revocation that was served for a moment is gone until the next poll.
A table that cannot be read at boot gives no revocations at all, with a warning.

In `Replay`:

- *A request that waits longer than two windows* (`Prompt = FALSE`). `now` is read
  before the lock is waited for (`auth.rs:77`). A copy that read it early and waits
  behind a sweep two windows later is fresh by its own reading and finds no row:
  `AtMostOnce` fails.
- *Fractions of a second* (`Second = 2`, half seconds as ticks, with `Stamps = {13}` and
  time to 15). `whole_seconds` drops
  them (`payload.rs:127`), so a request is fresh for up to a second longer at each
  end than the sweep's floor allows for: `AtMostOnce` fails.
- *Another configuration* (`MayReconfigure = TRUE`). A boot with a smaller skew
  sweeps what a later boot with a larger one still honours: `AtMostOnce` fails. One
  change is enough in either direction. A request stamped three ahead and honoured
  under a skew of 3 has a row of three ticks ago when its stamp comes round, and a
  boot with a skew of 1 has swept it by then (`Skews = {1, 3}`, `Stamps = {13}`, time
  10 to 15).
- *A poll interval that no timestamp reaches* (`Polls = {12}`).
  `BACKUP_REVOCATION_POLL_SECS` is parsed as any positive number (`config.rs:164`)
  and turned into a signed one (`main.rs:225`), and the floor computed from it
  decides whether there is a sweep: `SweepIsPossible` fails, which
  `config.rs:307` says is refused at boot for every duration the sweep subtracts.

## 7. What is not modelled

- Disk and database calls that fail, except `remove_dir` on a directory that is
  not empty. Power loss with directory entries not yet synced.
- Bytes damaged at rest: `chunk_paths` compares lengths, and so does `Whole`.
- Preflight that resumes an open grant, and `list`: they change no state.
- Signatures, canonical bytes, formats, response bodies, the settings that are
  not windows, the error table, publication scripts: functions without state.
- The migrations of tables of earlier versions at boot (`store.rs:265` to 338):
  they run before anything is served.
- In `Lapse`: bytes, lost snapshots (step (3)) and the order of a registration's
  statements with the request that carried it, which is a `Register` of its own;
  the wait between reading the clock and taking the lock; terms without a clause
  on the end of payment, which `documents.rs` never builds;
  the signatures and the number of an epoch.
- In `Receipts`: bytes and payment; an operation id that a crash between
  `drop_upload` and `record_outcome` leaves unknown (`uploads.rs:491`) is a behaviour
  of the module, and no property, as nothing in the code promises otherwise.
- In `Revocation`: a mutex poisoned by a panic, after which `revoked` and `health`
  answer as if no epoch were there.
- In `Replay`: the signature itself; a request verifies if its holder signed it.
- In `Figures`: the text of a duration, and the word `none`.
- No module has the whole sweep. Its steps take locks of their own and hand nothing
  to one another but tables, except that they share one reading of the clock.

## 8. Plan

What is left, in order:

1. `ChargingVault`: `Vault` and `Lapse` together, for what a renewal racing step
   (0) does to bytes, and for the gate in front of an erasure.
2. The arrival ranges of `blobs.rs` as a function on chunks, against a reference
   definition.
3. Disk and database calls that fail in `Vault`; power loss between a rename and
   the directory's own sync.
4. The migrations, as steps between two shapes of the tables with a crash between
   any two.
