------------------------------ MODULE Revocation ------------------------------
(***************************************************************************)
(* The broker's revocation epoch as a charging operator keeps it: the      *)
(* epoch in force in memory, its rows in SQLite, the poll that replaces    *)
(* both, the restart that reads one back, and what /health says of it.     *)
(*                                                                         *)
(* An epoch is a numbered, signed list of the entitlements revoked so far. *)
(* What verify does with the list in force is in Lapse.                    *)
(***************************************************************************)
EXTENDS Naturals, FiniteSets

CONSTANTS
  Issuers,
  Ids,          \* entitlement ids
  PollInterval, \* revocation_poll_secs, in ticks
  None

\* What the environment does in a run.
CONSTANTS
  Lag,          \* ticks the URL may go on serving what was replaced
  MayRepin,     \* can a restart come with other pinned issuers
  MaxEpoch, MaxTime, MaxBoots, MaxFailures

ASSUME IntervalAssumption == PollInterval \in Nat \ {0}
ASSUME EnvironmentAssumption ==
         /\ MayRepin \in BOOLEAN
         /\ Lag \in Nat /\ MaxEpoch \in Nat /\ MaxTime \in Nat
         /\ MaxBoots \in Nat /\ MaxFailures \in Nat

VARIABLES
  clock,
  documents,  \* every epoch any broker ever signed
  pins,       \* config.entitlement_issuers
  current,    \* Revocation.current: an epoch and when it was fetched, or None
  cache,      \* table revocation_cache
  poll,       \* the place of the polling task
  boots, failures

vars == <<clock, documents, pins, current, cache, poll, boots, failures>>

-----------------------------------------------------------------------------
(* Values *)

Document == [issuer : Issuers, epoch : 1 .. MaxEpoch, revoked : SUBSET Ids,
             at : 0 .. MaxTime]

\* An epoch with the moment it was fetched at: what is in force, and a row.
Fetched == [document : Document, at : 0 .. MaxTime]

ASSUME NoneAssumption == None \notin Fetched

Of(i) == {d \in documents : d.issuer = i}

\* revoked: nothing, as long as no epoch was ever obtained.
Revoked == IF current = None THEN {} ELSE current.document.revoked

\* parse: any pinned issuer may have signed it.
Verifies(d, issuers) == d.issuer \in issuers

\* Mutant: the last epoch fetched is the one in force.
SupersedesAlways(d) == d.issuer \in Issuers

\* Mutant: the comparison is the wrong way round.
SupersedesOlder(d) == current # None => current.document.epoch >= d.epoch

\* Mutant: an epoch of the same number is ignored too.
SupersedesNewer(d) == current # None => current.document.epoch < d.epoch

\* install: older epochs are ignored, and one of the same number is not.
Supersedes(d) == current # None => current.document.epoch <= d.epoch

-----------------------------------------------------------------------------
(* The broker, and the URL *)

Publish(i, revoked) ==
  LET number == Cardinality(Of(i)) + 1
  IN  /\ number <= MaxEpoch
      /\ documents' = documents \cup {[issuer |-> i, epoch |-> number,
                                       revoked |-> revoked, at |-> clock]}
      /\ UNCHANGED <<clock, pins, current, cache, poll, boots, failures>>

\* What a fetch that ends now may bring: what a broker publishes, or a copy
\* of what it replaced no more than Lag ago.
Served(d) == \A e \in Of(d.issuer) : e.epoch > d.epoch => clock <= e.at + Lag

-----------------------------------------------------------------------------
(* The polling task *)

Goto(there) == poll' = there

FetchBegin ==
  /\ poll = "sleep"
  /\ Goto("fetch")
  /\ UNCHANGED <<clock, documents, pins, current, cache, boots, failures>>

\* No answer, one that does not verify, or an older epoch: all is kept as it
\* was, the moment of the last good fetch included.
FetchKept ==
  /\ poll = "fetch"
  /\ Goto("sleep")
  /\ UNCHANGED <<clock, documents, pins, current, cache, boots, failures>>

\* In force in memory first.
FetchInstalled(d) ==
  /\ poll = "fetch"
  /\ Served(d) /\ Verifies(d, pins) /\ Supersedes(d)
  /\ current' = [document |-> d, at |-> clock]
  /\ Goto("insert")
  /\ UNCHANGED <<clock, documents, pins, cache, boots, failures>>

\* Mutant: the row of an epoch fetched again is added to the one before.
CacheInsertAnother ==
  /\ poll = "insert"
  /\ cache' = cache \cup {current}
  /\ Goto("delete")
  /\ UNCHANGED <<clock, documents, pins, current, boots, failures>>

\* cache_epoch, its INSERT OR REPLACE.
CacheInsert ==
  /\ poll = "insert"
  /\ cache' = {row \in cache : row.document.epoch # current.document.epoch} \cup {current}
  /\ Goto("delete")
  /\ UNCHANGED <<clock, documents, pins, current, boots, failures>>

\* Its DELETE, a statement of its own.
CacheDelete ==
  /\ poll = "delete"
  /\ cache' = {row \in cache : row.document.epoch >= current.document.epoch}
  /\ Goto("sleep")
  /\ UNCHANGED <<clock, documents, pins, current, boots, failures>>

\* Either statement fails: a warning, and the epoch stays in force.
CacheFails ==
  /\ poll \in {"insert", "delete"}
  /\ failures < MaxFailures
  /\ failures' = failures + 1
  /\ Goto("sleep")
  /\ UNCHANGED <<clock, documents, pins, current, cache, boots>>

-----------------------------------------------------------------------------
(* The process *)

\* latest_epoch: the row of the highest number.
Latest == CHOOSE row \in cache : \A other \in cache :
            other.document.epoch <= row.document.epoch

\* Mutant: the epoch restored is as good as one just fetched.
RestoredNow(issuers) ==
  IF cache # {} /\ Verifies(Latest.document, issuers)
  THEN [Latest EXCEPT !.at = clock] ELSE None

\* main: one row is looked at, and left alone if it does not verify.
Restored(issuers) ==
  IF cache # {} /\ Verifies(Latest.document, issuers) THEN Latest ELSE None

\* The process dies anywhere, and boots: with its epoch, or with none when
\* the table cannot be read.
Restart(issuers) ==
  /\ boots < MaxBoots
  /\ boots' = boots + 1
  /\ issuers = pins \/ MayRepin
  /\ pins' = issuers
  /\ \/ current' = Restored(issuers) /\ UNCHANGED failures
     \/ /\ failures < MaxFailures
        /\ failures' = failures + 1
        /\ current' = None
  /\ Goto("sleep")
  /\ UNCHANGED <<clock, documents, cache>>

Tick ==
  /\ clock < MaxTime
  /\ clock' = clock + 1
  /\ UNCHANGED <<documents, pins, current, cache, poll, boots, failures>>

Age == clock - current.at

\* health, of an operator that charges.
Health ==
  IF current = None THEN "never_fetched"
  ELSE IF Age > 2 * PollInterval THEN "stale"
  ELSE "current"

-----------------------------------------------------------------------------
(* Specification *)

Init ==
  /\ clock = 0
  /\ documents = {}
  /\ pins \in {{i} : i \in Issuers}
  /\ current = None
  /\ cache = {}
  /\ poll = "sleep"
  /\ boots = 0 /\ failures = 0

Poll == \/ FetchBegin \/ FetchKept \/ (\E d \in documents : FetchInstalled(d))
        \/ CacheInsert \/ CacheDelete \/ CacheFails

Next ==
  \/ \E i \in Issuers, revoked \in SUBSET Ids : Publish(i, revoked)
  \/ Poll
  \/ \E i \in Issuers : Restart({i})
  \/ Tick

Spec == Init /\ [][Next]_vars

Newest(d) == \A e \in Of(d.issuer) : e.epoch <= d.epoch

\* The loop never ends, a fetch is answered often enough, with what the
\* broker publishes now, and the store works often enough.
FairSpec == /\ Spec
            /\ WF_vars(FetchBegin)
            /\ SF_vars(\E d \in documents : Newest(d) /\ FetchInstalled(d))
            /\ SF_vars(CacheInsert) /\ SF_vars(CacheDelete)

-----------------------------------------------------------------------------
(* Properties *)

\* Every variable holds a value of its kind, and the table one row of each
\* number (its primary key).
TypeOK ==
  /\ clock \in 0 .. MaxTime
  /\ documents \subseteq Document
  /\ pins \in SUBSET Issuers
  /\ current \in Fetched \cup {None}
  /\ cache \subseteq Fetched
  /\ \A a, b \in cache : a.document.epoch = b.document.epoch => a = b
  /\ poll \in {"sleep", "fetch", "insert", "delete"}
  /\ boots \in 0 .. MaxBoots /\ failures \in 0 .. MaxFailures

Saved == current # None /\ current \in cache

\* Once the epoch in force is on disk, no poll, no answer out of order and no
\* restart ends a revocation: only a newer epoch of a broker still pinned
\* does ("would honour a refund and then un-honour it").
NeverUnrevoked ==
  [][(Saved /\ current.document.issuer \in pins' /\ failures' = failures)
       => \A id \in Revoked \ Revoked' :
            current' # None /\ current'.document.epoch > current.document.epoch]_vars

\* A status of "current" bounds how late a revocation can be: what was
\* published two intervals ago, and reached the URL, is in force. A stuck
\* poll, and an old epoch read back at boot, are seen for what they are.
CurrentIsRecent ==
  Health = "current" =>
    \A d \in documents :
      (d.issuer \in pins /\ d.at + Lag + 2 * PollInterval < clock)
        => d.epoch <= current.document.epoch

\* What a broker published comes into force, through restarts and failures,
\* unless something newer does.
RevocationReaches ==
  \A i \in Issuers, n \in 1 .. MaxEpoch :
    (\E d \in documents : d.issuer = i /\ d.epoch = n /\ pins = {i})
      ~> (current # None /\ current.document.epoch >= n)

\* The epoch in force gets to the disk, also after a write that failed.
EpochIsSaved == (current # None) ~> Saved
===============================================================================
