-------------------------------- MODULE Lapse --------------------------------
(***************************************************************************)
(* Payment on an operator that charges: credentials that are registered,   *)
(* run out, are revoked and age out of the table, the derived lapse row    *)
(* that takes over from them, the snapshots whose own terms say how long   *)
(* they are kept after that, and the steps (0), (3b), (3c) and (3d) of the *)
(* sweep, each at the grain of its locks.                                  *)
(*                                                                         *)
(* Uploads are reduced to the grant: preflight mints one under the gate,   *)
(* and commit, which no gate stops, turns it into a snapshot that pins the *)
(* grant's terms. How bytes and rows follow one another is in Vault.       *)
(***************************************************************************)
EXTENDS Naturals, FiniteSets

CONSTANTS
  Holders, Digests,
  Credentials,      \* [id, holder, from, expires] that the broker may issue
  Terms,            \* terms documents, each snapshot pins one
  Window,           \* notice and grace of each, in ticks
  DuringGrace,      \* the operations each keeps open in its window
  AfterGrace,       \* "erase", or a state the operator does not implement
  PollInterval,     \* ticks between revocation epochs
  GrantLife,        \* ticks a grant lasts
  MaxExpiry,        \* bound on the expiry of the credentials
  MaxWindow,        \* bound on notice and grace
  None

\* What the environment does in a run.
CONSTANTS
  RenewalRaces,        \* may a holder register while the sweep acts on a list
  TornRegistrations,   \* may a crash fall between a registration's statements
  MaxTime, MaxCrashes, MaxFailures

Keys == Holders \X Digests
Ids == {c.id : c \in Credentials}

\* lapse.rs Operation: never closed, closed for the whole holder even in
\* grace, and named by terms as open in grace.
AlwaysAvailable == {"register", "upload", "commit", "list", "export", "reconcile"}
RefusedHolderWide == {"preflight"}
GraceTerms == {"download", "erase", "export"}

NotLive == {"absent", "expired"}

Grants == [terms : Terms, expires : Nat]
LapseRows == [at : Nat, ends : Nat, action : {"erase", "keep"}]

ASSUME CredentialsAssumption ==
         \A c \in Credentials :
           /\ c.holder \in Holders
           /\ c.from \in Nat /\ c.expires \in 0 .. MaxExpiry
           /\ c.from <= c.expires
ASSUME TermsAssumption ==
         /\ Window \in [Terms -> 0 .. MaxWindow]
         /\ DuringGrace \in [Terms -> SUBSET GraceTerms]
         /\ AfterGrace \in [Terms -> {"erase", "keep"}]
ASSUME BoundsAssumption ==
         /\ PollInterval \in Nat /\ MaxTime \in Nat
         /\ GrantLife \in Nat \ {0} /\ MaxExpiry \in Nat /\ MaxWindow \in Nat
         /\ MaxCrashes \in Nat /\ MaxFailures \in Nat
         /\ RenewalRaces \in BOOLEAN /\ TornRegistrations \in BOOLEAN
ASSUME DistinctAssumption ==
         /\ Terms \cap NotLive = {}
         /\ None \notin Terms \cup Credentials \cup Holders
         /\ None \notin Nat /\ None \notin Grants /\ None \notin LapseRows

VARIABLES
  clock,
  records,     \* table holder_entitlements
  lapse,       \* table lapse_state: a row of each holder, or None
  revoked,     \* the ids in the epoch in force
  snapshots,   \* the terms a live snapshot pins, or what became of it
  grants,      \* table uploads: the terms and the expiry of each grant
  inserted,    \* the credential of a registration between its statements
  sweep,       \* the sweep's place, its clock reading and work lists
  paid,        \* history: the latest expiry each holder ever registered
  crashes, failures

env  == <<crashes, failures>>
vars == <<clock, records, lapse, revoked, snapshots, grants, inserted, sweep,
          paid, env>>

-----------------------------------------------------------------------------
(* Derivations *)

Live(k) == snapshots[k] \in Terms

LiveOf(h) == {k \in Keys : k[1] = h /\ Live(k)}

Records(h) == {c \in records : c.holder = h}

LastExpiry(C) == CHOOSE t \in {c.expires : c \in C} : \A c \in C : c.expires <= t

\* store.rs entitlement_horizon, access: a record that is neither revoked
\* nor past its expiry.
Entitled(h) == \E c \in Records(h) : c.id \notin revoked /\ clock < c.expires

\* lapse.rs lifecycle_horizon: the records, revoked ones included, and the
\* derived row once they are gone.
LifecycleHorizon(h) ==
  IF Records(h) # {} THEN LastExpiry(Records(h))
  ELSE IF lapse[h] # None THEN lapse[h].at ELSE None

WindowEnd(k, lapsedAt) == lapsedAt + Window[snapshots[k]]

\* lapse.rs grace_from: the snapshots whose own window still runs.
InGrace(h) == LET at == LifecycleHorizon(h)
              IN  {k \in LiveOf(h) : at # None /\ clock < WindowEnd(k, at)}

\* Mutant: every snapshot in grace has to keep an operation open.
AllowedByAll(h) == {op \in GraceTerms : \A k \in InGrace(h) : op \in DuringGrace[snapshots[k]]}

\* lapse.rs evaluate and grace_from: what the windows that still run allow.
Allowed(h) == UNION {DuringGrace[snapshots[k]] : k \in InGrace(h)}

\* lapse.rs require.
Permits(h, op) ==
  \/ op \in AlwaysAvailable
  \/ Entitled(h)
  \/ op \notin RefusedHolderWide /\ op \in GraceTerms \cap Allowed(h)

\* lapse.rs post_grace_due.
Due(h, now) == LET at == LifecycleHorizon(h)
               IN  {k \in LiveOf(h) : /\ at # None /\ now >= at
                                      /\ now >= WindowEnd(k, at)}

\* lapse.rs lapse_state_at: the latest window end among the live snapshots,
\* one of those that share it; no row for a holder with none.
LapseStates(h, lapsedAt) ==
  {[at |-> lapsedAt, ends |-> WindowEnd(k, lapsedAt), action |-> AfterGrace[snapshots[k]]] :
     k \in {k \in LiveOf(h) : \A l \in LiveOf(h) : WindowEnd(l, lapsedAt) <= WindowEnd(k, lapsedAt)}}

-----------------------------------------------------------------------------
(* Requests *)

IdleSweep == [pc |-> "sleep", now |-> 0, holders |-> {}, keys |-> {},
              holder |-> None, rows |-> [h \in Holders |-> None]]

\* Both pairs of statements are made under one hold of the store lock.
StoreFree == inserted = None /\ sweep.pc # "drop"

\* Holders that the sweep will act on from a list it made earlier.
Listed == {k[1] : k \in sweep.keys}
            \cup (IF sweep.pc \in {"adopt", "retire"} THEN sweep.holders ELSE {})

\* Mutant: a grant that ran out still lets its commit in.
GrantedOnce(k) == grants[k] # None

\* store.rs open_grant_for, and the check a commit starts with.
Granted(k) == grants[k] # None /\ clock < grants[k].expires

\* entitlements.rs verify: both bounds are inclusive.
Valid(c) == c.from <= clock /\ clock <= c.expires /\ c.id \notin revoked

\* register_entitlement, by its route or by a header on a gated request: a
\* record replaces the one of its id, whichever expires later.
Register(c) ==
  /\ StoreFree
  /\ Valid(c)
  /\ RenewalRaces \/ c.holder \notin Listed
  /\ records' = {r \in records : r.id # c.id} \cup {c}
  /\ inserted' = c
  /\ paid' = [paid EXCEPT ![c.holder] = IF c.expires > @ THEN c.expires ELSE @]
  /\ UNCHANGED <<clock, lapse, revoked, snapshots, grants, sweep, env>>

\* Mutant: the row stays beside the new record.
RegisterForgetNothing ==
  /\ inserted # None
  /\ inserted' = None
  /\ UNCHANGED <<clock, records, lapse, revoked, snapshots, grants, sweep, paid, env>>

\* Its second statement: whoever pays has not lapsed.
RegisterForget ==
  /\ inserted # None
  /\ lapse' = [lapse EXCEPT ![inserted.holder] = None]
  /\ inserted' = None
  /\ UNCHANGED <<clock, records, revoked, snapshots, grants, sweep, paid, env>>

\* An open grant is resumed, which changes nothing. New retention is refused
\* holder-wide in grace. The terms are the ones published at the time.
Preflight(k, t) ==
  /\ StoreFree
  /\ ~Granted(k)
  /\ Permits(k[1], "preflight")
  /\ ~Live(k)
  /\ grants' = [grants EXCEPT ![k] = [terms |-> t, expires |-> clock + GrantLife]]
  /\ UNCHANGED <<clock, records, lapse, revoked, snapshots, inserted, sweep, paid, env>>

\* A grant that ran out, or was given up, loses its row.
GrantEnds(k) ==
  /\ StoreFree
  /\ grants[k] # None
  /\ grants' = [grants EXCEPT ![k] = None]
  /\ UNCHANGED <<clock, records, lapse, revoked, snapshots, inserted, sweep, paid, env>>

\* Mutant: the terms are read from the grant after it was closed.
CommitFromClosed(k) ==
  /\ StoreFree
  /\ Granted(k)
  /\ grants' = [grants EXCEPT ![k] = None]
  /\ snapshots' = [snapshots EXCEPT ![k] = IF Live(k) THEN @ ELSE grants'[k]]
  /\ UNCHANGED <<clock, records, lapse, revoked, inserted, sweep, paid, env>>

\* Always open: what authorizes a commit is its grant.
Commit(k) ==
  /\ StoreFree
  /\ Permits(k[1], "commit")
  /\ Granted(k)
  /\ snapshots' = [snapshots EXCEPT ![k] = IF Live(k) THEN @ ELSE grants[k].terms]
  /\ grants' = [grants EXCEPT ![k] = None]
  /\ UNCHANGED <<clock, records, lapse, revoked, inserted, sweep, paid, env>>

\* One reference, or everything the holder has.
Erase(h, scope) ==
  /\ StoreFree
  /\ Permits(h, "erase")
  /\ scope \cap LiveOf(h) # {}
  /\ snapshots' = [k \in Keys |-> IF k \in scope \cap LiveOf(h) THEN "absent"
                                                               ELSE snapshots[k]]
  /\ UNCHANGED <<clock, records, lapse, revoked, grants, inserted, sweep, paid, env>>

Scopes(h) == {{k} : k \in LiveOf(h)} \cup {LiveOf(h)}

\* A new epoch replaces the set of revoked ids.
InstallEpoch(ids) ==
  /\ revoked' = ids
  /\ UNCHANGED <<clock, records, lapse, snapshots, grants, inserted, sweep, paid, env>>

-----------------------------------------------------------------------------
(* The sweep *)

\* A statement that fails is logged and what depends on it skipped. A list
\* or a check that fails skips the same, so only writes fail here.
Fails == failures < MaxFailures /\ failures' = failures + 1 /\ UNCHANGED crashes

Works == UNCHANGED env

\* Past the bound on entitlement records.
Aged(c) == c.expires + PollInterval < sweep.now

\* Mutant: only holders with records are asked for what is due.
SweepBeginRecorded ==
  /\ sweep.pc = "sleep"
  /\ StoreFree
  /\ sweep' = [IdleSweep EXCEPT !.pc = "due", !.now = clock,
                 !.holders = {h \in Holders : LiveOf(h) # {} /\ Records(h) # {}}]
  /\ UNCHANGED <<clock, records, lapse, revoked, snapshots, grants, inserted, paid, env>>

SweepBegin ==
  /\ sweep.pc = "sleep"
  /\ StoreFree
  /\ sweep' = [IdleSweep EXCEPT !.pc = "due", !.now = clock,
                 !.holders = {h \in Holders : LiveOf(h) # {}}]
  /\ UNCHANGED <<clock, records, lapse, revoked, snapshots, grants, inserted, paid, env>>

\* (0) The snapshots of a holder whose own window closed, and whose terms
\* say what this operator can do.
SweepDue ==
  /\ sweep.pc = "due"
  /\ StoreFree
  /\ \E h \in sweep.holders :
       LET due == {k \in Due(h, sweep.now) : AfterGrace[snapshots[k]] = "erase"}
       IN  sweep' = [sweep EXCEPT !.holders = @ \ {h}, !.keys = due,
                                  !.pc = IF due = {} THEN "due" ELSE "expire"]
  /\ UNCHANGED <<clock, records, lapse, revoked, snapshots, grants, inserted, paid, env>>

\* Marked one by one, each under the lock again, from that list.
SweepExpire ==
  /\ sweep.pc = "expire"
  /\ StoreFree
  /\ \E k \in sweep.keys :
       /\ sweep' = [sweep EXCEPT !.keys = @ \ {k},
                                 !.pc = IF sweep.keys = {k} THEN "due" ELSE "expire"]
       /\ \/ /\ snapshots' = [snapshots EXCEPT ![k] = IF Live(k) THEN "expired" ELSE @]
             /\ Works
          \/ Fails /\ UNCHANGED snapshots
  /\ UNCHANGED <<clock, records, lapse, revoked, grants, inserted, paid>>

\* store.rs holder_losing_entitlements.
Losing(h) == Records(h) # {} /\ \A c \in Records(h) : Aged(c)

\* (3b) Holders whose every record is past the bound, listed first.
SweepLosing ==
  /\ sweep.pc = "due" /\ sweep.holders = {}
  /\ StoreFree
  /\ sweep' = [sweep EXCEPT !.pc = "losing", !.holders = {h \in Holders : Losing(h)}]
  /\ UNCHANGED <<clock, records, lapse, revoked, snapshots, grants, inserted, paid, env>>

\* Asked again under the lock. The row that carries the horizon over is
\* written before the records go; if it fails they stay.
SweepDerive ==
  /\ sweep.pc = "losing"
  /\ StoreFree
  /\ \E h \in sweep.holders :
       LET rows == LapseStates(h, LifecycleHorizon(h))
           next(there) == sweep' = [sweep EXCEPT !.holders = @ \ {h}, !.holder = h,
                                                 !.pc = there]
       IN  \/ ~Losing(h) /\ next("losing") /\ Works /\ UNCHANGED lapse
           \/ Losing(h) /\ rows = {} /\ next("drop") /\ Works /\ UNCHANGED lapse
           \/ /\ Losing(h) /\ next("drop") /\ Works
              /\ \E row \in rows : lapse' = [lapse EXCEPT ![h] = row]
           \/ Losing(h) /\ next("losing") /\ Fails /\ UNCHANGED lapse
  /\ UNCHANGED <<clock, records, revoked, snapshots, grants, inserted, paid>>

SweepDropRecords ==
  /\ sweep.pc = "drop"
  /\ sweep' = [sweep EXCEPT !.pc = "losing"]
  /\ \/ records' = {c \in records : ~(c.holder = sweep.holder /\ Aged(c))} /\ Works
     \/ Fails /\ UNCHANGED records
  /\ UNCHANGED <<clock, lapse, revoked, snapshots, grants, inserted, paid>>

\* Mutant: a holder with a current record keeps the aged ones too.
SweepSupersededNothing ==
  /\ sweep.pc = "losing" /\ sweep.holders = {}
  /\ StoreFree
  /\ sweep' = [sweep EXCEPT !.pc = "observe", !.holder = None]
  /\ UNCHANGED <<clock, records, lapse, revoked, snapshots, grants, inserted, paid, env>>

\* One statement for the holders who keep a current record.
SweepSuperseded ==
  /\ sweep.pc = "losing" /\ sweep.holders = {}
  /\ StoreFree
  /\ sweep' = [sweep EXCEPT !.pc = "observe", !.holder = None]
  /\ \/ records' = {c \in records : ~Aged(c) \/ Losing(c.holder)} /\ Works
     \/ Fails /\ UNCHANGED records
  /\ UNCHANGED <<clock, lapse, revoked, snapshots, grants, inserted, paid>>

\* Mutant: only holders who registered once are looked for.
SweepUnrecordedWithRow ==
  /\ sweep.pc = "observe"
  /\ StoreFree
  /\ sweep' = [sweep EXCEPT !.pc = "adopt",
                 !.holders = {h \in Holders : LiveOf(h) # {} /\ Records(h) # {}
                                              /\ LifecycleHorizon(h) = None}]
  /\ UNCHANGED <<clock, records, lapse, revoked, snapshots, grants, inserted, paid, env>>

\* (3c) Holders with snapshots and no horizon at all.
SweepUnrecorded ==
  /\ sweep.pc = "observe"
  /\ StoreFree
  /\ sweep' = [sweep EXCEPT !.pc = "adopt",
                 !.holders = {h \in Holders : LiveOf(h) # {} /\ LifecycleHorizon(h) = None}]
  /\ UNCHANGED <<clock, records, lapse, revoked, snapshots, grants, inserted, paid, env>>

\* They are taken to have lapsed when the pass began, whatever they did since
\* they were listed.
SweepAdopt ==
  /\ sweep.pc = "adopt"
  /\ StoreFree
  /\ \E h \in sweep.holders :
       /\ sweep' = [sweep EXCEPT !.holders = @ \ {h}]
       /\ \/ \E row \in LapseStates(h, sweep.now) :
               lapse' = [lapse EXCEPT ![h] = row] /\ Works
          \/ LapseStates(h, sweep.now) = {} /\ Works /\ UNCHANGED lapse
          \/ Fails /\ UNCHANGED lapse
  /\ UNCHANGED <<clock, records, revoked, snapshots, grants, inserted, paid>>

\* (3d) The derived rows, listed with what they said.
SweepLapsed ==
  /\ sweep.pc = "adopt" /\ sweep.holders = {}
  /\ StoreFree
  /\ sweep' = [sweep EXCEPT !.pc = "retire", !.rows = lapse,
                            !.holders = {h \in Holders : lapse[h] # None}]
  /\ UNCHANGED <<clock, records, lapse, revoked, snapshots, grants, inserted, paid, env>>

\* Mutant: the row goes when its window closes, acted on or not.
RetiresWhenClosed(h, fresh) == sweep.now >= fresh.ends /\ fresh.action = "erase"

\* The window is over and nothing is still due from it.
Retires(h, fresh) == /\ sweep.now >= fresh.ends /\ fresh.action = "erase"
                     /\ Due(h, sweep.now) = {}

\* Mutant: a row with nothing left to derive it from is skipped.
SweepRetireSkip ==
  /\ sweep.pc = "retire"
  /\ StoreFree
  /\ \E h \in sweep.holders :
       LET seen == sweep.rows[h]
           rows == LapseStates(h, seen.at)
       IN  /\ sweep' = [sweep EXCEPT !.holders = @ \ {h}]
           /\ \/ rows = {} /\ UNCHANGED lapse
              \/ \E fresh \in rows :
                   lapse' = [lapse EXCEPT ![h] = IF Retires(h, fresh) THEN None ELSE fresh]
  /\ UNCHANGED <<clock, records, revoked, snapshots, grants, inserted, paid, env>>

\* Each row is derived again from the snapshots there are now: written when
\* it moved, dropped when it has served. Either statement may fail.
SweepRetire ==
  /\ sweep.pc = "retire"
  /\ StoreFree
  /\ \E h \in sweep.holders :
       LET seen == sweep.rows[h]
           rows == LapseStates(h, seen.at)
       IN  /\ sweep' = [sweep EXCEPT !.holders = @ \ {h}]
           /\ \/ rows = {} /\ lapse' = [lapse EXCEPT ![h] = None] /\ Works
              \/ /\ \E fresh \in rows :
                      lapse' = IF Retires(h, fresh) THEN [lapse EXCEPT ![h] = None]
                               ELSE IF fresh # seen THEN [lapse EXCEPT ![h] = fresh]
                               ELSE lapse
                 /\ Works
              \/ Fails /\ \/ UNCHANGED lapse
                          \/ \E fresh \in rows : lapse' = [lapse EXCEPT ![h] = fresh]
  /\ UNCHANGED <<clock, records, revoked, snapshots, grants, inserted, paid>>

SweepDone ==
  /\ sweep.pc = "retire" /\ sweep.holders = {}
  /\ sweep' = IdleSweep
  /\ UNCHANGED <<clock, records, lapse, revoked, snapshots, grants, inserted, paid, env>>

-----------------------------------------------------------------------------
(* Time and the process *)

Tick ==
  /\ clock < MaxTime
  /\ clock' = clock + 1
  /\ UNCHANGED <<records, lapse, revoked, snapshots, grants, inserted, sweep, paid, env>>

Crash ==
  /\ crashes < MaxCrashes
  /\ crashes' = crashes + 1
  /\ TornRegistrations \/ inserted = None
  /\ inserted' = None
  /\ sweep' = IdleSweep
  /\ UNCHANGED <<clock, records, lapse, revoked, snapshots, grants, paid, failures>>

-----------------------------------------------------------------------------
(* Specification *)

Init ==
  /\ clock = 0
  /\ records = {} /\ revoked = {}
  /\ lapse = [h \in Holders |-> None]
  /\ snapshots = [k \in Keys |-> "absent"]
  /\ grants = [k \in Keys |-> None]
  /\ inserted = None
  /\ sweep = IdleSweep
  /\ paid = [h \in Holders |-> 0]
  /\ crashes = 0 /\ failures = 0

Request ==
  \/ \E c \in Credentials : Register(c)
  \/ \E k \in Keys, t \in Terms : Preflight(k, t)
  \/ \E k \in Keys : Commit(k) \/ GrantEnds(k)
  \/ \E h \in Holders : \E scope \in Scopes(h) : Erase(h, scope)

SweepStep ==
  \/ SweepBegin \/ SweepDue \/ SweepExpire
  \/ SweepLosing \/ SweepDerive \/ SweepDropRecords \/ SweepSuperseded
  \/ SweepUnrecorded \/ SweepAdopt
  \/ SweepLapsed \/ SweepRetire \/ SweepDone

Next ==
  \/ Request \/ RegisterForget
  \/ \E ids \in SUBSET Ids \ {revoked} : InstallEpoch(ids)
  \/ SweepStep
  \/ Tick \/ Crash

Spec == Init /\ [][Next]_vars

\* The sweep's timer always fires again and the store lock is first come,
\* first served. Nobody has to pay, to call or to be revoked.
FairSpec == Spec /\ SF_vars(SweepStep) /\ WF_vars(RegisterForget)

-----------------------------------------------------------------------------
(* Properties *)

Sweeps == [pc : {"sleep", "due", "expire", "losing", "drop", "observe", "adopt", "retire"},
           now : 0 .. MaxTime, holders : SUBSET Holders, keys : SUBSET Keys,
           holder : Holders \cup {None}, rows : [Holders -> LapseRows \cup {None}]]

\* Every variable holds a value of its kind.
TypeOK ==
  /\ clock \in 0 .. MaxTime
  /\ records \subseteq Credentials
  /\ revoked \subseteq Ids
  /\ lapse \in [Holders -> LapseRows \cup {None}]
  /\ snapshots \in [Keys -> Terms \cup NotLive]
  /\ grants \in [Keys -> Grants \cup {None}]
  /\ inserted \in Credentials \cup {None}
  /\ sweep \in Sweeps
  /\ paid \in [Holders -> Nat]
  /\ crashes \in 0 .. MaxCrashes /\ failures \in 0 .. MaxFailures

\* The promise of the terms: the sweep gives a snapshot up only when notice
\* and grace are over, both counted from the latest expiry its holder ever
\* showed, whatever was revoked, aged out, carried over or adopted since.
WindowHonoured ==
  [][\A k \in Keys : Live(k) /\ snapshots[k]' = "expired" =>
       clock >= paid[k[1]] + Window[snapshots[k]]]_vars

\* As long as a holder has something retained, the operator does not forget
\* when they lapsed and never moves that moment back.
HorizonKept ==
  [][\A h \in Holders :
       (LiveOf(h) # {} /\ LiveOf(h)' # {} /\ LifecycleHorizon(h) # None) =>
         /\ LifecycleHorizon(h)' # None
         /\ LifecycleHorizon(h)' >= LifecycleHorizon(h)]_vars

\* A holder whose credential is good has no lapse row: the invariant that
\* register_entitlement and step (3b) state.
NobodyPayingIsLapsed ==
  \A h \in Holders :
    (lapse[h] # None /\ (inserted # None => inserted.holder # h)) =>
      \A c \in Records(h) : c.expires < clock

\* The other promise of the terms: what a snapshot's terms keep open in grace is
\* open to its holder until that snapshot's window is over, counted from the
\* latest expiry they ever showed, whatever else they keep under other terms.
GraceHonoured ==
  \A k \in Keys :
    (/\ Live(k) /\ LifecycleHorizon(k[1]) # None
     /\ clock < paid[k[1]] + Window[snapshots[k]]) =>
      \A op \in DuringGrace[snapshots[k]] : Permits(k[1], op)

\* Snapshots of a holder nothing knows the lapse of do not stay so: they
\* would be held for ever and their holder refused for ever.
HorizonFound ==
  \A h \in Holders :
    (LiveOf(h) # {} /\ LifecycleHorizon(h) = None)
      ~> (LiveOf(h) = {} \/ LifecycleHorizon(h) # None)

\* What is due goes, even if marking it fails once, unless the holder renews.
DueIsExpired ==
  \A k \in Keys :
    (k \in Due(k[1], clock) /\ AfterGrace[snapshots[k]] = "erase")
      ~> (k \notin Due(k[1], clock))

\* No credential is kept past its expiry and one epoch interval, a renewing
\* holder's old ones included.
RecordsAgeOut ==
  \A c \in Credentials :
    (c \in records /\ c.expires + PollInterval < clock) ~> (c \notin records)

\* A lapse row does not outlive what it is kept for.
RowsRetire ==
  \A h \in Holders : (lapse[h] # None /\ LiveOf(h) = {})
                       ~> (lapse[h] = None \/ LiveOf(h) # {})

=============================================================================
