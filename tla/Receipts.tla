------------------------------- MODULE Receipts -------------------------------
(***************************************************************************)
(* What an operator remembers of one holder after the fact: the rows of    *)
(* erased and lost snapshots, the signed receipts with what they cover,    *)
(* the outcomes of operations, the terms documents they cite, and the      *)
(* steps (6-7) and (8) of the sweep that forget them. Every statement the  *)
(* code makes here is for one holder's handle, so one holder is all of it. *)
(*                                                                         *)
(* A handler reads the clock before it waits for its locks, and what it    *)
(* writes carries that reading. Bytes are in Vault, payment is in Lapse.   *)
(***************************************************************************)
EXTENDS Naturals, FiniteSets

CONSTANTS
  Digests,
  Terms,            \* terms documents this operator has ever been built with
  Ops,              \* operation ids the client chooses
  Requests,         \* slots for handlers in flight at the same time
  ReceiptWindow,    \* receipt_retention_secs, in ticks
  ReferenceWindow,  \* erased_reference_retention_secs
  OutcomeWindow,    \* outcome_retention_secs
  All,              \* the scope "all"
  None

\* What the environment does in a run.
CONSTANTS
  InOrder,        \* do erasures take the locks in the order of their clocks
  MaxWait,        \* ticks from a handler's reading of the clock to its answer
  MayLose,        \* digests whose bytes may be found absent
  MaxTime, MaxBoots, MaxFailures

ASSUME WindowsAssumption ==
         /\ ReceiptWindow \in Nat \ {0} /\ ReferenceWindow \in Nat \ {0}
         /\ OutcomeWindow \in Nat
ASSUME EnvironmentAssumption ==
         /\ InOrder \in BOOLEAN /\ MayLose \subseteq Digests
         /\ MaxWait \in Nat \ {0} /\ MaxTime \in Nat /\ MaxBoots \in Nat /\ MaxFailures \in Nat
ASSUME NamesAssumption ==
         /\ All \notin Digests
         /\ None \notin Digests \cup Terms \cup Ops \cup Requests \cup {All}

VARIABLES
  clock,
  current,     \* Documents.terms: what this boot publishes
  published,   \* table terms_documents
  rows,        \* table snapshots: a row of each digest
  grants,      \* table uploads: the open grant of each digest, or None
  receipts,    \* tables erasure_receipts and receipt_snapshots
  outcomes,    \* table operation_outcomes: a row of each operation, or None
  tasks,       \* the handler in each request slot
  locked,      \* the handler that holds both locks over several statements
  sweep,       \* the sweep's place and the reading its floors come from
  boots, failures

tables == <<published, rows, grants, receipts, outcomes>>
env    == <<boots, failures>>
vars   == <<clock, current, tables, tasks, locked, sweep, env>>

-----------------------------------------------------------------------------
(* Values *)

Scopes == Digests \cup {All}

NoRow == [state |-> "none", terms |-> None, at |-> 0]
LiveRow(t) == [state |-> "live", terms |-> t, at |-> 0]

NoTask == [pc |-> "idle", subject |-> None, op |-> None, terms |-> None, now |-> 0]

\* A receipt's id is minted at random. What it is told apart by is the
\* erasure, which no other shares its clock reading with, and the terms.
ReceiptId(r) == <<r.at, r.terms>>

Rows == [state : {"none", "live", "erased", "lost"}, terms : Terms \cup {None}, at : Nat]
Grants == [op : Ops, terms : Terms, placed : BOOLEAN]
Receipt == [scope : Scopes, terms : Terms, at : Nat, covers : SUBSET Digests]
Outcomes == [status : {"retained", "erasure_acknowledged"}, subject : Scopes,
             ids : SUBSET (Nat \X Terms), at : Nat]
Tasks == [pc : {"idle", "commit", "drop", "outcome", "erase"},
          subject : Scopes \cup {None}, op : Ops \cup {None},
          terms : Terms \cup {None}, now : Nat]

-----------------------------------------------------------------------------
(* What an erasure answers *)

InScope(s) == IF s = All THEN Digests ELSE {s}

InState(s, state) == {d \in InScope(s) : rows[d].state = state}

\* store.rs snapshots_in_scope: only what is live can be erased.
Targets(s) == InState(s, "live")

\* Mutant: receipts are found by the name of the scope alone.
CandidatesByScope(s) == {r \in receipts : r.scope = s}

\* By the name of the scope, or by what the receipt covers of what is
\* remembered as erased.
Candidates(s) ==
  {r \in receipts : r.scope = s \/ r.covers \cap InState(s, "erased") # {}}

\* store.rs latest_receipts_for_erased_scope.
Newest(s) == {r \in Candidates(s) : \A q \in Candidates(s) : q.at <= r.at}

\* The branches of the handler, in their order.
Decision(s) ==
  IF Targets(s) # {} THEN "mint"
  ELSE IF InState(s, "lost") # {} THEN "retention_expired"
  ELSE IF Newest(s) # {} THEN "replay"
  ELSE IF InState(s, "erased") # {} THEN "receipt_expired"
  ELSE "not_found"

-----------------------------------------------------------------------------
(* What a holder can read *)

\* GET /terms/{digest}.json: the terms of this boot, and all there were.
TermsServed(t) == t = current \/ t \in published

\* GET /v1/snapshots: rows in any state, each with the terms it pins.
ListedTerms == {rows[d].terms : d \in {d \in Digests : rows[d].state # "none"}}

\* GET /v1/exports: the terms of what is live and of the receipts.
ContainerTerms == {rows[d].terms : d \in Targets(All)} \cup {r.terms : r \in receipts}

\* GET /v1/exports/receipts/{id}.
Fetched(id) == {r \in receipts : ReceiptId(r) = id}

\* GET /v1/operations/{id}: the receipts an operation of this holder earned,
\* and none for one that is unknown.
Reconciled(op) == IF outcomes[op] = None THEN {} ELSE outcomes[op].ids

-----------------------------------------------------------------------------
(* Handlers *)

LocksFree == locked = None

Begin(r, task) == /\ tasks[r] = NoTask
                  /\ tasks' = [tasks EXCEPT ![r] = task]

Goto(r, there) == tasks' = [tasks EXCEPT ![r].pc = there]

Answer(r) == tasks' = [tasks EXCEPT ![r] = NoTask]

Record(op, outcome) == outcomes' = [outcomes EXCEPT ![op] = outcome]

\* Every reading of the clock is later than the one before, and handlers
\* answer long before any window passes.
ReadClock == /\ clock < MaxTime
             /\ \A r \in Requests : tasks[r] # NoTask => clock < tasks[r].now + MaxWait
             /\ clock' = clock + 1

\* POST /v1/preflight: an open grant is resumed as it is, a new one has to
\* accept the terms of this boot.
Preflight(d, op) ==
  /\ LocksFree
  /\ grants[d] = None
  /\ rows[d].state # "live"
  /\ grants' = [grants EXCEPT ![d] = [op |-> op, terms |-> current, placed |-> FALSE]]
  /\ UNCHANGED <<clock, current, published, rows, receipts, outcomes, tasks, locked,
                 sweep, env>>

Committing(d) == \E r \in Requests : tasks[r].pc \in {"commit", "drop", "outcome"}
                                       /\ tasks[r].subject = d

\* A grant runs out. What that does to a commit in flight is in Vault.
GrantEnds(d) ==
  /\ LocksFree
  /\ grants[d] # None
  /\ ~Committing(d)
  /\ grants' = [grants EXCEPT ![d] = None]
  /\ UNCHANGED <<clock, current, published, rows, receipts, outcomes, tasks, locked,
                 sweep, env>>

\* POST /v1/uploads/{id}/commit: the grant's row is read, and goes on to
\* count whatever happens to it. A grant whose bytes were moved before a
\* crash has none left to commit.
CommitBegin(r, d) ==
  /\ LocksFree
  /\ grants[d] # None /\ ~grants[d].placed
  /\ ~Committing(d)
  /\ Begin(r, [pc |-> "commit", subject |-> d, op |-> grants[d].op,
               terms |-> grants[d].terms, now |-> clock])
  /\ UNCHANGED <<clock, current, tables, locked, sweep, env>>

\* Incomplete bytes keep the grant, wrong ones and a full quota lose it.
CommitRefused(r) ==
  /\ LocksFree
  /\ tasks[r].pc = "commit"
  /\ \/ UNCHANGED grants
     \/ grants' = [grants EXCEPT ![tasks[r].subject] = None]
  /\ Answer(r)
  /\ UNCHANGED <<clock, current, published, rows, receipts, outcomes, locked, sweep, env>>

\* store.retain, the first of three statements under both locks: an erased
\* or lost row comes back to life, a live one stays as it is.
CommitRetain(r) ==
  LET d == tasks[r].subject
  IN  /\ LocksFree
      /\ tasks[r].pc = "commit"
      /\ rows' = [rows EXCEPT ![d] = IF @.state = "live" THEN @ ELSE LiveRow(tasks[r].terms)]
      /\ grants' = [grants EXCEPT ![d] = [op |-> tasks[r].op, terms |-> tasks[r].terms,
                                          placed |-> TRUE]]
      /\ locked' = r
      /\ Goto(r, "drop")
      /\ UNCHANGED <<clock, current, published, receipts, outcomes, sweep, env>>

CommitDrop(r) ==
  /\ tasks[r].pc = "drop"
  /\ grants' = [grants EXCEPT ![tasks[r].subject] = None]
  /\ Goto(r, "outcome")
  /\ UNCHANGED <<clock, current, published, rows, receipts, outcomes, locked, sweep, env>>

\* Mutant: the outcome is written from the request after it was answered.
CommitOutcomeAnswered(r) ==
  /\ tasks[r].pc = "outcome"
  /\ Answer(r)
  /\ Record(tasks[r].op, [status |-> "retained", subject |-> tasks'[r].subject,
                          ids |-> {}, at |-> tasks[r].now])
  /\ locked' = None
  /\ UNCHANGED <<clock, current, published, rows, grants, receipts, sweep, env>>

CommitOutcome(r) ==
  /\ tasks[r].pc = "outcome"
  /\ Record(tasks[r].op, [status |-> "retained", subject |-> tasks[r].subject,
                          ids |-> {}, at |-> tasks[r].now])
  /\ locked' = None
  /\ Answer(r)
  /\ UNCHANGED <<clock, current, published, rows, grants, receipts, sweep, env>>

\* POST /v1/erasures, before it waits.
EraseBegin(r, s, op) ==
  /\ ReadClock
  /\ Begin(r, [pc |-> "erase", subject |-> s, op |-> op, terms |-> None, now |-> clock'])
  /\ UNCHANGED <<current, tables, locked, sweep, env>>

\* The locks are first come, first served.
EraseTurn(r) == /\ LocksFree
                /\ tasks[r].pc = "erase"
                /\ InOrder => \A q \in Requests :
                                tasks[q].pc = "erase" => tasks[r].now <= tasks[q].now

\* Mutant: one receipt, citing the terms of the boot.
MintedForBoot(r) ==
  {[scope |-> tasks[r].subject, terms |-> current, at |-> tasks[r].now,
    covers |-> Targets(tasks[r].subject)]}

\* Mutant: whatever is in scope under those terms is covered, erased or not.
MintedForRows(r) ==
  LET s == tasks[r].subject
  IN  {[scope |-> s, terms |-> t, at |-> tasks[r].now,
        covers |-> {d \in InScope(s) : rows[d].terms = t}] :
         t \in {rows[d].terms : d \in Targets(s)}}

\* One receipt for each terms document pinned in scope.
Minted(r) ==
  LET s == tasks[r].subject
  IN  {[scope |-> s, terms |-> t, at |-> tasks[r].now,
        covers |-> {d \in Targets(s) : rows[d].terms = t}] :
         t \in {rows[d].terms : d \in Targets(s)}}

Acknowledged(r, set) ==
  Record(tasks[r].op, [status |-> "erasure_acknowledged", subject |-> tasks[r].subject,
                       ids |-> {ReceiptId(x) : x \in set}, at |-> tasks[r].now])

\* store.commit_erasure: rows, receipts, coverage and outcome at once. The
\* pinned terms have to be there to compose from.
EraseMint(r) ==
  LET s == tasks[r].subject
  IN  /\ EraseTurn(r)
      /\ Decision(s) = "mint"
      /\ {rows[d].terms : d \in Targets(s)} \subseteq published
      /\ rows' = [d \in Digests |-> IF d \in Targets(s)
                                    THEN [rows[d] EXCEPT !.state = "erased", !.at = tasks[r].now]
                                    ELSE rows[d]]
      /\ receipts' = receipts \cup Minted(r)
      /\ Acknowledged(r, Minted(r))
      /\ Answer(r)
      /\ UNCHANGED <<clock, current, published, grants, locked, sweep, env>>

\* A retry: what was signed before, and an outcome under the new id.
EraseReplay(r) ==
  /\ EraseTurn(r)
  /\ Decision(tasks[r].subject) = "replay"
  /\ Acknowledged(r, Newest(tasks[r].subject))
  /\ Answer(r)
  /\ UNCHANGED <<clock, current, published, rows, grants, receipts, locked, sweep, env>>

EraseRefused(r) ==
  LET s == tasks[r].subject
  IN  /\ EraseTurn(r)
      /\ Decision(s) # "replay"
      /\ Decision(s) = "mint" => ~({rows[d].terms : d \in Targets(s)} \subseteq published)
      /\ Answer(r)
      /\ UNCHANGED <<clock, current, tables, locked, sweep, env>>

\* store.mark_unavailable: by a download, or by the sweep.
Lose(d) ==
  /\ LocksFree
  /\ d \in MayLose
  /\ rows[d].state = "live"
  /\ rows' = [rows EXCEPT ![d].state = "lost"]
  /\ UNCHANGED <<clock, current, published, grants, receipts, outcomes, tasks, locked,
                 sweep, env>>

-----------------------------------------------------------------------------
(* The sweep *)

IdleSweep == [pc |-> "sleep", now |-> 0]

\* A statement that fails is logged, and the sweep goes on.
Fails == failures < MaxFailures /\ failures' = failures + 1 /\ UNCHANGED boots
Works == UNCHANGED env

\* main.rs: every floor comes from one reading, before any of the work.
SweepBegin ==
  /\ sweep.pc = "sleep"
  /\ sweep' = [pc |-> "metadata", now |-> clock]
  /\ UNCHANGED <<clock, current, tables, tasks, locked, env>>

Aged(at, window) == at + window < sweep.now

WindowOf(outcome) == IF outcome.status = "retained" THEN OutcomeWindow ELSE ReceiptWindow

OutcomeAged(outcome) == Aged(outcome.at, WindowOf(outcome))

\* Mutant: receipts go by the window of upload outcomes.
ReceiptAgedEarly(r) == Aged(r.at, OutcomeWindow)

ReceiptAged(r) == Aged(r.at, ReceiptWindow)

\* Mutant: upload outcomes only are looked at.
SweepUploadOutcomes ==
  [op \in Ops |-> IF outcomes[op] # None /\ outcomes[op].status = "retained"
                     /\ OutcomeAged(outcomes[op])
                  THEN None ELSE outcomes[op]]

OutcomesKept == [op \in Ops |-> IF outcomes[op] # None /\ OutcomeAged(outcomes[op])
                                THEN None ELSE outcomes[op]]

\* (6-7) One transaction: outcomes, coverage and receipts.
SweepMetadata ==
  /\ sweep.pc = "metadata"
  /\ LocksFree
  /\ \/ /\ outcomes' = OutcomesKept
        /\ receipts' = {r \in receipts : ~ReceiptAged(r)}
        /\ Works
     \/ Fails /\ UNCHANGED <<outcomes, receipts>>
  /\ sweep' = [sweep EXCEPT !.pc = "references"]
  /\ UNCHANGED <<clock, current, published, rows, grants, tasks, locked>>

\* Mutant: an erased reference goes by the window of upload outcomes.
ReferenceAgedEarly(row) == row.state = "erased" /\ Aged(row.at, OutcomeWindow)

\* Rows of lost snapshots carry no erased_at, and stay.
ReferenceAged(row) == row.state = "erased" /\ Aged(row.at, ReferenceWindow)

\* (8) Erased references past their window.
SweepReferences ==
  /\ sweep.pc = "references"
  /\ LocksFree
  /\ \/ /\ rows' = [d \in Digests |-> IF ReferenceAged(rows[d]) THEN NoRow ELSE rows[d]]
        /\ Works
     \/ Fails /\ UNCHANGED rows
  /\ sweep' = IdleSweep
  /\ UNCHANGED <<clock, current, published, grants, receipts, outcomes, tasks, locked>>

-----------------------------------------------------------------------------
(* Time and the process *)

Tick == /\ ReadClock
        /\ UNCHANGED <<current, tables, tasks, locked, sweep, env>>

\* Mutant: the table holds the terms of this boot and no others.
RememberOnly(t) == published' = {t}

\* AppState::new and store.remember_terms.
Remember(t) == published' = published \cup {t}

\* The process dies and starts again, perhaps built with other terms.
Restart(t) ==
  /\ boots < MaxBoots
  /\ boots' = boots + 1
  /\ current' = t
  /\ Remember(t)
  /\ tasks' = [r \in Requests |-> NoTask]
  /\ locked' = None
  /\ sweep' = IdleSweep
  /\ UNCHANGED <<clock, rows, grants, receipts, outcomes, failures>>

-----------------------------------------------------------------------------
(* Specification *)

Init ==
  /\ clock = 0
  /\ current \in Terms
  /\ published = {current}
  /\ rows = [d \in Digests |-> NoRow]
  /\ grants = [d \in Digests |-> None]
  /\ receipts = {}
  /\ outcomes = [op \in Ops |-> None]
  /\ tasks = [r \in Requests |-> NoTask]
  /\ locked = None
  /\ sweep = IdleSweep
  /\ boots = 0 /\ failures = 0

Request(r) ==
  \/ \E d \in Digests : CommitBegin(r, d)
  \/ \E s \in Scopes, op \in Ops : EraseBegin(r, s, op)

HandlerStep(r) ==
  \/ CommitRefused(r) \/ CommitRetain(r) \/ CommitDrop(r) \/ CommitOutcome(r)
  \/ EraseMint(r) \/ EraseReplay(r) \/ EraseRefused(r)

SweepStep == SweepBegin \/ SweepMetadata \/ SweepReferences

Next ==
  \/ \E d \in Digests : (\E op \in Ops : Preflight(d, op)) \/ GrantEnds(d) \/ Lose(d)
  \/ \E r \in Requests : Request(r) \/ HandlerStep(r)
  \/ SweepStep
  \/ Tick
  \/ \E t \in Terms : Restart(t)

Spec == Init /\ [][Next]_vars

\* Handlers run to their answer and the locks are first come, first served.
\* The sweep's timer always fires again.
FairSpec == /\ Spec
            /\ \A r \in Requests : SF_vars(HandlerStep(r))
            /\ SF_vars(SweepMetadata) /\ SF_vars(SweepReferences) /\ WF_vars(SweepBegin)

-----------------------------------------------------------------------------
(* Properties *)

\* Every variable holds a value of its kind.
TypeOK ==
  /\ clock \in 0 .. MaxTime
  /\ current \in Terms /\ published \subseteq Terms
  /\ rows \in [Digests -> Rows]
  /\ grants \in [Digests -> Grants \cup {None}]
  /\ receipts \subseteq Receipt
  /\ outcomes \in [Ops -> Outcomes \cup {None}]
  /\ tasks \in [Requests -> Tasks]
  /\ locked \in Requests \cup {None}
  /\ sweep \in [pc : {"sleep", "metadata", "references"}, now : 0 .. MaxTime]
  /\ boots \in 0 .. MaxBoots /\ failures \in 0 .. MaxFailures

\* Whatever terms the list, the export container or a grant names can be
\* fetched, and whatever can be erased has the terms to compose its receipt
\* from, through any number of restarts under other terms (AppState::new:
\* "historical terms forever").
PinnedTermsKept ==
  /\ \A t \in ListedTerms \cup ContainerTerms : TermsServed(t)
  /\ \A d \in Digests : grants[d] # None => TermsServed(grants[d].terms)
  /\ \A d \in Targets(All) : rows[d].terms \in published

\* An erasure the operator remembers has its receipt, under the terms the
\* snapshot was accepted under, until the declared window is over, whatever
\* else was uploaded, erased or swept in the meantime.
ErasedIsReceipted ==
  \A d \in Digests :
    (rows[d].state = "erased" /\ clock <= rows[d].at + ReceiptWindow) =>
      \E r \in receipts : /\ d \in r.covers
                          /\ r.at = rows[d].at
                          /\ r.terms = rows[d].terms

\* A retry about one digest gets the receipts of its latest erasure and of no
\* earlier one, also where that erasure or the retry named another scope
\* (latest_receipts_for_erased_scope).
LatestErasureAnswered ==
  \A d \in Digests :
    rows[d].state = "erased" /\ Decision(d) = "replay" =>
      \A r \in Newest(d) : r.at = rows[d].at /\ d \in r.covers

\* A holder is not told that the evidence aged out, or that there never was
\* a snapshot, while the receipt is there to be fetched by its id
\* (a_retry_under_a_different_scope_still_finds_the_receipt).
EvidenceNotDenied ==
  \A d \in Digests :
    Decision(d) \in {"receipt_expired", "not_found"} =>
      ~\E r \in receipts : d \in r.covers

\* What an erasure's outcome names can be fetched for as long as the window
\* of receipts lasts: a lost response leads back to the receipt.
OutcomeLeadsToReceipt ==
  \A op \in Ops :
    \A id \in Reconciled(op) : clock <= id[1] + ReceiptWindow => Fetched(id) # {}

\* No receipt, and so no record of what it covers, is kept past the window.
ReceiptsAgeOut ==
  \A t \in 0 .. MaxTime :
    ((\E r \in receipts : r.at = t) /\ t + ReceiptWindow < clock)
      ~> ~\E r \in receipts : r.at = t

Overdue(op) == outcomes[op] # None /\ outcomes[op].at + WindowOf(outcomes[op]) < clock

\* No operation id is kept past the window of its kind.
OutcomesAgeOut ==
  \A op \in Ops : Overdue(op) ~> ~Overdue(op)

\* The list of what a holder erased is bounded: an erased reference is
\* forgotten, unless it was retained again.
ReferencesAgeOut ==
  \A d \in Digests :
    (rows[d].state = "erased" /\ rows[d].at + ReferenceWindow < clock)
      ~> (rows[d].state # "erased" \/ rows[d].at + ReferenceWindow >= clock)

\* What a holder did is not remembered for ever: each of the three tables that
\* an operation leaves a trace in lets go of it once its own window is over,
\* under floors from one reading of the clock (main.rs, sweep.rs steps 6 to 8).
TracesAgeOut == ReceiptsAgeOut /\ OutcomesAgeOut /\ ReferencesAgeOut

=============================================================================
