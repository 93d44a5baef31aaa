---------------------------- MODULE ReceiptsProofs ----------------------------
(***************************************************************************)
(* Receipts, for any number of digests, terms, operations and requests:    *)
(* its types, that no pinned terms document is ever lost, that an erasure  *)
(* keeps its receipt for the declared window, and that a repeated erasure  *)
(* is answered with the receipts of the latest one and of no earlier one.  *)
(***************************************************************************)
EXTENDS ReceiptsRefinement, TLAPS

\* What a handler step, an environment step or a sweep step is, by name.
LEMMA StepCases ==
  ASSUME Next, NEW P,
         \A d \in Digests, op \in Ops : Preflight(d, op) => P,
         \A d \in Digests : GrantEnds(d) => P,
         \A d \in Digests : Lose(d) => P,
         \A r \in Requests, d \in Digests : CommitBegin(r, d) => P,
         \A r \in Requests, s \in Scopes, op \in Ops : EraseBegin(r, s, op) => P,
         \A r \in Requests : CommitRefused(r) => P,
         \A r \in Requests : CommitRetain(r) => P,
         \A r \in Requests : CommitDrop(r) => P,
         \A r \in Requests : CommitOutcome(r) => P,
         \A r \in Requests : EraseMint(r) => P,
         \A r \in Requests : EraseReplay(r) => P,
         \A r \in Requests : EraseRefused(r) => P,
         SweepBegin => P, SweepMetadata => P, SweepReferences => P,
         Tick => P,
         \A t \in Terms : Restart(t) => P
  PROVE  P
  BY DEF Next, Request, HandlerStep, SweepStep

-----------------------------------------------------------------------------
(* Types *)

LEMMA NoTaskTyped == NoTask \in Tasks
  BY DEF NoTask, Tasks

LEMMA NoRowTyped == NoRow \in Rows
  BY DEF NoRow, Rows

LEMMA AnswerTyped ==
  ASSUME tasks \in [Requests -> Tasks], NEW r \in Requests, Answer(r)
  PROVE  tasks' \in [Requests -> Tasks]
  BY NoTaskTyped DEF Answer

LEMMA GotoTyped ==
  ASSUME tasks \in [Requests -> Tasks], NEW r \in Requests,
         NEW there \in {"drop", "outcome"}, Goto(r, there)
  PROVE  tasks' \in [Requests -> Tasks]
<1>1. [tasks[r] EXCEPT !.pc = there] \in Tasks
  BY DEF Tasks
<1> QED  BY <1>1 DEF Goto

LEMMA RecordTyped ==
  ASSUME outcomes \in [Ops -> Outcomes \cup {None}], NEW op \in Ops,
         NEW outcome \in Outcomes, Record(op, outcome)
  PROVE  outcomes' \in [Ops -> Outcomes \cup {None}]
  BY DEF Record

\* A task has the fields its handler was begun with.
HandlersOK ==
  \A r \in Requests :
    /\ tasks[r].pc \in {"commit", "drop", "outcome"} =>
         tasks[r].subject \in Digests /\ tasks[r].op \in Ops /\ tasks[r].terms \in Terms
    /\ tasks[r].pc = "erase" => tasks[r].subject \in Scopes /\ tasks[r].op \in Ops

LiveHasTerms == \A d \in Digests : rows[d].state # "none" => rows[d].terms \in Terms

Typed == TypeOK /\ HandlersOK /\ LiveHasTerms

LEMMA MintedTyped ==
  ASSUME Typed, NEW r \in Requests, tasks[r].pc = "erase"
  PROVE  Minted(r) \subseteq Receipt
<1>1. tasks[r].subject \in Scopes /\ tasks[r].now \in Nat
  BY DEF Typed, TypeOK, HandlersOK, Tasks
<1>2. \A d \in Targets(tasks[r].subject) : d \in Digests /\ rows[d].terms \in Terms
  BY <1>1 DEF Typed, LiveHasTerms, Targets, InState, InScope, Scopes
<1> QED  BY <1>1, <1>2 DEF Minted, Receipt

LEMMA MintedFields ==
  ASSUME NEW r \in Requests, NEW x \in Minted(r)
  PROVE  LET targets == Targets(tasks[r].subject)
         IN  /\ x.scope = tasks[r].subject
             /\ x.at = tasks[r].now
             /\ x.terms \in {rows[d].terms : d \in targets}
             /\ x.covers = {d \in targets : rows[d].terms = x.terms}
  BY DEF Minted

LEMMA AcknowledgedTyped ==
  ASSUME Typed, NEW r \in Requests, tasks[r].pc = "erase",
         NEW S, S \subseteq Receipt, Acknowledged(r, S)
  PROVE  outcomes' \in [Ops -> Outcomes \cup {None}]
<1>1. tasks[r].subject \in Scopes /\ tasks[r].op \in Ops /\ tasks[r].now \in Nat
  BY DEF Typed, TypeOK, HandlersOK, Tasks
<1>2. {ReceiptId(x) : x \in S} \in SUBSET (Nat \X Terms)
  BY DEF ReceiptId, Receipt
<1> DEFINE outcome == [status |-> "erasure_acknowledged", subject |-> tasks[r].subject,
                       ids |-> {ReceiptId(x) : x \in S}, at |-> tasks[r].now]
<1>3. outcome \in Outcomes
  BY <1>1, <1>2 DEF Outcomes
<1> QED  BY <1>1, <1>3, RecordTyped DEF Acknowledged, Typed, TypeOK

LEMMA TypeInit == Init => Typed
<1> SUFFICES ASSUME Init PROVE Typed
  OBVIOUS
<1>1. TypeOK
  BY NoRowTyped, NoTaskTyped, EnvironmentAssumption DEF Init, TypeOK, IdleSweep
<1>2. HandlersOK
  BY DEF Init, HandlersOK, NoTask
<1>3. LiveHasTerms
  BY DEF Init, LiveHasTerms, NoRow
<1> QED  BY <1>1, <1>2, <1>3 DEF Typed

LEMMA TypeStep == Typed /\ [Next]_vars => Typed'
<1> SUFFICES ASSUME Typed, [Next]_vars PROVE Typed'
  OBVIOUS
<1> USE DEF Typed
<1>pre. ASSUME NEW d \in Digests, NEW op \in Ops, Preflight(d, op) PROVE Typed'
  <2>1. TypeOK'
    BY <1>pre DEF Preflight, TypeOK, Grants, env
  <2>2. HandlersOK' /\ LiveHasTerms'
    BY <1>pre DEF Preflight, HandlersOK, LiveHasTerms
  <2> QED  BY <2>1, <2>2
<1>end. ASSUME NEW d \in Digests, GrantEnds(d) PROVE Typed'
  BY <1>end DEF GrantEnds, TypeOK, HandlersOK, LiveHasTerms, env
<1>lose. ASSUME NEW d \in Digests, Lose(d) PROVE Typed'
  <2>1. [rows[d] EXCEPT !.state = "lost"] \in Rows
    BY DEF TypeOK, Rows
  <2>2. TypeOK'
    BY <1>lose, <2>1 DEF Lose, TypeOK, env
  <2>3. LiveHasTerms'
    BY <1>lose DEF Lose, LiveHasTerms, TypeOK, Rows
  <2> QED  BY <1>lose, <2>2, <2>3 DEF Lose, HandlersOK
<1>cb. ASSUME NEW r \in Requests, NEW d \in Digests, CommitBegin(r, d) PROVE Typed'
  <2> DEFINE task == [pc |-> "commit", subject |-> d, op |-> grants[d].op,
                      terms |-> grants[d].terms, now |-> clock]
  <2>1. task \in Tasks /\ task.op \in Ops /\ task.terms \in Terms
    BY <1>cb DEF CommitBegin, TypeOK, Grants, Tasks, Scopes
  <2>2. tasks' = [tasks EXCEPT ![r] = task]
    BY <1>cb DEF CommitBegin, Begin
  <2>3. TypeOK'
    BY <1>cb, <2>1, <2>2 DEF CommitBegin, TypeOK, tables, env
  <2>4. HandlersOK'
    BY <2>1, <2>2 DEF HandlersOK, TypeOK
  <2> QED  BY <1>cb, <2>3, <2>4 DEF CommitBegin, LiveHasTerms, tables
<1>cr. ASSUME NEW r \in Requests, CommitRefused(r) PROVE Typed'
  <2>1. tasks' \in [Requests -> Tasks]
    BY <1>cr, AnswerTyped DEF CommitRefused, TypeOK
  <2>2. grants' \in [Digests -> Grants \cup {None}]
    BY <1>cr DEF CommitRefused, TypeOK
  <2>3. TypeOK'
    BY <1>cr, <2>1, <2>2 DEF CommitRefused, TypeOK, env
  <2>4. HandlersOK'
    BY <1>cr DEF CommitRefused, Answer, HandlersOK, NoTask, TypeOK
  <2> QED  BY <1>cr, <2>3, <2>4 DEF CommitRefused, LiveHasTerms
<1>ct. ASSUME NEW r \in Requests, CommitRetain(r) PROVE Typed'
  <2> DEFINE d == tasks[r].subject
  <2>1. /\ d \in Digests /\ tasks[r].terms \in Terms /\ tasks[r].op \in Ops
    BY <1>ct DEF CommitRetain, HandlersOK
  <2>2. LiveRow(tasks[r].terms) \in Rows
    BY <2>1 DEF LiveRow, Rows
  <2>3. rows' \in [Digests -> Rows]
    BY <1>ct, <2>1, <2>2 DEF CommitRetain, TypeOK
  <2>4. grants' \in [Digests -> Grants \cup {None}]
    BY <1>ct, <2>1 DEF CommitRetain, TypeOK, Grants
  <2>5. tasks' \in [Requests -> Tasks]
    BY <1>ct, GotoTyped DEF CommitRetain, TypeOK
  <2>6. TypeOK'
    BY <1>ct, <2>3, <2>4, <2>5 DEF CommitRetain, TypeOK, env
  <2>7. HandlersOK'
    BY <1>ct DEF CommitRetain, Goto, HandlersOK, TypeOK, Tasks
  <2>8. LiveHasTerms'
    BY <1>ct, <2>1 DEF CommitRetain, LiveHasTerms, LiveRow, TypeOK
  <2> QED  BY <2>6, <2>7, <2>8
<1>cd. ASSUME NEW r \in Requests, CommitDrop(r) PROVE Typed'
  <2>1. tasks' \in [Requests -> Tasks]
    BY <1>cd, GotoTyped DEF CommitDrop, TypeOK
  <2>2. TypeOK'
    BY <1>cd, <2>1 DEF CommitDrop, TypeOK, env
  <2>3. HandlersOK'
    BY <1>cd DEF CommitDrop, Goto, HandlersOK, TypeOK, Tasks
  <2> QED  BY <1>cd, <2>2, <2>3 DEF CommitDrop, LiveHasTerms
<1>co. ASSUME NEW r \in Requests, CommitOutcome(r) PROVE Typed'
  <2>1. tasks[r].subject \in Digests /\ tasks[r].op \in Ops /\ tasks[r].now \in Nat
    BY <1>co DEF CommitOutcome, HandlersOK, TypeOK, Tasks
  <2> DEFINE outcome == [status |-> "retained", subject |-> tasks[r].subject,
                         ids |-> {}, at |-> tasks[r].now]
  <2>2. outcome \in Outcomes
    BY <2>1 DEF Outcomes, Scopes
  <2>3. outcomes' \in [Ops -> Outcomes \cup {None}]
    BY <1>co, <2>1, <2>2, RecordTyped DEF CommitOutcome, TypeOK
  <2>4. tasks' \in [Requests -> Tasks]
    BY <1>co, AnswerTyped DEF CommitOutcome, TypeOK
  <2>5. TypeOK'
    BY <1>co, <2>3, <2>4 DEF CommitOutcome, TypeOK, env
  <2>6. HandlersOK'
    BY <1>co DEF CommitOutcome, Answer, HandlersOK, NoTask, TypeOK
  <2> QED  BY <1>co, <2>5, <2>6 DEF CommitOutcome, LiveHasTerms
<1>eb. ASSUME NEW r \in Requests, NEW s \in Scopes, NEW op \in Ops, EraseBegin(r, s, op)
       PROVE  Typed'
  <2> DEFINE task == [pc |-> "erase", subject |-> s, op |-> op, terms |-> None, now |-> clock']
  <2>1. clock' \in 0 .. MaxTime
    BY <1>eb, EnvironmentAssumption DEF EraseBegin, ReadClock, TypeOK
  <2>2. task \in Tasks
    BY <2>1 DEF Tasks
  <2>3. tasks' = [tasks EXCEPT ![r] = task]
    BY <1>eb DEF EraseBegin, Begin
  <2>4. TypeOK'
    BY <1>eb, <2>1, <2>2, <2>3 DEF EraseBegin, TypeOK, tables, env
  <2>5. HandlersOK'
    BY <2>3 DEF HandlersOK, TypeOK
  <2> QED  BY <1>eb, <2>4, <2>5 DEF EraseBegin, LiveHasTerms, tables
<1>em. ASSUME NEW r \in Requests, EraseMint(r) PROVE Typed'
  <2> DEFINE s == tasks[r].subject
  <2>1. tasks[r].pc = "erase" /\ tasks[r].now \in Nat
    BY <1>em DEF EraseMint, EraseTurn, TypeOK, Tasks
  <2>2. \A d \in Digests : [rows[d] EXCEPT !.state = "erased", !.at = tasks[r].now] \in Rows
    BY <2>1 DEF TypeOK, Rows
  <2>3. rows' \in [Digests -> Rows]
    BY <1>em, <2>2 DEF EraseMint, TypeOK
  <2>4. Minted(r) \subseteq Receipt
    BY <2>1, MintedTyped
  <2>5. outcomes' \in [Ops -> Outcomes \cup {None}]
    BY <1>em, <2>1, <2>4, AcknowledgedTyped DEF EraseMint
  <2>6. tasks' \in [Requests -> Tasks]
    BY <1>em, AnswerTyped DEF EraseMint, TypeOK
  <2>7. TypeOK'
    BY <1>em, <2>3, <2>4, <2>5, <2>6 DEF EraseMint, TypeOK, env
  <2>8. HandlersOK'
    BY <1>em DEF EraseMint, Answer, HandlersOK, NoTask, TypeOK
  <2>9. LiveHasTerms'
    BY <1>em DEF EraseMint, LiveHasTerms, Targets, InState, TypeOK, Rows
  <2> QED  BY <2>7, <2>8, <2>9
<1>er. ASSUME NEW r \in Requests, EraseReplay(r) PROVE Typed'
  <2>1. tasks[r].pc = "erase"
    BY <1>er DEF EraseReplay, EraseTurn
  <2>2. Newest(tasks[r].subject) \subseteq Receipt
    BY DEF Newest, Candidates, TypeOK
  <2>3. outcomes' \in [Ops -> Outcomes \cup {None}]
    BY <1>er, <2>1, <2>2, AcknowledgedTyped DEF EraseReplay
  <2>4. tasks' \in [Requests -> Tasks]
    BY <1>er, AnswerTyped DEF EraseReplay, TypeOK
  <2>5. TypeOK'
    BY <1>er, <2>3, <2>4 DEF EraseReplay, TypeOK, env
  <2>6. HandlersOK'
    BY <1>er DEF EraseReplay, Answer, HandlersOK, NoTask, TypeOK
  <2> QED  BY <1>er, <2>5, <2>6 DEF EraseReplay, LiveHasTerms
<1>ef. ASSUME NEW r \in Requests, EraseRefused(r) PROVE Typed'
  <2>1. tasks' \in [Requests -> Tasks]
    BY <1>ef, AnswerTyped DEF EraseRefused, TypeOK
  <2>2. TypeOK'
    BY <1>ef, <2>1 DEF EraseRefused, TypeOK, tables, env
  <2>3. HandlersOK'
    BY <1>ef DEF EraseRefused, Answer, HandlersOK, NoTask, TypeOK
  <2> QED  BY <1>ef, <2>2, <2>3 DEF EraseRefused, LiveHasTerms, tables
<1>sb. ASSUME SweepBegin PROVE Typed'
  BY <1>sb DEF SweepBegin, TypeOK, HandlersOK, LiveHasTerms, tables, env
<1>sm. ASSUME SweepMetadata PROVE Typed'
  <2>1. outcomes' \in [Ops -> Outcomes \cup {None}] /\ receipts' \subseteq Receipt
    BY <1>sm DEF SweepMetadata, OutcomesKept, TypeOK
  <2>2. boots' \in 0 .. MaxBoots /\ failures' \in 0 .. MaxFailures
    BY <1>sm, EnvironmentAssumption DEF SweepMetadata, Works, Fails, env, TypeOK
  <2>3. TypeOK'
    BY <1>sm, <2>1, <2>2 DEF SweepMetadata, TypeOK
  <2> QED  BY <1>sm, <2>3 DEF SweepMetadata, HandlersOK, LiveHasTerms
<1>sr. ASSUME SweepReferences PROVE Typed'
  <2>1. rows' \in [Digests -> Rows]
    BY <1>sr, NoRowTyped DEF SweepReferences, TypeOK
  <2>2. boots' \in 0 .. MaxBoots /\ failures' \in 0 .. MaxFailures
    BY <1>sr, EnvironmentAssumption DEF SweepReferences, Works, Fails, env, TypeOK
  <2>3. TypeOK'
    BY <1>sr, <2>1, <2>2, EnvironmentAssumption DEF SweepReferences, TypeOK, IdleSweep
  <2>4. LiveHasTerms'
    BY <1>sr DEF SweepReferences, LiveHasTerms, NoRow
  <2> QED  BY <1>sr, <2>3, <2>4 DEF SweepReferences, HandlersOK
<1>tk. ASSUME Tick PROVE Typed'
  <2>1. TypeOK'
    BY <1>tk, EnvironmentAssumption DEF Tick, ReadClock, TypeOK, tables, env
  <2> QED  BY <1>tk, <2>1 DEF Tick, HandlersOK, LiveHasTerms, tables
<1>rs. ASSUME NEW t \in Terms, Restart(t) PROVE Typed'
  <2>1. TypeOK'
    BY <1>rs, NoTaskTyped, EnvironmentAssumption DEF Restart, Remember, IdleSweep, TypeOK
  <2> QED  BY <1>rs, <2>1 DEF Restart, HandlersOK, LiveHasTerms, NoTask
<1>un. ASSUME UNCHANGED vars PROVE Typed'
  BY <1>un DEF vars, tables, env, TypeOK, HandlersOK, LiveHasTerms
<1> QED  BY <1>pre, <1>end, <1>lose, <1>cb, <1>cr, <1>ct, <1>cd, <1>co, <1>eb, <1>em,
            <1>er, <1>ef, <1>sb, <1>sm, <1>sr, <1>tk, <1>rs, <1>un, StepCases

\* Every variable of the specification keeps its type.
THEOREM TypeCorrect == Spec => []TypeOK
<1>1. Typed => TypeOK
  BY DEF Typed
<1> QED  BY <1>1, TypeInit, TypeStep, PTL DEF Spec

-----------------------------------------------------------------------------
(* Terms *)

\* What a commit in flight carries is published too, and so is what a boot
\* offers: that is what makes the property inductive.
Pinned ==
  /\ \A d \in Digests : rows[d].state # "none" => rows[d].terms \in published
  /\ \A d \in Digests : grants[d] # None => grants[d].terms \in published
  /\ \A r \in receipts : r.terms \in published
  /\ current \in published
  /\ \A r \in Requests : tasks[r].pc \in {"commit", "drop", "outcome"} => tasks[r].terms \in published

LEMMA PinnedInit == Init => Pinned
  BY DEF Init, Pinned, NoRow, NoTask

LEMMA PinnedStep == Typed /\ Pinned /\ [Next]_vars => Pinned'
<1> SUFFICES ASSUME Typed, Pinned, [Next]_vars PROVE Pinned'
  OBVIOUS
<1> USE DEF Pinned
<1>t. /\ rows \in [Digests -> Rows] /\ grants \in [Digests -> Grants \cup {None}]
      /\ tasks \in [Requests -> Tasks]
  BY DEF Typed, TypeOK
<1>pre. ASSUME NEW d \in Digests, NEW op \in Ops, Preflight(d, op) PROVE Pinned'
  BY <1>pre, <1>t DEF Preflight
<1>end. ASSUME NEW d \in Digests, GrantEnds(d) PROVE Pinned'
  BY <1>end, <1>t DEF GrantEnds
<1>lose. ASSUME NEW d \in Digests, Lose(d) PROVE Pinned'
  BY <1>lose, <1>t DEF Lose, Rows
<1>cb. ASSUME NEW r \in Requests, NEW d \in Digests, CommitBegin(r, d) PROVE Pinned'
  BY <1>cb, <1>t DEF CommitBegin, Begin, tables
<1>cr. ASSUME NEW r \in Requests, CommitRefused(r) PROVE Pinned'
  BY <1>cr, <1>t DEF CommitRefused, Answer, NoTask
<1>ct. ASSUME NEW r \in Requests, CommitRetain(r) PROVE Pinned'
  <2>1. \A d \in Digests : rows'[d].state # "none" => rows'[d].terms \in published'
    BY <1>ct, <1>t DEF CommitRetain, LiveRow
  <2>2. \A d \in Digests : grants'[d] # None => grants'[d].terms \in published'
    BY <1>ct, <1>t DEF CommitRetain
  <2>3. \A q \in Requests : tasks'[q].terms = tasks[q].terms
    BY <1>ct, <1>t DEF CommitRetain, Goto, Tasks
  <2>4. \A q \in Requests : tasks'[q].pc = IF q = r THEN "drop" ELSE tasks[q].pc
    BY <1>ct, <1>t DEF CommitRetain, Goto, Tasks
  <2> QED  BY <1>ct, <2>1, <2>2, <2>3, <2>4 DEF CommitRetain
<1>cd. ASSUME NEW r \in Requests, CommitDrop(r) PROVE Pinned'
  BY <1>cd, <1>t DEF CommitDrop, Goto, Tasks
<1>co. ASSUME NEW r \in Requests, CommitOutcome(r) PROVE Pinned'
  BY <1>co, <1>t DEF CommitOutcome, Answer, NoTask
<1>eb. ASSUME NEW r \in Requests, NEW s \in Scopes, NEW op \in Ops, EraseBegin(r, s, op)
       PROVE  Pinned'
  BY <1>eb, <1>t DEF EraseBegin, Begin, tables
<1>em. ASSUME NEW r \in Requests, EraseMint(r) PROVE Pinned'
  <2>1. \A d \in Digests : rows'[d].terms = rows[d].terms
    BY <1>em, <1>t DEF EraseMint, Rows
  <2>2. \A d \in Digests : rows'[d].state # "none" => rows[d].state # "none"
    BY <1>em, <1>t DEF EraseMint, Rows, Targets, InState
  <2>3. \A x \in Minted(r) : x.terms \in published
    BY <1>em, MintedFields DEF EraseMint
  <2> QED  BY <1>em, <1>t, <2>1, <2>2, <2>3 DEF EraseMint, Answer, NoTask
<1>er. ASSUME NEW r \in Requests, EraseReplay(r) PROVE Pinned'
  BY <1>er, <1>t DEF EraseReplay, Answer, NoTask
<1>ef. ASSUME NEW r \in Requests, EraseRefused(r) PROVE Pinned'
  BY <1>ef, <1>t DEF EraseRefused, Answer, NoTask, tables
<1>sb. ASSUME SweepBegin PROVE Pinned'
  BY <1>sb DEF SweepBegin, tables
<1>sm. ASSUME SweepMetadata PROVE Pinned'
  BY <1>sm DEF SweepMetadata
<1>sr. ASSUME SweepReferences PROVE Pinned'
  BY <1>sr DEF SweepReferences, NoRow
<1>tk. ASSUME Tick PROVE Pinned'
  BY <1>tk DEF Tick, tables
<1>rs. ASSUME NEW t \in Terms, Restart(t) PROVE Pinned'
  BY <1>rs DEF Restart, Remember, NoTask
<1>un. ASSUME UNCHANGED vars PROVE Pinned'
  BY <1>un DEF vars, tables
<1> QED  BY <1>pre, <1>end, <1>lose, <1>cb, <1>cr, <1>ct, <1>cd, <1>co, <1>eb, <1>em,
            <1>er, <1>ef, <1>sb, <1>sm, <1>sr, <1>tk, <1>rs, <1>un, StepCases

\* A terms document that anything pins is never lost, whatever terms the
\* operator is restarted under (AppState::new).
THEOREM PinnedTermsAreKept == Spec => []PinnedTermsKept
<1>1. Typed /\ Pinned => PinnedTermsKept
  <2> SUFFICES ASSUME Pinned PROVE PinnedTermsKept
    OBVIOUS
  <2>1. \A d \in Targets(All) : rows[d].terms \in published
    BY DEF Pinned, Targets, InState, InScope
  <2>2. ListedTerms \subseteq published
    BY DEF ListedTerms, Pinned
  <2>3. ContainerTerms \subseteq published
    BY <2>1 DEF ContainerTerms, Pinned
  <2> QED  BY <2>1, <2>2, <2>3 DEF PinnedTermsKept, TermsServed, Pinned
<1> QED  BY <1>1, TypeInit, TypeStep, PinnedInit, PinnedStep, PTL DEF Spec

-----------------------------------------------------------------------------
(* Erasures and their receipts *)

\* Clock readings of erasures in flight are later than any that was written,
\* and tell them apart.
StampsOK ==
  /\ sweep.now <= clock
  /\ \A x \in receipts : x.at <= clock
  /\ \A d \in Digests : rows[d].state = "erased" => rows[d].at <= clock
  /\ \A r \in Requests : tasks[r].pc = "erase" =>
       /\ tasks[r].now <= clock
       /\ \A x \in receipts : x.at < tasks[r].now
       /\ \A d \in Digests : rows[d].state = "erased" => rows[d].at < tasks[r].now
       /\ \A q \in Requests : tasks[q].pc = "erase" /\ q # r => tasks[q].now # tasks[r].now

\* A receipt for one digest covers it.
CoverageOK == \A x \in receipts : x.scope \in Digests => x.scope \in x.covers

Receipted(d) ==
  \E y \in receipts : d \in y.covers /\ y.at = rows[d].at /\ y.terms = rows[d].terms

\* Of all receipts that cover an erased digest, that of its latest erasure is
\* the last one issued, and the last one swept.
LatestOK ==
  \A d \in Digests : rows[d].state = "erased" =>
    /\ \A x \in receipts : d \in x.covers => x.at <= rows[d].at
    /\ (\E x \in receipts : d \in x.covers) => Receipted(d)

Remembered == ErasedIsReceipted /\ StampsOK /\ CoverageOK /\ LatestOK

LEMMA RememberedInit == Init => Remembered
  BY DEF Init, Remembered, ErasedIsReceipted, StampsOK, CoverageOK, LatestOK, NoRow, NoTask,
         IdleSweep

\* Nothing that matters changes but a handler's answer, or its place.
LEMMA RememberedFrame ==
  ASSUME Typed, Remembered,
         receipts' = receipts,
         rows' \in [Digests -> Rows],
         \A d \in Digests : rows'[d].state = "erased" => rows'[d] = rows[d],
         clock' \in Nat, clock' >= clock,
         sweep'.now <= clock',
         \A r \in Requests : tasks'[r].pc = "erase" => tasks'[r] = tasks[r]
  PROVE  Remembered'
<1>t. /\ clock \in Nat /\ tasks \in [Requests -> Tasks] /\ receipts \subseteq Receipt
      /\ rows \in [Digests -> Rows]
  BY DEF Typed, TypeOK
<1>1. ErasedIsReceipted'
  BY <1>t, WindowsAssumption DEF Remembered, ErasedIsReceipted, Rows
<1>2. StampsOK'
  BY <1>t DEF Remembered, StampsOK, Tasks, Receipt, Rows
<1>3. CoverageOK' /\ LatestOK'
  BY DEF Remembered, CoverageOK, LatestOK, Receipted
<1> QED  BY <1>1, <1>2, <1>3 DEF Remembered

\* The step that signs: every target becomes erased and is covered by the
\* receipt for its terms, all with one reading that is later than any before.
LEMMA RememberedMint ==
  ASSUME Typed, Remembered, InOrder = TRUE, NEW r \in Requests, EraseMint(r), Typed'
  PROVE  Remembered'
<1> DEFINE s == tasks[r].subject
           n == tasks[r].now
<1>h. tasks[r].pc = "erase"
  BY DEF EraseMint, EraseTurn
<1>r. /\ clock \in Nat /\ tasks \in [Requests -> Tasks] /\ receipts \subseteq Receipt
      /\ rows \in [Digests -> Rows]
  BY DEF Typed, TypeOK
<1>t. /\ clock \in Nat /\ tasks \in [Requests -> Tasks] /\ receipts \subseteq Receipt
      /\ rows \in [Digests -> Rows] /\ n \in Nat /\ s \in Scopes
      /\ \A d \in Digests : rows[d].at \in Nat
  BY <1>h, <1>r DEF Typed, HandlersOK, Tasks, Rows
<1>n. n <= clock /\ tasks[r].pc = "erase"
  BY DEF EraseMint, EraseTurn, Remembered, StampsOK
<1>e. receipts' = receipts \cup Minted(r) /\ clock' = clock /\ sweep' = sweep
  BY DEF EraseMint
<1>m. \A x \in Minted(r) : /\ x.scope = s /\ x.at = n
                           /\ x.covers \subseteq Targets(s)
                           /\ x.terms \in {rows[d].terms : d \in Targets(s)}
                           /\ x.covers = {d \in Targets(s) : rows[d].terms = x.terms}
  BY MintedFields
<1>1. \A d \in Targets(s) : /\ d \in Digests
                            /\ rows'[d].state = "erased" /\ rows'[d].at = n
                            /\ rows'[d].terms = rows[d].terms
  BY <1>t DEF EraseMint, Targets, InState, InScope, Scopes, Rows
<1>2. \A d \in Digests : d \notin Targets(s) => rows'[d] = rows[d]
  BY DEF EraseMint
<1>3. \A d \in Targets(s) : \E y \in Minted(r) : /\ d \in y.covers /\ y.at = n
                                                  /\ y.terms = rows[d].terms
  <2> SUFFICES ASSUME NEW d \in Targets(s)
               PROVE  \E y \in Minted(r) : d \in y.covers /\ y.at = n /\ y.terms = rows[d].terms
    OBVIOUS
  <2> DEFINE y == [scope |-> s, terms |-> rows[d].terms, at |-> n,
                   covers |-> {e \in Targets(s) : rows[e].terms = rows[d].terms}]
  <2>1. y \in Minted(r)
    BY DEF Minted
  <2>2. d \in y.covers /\ y.at = n /\ y.terms = rows[d].terms
    OBVIOUS
  <2> QED  BY <2>1, <2>2
<1>4. \A d \in Targets(s) : Receipted(d)'
  BY <1>1, <1>3, <1>e DEF Receipted
<1>5. ErasedIsReceipted'
  <2> SUFFICES ASSUME NEW d \in Digests, rows'[d].state = "erased",
                      clock' <= rows'[d].at + ReceiptWindow
               PROVE  Receipted(d)'
    BY DEF ErasedIsReceipted, Receipted
  <2>1. CASE d \in Targets(s)
    BY <2>1, <1>4
  <2>2. CASE d \notin Targets(s)
    BY <2>2, <1>2, <1>e DEF Remembered, ErasedIsReceipted, Receipted
  <2> QED  BY <2>1, <2>2
<1>6. StampsOK'
  <2>1. \A x \in receipts' : x.at <= clock'
    BY <1>e, <1>m, <1>n DEF Remembered, StampsOK
  <2>2. \A d \in Digests : rows'[d].state = "erased" => rows'[d].at <= clock'
    BY <1>1, <1>2, <1>e, <1>n DEF Remembered, StampsOK
  <2>3. \A q \in Requests : tasks'[q].pc = "erase" =>
          tasks'[q] = tasks[q] /\ q # r /\ n < tasks[q].now
    <3> SUFFICES ASSUME NEW q \in Requests, tasks'[q].pc = "erase"
                 PROVE  tasks'[q] = tasks[q] /\ q # r /\ n < tasks[q].now
      OBVIOUS
    <3>1. tasks'[q] = tasks[q] /\ q # r
      BY <1>t DEF EraseMint, Answer, NoTask
    <3>2. n <= tasks[q].now /\ n # tasks[q].now
      BY <3>1, <1>n DEF EraseMint, EraseTurn, Remembered, StampsOK
    <3>3. tasks[q].now \in Nat
      BY <1>t DEF Tasks
    <3> QED  BY <3>1, <3>2, <3>3, <1>t
  <2>4. ASSUME NEW q \in Requests, tasks'[q].pc = "erase"
        PROVE  /\ tasks'[q].now <= clock'
               /\ \A x \in receipts' : x.at < tasks'[q].now
               /\ \A d \in Digests : rows'[d].state = "erased" => rows'[d].at < tasks'[q].now
               /\ \A p \in Requests : tasks'[p].pc = "erase" /\ p # q
                                        => tasks'[p].now # tasks'[q].now
    <3>1. tasks'[q] = tasks[q] /\ n < tasks[q].now
      BY <2>3, <2>4
    <3>2. \A x \in receipts' : x.at < tasks[q].now
      BY <3>1, <1>e, <1>m, <2>4 DEF Remembered, StampsOK
    <3>3. \A d \in Digests : rows'[d].state = "erased" => rows'[d].at < tasks[q].now
      BY <3>1, <1>1, <1>2, <2>4 DEF Remembered, StampsOK
    <3>4. tasks[q].now <= clock
      BY <3>1, <2>4 DEF Remembered, StampsOK
    <3>5. \A p \in Requests : tasks'[p].pc = "erase" /\ p # q => tasks'[p].now # tasks[q].now
      BY <3>1, <2>3, <2>4 DEF Remembered, StampsOK
    <3> QED  BY <3>1, <3>2, <3>3, <3>4, <3>5, <1>e
  <2> QED  BY <2>1, <2>2, <2>4, <1>e DEF Remembered, StampsOK
<1>7. CoverageOK'
  <2> SUFFICES ASSUME NEW x \in receipts', x.scope \in Digests PROVE x.scope \in x.covers
    BY DEF CoverageOK
  <2>1. CASE x \in receipts
    BY <2>1 DEF Remembered, CoverageOK
  <2>2. CASE x \in Minted(r)
    <3>1. x.scope = s /\ s # All
      BY <2>2, <1>m, NamesAssumption
    <3>2. PICK d \in Targets(s) : x.terms = rows[d].terms
      BY <2>2, <1>m
    <3>3. d = s
      BY <3>1, <3>2 DEF Targets, InState, InScope
    <3> QED  BY <2>2, <3>1, <3>2, <3>3, <1>m
  <2> QED  BY <2>1, <2>2, <1>e
<1>8. LatestOK'
  <2> SUFFICES ASSUME NEW d \in Digests, rows'[d].state = "erased"
               PROVE  /\ \A x \in receipts' : d \in x.covers => x.at <= rows'[d].at
                      /\ (\E x \in receipts' : d \in x.covers) => Receipted(d)'
    BY DEF LatestOK
  <2>1. CASE d \in Targets(s)
    <3>1. \A x \in receipts' : x.at <= n
      BY <1>e, <1>m, <1>n, <1>t DEF Remembered, StampsOK, Receipt
    <3> QED  BY <2>1, <3>1, <1>1, <1>4
  <2>2. CASE d \notin Targets(s)
    <3>1. \A x \in receipts' : d \in x.covers => x \in receipts
      BY <2>2, <1>e, <1>m
    <3>2. rows'[d] = rows[d]
      BY <2>2, <1>2
    <3>3. Receipted(d) => Receipted(d)'
      BY <3>2, <1>e DEF Receipted
    <3> QED  BY <3>1, <3>2, <3>3 DEF Remembered, LatestOK
  <2> QED  BY <2>1, <2>2
<1> QED  BY <1>5, <1>6, <1>7, <1>8 DEF Remembered

\* The step that forgets receipts: of two that cover a digest the later one
\* is not forgotten first.
LEMMA RememberedMetadata ==
  ASSUME Typed, Remembered, SweepMetadata
  PROVE  Remembered'
<1>t. /\ clock \in Nat /\ receipts \subseteq Receipt /\ sweep.now \in Nat
      /\ \A d \in Digests : rows[d].at \in Nat
      /\ \A x \in receipts : x.at \in Nat
  BY DEF Typed, TypeOK, Rows, Receipt
<1>e. UNCHANGED <<clock, rows, tasks>> /\ sweep'.now = sweep.now
  BY DEF SweepMetadata, Typed, TypeOK
<1>s. receipts' \subseteq receipts
  BY DEF SweepMetadata
<1>k. \A x \in receipts, y \in receipts : x \in receipts' /\ y.at >= x.at => y \in receipts'
  BY <1>t, WindowsAssumption DEF SweepMetadata, ReceiptAged, Aged
<1>l. \A y \in receipts : clock <= y.at + ReceiptWindow => y \in receipts'
  BY <1>t, WindowsAssumption DEF SweepMetadata, ReceiptAged, Aged, Remembered, StampsOK
<1>1. ErasedIsReceipted'
  BY <1>e, <1>l DEF Remembered, ErasedIsReceipted
<1>2. StampsOK' /\ CoverageOK'
  BY <1>e, <1>s DEF Remembered, StampsOK, CoverageOK
<1>3. LatestOK'
  <2> SUFFICES ASSUME NEW d \in Digests, rows[d].state = "erased"
               PROVE  /\ \A x \in receipts' : d \in x.covers => x.at <= rows[d].at
                      /\ (\E x \in receipts' : d \in x.covers) => Receipted(d)'
    BY <1>e DEF LatestOK
  <2>1. \A x \in receipts' : d \in x.covers => x.at <= rows[d].at
    BY <1>s DEF Remembered, LatestOK
  <2>2. ASSUME NEW x \in receipts', d \in x.covers PROVE Receipted(d)'
    <3>1. PICK y \in receipts : d \in y.covers /\ y.at = rows[d].at /\ y.terms = rows[d].terms
      BY <1>s, <2>2 DEF Remembered, LatestOK, Receipted
    <3>2. y \in receipts'
      BY <1>k, <1>s, <1>t, <2>1, <2>2, <3>1
    <3> QED  BY <3>1, <3>2, <1>e DEF Receipted
  <2> QED  BY <2>1, <2>2
<1> QED  BY <1>1, <1>2, <1>3 DEF Remembered

LEMMA RememberedBegin ==
  ASSUME Typed, Remembered, NEW r \in Requests, NEW s \in Scopes, NEW op \in Ops,
         EraseBegin(r, s, op)
  PROVE  Remembered'
<1>t. /\ clock \in Nat /\ tasks \in [Requests -> Tasks] /\ receipts \subseteq Receipt
      /\ rows \in [Digests -> Rows] /\ sweep.now \in Nat
      /\ \A d \in Digests : rows[d].at \in Nat
      /\ \A x \in receipts : x.at \in Nat
      /\ \A q \in Requests : tasks[q].now \in Nat
  BY DEF Typed, TypeOK, Rows, Receipt, Tasks
<1>e. UNCHANGED <<rows, receipts, sweep>> /\ clock' = clock + 1
  BY DEF EraseBegin, ReadClock, tables
<1>1. \A q \in Requests : IF q = r THEN tasks'[q].now = clock + 1 ELSE tasks'[q] = tasks[q]
  BY <1>t, <1>e DEF EraseBegin, Begin
<1>2. ErasedIsReceipted'
  BY <1>e, <1>t, WindowsAssumption DEF Remembered, ErasedIsReceipted
<1>3. StampsOK'
  BY <1>e, <1>t, <1>1 DEF Remembered, StampsOK
<1>4. CoverageOK' /\ LatestOK'
  BY <1>e DEF Remembered, CoverageOK, LatestOK, Receipted
<1> QED  BY <1>2, <1>3, <1>4 DEF Remembered

LEMMA RememberedStep ==
  InOrder = TRUE => (Typed /\ Typed' /\ Remembered /\ [Next]_vars => Remembered')
<1> SUFFICES ASSUME InOrder = TRUE, Typed, Typed', Remembered, [Next]_vars PROVE Remembered'
  OBVIOUS
<1>t. /\ rows \in [Digests -> Rows] /\ tasks \in [Requests -> Tasks] /\ clock \in Nat
      /\ rows' \in [Digests -> Rows] /\ sweep.now <= clock /\ sweep.now \in Nat
  BY DEF Typed, TypeOK, Remembered, StampsOK
<1> DEFINE Quiet == /\ receipts' = receipts
                    /\ \A d \in Digests : rows'[d].state = "erased" => rows'[d] = rows[d]
                    /\ clock' \in Nat /\ clock' >= clock /\ sweep'.now <= clock'
                    /\ \A r \in Requests : tasks'[r].pc = "erase" => tasks'[r] = tasks[r]
<1>q. Quiet => Remembered'
  BY <1>t, RememberedFrame
<1>pre. ASSUME NEW d \in Digests, NEW op \in Ops, Preflight(d, op) PROVE Quiet
  BY <1>pre, <1>t DEF Preflight
<1>end. ASSUME NEW d \in Digests, GrantEnds(d) PROVE Quiet
  BY <1>end, <1>t DEF GrantEnds
<1>lose. ASSUME NEW d \in Digests, Lose(d) PROVE Quiet
  BY <1>lose, <1>t DEF Lose, Rows
<1>cb. ASSUME NEW r \in Requests, NEW d \in Digests, CommitBegin(r, d) PROVE Quiet
  BY <1>cb, <1>t DEF CommitBegin, Begin, tables
<1>cr. ASSUME NEW r \in Requests, CommitRefused(r) PROVE Quiet
  BY <1>cr, <1>t DEF CommitRefused, Answer, NoTask
<1>ct. ASSUME NEW r \in Requests, CommitRetain(r) PROVE Quiet
  BY <1>ct, <1>t DEF CommitRetain, Goto, LiveRow, Tasks
<1>cd. ASSUME NEW r \in Requests, CommitDrop(r) PROVE Quiet
  BY <1>cd, <1>t DEF CommitDrop, Goto, Tasks
<1>co. ASSUME NEW r \in Requests, CommitOutcome(r) PROVE Quiet
  BY <1>co, <1>t DEF CommitOutcome, Answer, NoTask
<1>er. ASSUME NEW r \in Requests, EraseReplay(r) PROVE Quiet
  BY <1>er, <1>t DEF EraseReplay, Answer, NoTask
<1>ef. ASSUME NEW r \in Requests, EraseRefused(r) PROVE Quiet
  BY <1>ef, <1>t DEF EraseRefused, Answer, NoTask, tables
<1>sb. ASSUME SweepBegin PROVE Quiet
  BY <1>sb, <1>t DEF SweepBegin, tables
<1>sr. ASSUME SweepReferences PROVE Quiet
  BY <1>sr, <1>t DEF SweepReferences, NoRow, IdleSweep
<1>tk. ASSUME Tick PROVE Quiet
  BY <1>tk, <1>t DEF Tick, ReadClock, tables
<1>rs. ASSUME NEW t \in Terms, Restart(t) PROVE Quiet
  BY <1>rs, <1>t DEF Restart, NoTask, IdleSweep
<1>un. ASSUME UNCHANGED vars PROVE Quiet
  BY <1>un, <1>t DEF vars, tables
<1> HIDE DEF Quiet
<1> QED  BY <1>q, <1>pre, <1>end, <1>lose, <1>cb, <1>cr, <1>ct, <1>cd, <1>co, <1>er, <1>ef,
            <1>sb, <1>sr, <1>tk, <1>rs, <1>un, StepCases,
            RememberedMint, RememberedMetadata, RememberedBegin

\* An erasure keeps its receipt, under the pinned terms, for the declared
\* window, whatever is uploaded, erased, swept or restarted in the meantime.
THEOREM ErasuresAreReceipted == InOrder = TRUE => (Spec => []ErasedIsReceipted)
<1> SUFFICES ASSUME InOrder = TRUE PROVE Spec => []ErasedIsReceipted
  OBVIOUS
<1>1. Typed /\ Typed' /\ Remembered /\ [Next]_vars => Remembered'
  BY RememberedStep
<1>2. Remembered => ErasedIsReceipted
  BY DEF Remembered
<1> QED  BY <1>1, <1>2, TypeInit, TypeStep, RememberedInit, PTL DEF Spec

\* As much of the types as the answer to a retry depends on.
Shaped ==
  /\ \A d \in Digests : /\ rows[d].state \in {"none", "live", "erased", "lost"}
                          /\ rows[d].at \in Nat
  /\ \A x \in receipts : x.at \in Nat

LEMMA ShapedFollows == Typed => Shaped
  BY DEF Typed, TypeOK, Shaped, Rows, Receipt

\* The answer to a retry about one digest is what its latest erasure earned.
LEMMA LatestFollows ==
  ASSUME Shaped, CoverageOK, LatestOK
  PROVE  LatestErasureAnswered
<1> SUFFICES ASSUME NEW d \in Digests, rows[d].state = "erased", NEW x \in Newest(d)
             PROVE  x.at = rows[d].at /\ d \in x.covers
  BY DEF LatestErasureAnswered
<1>t. rows[d].at \in Nat /\ \A y \in receipts : y.at \in Nat
  BY DEF Shaped
<1>s. InState(d, "erased") = {d}
  BY NamesAssumption DEF InState, InScope
<1>1. x \in receipts /\ d \in x.covers
  BY <1>s DEF Newest, Candidates, CoverageOK
<1>2. PICK y \in receipts : d \in y.covers /\ y.at = rows[d].at
  BY <1>1 DEF LatestOK, Receipted
<1>3. y \in Candidates(d)
  BY <1>2, <1>s DEF Candidates
<1>4. y.at <= x.at
  BY <1>3 DEF Newest
<1>5. x.at <= rows[d].at
  BY <1>1 DEF LatestOK
<1> QED  BY <1>1, <1>2, <1>4, <1>5, <1>t

\* A retried erasure is never answered with the receipt of an earlier life of
\* the snapshot.
THEOREM LatestErasureIsAnswered == InOrder = TRUE => (Spec => []LatestErasureAnswered)
<1> SUFFICES ASSUME InOrder = TRUE PROVE Spec => []LatestErasureAnswered
  OBVIOUS
<1>1. Typed /\ Typed' /\ Remembered /\ [Next]_vars => Remembered'
  BY RememberedStep
<1>2. Typed /\ Remembered => LatestErasureAnswered
  BY ShapedFollows, LatestFollows DEF Remembered
<1> QED  BY <1>1, <1>2, TypeInit, TypeStep, RememberedInit, PTL DEF Spec

-----------------------------------------------------------------------------
(* From an outcome to its receipts *)

\* Nothing is swept with a clock that is ahead of this one.
Named == sweep.now <= clock /\ OutcomeLeadsToReceipt

\* What outcomes name was named before or is there, and no receipt goes before
\* its window is over.
LEMMA NamedFrame ==
  ASSUME Typed, Named,
         clock' \in Nat, clock' >= clock, sweep'.now <= clock',
         \A x \in receipts : clock' <= x.at + ReceiptWindow => x \in receipts',
         \A op \in Ops : Reconciled(op)' \subseteq
                           Reconciled(op) \cup {ReceiptId(x) : x \in receipts'}
  PROVE  Named'
<1> SUFFICES ASSUME NEW op \in Ops, NEW id \in Reconciled(op)',
                    clock' <= id[1] + ReceiptWindow
             PROVE  \E x \in receipts' : ReceiptId(x) = id
  BY DEF Named, OutcomeLeadsToReceipt, Fetched
<1>t. clock \in Nat /\ ReceiptWindow \in Nat /\ outcomes \in [Ops -> Outcomes \cup {None}]
  BY WindowsAssumption DEF Typed, TypeOK
<1>1. CASE id \in {ReceiptId(x) : x \in receipts'}
  BY <1>1
<1>2. CASE id \in Reconciled(op)
  <2>1. id[1] \in Nat
    BY <1>t, <1>2 DEF Reconciled, Outcomes
  <2>2. clock <= id[1] + ReceiptWindow
    BY <1>t, <2>1
  <2>3. PICK x \in receipts : ReceiptId(x) = id
    BY <1>2, <2>2 DEF Named, OutcomeLeadsToReceipt, Fetched
  <2>4. id[1] = x.at
    BY <2>3 DEF ReceiptId
  <2> QED  BY <2>3, <2>4
<1> QED  BY <1>1, <1>2

LEMMA NamedStep ==
  ASSUME Typed, Named, [Next]_vars
  PROVE  Named'
<1>t. /\ clock \in Nat /\ sweep.now \in Nat /\ sweep.now <= clock
      /\ receipts \subseteq Receipt /\ outcomes \in [Ops -> Outcomes \cup {None}]
  BY DEF Typed, TypeOK, Named
<1> DEFINE Later == clock' \in Nat /\ clock' >= clock /\ sweep'.now <= clock'
           Quiet == Later /\ receipts' = receipts /\ outcomes' = outcomes
<1>l. Later <=> (clock' \in Nat /\ clock' >= clock /\ sweep'.now <= clock')
  OBVIOUS
<1>q. ASSUME Quiet PROVE Named'
  BY <1>q, NamedFrame DEF Reconciled
<1>pre. ASSUME NEW d \in Digests, NEW op \in Ops, Preflight(d, op) PROVE Quiet
  BY <1>pre, <1>t DEF Preflight
<1>end. ASSUME NEW d \in Digests, GrantEnds(d) PROVE Quiet
  BY <1>end, <1>t DEF GrantEnds
<1>lose. ASSUME NEW d \in Digests, Lose(d) PROVE Quiet
  BY <1>lose, <1>t DEF Lose
<1>cb. ASSUME NEW r \in Requests, NEW d \in Digests, CommitBegin(r, d) PROVE Quiet
  BY <1>cb, <1>t DEF CommitBegin, tables
<1>cr. ASSUME NEW r \in Requests, CommitRefused(r) PROVE Quiet
  BY <1>cr, <1>t DEF CommitRefused
<1>ct. ASSUME NEW r \in Requests, CommitRetain(r) PROVE Quiet
  BY <1>ct, <1>t DEF CommitRetain
<1>cd. ASSUME NEW r \in Requests, CommitDrop(r) PROVE Quiet
  BY <1>cd, <1>t DEF CommitDrop
<1>co. ASSUME NEW r \in Requests, CommitOutcome(r) PROVE Named'
  <2>1. Later /\ receipts' = receipts
    BY <1>co, <1>t DEF CommitOutcome
  <2>2. \A op \in Ops : outcomes'[op] = outcomes[op] \/ outcomes'[op].ids = {}
    BY <1>co, <1>t DEF CommitOutcome, Record
  <2> QED  BY <2>1, <2>2, NamedFrame DEF Reconciled
<1>eb. ASSUME NEW r \in Requests, NEW s \in Scopes, NEW op \in Ops, EraseBegin(r, s, op)
       PROVE  Quiet
  BY <1>eb, <1>t DEF EraseBegin, ReadClock, tables
<1>ack. ASSUME NEW r \in Requests, NEW S, Acknowledged(r, S)
        PROVE  \A op \in Ops : outcomes'[op] = outcomes[op]
                                \/ outcomes'[op].ids = {ReceiptId(x) : x \in S}
  BY <1>ack, <1>t DEF Acknowledged, Record
<1>em. ASSUME NEW r \in Requests, EraseMint(r) PROVE Named'
  <2>e. clock' = clock /\ sweep' = sweep /\ receipts' = receipts \cup Minted(r)
    BY <1>em DEF EraseMint
  <2>1. Later /\ receipts' = receipts \cup Minted(r)
    BY <2>e, <1>t
  <2>2. \A op \in Ops : outcomes'[op] = outcomes[op]
                         \/ outcomes'[op].ids = {ReceiptId(x) : x \in Minted(r)}
    BY <1>em, <1>ack DEF EraseMint
  <2> QED  BY <2>1, <2>2, NamedFrame DEF Reconciled
<1>er. ASSUME NEW r \in Requests, EraseReplay(r) PROVE Named'
  <2>1. Later /\ receipts' = receipts
    BY <1>er, <1>t DEF EraseReplay
  <2>2. \A op \in Ops : outcomes'[op] = outcomes[op]
                \/ outcomes'[op].ids = {ReceiptId(x) : x \in Newest(tasks[r].subject)}
    BY <1>er, <1>ack DEF EraseReplay
  <2>3. Newest(tasks[r].subject) \subseteq receipts
    BY DEF Newest, Candidates
  <2> QED  BY <2>1, <2>2, <2>3, NamedFrame DEF Reconciled
<1>ef. ASSUME NEW r \in Requests, EraseRefused(r) PROVE Quiet
  BY <1>ef, <1>t DEF EraseRefused, tables
<1>sb. ASSUME SweepBegin PROVE Quiet
  BY <1>sb, <1>t DEF SweepBegin, tables
<1>sm. ASSUME SweepMetadata PROVE Named'
  <2>1. Later
    BY <1>sm, <1>t DEF SweepMetadata, Typed, TypeOK
  <2>2. \A x \in receipts : clock' <= x.at + ReceiptWindow => x \in receipts'
    BY <1>sm, <1>t, WindowsAssumption DEF SweepMetadata, ReceiptAged, Aged, Receipt
  <2>3. \A op \in Ops : outcomes'[op] = outcomes[op] \/ outcomes'[op] = None
    BY <1>sm, <1>t DEF SweepMetadata, OutcomesKept
  <2> QED  BY <2>1, <2>2, <2>3, NamedFrame DEF Reconciled
<1>sr. ASSUME SweepReferences PROVE Quiet
  BY <1>sr, <1>t DEF SweepReferences, IdleSweep
<1>tk. ASSUME Tick PROVE Quiet
  BY <1>tk, <1>t DEF Tick, ReadClock, tables
<1>rs. ASSUME NEW t \in Terms, Restart(t) PROVE Quiet
  BY <1>rs, <1>t DEF Restart, IdleSweep
<1>un. ASSUME UNCHANGED vars PROVE Quiet
  BY <1>un, <1>t DEF vars, tables
<1> HIDE DEF Quiet
<1> QED  BY <1>q, <1>pre, <1>end, <1>lose, <1>cb, <1>cr, <1>ct, <1>cd, <1>co, <1>eb, <1>em,
            <1>er, <1>ef, <1>sb, <1>sm, <1>sr, <1>tk, <1>rs, <1>un, StepCases

\* The outcome of an erasure leads to its receipts for as long as the window
\* lasts, in whatever order erasures came and whatever failed.
THEOREM OutcomesLeadToReceipts == Spec => []OutcomeLeadsToReceipt
<1>1. Init => Named
  BY DEF Init, Named, OutcomeLeadsToReceipt, Reconciled, IdleSweep
<1>2. Named => OutcomeLeadsToReceipt
  BY DEF Named
<1> QED  BY <1>1, <1>2, NamedStep, TypeInit, TypeStep, PTL DEF Spec

-----------------------------------------------------------------------------
(* Evidence is not denied *)

\* How the windows and the time a handler takes have to lie, and that the two
\* statements of the sweep work: then receipts go first.
ReceiptsGoFirst == MaxWait <= ReceiptWindow /\ ReceiptWindow <= ReferenceWindow /\ MaxFailures = 0

\* A row stands for whatever a receipt covers.
Standing == \A x \in receipts : \A d \in x.covers \cap Digests : rows[d].state # "none"

\* That; a handler's reading of the
\* clock is never old; and between the sweep's statements no receipt is left
\* that is past its window, not one that was issued in between either.
Evident ==
  /\ Standing
  /\ \A r \in Requests : tasks[r] # NoTask => clock <= tasks[r].now + MaxWait
  /\ sweep.pc = "references" => \A x \in receipts : sweep.now <= x.at + ReceiptWindow

\* A step that issues and forgets no receipt and no row.
LEMMA EvidentFrame ==
  ASSUME Evident,
         receipts' = receipts, clock' = clock,
         \A d \in Digests : rows'[d].state = "none" => rows[d].state = "none",
         sweep' = sweep \/ sweep'.pc # "references",
         \A r \in Requests : tasks'[r] # NoTask =>
           \/ tasks[r] # NoTask /\ tasks'[r].now = tasks[r].now
           \/ clock <= tasks'[r].now + MaxWait
  PROVE  Evident'
  BY DEF Evident, Standing

\* What step (8) forgets is what no receipt tells of any more.
LEMMA SweptUncovered ==
  ASSUME ReceiptsGoFirst, Typed, Remembered, Evident, sweep.pc = "references",
         NEW x \in receipts, NEW d \in x.covers \cap Digests
  PROVE  ~ReferenceAged(rows[d])
<1>t. /\ sweep.now \in Nat /\ rows[d].at \in Nat /\ x.at \in Nat
      /\ ReceiptWindow \in Nat /\ ReferenceWindow \in Nat
  BY WindowsAssumption DEF Typed, TypeOK, Rows, Receipt
<1>1. rows[d].state = "erased" => x.at <= rows[d].at
  BY DEF Remembered, LatestOK
<1>2. sweep.now <= x.at + ReceiptWindow
  BY DEF Evident
<1> QED  BY <1>t, <1>1, <1>2 DEF ReferenceAged, Aged, ReceiptsGoFirst

LEMMA EvidentStep ==
  ASSUME ReceiptsGoFirst, Typed, Remembered, Evident, [Next]_vars
  PROVE  Evident'
<1>t. /\ clock \in Nat /\ sweep.now \in Nat /\ sweep.now <= clock /\ MaxWait \in Nat
      /\ ReceiptWindow \in Nat /\ ReferenceWindow \in Nat
      /\ receipts \subseteq Receipt /\ rows \in [Digests -> Rows]
      /\ tasks \in [Requests -> Tasks] /\ failures \in 0 .. MaxFailures
      /\ clock <= clock + MaxWait
  BY WindowsAssumption, EnvironmentAssumption DEF Typed, TypeOK, Remembered, StampsOK
<1> DEFINE Quiet == /\ receipts' = receipts /\ clock' = clock
                    /\ \A d \in Digests : rows'[d].state = "none" => rows[d].state = "none"
                    /\ sweep' = sweep \/ sweep'.pc # "references"
                    /\ \A r \in Requests : tasks'[r] # NoTask =>
                         \/ tasks[r] # NoTask /\ tasks'[r].now = tasks[r].now
                         \/ clock <= tasks'[r].now + MaxWait
<1>q. Quiet => Evident'
  BY EvidentFrame
<1>w. ~Fails
  BY <1>t DEF Fails, ReceiptsGoFirst
<1>pre. ASSUME NEW d \in Digests, NEW op \in Ops, Preflight(d, op) PROVE Quiet
  BY <1>pre, <1>t DEF Preflight
<1>end. ASSUME NEW d \in Digests, GrantEnds(d) PROVE Quiet
  BY <1>end, <1>t DEF GrantEnds
<1>lose. ASSUME NEW d \in Digests, Lose(d) PROVE Quiet
  BY <1>lose, <1>t DEF Lose, Rows
<1>cb. ASSUME NEW r \in Requests, NEW d \in Digests, CommitBegin(r, d) PROVE Quiet
  <2>1. \A q \in Requests : tasks'[q] = tasks[q] \/ tasks'[q].now = clock
    BY <1>cb, <1>t DEF CommitBegin, Begin
  <2>2. receipts' = receipts /\ clock' = clock /\ rows' = rows /\ sweep' = sweep
    BY <1>cb DEF CommitBegin, tables
  <2> QED  BY <1>t, <2>1, <2>2
<1>cr. ASSUME NEW r \in Requests, CommitRefused(r) PROVE Quiet
  BY <1>cr, <1>t DEF CommitRefused, Answer
<1>go. ASSUME NEW r \in Requests, NEW there, Goto(r, there), tasks[r].pc # "idle"
       PROVE  \A q \in Requests : tasks'[q] # NoTask =>
                tasks[q] # NoTask /\ tasks'[q].now = tasks[q].now
  BY <1>go, <1>t DEF Goto, NoTask, Tasks
<1>ct. ASSUME NEW r \in Requests, CommitRetain(r) PROVE Quiet
  <2>1. Goto(r, "drop") /\ tasks[r].pc # "idle" /\ receipts' = receipts /\ clock' = clock
          /\ sweep' = sweep
    BY <1>ct DEF CommitRetain
  <2>2. \A d \in Digests : rows'[d].state = "none" => rows[d].state = "none"
    BY <1>ct, <1>t DEF CommitRetain, LiveRow
  <2> QED  BY <2>1, <2>2, <1>go
<1>cd. ASSUME NEW r \in Requests, CommitDrop(r) PROVE Quiet
  BY <1>cd, <1>go DEF CommitDrop
<1>co. ASSUME NEW r \in Requests, CommitOutcome(r) PROVE Quiet
  BY <1>co, <1>t DEF CommitOutcome, Answer
<1>rc. ASSUME ReadClock
       PROVE  /\ clock' = clock + 1
              /\ \A r \in Requests : tasks[r] # NoTask => clock' <= tasks[r].now + MaxWait
  BY <1>rc, <1>t DEF ReadClock, Tasks
<1>eb. ASSUME NEW r \in Requests, NEW s \in Scopes, NEW op \in Ops, EraseBegin(r, s, op)
       PROVE  Evident'
  <2>1. \A q \in Requests : tasks'[q] = tasks[q] \/ tasks'[q].now = clock'
    BY <1>eb, <1>t DEF EraseBegin, Begin
  <2>2. receipts' = receipts /\ rows' = rows /\ sweep' = sweep /\ ReadClock
    BY <1>eb DEF EraseBegin, tables
  <2>3. clock' <= clock' + MaxWait
    BY <1>t, <1>rc, <2>2
  <2> QED  BY <1>rc, <2>1, <2>2, <2>3 DEF Evident, Standing
<1>em. ASSUME NEW r \in Requests, EraseMint(r) PROVE Evident'
  <2>1. /\ receipts' = receipts \cup Minted(r) /\ clock' = clock /\ sweep' = sweep
        /\ tasks[r].pc = "erase" /\ Answer(r)
    BY <1>em DEF EraseMint, EraseTurn
  <2>2. \A d \in Digests : rows'[d].state = "none" => rows[d].state = "none" /\ rows'[d] = rows[d]
    BY <1>em, <1>t DEF EraseMint, Rows
  <2>3. \A d \in Targets(tasks[r].subject) \cap Digests : rows'[d].state = "erased"
    BY <1>em, <1>t DEF EraseMint, Rows
  <2>4. \A x \in Minted(r) : /\ x.at = tasks[r].now
                              /\ x.covers \subseteq Targets(tasks[r].subject)
    BY MintedFields
  <2>5. \A x \in receipts' : \A d \in x.covers \cap Digests : rows'[d].state # "none"
    BY <2>1, <2>2, <2>3, <2>4 DEF Evident, Standing
  <2>6. clock <= tasks[r].now + MaxWait /\ tasks[r].now \in Nat
    BY <2>1, <1>t DEF Evident, NoTask, Tasks
  <2>7. sweep.now <= tasks[r].now + ReceiptWindow
    BY <2>6, <1>t DEF ReceiptsGoFirst
  <2>8. \A q \in Requests : tasks'[q] # NoTask => tasks'[q] = tasks[q]
    BY <2>1, <1>t DEF Answer
  <2> QED  BY <2>1, <2>4, <2>5, <2>7, <2>8 DEF Evident, Standing
<1>er. ASSUME NEW r \in Requests, EraseReplay(r) PROVE Quiet
  BY <1>er, <1>t DEF EraseReplay, Answer
<1>ef. ASSUME NEW r \in Requests, EraseRefused(r) PROVE Quiet
  BY <1>ef, <1>t DEF EraseRefused, Answer, tables
<1>sb. ASSUME SweepBegin PROVE Quiet
  BY <1>sb, <1>t DEF SweepBegin, tables
<1>sm. ASSUME SweepMetadata PROVE Evident'
  <2>1. receipts' = {x \in receipts : ~ReceiptAged(x)}
          /\ clock' = clock /\ rows' = rows /\ tasks' = tasks
    BY <1>sm, <1>w DEF SweepMetadata
  <2>2. sweep'.now = sweep.now
    BY <1>sm DEF SweepMetadata, Typed, TypeOK
  <2>3. \A x \in receipts' : sweep.now <= x.at + ReceiptWindow
    BY <2>1, <1>t DEF ReceiptAged, Aged, Receipt
  <2> QED  BY <2>1, <2>2, <2>3 DEF Evident, Standing
<1>sr. ASSUME SweepReferences PROVE Evident'
  <2>1. rows' = [d \in Digests |-> IF ReferenceAged(rows[d]) THEN NoRow ELSE rows[d]]
          /\ receipts' = receipts /\ clock' = clock /\ tasks' = tasks /\ sweep' = IdleSweep
          /\ sweep.pc = "references"
    BY <1>sr, <1>w DEF SweepReferences
  <2>2. \A x \in receipts : \A d \in x.covers \cap Digests : ~ReferenceAged(rows[d])
    BY <2>1, SweptUncovered
  <2> QED  BY <2>1, <2>2 DEF Evident, Standing, IdleSweep
<1>tk. ASSUME Tick PROVE Evident'
  <2>1. receipts' = receipts /\ rows' = rows /\ sweep' = sweep /\ tasks' = tasks /\ ReadClock
    BY <1>tk DEF Tick, tables
  <2> QED  BY <1>rc, <2>1 DEF Evident, Standing
<1>rs. ASSUME NEW t \in Terms, Restart(t) PROVE Quiet
  BY <1>rs, <1>t DEF Restart, IdleSweep
<1>un. ASSUME UNCHANGED vars PROVE Quiet
  BY <1>un, <1>t DEF vars, tables
<1> HIDE DEF Quiet
<1> QED  BY <1>q, <1>pre, <1>end, <1>lose, <1>cb, <1>cr, <1>ct, <1>cd, <1>co, <1>eb, <1>em,
            <1>er, <1>ef, <1>sb, <1>sm, <1>sr, <1>tk, <1>rs, <1>un, StepCases

LEMMA EvidenceFollows ==
  ASSUME Shaped, CoverageOK, LatestOK, Standing
  PROVE  EvidenceNotDenied
<1> SUFFICES ASSUME NEW d \in Digests, NEW x \in receipts, d \in x.covers
             PROVE  Decision(d) \notin {"receipt_expired", "not_found"}
  BY DEF EvidenceNotDenied
<1>i. InScope(d) = {d}
  BY NamesAssumption DEF InScope
<1>1. rows[d].state \in {"live", "lost", "erased"}
  BY DEF Standing, Shaped
<1>2. CASE rows[d].state = "live"
  <2>1. Targets(d) # {}
    BY <1>2, <1>i DEF Targets, InState
  <2> QED  BY <2>1 DEF Decision
<1>3. CASE rows[d].state = "lost"
  <2>1. InState(d, "lost") # {}
    BY <1>3, <1>i DEF InState
  <2> QED  BY <2>1 DEF Decision
<1>4. CASE rows[d].state = "erased"
  <2>1. PICK y \in receipts : d \in y.covers /\ y.at = rows[d].at
    BY <1>4 DEF LatestOK, Receipted
  <2>2. y \in Candidates(d)
    BY <2>1, <1>4, <1>i DEF Candidates, InState
  <2>3. \A q \in Candidates(d) : q \in receipts /\ d \in q.covers
    BY <1>i DEF Candidates, InState, CoverageOK
  <2>4. y \in Newest(d)
    BY <2>1, <2>2, <2>3, <1>4 DEF Newest, LatestOK
  <2> QED  BY <2>4 DEF Decision
<1> QED  BY <1>1, <1>2, <1>3, <1>4

\* A holder is not told that there is no evidence while there is: when erasures
\* take the locks in the order of their clocks, receipts are kept no longer
\* than references, and no statement of the sweep fails.
THEOREM EvidenceIsNotDenied ==
  InOrder = TRUE /\ ReceiptsGoFirst => (Spec => []EvidenceNotDenied)
<1> SUFFICES ASSUME InOrder = TRUE, ReceiptsGoFirst PROVE Spec => []EvidenceNotDenied
  OBVIOUS
<1>1. Typed /\ Typed' /\ Remembered /\ [Next]_vars => Remembered'
  BY RememberedStep
<1>2. Init => Evident
  BY DEF Init, Evident, Standing, IdleSweep
<1>3. Typed /\ Remembered /\ Evident /\ [Next]_vars => Evident'
  BY EvidentStep
<1>4. Typed /\ Remembered /\ Evident => EvidenceNotDenied
  BY ShapedFollows, EvidenceFollows DEF Remembered, Evident
<1> QED  BY <1>1, <1>2, <1>3, <1>4, TypeInit, TypeStep, RememberedInit, PTL DEF Spec

-----------------------------------------------------------------------------
(* Receipts implements Evidence *)

\* A commit that writes a row writes one that is retained from now on.
LEMMA RetainIsSeen ==
  ASSUME Typed, NEW r \in Requests, CommitRetain(r)
  PROVE  [Promised!Next]_<<clock, rows, receipts>>
<1> DEFINE d == tasks[r].subject
           t == tasks[r].terms
<1>1. d \in Digests /\ t \in Terms /\ rows \in [Digests -> Rows]
  BY DEF CommitRetain, Typed, TypeOK, HandlersOK
<1>2. /\ rows' = [rows EXCEPT ![d] = IF @.state = "live" THEN @ ELSE LiveRow(t)]
      /\ UNCHANGED <<clock, receipts>>
  BY DEF CommitRetain
<1>3. CASE rows[d].state = "live"
  BY <1>1, <1>2, <1>3
<1>4. CASE rows[d].state # "live"
  <2>1. Promised!Retain(d, t)
    BY <1>1, <1>2, <1>4 DEF Promised!Retain, LiveRow
  <2> QED BY <1>1, <2>1 DEF Promised!Next
<1> QED BY <1>3, <1>4

LEMMA ErasedRow ==
  ASSUME NEW row \in Rows, NEW n
  PROVE  [row EXCEPT !.state = "erased", !.at = n]
           = [state |-> "erased", terms |-> row.terms, at |-> n]
<1> DEFINE half == [row EXCEPT !.state = "erased"]
<1>1. half = [state |-> "erased", terms |-> row.terms, at |-> row.at]
  BY DEF Rows
<1> HIDE DEF half
<1>2. [half EXCEPT !.at = n] = [state |-> "erased", terms |-> row.terms, at |-> n]
  BY <1>1
<1> QED BY <1>2 DEF half

\* The step that signs is an erasure at the moment its handler was begun at:
\* later than all before, because the locks were taken in that order.
LEMMA MintIsSeen ==
  ASSUME Typed, Remembered, NEW r \in Requests, EraseMint(r)
  PROVE  [Promised!Next]_<<clock, rows, receipts>>
<1> DEFINE s == tasks[r].subject
           n == tasks[r].now
<1>h. tasks[r].pc = "erase"
  BY DEF EraseMint, EraseTurn
<1>t. s \in Scopes /\ n \in Nat /\ clock \in Nat /\ rows \in [Digests -> Rows]
  BY <1>h DEF Typed, TypeOK, HandlersOK, Tasks
<1>1. Promised!Retained(s) = Targets(s)
  BY DEF Promised!Retained, Targets, InState, InScope
<1>2. Targets(s) # {}
  BY DEF EraseMint, Decision
<1>3. /\ n <= clock
      /\ \A x \in receipts : x.at < n
      /\ \A d \in Digests : rows[d].state = "erased" => rows[d].at < n
  BY <1>h DEF Remembered, StampsOK
<1>4. rows' = [d \in Digests |-> IF d \in Targets(s)
                                 THEN [state |-> "erased", terms |-> rows[d].terms, at |-> n]
                                 ELSE rows[d]]
  <2>1. \A d \in Digests : [rows[d] EXCEPT !.state = "erased", !.at = n]
                             = [state |-> "erased", terms |-> rows[d].terms, at |-> n]
    BY <1>t, ErasedRow DEF Typed, TypeOK
  <2>2. rows' = [d \in Digests |-> IF d \in Targets(s)
                                   THEN [rows[d] EXCEPT !.state = "erased", !.at = n]
                                   ELSE rows[d]]
    BY Zenon DEF EraseMint
  <2> QED BY <2>1, <2>2
<1>5. Minted(r) = {[scope |-> s, terms |-> rows[e].terms, at |-> n,
                    covers |-> {d \in Targets(s) : rows[d].terms = rows[e].terms}] :
                      e \in Targets(s)}
  BY DEF Minted
<1>6. receipts' = receipts \cup Minted(r) /\ clock' = clock
  BY DEF EraseMint
<1>7. Promised!Erase(s, n)
  BY <1>1, <1>2, <1>3, <1>4, <1>5, <1>6 DEF Promised!Erase
<1>8. s \in Digests \cup {All} /\ n \in 0 .. clock
  BY <1>t, <1>3 DEF Scopes
<1> QED BY <1>7, <1>8 DEF Promised!Next

\* Steps (6-7) of the sweep forget by age as of the reading they go by.
LEMMA MetadataIsSeen ==
  ASSUME Typed, Remembered, SweepMetadata
  PROVE  [Promised!Next]_<<clock, rows, receipts>>
<1>t. /\ sweep.now \in Nat /\ sweep.now <= clock /\ clock \in Nat /\ ReceiptWindow \in Nat
      /\ \A x \in receipts : x.at \in Nat
  BY WindowsAssumption DEF Typed, TypeOK, Remembered, StampsOK, Receipt
<1>1. UNCHANGED <<clock, rows>>
  BY DEF SweepMetadata
<1>2. CASE UNCHANGED receipts
  BY <1>1, <1>2
<1>3. CASE receipts' = {x \in receipts : ~ReceiptAged(x)}
  <2>1. \A x \in receipts : ~ReceiptAged(x) <=> sweep.now <= x.at + ReceiptWindow
    BY <1>t DEF ReceiptAged, Aged
  <2>2. Promised!ForgetReceipts(sweep.now)
    BY <1>t, <1>1, <1>3, <2>1 DEF Promised!ForgetReceipts
  <2> QED BY <1>t, <2>2 DEF Promised!Next
<1> QED BY <1>2, <1>3 DEF SweepMetadata

\* Step (8) forgets erasures, and none that a receipt tells of.
LEMMA ReferencesAreSeen ==
  ASSUME ReceiptsGoFirst, Typed, Remembered, Evident, SweepReferences
  PROVE  [Promised!Next]_<<clock, rows, receipts>>
<1>t. /\ sweep.now \in Nat /\ sweep.now <= clock /\ clock \in Nat /\ ReferenceWindow \in Nat
      /\ sweep.pc = "references" /\ \A d \in Digests : rows[d].at \in Nat
  BY WindowsAssumption DEF Typed, TypeOK, Remembered, StampsOK, Rows, SweepReferences
<1>1. UNCHANGED <<clock, receipts>>
  BY DEF SweepReferences
<1>2. CASE UNCHANGED rows
  BY <1>1, <1>2
<1>3. CASE rows' = [d \in Digests |-> IF ReferenceAged(rows[d]) THEN NoRow ELSE rows[d]]
  <2> DEFINE old == {d \in Digests : ReferenceAged(rows[d])}
  <2>1. rows' = [d \in Digests |-> IF d \in old THEN Promised!Unknown ELSE rows[d]]
    BY <1>3 DEF NoRow, Promised!Unknown
  <2>2. \A d \in old : rows[d].state = "erased" /\ rows[d].at + ReferenceWindow < clock
    BY <1>t DEF ReferenceAged, Aged
  <2>3. \A d \in old : \A x \in receipts : d \notin x.covers
    BY <1>t, SweptUncovered
  <2>4. Promised!ForgetErased(old)
    BY <1>1, <2>1, <2>2, <2>3 DEF Promised!ForgetErased
  <2> QED BY <2>4 DEF Promised!Next
<1> QED BY <1>2, <1>3 DEF SweepReferences

LEMMA EvidenceStep ==
  ASSUME ReceiptsGoFirst, Typed, Remembered, Evident, [Next]_vars
  PROVE  [Promised!Next]_<<clock, rows, receipts>>
<1> DEFINE Unseen == UNCHANGED <<clock, rows, receipts>>
           Seen == [Promised!Next]_<<clock, rows, receipts>>
<1>u. ASSUME Unseen PROVE Seen
  BY <1>u
<1>tick. ASSUME ReadClock, UNCHANGED <<rows, receipts>> PROVE Seen
  BY <1>tick DEF ReadClock, Promised!Tick, Promised!Next
<1>pre. ASSUME NEW d \in Digests, NEW op \in Ops, Preflight(d, op) PROVE Unseen
  BY <1>pre DEF Preflight
<1>end. ASSUME NEW d \in Digests, GrantEnds(d) PROVE Unseen
  BY <1>end DEF GrantEnds
<1>lose. ASSUME NEW d \in Digests, Lose(d) PROVE Seen
  <2>1. Promised!Lose(d)
    BY <1>lose DEF Lose, Promised!Lose
  <2> QED BY <2>1 DEF Promised!Next
<1>cb. ASSUME NEW r \in Requests, NEW d \in Digests, CommitBegin(r, d) PROVE Unseen
  BY <1>cb DEF CommitBegin, tables
<1>cr. ASSUME NEW r \in Requests, CommitRefused(r) PROVE Unseen
  BY <1>cr DEF CommitRefused
<1>ct. ASSUME NEW r \in Requests, CommitRetain(r) PROVE Seen
  BY <1>ct, RetainIsSeen
<1>cd. ASSUME NEW r \in Requests, CommitDrop(r) PROVE Unseen
  BY <1>cd DEF CommitDrop
<1>co. ASSUME NEW r \in Requests, CommitOutcome(r) PROVE Unseen
  BY <1>co DEF CommitOutcome
<1>eb. ASSUME NEW r \in Requests, NEW s \in Scopes, NEW op \in Ops, EraseBegin(r, s, op)
       PROVE  Seen
  BY <1>eb, <1>tick DEF EraseBegin, tables
<1>em. ASSUME NEW r \in Requests, EraseMint(r) PROVE Seen
  BY <1>em, MintIsSeen
<1>er. ASSUME NEW r \in Requests, EraseReplay(r) PROVE Unseen
  BY <1>er DEF EraseReplay
<1>ef. ASSUME NEW r \in Requests, EraseRefused(r) PROVE Unseen
  BY <1>ef DEF EraseRefused, tables
<1>sb. ASSUME SweepBegin PROVE Unseen
  BY <1>sb DEF SweepBegin, tables
<1>sm. ASSUME SweepMetadata PROVE Seen
  BY <1>sm, MetadataIsSeen
<1>sr. ASSUME SweepReferences PROVE Seen
  BY <1>sr, ReferencesAreSeen
<1>tk. ASSUME Tick PROVE Seen
  BY <1>tk, <1>tick DEF Tick, tables
<1>rs. ASSUME NEW t \in Terms, Restart(t) PROVE Unseen
  BY <1>rs DEF Restart
<1>un. ASSUME UNCHANGED vars PROVE Unseen
  BY <1>un DEF vars, tables
<1> HIDE DEF Unseen, Seen
<1>1. Seen
  BY <1>u, <1>pre, <1>end, <1>lose, <1>cb, <1>cr, <1>ct, <1>cd, <1>co, <1>eb, <1>em,
     <1>er, <1>ef, <1>sb, <1>sm, <1>sr, <1>tk, <1>rs, <1>un, StepCases
<1> QED BY <1>1 DEF Seen

\* Receipts implements Evidence: whatever is uploaded again, erased, retried,
\* restarted under other terms or swept, an erasure is signed for once, for what
\* was retained, and evidence is forgotten by age alone and before the erasure
\* it tells of. For any constants, if erasures take the locks in the order of
\* their clocks, windows lie as they should and no statement of the sweep fails.
THEOREM ReceiptsKeepEvidence ==
  InOrder = TRUE /\ ReceiptsGoFirst => (Spec => EvidenceKept)
<1> SUFFICES ASSUME InOrder = TRUE, ReceiptsGoFirst PROVE Spec => EvidenceKept
  OBVIOUS
<1>1. Init => Promised!Init
  BY DEF Init, NoRow, Promised!Init, Promised!Unknown
<1>2. Typed /\ Typed' /\ Remembered /\ [Next]_vars => Remembered'
  BY RememberedStep
<1>3. Init => Evident
  BY DEF Init, Evident, Standing, IdleSweep
<1>4. Typed /\ Remembered /\ Evident /\ [Next]_vars => Evident'
  BY EvidentStep
<1>5. Typed /\ Remembered /\ Evident /\ [Next]_vars
        => [Promised!Next]_<<clock, rows, receipts>>
  BY EvidenceStep
<1> QED BY <1>1, <1>2, <1>3, <1>4, <1>5, TypeInit, TypeStep, RememberedInit, PTL
        DEF Spec, EvidenceKept, Promised!Spec

-----------------------------------------------------------------------------
(* What Evidence is worth *)

\* What a holder who knows nothing but Evidence can rely on: the three
\* properties, and what makes them last through a step of it.
Reliable ==
  /\ clock \in Nat /\ DOMAIN rows = Digests
  /\ Shaped /\ Standing /\ CoverageOK /\ LatestOK /\ ErasedIsReceipted
  /\ \A x \in receipts : x.at <= clock

LEMMA ReliableErase ==
  ASSUME Reliable, NEW scope \in Scopes, NEW at \in 0 .. clock, Promised!Erase(scope, at)
  PROVE  Reliable'
<1> DEFINE doomed == Promised!Retained(scope)
           Signed(t) == [scope |-> scope, terms |-> t, at |-> at,
                         covers |-> {d \in doomed : rows[d].terms = t}]
           signed == {Signed(rows[d].terms) : d \in doomed}
<1>1. /\ clock' = clock /\ clock \in Nat /\ at \in Nat /\ at <= clock
      /\ receipts' = receipts \cup signed
      /\ rows' = [d \in Digests |-> IF d \in doomed
                                    THEN [state |-> "erased", terms |-> rows[d].terms, at |-> at]
                                    ELSE rows[d]]
  BY DEF Promised!Erase, Reliable
<1>2. \A d \in doomed : d \in Digests /\ rows[d].state = "live"
  BY DEF Promised!Retained, Scopes
<1>3. \A x \in signed : /\ x.scope = scope /\ x.at = at /\ x.covers \subseteq doomed
                        /\ \E d \in doomed : d \in x.covers
  OBVIOUS
<1>4. \A d \in doomed : \E y \in signed : /\ d \in y.covers /\ y.at = at
                                           /\ y.terms = rows[d].terms
  <2> SUFFICES ASSUME NEW d \in doomed
               PROVE  \E y \in signed : d \in y.covers /\ y.at = at /\ y.terms = rows[d].terms
    OBVIOUS
  <2>1. Signed(rows[d].terms) \in signed
    OBVIOUS
  <2>2. /\ d \in Signed(rows[d].terms).covers /\ Signed(rows[d].terms).at = at
        /\ Signed(rows[d].terms).terms = rows[d].terms
    OBVIOUS
  <2> QED BY <2>1, <2>2
<1> HIDE DEF doomed, signed, Signed
<1>5. \A d \in Digests :
        IF d \in doomed
        THEN rows'[d].state = "erased" /\ rows'[d].at = at /\ rows'[d].terms = rows[d].terms
        ELSE rows'[d] = rows[d]
  BY <1>1
<1>6. \A d \in doomed : Receipted(d)'
  BY <1>1, <1>2, <1>4, <1>5 DEF Receipted
<1>7. Shaped' /\ DOMAIN rows' = Digests
  <2>1. DOMAIN rows' = Digests
    BY <1>1
  <2>2. \A x \in receipts' : x.at \in Nat
    BY <1>1, <1>3 DEF Reliable, Shaped
  <2>3. \A d \in Digests : rows'[d].state \in {"none", "live", "erased", "lost"}
                            /\ rows'[d].at \in Nat
    BY <1>1, <1>5 DEF Reliable, Shaped
  <2> QED BY <2>1, <2>2, <2>3 DEF Shaped
<1>8. Standing'
  BY <1>1, <1>3, <1>5 DEF Reliable, Standing
<1>9. CoverageOK'
  <2>1. ASSUME NEW x \in signed, x.scope \in Digests PROVE x.scope \in x.covers
    <3>1. PICK d \in doomed : d \in x.covers
      BY <1>3, <2>1
    <3>2. d = scope /\ x.scope = scope
      BY <1>3, <2>1, <3>1, NamesAssumption DEF doomed, Promised!Retained
    <3> QED BY <3>1, <3>2
  <2> QED BY <1>1, <2>1 DEF Reliable, CoverageOK
<1>10. LatestOK' /\ ErasedIsReceipted'
  <2>1. ASSUME NEW d \in doomed
        PROVE  (\A x \in receipts' : x.at <= rows'[d].at) /\ Receipted(d)'
    <3>1. \A x \in receipts : x.at < at /\ x.at \in Nat
      BY DEF Promised!Erase, Reliable, Shaped
    <3>2. rows'[d].at = at
      BY <1>2, <1>5, <2>1
    <3>3. \A x \in receipts' : x.at <= at
      BY <1>1, <1>3, <3>1
    <3> QED BY <1>6, <2>1, <3>2, <3>3
  <2>2. ASSUME NEW d \in Digests, d \notin doomed
        PROVE  /\ rows'[d] = rows[d]
               /\ \A x \in receipts' : d \in x.covers => x \in receipts
               /\ Receipted(d) => Receipted(d)'
    <3>1. rows'[d] = rows[d]
      BY <1>5, <2>2
    <3>2. \A x \in receipts' : d \in x.covers => x \in receipts
      BY <1>1, <1>3, <2>2
    <3>3. Receipted(d) => Receipted(d)'
      BY <1>1, <3>1 DEF Receipted
    <3> QED BY <3>1, <3>2, <3>3
  <2>3. LatestOK'
    BY <2>1, <2>2 DEF Reliable, LatestOK
  <2>4. ErasedIsReceipted'
    <3> SUFFICES ASSUME NEW d \in Digests, rows'[d].state = "erased",
                        clock' <= rows'[d].at + ReceiptWindow
                 PROVE  Receipted(d)'
      BY DEF ErasedIsReceipted, Receipted
    <3>1. CASE d \in doomed
      BY <2>1, <3>1
    <3>2. CASE d \notin doomed
      BY <1>1, <2>2, <3>2 DEF Reliable, ErasedIsReceipted, Receipted
    <3> QED BY <3>1, <3>2
  <2> QED BY <2>3, <2>4
<1>11. \A x \in receipts' : x.at <= clock'
  BY <1>1, <1>3 DEF Reliable
<1> QED BY <1>1, <1>7, <1>8, <1>9, <1>10, <1>11 DEF Reliable

LEMMA ReliableForget ==
  ASSUME Reliable, NEW floor \in 0 .. clock, Promised!ForgetReceipts(floor)
  PROVE  Reliable'
<1>1. /\ UNCHANGED <<clock, rows>> /\ floor \in Nat /\ clock \in Nat /\ floor <= clock
      /\ receipts' = {x \in receipts : floor <= x.at + ReceiptWindow}
      /\ ReceiptWindow \in Nat
  BY WindowsAssumption DEF Promised!ForgetReceipts, Reliable
<1>2. \A x \in receipts, y \in receipts : x \in receipts' /\ x.at <= y.at => y \in receipts'
  BY <1>1 DEF Reliable, Shaped
<1>3. \A x \in receipts : clock <= x.at + ReceiptWindow => x \in receipts'
  BY <1>1 DEF Reliable, Shaped
<1>4. Shaped' /\ Standing' /\ CoverageOK' /\ \A x \in receipts' : x.at <= clock'
  BY <1>1 DEF Reliable, Shaped, Standing, CoverageOK
<1>5. LatestOK'
  <2> SUFFICES ASSUME NEW d \in Digests, rows[d].state = "erased"
               PROVE  /\ \A x \in receipts' : d \in x.covers => x.at <= rows[d].at
                      /\ (\E x \in receipts' : d \in x.covers) => Receipted(d)'
    BY <1>1 DEF LatestOK
  <2>1. \A x \in receipts' : d \in x.covers => x \in receipts /\ x.at <= rows[d].at
    BY <1>1 DEF Reliable, LatestOK
  <2>2. ASSUME NEW x \in receipts', d \in x.covers PROVE Receipted(d)'
    <3>1. PICK y \in receipts : d \in y.covers /\ y.at = rows[d].at /\ y.terms = rows[d].terms
      BY <2>1, <2>2 DEF Reliable, LatestOK, Receipted
    <3>2. y \in receipts'
      BY <1>2, <2>1, <2>2, <3>1
    <3> QED BY <1>1, <3>1, <3>2 DEF Receipted
  <2> QED BY <2>1, <2>2
<1>6. ErasedIsReceipted'
  BY <1>1, <1>3 DEF Reliable, ErasedIsReceipted
<1> QED BY <1>1, <1>4, <1>5, <1>6 DEF Reliable

LEMMA ReliableStep ==
  ASSUME Reliable, [Promised!Next]_<<clock, rows, receipts>>
  PROVE  Reliable'
<1>t. clock \in Nat /\ ReceiptWindow \in Nat /\ DOMAIN rows = Digests
  BY WindowsAssumption DEF Reliable
<1> DEFINE Same(d) == rows'[d] = rows[d]
           Gone(d) == rows'[d].state \in {"none", "live", "lost"} /\ rows'[d].at \in Nat
\* A step that only takes rows out of those that are erased, or that are live.
<1>1. ASSUME UNCHANGED <<clock, receipts>>, DOMAIN rows' = Digests,
             \A d \in Digests : Same(d) \/ Gone(d),
             \A d \in Digests : rows'[d].state = "none" =>
               rows[d].state = "none" \/ \A x \in receipts : d \notin x.covers
      PROVE  Reliable'
  <2>1. Shaped' /\ CoverageOK' /\ \A x \in receipts' : x.at <= clock'
    BY <1>1 DEF Reliable, Shaped, CoverageOK
  <2>2. Standing'
    BY <1>1 DEF Reliable, Standing
  <2>3. \A d \in Digests : rows'[d].state = "erased" => rows'[d] = rows[d]
    BY <1>1
  <2>4. LatestOK' /\ ErasedIsReceipted'
    BY <1>1, <2>3 DEF Reliable, LatestOK, ErasedIsReceipted, Receipted
  <2> QED BY <1>1, <1>t, <2>1, <2>2, <2>4 DEF Reliable
<1>2. ASSUME NEW d \in Digests, NEW t \in Terms, Promised!Retain(d, t) PROVE Reliable'
  BY <1>1, <1>2, <1>t DEF Promised!Retain
<1>3. ASSUME NEW d \in Digests, Promised!Lose(d) PROVE Reliable'
  <2>1. UNCHANGED <<clock, receipts>> /\ rows[d].state = "live"
          /\ rows' = [rows EXCEPT ![d].state = "lost"]
    BY <1>3 DEF Promised!Lose
  <2>2. DOMAIN rows' = Digests /\ \A e \in Digests : e # d => Same(e)
    BY <1>t, <2>1
  <2>3. rows'[d].state # "none" /\ (Same(d) \/ Gone(d))
    BY <1>t, <2>1 DEF Reliable, Shaped
  <2> QED BY <1>1, <2>1, <2>2, <2>3
<1>4. ASSUME NEW scope \in Scopes, NEW at \in 0 .. clock, Promised!Erase(scope, at)
      PROVE  Reliable'
  BY <1>4, ReliableErase
<1>5. ASSUME NEW floor \in 0 .. clock, Promised!ForgetReceipts(floor) PROVE Reliable'
  BY <1>5, ReliableForget
<1>6. ASSUME NEW old \in SUBSET Digests, Promised!ForgetErased(old) PROVE Reliable'
  <2>1. UNCHANGED <<clock, receipts>>
          /\ rows' = [d \in Digests |-> IF d \in old THEN Promised!Unknown ELSE rows[d]]
          /\ \A d \in old : \A x \in receipts : d \notin x.covers
    BY <1>6 DEF Promised!ForgetErased
  <2> QED BY <1>1, <2>1 DEF Promised!Unknown
<1>7. ASSUME Promised!Tick PROVE Reliable'
  BY <1>7, <1>t DEF Promised!Tick, Reliable, Shaped, Standing, CoverageOK, LatestOK, Receipted,
                    ErasedIsReceipted
<1>8. ASSUME UNCHANGED <<clock, rows, receipts>> PROVE Reliable'
  BY <1>8 DEF Reliable, Shaped, Standing, CoverageOK, LatestOK, Receipted, ErasedIsReceipted
<1> QED BY <1>2, <1>3, <1>4, <1>5, <1>6, <1>7, <1>8 DEF Promised!Next, Scopes

\* Evidence is all a holder needs to know: from it alone, and so for every
\* operator that keeps it, an erasure has its receipt within the window, a retry
\* gets the latest one, and no evidence is denied while it is there.
THEOREM EvidenceSuffices ==
  EvidenceKept => [](ErasedIsReceipted /\ LatestErasureAnswered /\ EvidenceNotDenied)
<1>1. Promised!Init => Reliable
  BY DEF Promised!Init, Promised!Unknown, Reliable, Shaped, Standing, CoverageOK, LatestOK,
         ErasedIsReceipted
<1>2. Reliable /\ [Promised!Next]_<<clock, rows, receipts>> => Reliable'
  BY ReliableStep
<1>3. Reliable => ErasedIsReceipted /\ LatestErasureAnswered /\ EvidenceNotDenied
  BY LatestFollows, EvidenceFollows DEF Reliable
<1> QED BY <1>1, <1>2, <1>3, PTL DEF EvidenceKept, Promised!Spec

===============================================================================
