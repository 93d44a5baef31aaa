---------------------------- MODULE RevocationProofs ----------------------------
(***************************************************************************)
(* Proofs about Revocation, for any number of brokers and epochs, any      *)
(* crash and any failed statement, of an operator whose pinned issuer      *)
(* never changes. What makes a restart safe is that every row of the table *)
(* verifies, so that the one row looked at is at least as new as the row   *)
(* of what was in force. What makes a poll safe is that a broker gives a   *)
(* number to one epoch, so that the same number is the same epoch.         *)
(***************************************************************************)
EXTENDS Revocation, FiniteSetTheorems, TLAPS

\* Broker i numbers its epochs 1, 2, and so on.
Numbered(i) ==
  /\ IsFiniteSet(Of(i))
  /\ \A d \in Of(i) : d.epoch <= Cardinality(Of(i))
  /\ \A d, e \in Of(i) : d.epoch = e.epoch => d = e

\* The pins are one issuer.
OnePin == \E i \in Issuers : pins = {i}

\* Whatever is in force, and whatever is on disk, came from the issuer.
Pinned ==
  /\ current # None => current.document \in documents /\ current.document.issuer \in pins
  /\ \A row \in cache : row.document \in documents /\ row.document.issuer \in pins

\* Between install and sleep there is an epoch in force.
InstalledFirst == poll \in {"insert", "delete"} => current # None

IsLatest(row) == \A other \in cache : other.document.epoch <= row.document.epoch

HasLatest == cache # {} => \E row \in cache : IsLatest(row)

IInv == TypeOK /\ (\A i \in Issuers : Numbered(i)) /\ OnePin /\ Pinned
          /\ InstalledFirst /\ HasLatest

-----------------------------------------------------------------------------
(* Type correctness *)

\* A broker's next number is one of the numbers.
LEMMA NextNumber ==
  ASSUME NEW i \in Issuers, Numbered(i), NEW revoked, Publish(i, revoked)
  PROVE  Cardinality(Of(i)) \in Nat /\ Cardinality(Of(i)) + 1 \in 1 .. MaxEpoch
<1>1. Cardinality(Of(i)) \in Nat
  BY FS_CardinalityType DEF Numbered
<1> QED BY <1>1, EnvironmentAssumption DEF Publish

\* The row looked at at boot is a row, and the newest.
LEMMA LatestIsLatest ==
  ASSUME HasLatest, cache # {}
  PROVE  Latest \in cache /\ IsLatest(Latest)
BY DEF HasLatest, IsLatest, Latest

LEMMA NextTypeOK ==
  ASSUME IInv, [Next]_vars
  PROVE  TypeOK'
<1> USE EnvironmentAssumption, NoneAssumption DEF IInv, TypeOK
<1>1. ASSUME NEW i \in Issuers, NEW revoked \in SUBSET Ids, Publish(i, revoked)
      PROVE  TypeOK'
  <2>1. Cardinality(Of(i)) + 1 \in 1 .. MaxEpoch
    BY <1>1, NextNumber
  <2>2. documents' \subseteq Document
    BY <1>1, <2>1 DEF Publish, Document
  <2> QED BY <1>1, <2>2 DEF Publish
<1>2. CASE FetchBegin \/ FetchKept
  BY <1>2 DEF FetchBegin, FetchKept, Goto
<1>3. ASSUME NEW d \in documents, FetchInstalled(d) PROVE TypeOK'
  BY <1>3 DEF FetchInstalled, Goto, Fetched
<1>4. CASE CacheInsert
  BY <1>4 DEF CacheInsert, Goto, InstalledFirst
<1>5. CASE CacheDelete
  BY <1>5 DEF CacheDelete, Goto
<1>6. CASE CacheFails
  BY <1>6 DEF CacheFails, Goto
<1>7. ASSUME NEW i \in Issuers, Restart({i}) PROVE TypeOK'
  BY <1>7, LatestIsLatest DEF Restart, Goto, Restored
<1>8. CASE Tick
  BY <1>8 DEF Tick
<1>9. CASE UNCHANGED vars
  BY <1>9 DEF vars
<1> QED BY <1>1, <1>2, <1>3, <1>4, <1>5, <1>6, <1>7, <1>8, <1>9 DEF Next, Poll

-----------------------------------------------------------------------------
(* The rest of the invariant *)

LEMMA NextNumbered ==
  ASSUME IInv, [Next]_vars, NEW j \in Issuers
  PROVE  Numbered(j)'
<1> USE DEF IInv
<1>1. ASSUME NEW i \in Issuers, NEW revoked \in SUBSET Ids, Publish(i, revoked)
      PROVE  Numbered(j)'
  <2> DEFINE d == [issuer |-> i, epoch |-> Cardinality(Of(i)) + 1,
                   revoked |-> revoked, at |-> clock]
  <2>1. documents' = documents \cup {d} /\ Cardinality(Of(i)) \in Nat
    BY <1>1, NextNumber DEF Publish
  <2>2. CASE j = i
    <3> DEFINE number == Cardinality(Of(i))
    <3>1. number \in Nat /\ d.issuer = i /\ d.epoch = number + 1
      BY <2>1
    <3>2. \A e \in Of(i) : e.epoch \in Nat /\ e.epoch <= number
      BY DEF Numbered, TypeOK, Document, Of
    <3>3. Of(i)' = Of(i) \cup {d}
      BY <2>1, <3>1 DEF Of
    <3> HIDE DEF d
    <3>4. d \notin Of(i)
      BY <3>1, <3>2
    <3>5. IsFiniteSet(Of(i)') /\ Cardinality(Of(i)') = number + 1
      BY <3>3, <3>4, FS_AddElement DEF Numbered
    <3> HIDE DEF number
    <3>6. \A e \in Of(i)' : e.epoch <= number + 1
      BY <3>1, <3>2, <3>3
    <3>7. \A e, f \in Of(i)' : e.epoch = f.epoch => e = f
      <4>1. \A e, f \in Of(i) : e.epoch = f.epoch => e = f
        BY DEF Numbered
      <4> QED BY <3>1, <3>2, <3>3, <4>1
    <3> QED BY <2>2, <3>5, <3>6, <3>7 DEF Numbered
  <2>3. CASE j # i
    <3>1. Of(j)' = Of(j)
      BY <2>1, <2>3 DEF Of
    <3> QED BY <3>1 DEF Numbered
  <2> QED BY <2>2, <2>3
<1>2. ASSUME documents' = documents PROVE Numbered(j)'
  BY <1>2 DEF Numbered, Of
<1>3. (\E i \in Issuers, revoked \in SUBSET Ids : Publish(i, revoked)) \/ documents' = documents
  BY DEF Next, Poll, vars, FetchBegin, FetchKept, FetchInstalled, CacheInsert, CacheDelete,
         CacheFails, Restart, Tick
<1> QED BY <1>1, <1>2, <1>3

LEMMA NextRest ==
  ASSUME IInv, [Next]_vars, ~MayRepin
  PROVE  OnePin' /\ Pinned' /\ InstalledFirst' /\ HasLatest'
<1> DEFINE Rest == OnePin /\ Pinned /\ InstalledFirst /\ HasLatest
<1> USE NoneAssumption DEF IInv, OnePin, InstalledFirst
<1>1. ASSUME NEW i \in Issuers, NEW revoked \in SUBSET Ids, Publish(i, revoked)
      PROVE  Rest'
  BY <1>1 DEF Publish, Pinned, HasLatest, IsLatest
<1>2. CASE FetchBegin \/ FetchKept
  BY <1>2 DEF FetchBegin, FetchKept, Goto, Pinned, HasLatest, IsLatest
<1>3. ASSUME NEW d \in documents, FetchInstalled(d) PROVE Rest'
  <2>1. current' \in Fetched /\ current'.document = d
    BY <1>3 DEF FetchInstalled, Fetched, TypeOK
  <2> QED BY <1>3, <2>1 DEF FetchInstalled, Goto, Verifies, Pinned, HasLatest, IsLatest
<1>4. CASE CacheInsert
  <2>1. current # None /\ current \in cache' /\ current' = current
    BY <1>4 DEF CacheInsert
  <2>2. Pinned' /\ OnePin' /\ InstalledFirst'
    BY <1>4, <2>1 DEF CacheInsert, Goto, Pinned
  <2>3. HasLatest'
    <3>1. \A row \in cache \cup {current} : row.document.epoch \in Nat
      BY <2>1 DEF TypeOK, Fetched, Document
    <3>2. CASE \A row \in cache : row.document.epoch <= current.document.epoch
      BY <1>4, <2>1, <3>1, <3>2 DEF CacheInsert, HasLatest, IsLatest
    <3>3. CASE \E row \in cache : ~(row.document.epoch <= current.document.epoch)
      <4>1. PICK row \in cache : IsLatest(row)
        BY <3>3 DEF HasLatest
      <4>2. current.document.epoch < row.document.epoch
        BY <3>1, <3>3, <4>1 DEF IsLatest
      <4>3. row \in cache'
        BY <1>4, <3>1, <4>2 DEF CacheInsert
      <4>4. \A other \in cache' : other.document.epoch <= row.document.epoch
        BY <1>4, <3>1, <4>1, <4>2 DEF CacheInsert, IsLatest
      <4> QED BY <4>3, <4>4 DEF HasLatest, IsLatest
    <3> QED BY <3>2, <3>3
  <2> QED BY <2>2, <2>3
<1>5. CASE CacheDelete
  <2>1. current # None /\ cache' \subseteq cache /\ current' = current
    BY <1>5 DEF CacheDelete
  <2>2. Pinned' /\ OnePin' /\ InstalledFirst'
    BY <1>5, <2>1 DEF CacheDelete, Goto, Pinned
  <2>3. ASSUME NEW some \in cache' PROVE HasLatest'
    <3>1. \A row \in cache \cup {current} : row.document.epoch \in Nat
      BY <2>1 DEF TypeOK, Fetched, Document
    <3>2. PICK row \in cache : IsLatest(row)
      BY <2>1, <2>3 DEF HasLatest
    <3>3. row \in cache'
      BY <1>5, <2>3, <3>1, <3>2 DEF CacheDelete, IsLatest
    <3> QED BY <2>1, <3>2, <3>3 DEF HasLatest, IsLatest
  <2> QED BY <2>2, <2>3 DEF HasLatest
<1>6. CASE CacheFails
  BY <1>6 DEF CacheFails, Goto, Pinned, HasLatest, IsLatest
<1>7. ASSUME NEW i \in Issuers, Restart({i}) PROVE Rest'
  <2>1. pins' = pins /\ cache' = cache /\ documents' = documents /\ poll' = "sleep"
    BY <1>7 DEF Restart, Goto
  <2>2. current' # None => current' \in cache
    BY <1>7, LatestIsLatest DEF Restart, Restored
  <2> QED BY <2>1, <2>2 DEF Pinned, HasLatest, IsLatest
<1>8. CASE Tick
  BY <1>8 DEF Tick, Pinned, HasLatest, IsLatest
<1>9. CASE UNCHANGED vars
  BY <1>9 DEF vars, Pinned, HasLatest, IsLatest
<1> QED BY <1>1, <1>2, <1>3, <1>4, <1>5, <1>6, <1>7, <1>8, <1>9 DEF Next, Poll

LEMMA InitIInv == Init => IInv
<1> SUFFICES ASSUME Init PROVE IInv
  OBVIOUS
<1>1. TypeOK
  BY EnvironmentAssumption DEF Init, TypeOK
<1>2. ASSUME NEW i \in Issuers PROVE Numbered(i)
  <2>1. Of(i) = {}
    BY DEF Init, Of
  <2> QED BY <2>1, FS_EmptySet DEF Numbered
<1> QED BY <1>1, <1>2 DEF Init, IInv, OnePin, Pinned, InstalledFirst, HasLatest

LEMMA Invariant == ~MayRepin => (Spec => []IInv)
<1> SUFFICES ASSUME ~MayRepin PROVE Spec => []IInv
  OBVIOUS
<1>1. IInv /\ [Next]_vars => IInv'
  <2> SUFFICES ASSUME IInv, [Next]_vars PROVE IInv'
    OBVIOUS
  <2>1. \A j \in Issuers : Numbered(j)'
    BY NextNumbered
  <2> QED BY <2>1, NextTypeOK, NextRest DEF IInv
<1> QED BY <1>1, InitIInv, PTL DEF Spec

\* Every variable keeps to its type, and the table to one row of a number.
THEOREM TypeCorrect == ~MayRepin => (Spec => []TypeOK)
<1>1. IInv => TypeOK
  BY DEF IInv
<1> QED BY <1>1, Invariant, PTL

-----------------------------------------------------------------------------
(* Nothing is un-revoked *)

\* Two epochs of the pinned broker with one number are the same.
LEMMA SameNumberSameEpoch ==
  ASSUME IInv, NEW d \in documents, NEW e \in documents,
         d.issuer \in pins, e.issuer \in pins, d.epoch = e.epoch
  PROVE  d = e
<1>1. PICK i \in Issuers : pins = {i}
  BY DEF IInv, OnePin
<1>2. d \in Of(i) /\ e \in Of(i)
  BY <1>1 DEF Of
<1> QED BY <1>1, <1>2 DEF IInv, Numbered

\* Once the epoch in force is on disk, neither polls nor answers out of order
\* nor crashes nor failed writes end a revocation, as long as the pinned
\* issuer stays: only a newer epoch does.
THEOREM RevocationsStand == ~MayRepin => (Spec => NeverUnrevoked)
<1> SUFFICES ASSUME ~MayRepin PROVE Spec => NeverUnrevoked
  OBVIOUS
<1>1. ASSUME IInv, IInv', [Next]_vars, Saved, failures' = failures,
             NEW id \in Revoked \ Revoked'
      PROVE  current' # None /\ current'.document.epoch > current.document.epoch
  <2> USE DEF IInv
  <2>1. current' # current
    BY <1>1 DEF Revoked
  <2>2. current # None /\ current \in cache /\ current.document \in documents
          /\ current.document.issuer \in pins /\ current.document.epoch \in Nat
    BY <1>1 DEF Saved, Pinned, TypeOK, Fetched, Document
  <2>3. \/ \E d \in documents : FetchInstalled(d)
        \/ \E i \in Issuers : Restart({i})
    BY <1>1, <2>1 DEF Next, Poll, vars, Publish, FetchBegin, FetchKept, CacheInsert,
                      CacheDelete, CacheFails, Tick
  <2>4. ASSUME NEW d \in documents, NEW row \in Fetched, row.document = d,
               current' = row, d.issuer \in pins,
               current.document.epoch <= d.epoch
        PROVE  current' # None /\ current'.document.epoch > current.document.epoch
    <3>1. d # current.document
      BY <1>1, <2>4, NoneAssumption DEF Revoked
    <3>2. d.epoch # current.document.epoch
      BY <1>1, <2>2, <2>4, <3>1, SameNumberSameEpoch
    <3>3. d.epoch \in Nat
      BY <1>1, <2>4 DEF TypeOK, Document
    <3> QED BY <2>2, <2>4, <3>2, <3>3, NoneAssumption
  <2>5. ASSUME NEW d \in documents, FetchInstalled(d)
        PROVE  current' # None /\ current'.document.epoch > current.document.epoch
    <3>1. d.issuer \in pins /\ current.document.epoch <= d.epoch
      BY <2>2, <2>5 DEF FetchInstalled, Verifies, Supersedes
    <3>2. [document |-> d, at |-> clock] \in Fetched
      BY <1>1, <2>5 DEF TypeOK, Fetched
    <3> QED BY <2>4, <2>5, <3>1, <3>2 DEF FetchInstalled
  <2>6. ASSUME NEW i \in Issuers, Restart({i})
        PROVE  current' # None /\ current'.document.epoch > current.document.epoch
    <3>1. Latest \in cache /\ current.document.epoch <= Latest.document.epoch
      BY <1>1, <2>2, LatestIsLatest DEF IsLatest
    <3>2. pins' = pins /\ pins' = {i}
      BY <2>6 DEF Restart
    <3>3. Latest \in Fetched /\ Latest.document \in documents
            /\ Latest.document.issuer \in pins
      BY <1>1, <3>1 DEF Pinned, TypeOK
    <3>4. failures \in Nat
      BY <1>1, EnvironmentAssumption DEF TypeOK
    <3>5. current' = Latest
      BY <1>1, <2>6, <3>1, <3>2, <3>3, <3>4 DEF Restart, Restored, Verifies
    <3> QED BY <2>4, <3>1, <3>3, <3>5
  <2> QED BY <2>3, <2>5, <2>6
<1>2. IInv /\ IInv' /\ [Next]_vars =>
        [(Saved /\ current.document.issuer \in pins' /\ failures' = failures)
           => \A id \in Revoked \ Revoked' :
                current' # None /\ current'.document.epoch > current.document.epoch]_vars
  BY <1>1
<1> QED BY <1>2, Invariant, PTL DEF Spec, NeverUnrevoked

-----------------------------------------------------------------------------
(* What "current" means *)

\* When an epoch was fetched, nothing newer had been out for longer than the
\* URL may lag behind. That stays true of it, in memory, on disk and when it
\* is read back, as what is published later is later than the fetch.
Timely ==
  {row \in Fetched :
     /\ row.at <= clock
     /\ \A e \in documents :
          e.issuer = row.document.issuer /\ e.epoch > row.document.epoch => row.at <= e.at + Lag}

AllTimely == (current # None => current \in Timely) /\ cache \subseteq Timely

\* An epoch that was fetched in time still was, whatever time passes or a
\* broker publishes.
LEMMA StaysTimely ==
  ASSUME IInv, [Next]_vars
  PROVE  Timely \subseteq Timely'
<1> SUFFICES ASSUME NEW row \in Timely PROVE row \in Timely'
  OBVIOUS
<1>t. row.at \in Nat /\ clock \in Nat /\ Lag \in Nat
  BY EnvironmentAssumption DEF IInv, TypeOK, Fetched, Timely
<1>1. ASSUME NEW i \in Issuers, NEW revoked \in SUBSET Ids, Publish(i, revoked)
      PROVE  row \in Timely'
  <2>1. clock' = clock /\ \A e \in documents' \ documents : e.at = clock
    BY <1>1 DEF Publish
  <2> QED BY <1>t, <2>1 DEF Timely
<1>2. ASSUME documents' = documents, clock' \in {clock, clock + 1} PROVE row \in Timely'
  BY <1>2, <1>t DEF Timely
<1>3. \/ \E i \in Issuers, revoked \in SUBSET Ids : Publish(i, revoked)
      \/ documents' = documents /\ clock' \in {clock, clock + 1}
  BY DEF Next, Poll, vars, FetchBegin, FetchKept, FetchInstalled, CacheInsert, CacheDelete,
         CacheFails, Restart, Tick
<1> QED BY <1>1, <1>2, <1>3

\* What is in force or on disk after a step was so before, or was fetched.
LEMMA NothingElseIsKept ==
  ASSUME IInv, [Next]_vars
  PROVE  /\ current' # None => \/ current' = current
                              \/ current' \in cache
                              \/ \E d \in documents : FetchInstalled(d)
         /\ \A row \in cache' : row \in cache \/ (row = current /\ current # None)
<1> USE DEF IInv
<1>1. ASSUME NEW i \in Issuers, Restart({i})
      PROVE  (current' # None => current' \in cache) /\ cache' = cache
  BY <1>1, LatestIsLatest DEF Restart, Restored
<1>2. CASE CacheInsert
  BY <1>2 DEF CacheInsert, InstalledFirst
<1>3. CASE CacheDelete
  BY <1>3 DEF CacheDelete
<1>4. ASSUME NEW d \in documents, FetchInstalled(d) PROVE cache' = cache
  BY <1>4 DEF FetchInstalled
<1>5. ASSUME \/ \E i \in Issuers, revoked \in SUBSET Ids : Publish(i, revoked)
             \/ FetchBegin \/ FetchKept \/ CacheFails \/ Tick \/ UNCHANGED vars
      PROVE  current' = current /\ cache' = cache
  BY <1>5 DEF Publish, FetchBegin, FetchKept, CacheFails, Tick, vars
<1> QED BY <1>1, <1>2, <1>3, <1>4, <1>5 DEF Next, Poll

LEMMA TimelyStep ==
  ASSUME IInv, AllTimely, [Next]_vars
  PROVE  AllTimely'
<1>1. ASSUME NEW d \in documents, FetchInstalled(d)
      PROVE  current' \in Timely'
  <2>1. current' = [document |-> d, at |-> clock] /\ documents' = documents /\ clock' = clock
    BY <1>1 DEF FetchInstalled
  <2>2. \A e \in documents : e.issuer = d.issuer /\ e.epoch > d.epoch => clock <= e.at + Lag
    BY <1>1 DEF FetchInstalled, Served, Of
  <2>3. current' \in Fetched /\ current'.document = d /\ current'.at = clock
    BY <2>1 DEF Fetched, IInv, TypeOK
  <2>4. clock <= clock
    BY EnvironmentAssumption DEF IInv, TypeOK
  <2> QED BY <2>1, <2>2, <2>3, <2>4 DEF Timely
<1> QED BY <1>1, StaysTimely, NothingElseIsKept DEF AllTimely

\* As long as the pinned issuer stays, a status of "current" is never given
\* while something is missing that was out two intervals and the lag ago.
THEOREM CurrentMeansRecent == ~MayRepin => (Spec => []CurrentIsRecent)
<1> SUFFICES ASSUME ~MayRepin PROVE Spec => []CurrentIsRecent
  OBVIOUS
<1>1. Init => AllTimely
  BY DEF Init, AllTimely
<1>2. IInv /\ AllTimely /\ [Next]_vars => AllTimely'
  BY TimelyStep
<1>3. IInv /\ AllTimely => CurrentIsRecent
  <2> SUFFICES ASSUME IInv, AllTimely, Health = "current", NEW d \in documents,
                      d.issuer \in pins, d.at + Lag + 2 * PollInterval < clock
               PROVE  d.epoch <= current.document.epoch
    BY DEF CurrentIsRecent
  <2>1. current # None /\ ~(Age > 2 * PollInterval)
    BY DEF Health
  <2>2. current \in Fetched /\ clock \in Nat /\ d.at \in Nat /\ d.epoch \in Nat
    BY <2>1, EnvironmentAssumption DEF IInv, TypeOK, Document
  <2>3. current.at \in Nat /\ current.document.epoch \in Nat
    BY <2>2, EnvironmentAssumption DEF Fetched, Document
  <2>4. d.issuer = current.document.issuer
    BY <2>1 DEF IInv, OnePin, Pinned
  <2>5. d.epoch > current.document.epoch => current.at <= d.at + Lag
    BY <2>1, <2>4 DEF AllTimely, Timely, IInv
  <2>6. clock - current.at <= 2 * PollInterval
    BY <2>1, <2>2, <2>3, IntervalAssumption DEF Age
  <2> QED BY <2>2, <2>3, <2>5, <2>6, IntervalAssumption, EnvironmentAssumption
<1> QED BY <1>1, <1>2, <1>3, Invariant, PTL DEF Spec
===============================================================================
