----------------------------- MODULE LapseProofs -----------------------------
(***************************************************************************)
(* What holds of Lapse for any holders, credentials and terms: types, and  *)
(* that a horizon is neither lost nor moved back, with registrations,      *)
(* crashes and failed statements at any point; that nobody who pays is     *)
(* lapsed, that every window is honoured, by what is kept and by what is   *)
(* open in it, and that Lapse implements Tenancy, where registrations keep *)
(* away from the sweep's lists and are not torn.                           *)
(***************************************************************************)
EXTENDS LapseRefinement, NaturalsInduction, WellFoundedInduction, TLAPS

\* A row still to be refreshed was listed with what it said.
ListedOK == sweep.pc = "retire" => \A h \in sweep.holders : sweep.rows[h] # None

Typed == TypeOK /\ ListedOK

\* No credential is issued under the id of another.
UniqueIds == \A c, d \in Credentials : c.id = d.id => c = d

\* What is remembered of a lapse lies in the past.
PastOK ==
  /\ sweep.now <= clock
  /\ \A h \in Holders : lapse[h] # None => lapse[h].at <= clock
  /\ \A h \in Holders : sweep.rows[h] # None => sweep.rows[h].at <= clock

\* A registration between its statements has its record, and keeps the sweep
\* from dropping any.
RegistrationOK == inserted # None => inserted \in records /\ sweep.pc # "drop"

\* Records go when all of them go, and if something is retained the row says
\* what they said.
DropOK ==
  sweep.pc = "drop" =>
    /\ sweep.holder \in Holders
    /\ Losing(sweep.holder)
    /\ \/ LiveOf(sweep.holder) = {}
       \/ /\ lapse[sweep.holder] # None
          /\ lapse[sweep.holder].at = LastExpiry(Records(sweep.holder))

\* Whoever is still to be adopted has no horizon unless they registered.
AdoptOK ==
  sweep.pc = "adopt" =>
    \A h \in sweep.holders : Records(h) = {} => lapse[h] = None

\* A row still to be refreshed is as it was listed unless its holder
\* registered.
RetireOK ==
  sweep.pc = "retire" =>
    \A h \in sweep.holders : Records(h) = {} => lapse[h] = sweep.rows[h]

Carried == Typed /\ PastOK /\ RegistrationOK /\ DropOK /\ AdoptOK /\ RetireOK

-----------------------------------------------------------------------------
(* Greatest elements *)

\* A set of numbers below a bound has a greatest one.
LEMMA GreatestExists ==
  ASSUME NEW m \in Nat, NEW S \in SUBSET (0 .. m), S # {}
  PROVE  \E x \in S : \A y \in S : y <= x
<1> DEFINE R == OpToRel(<, Nat)
           T == {m - x : x \in S}
<1>1. IsWellFoundedOn(R, Nat)
  BY NatLessThanWellFounded
<1>2. \A x \in S : x \in Nat /\ m - x \in Nat
  OBVIOUS
<1>3. T \subseteq Nat /\ T # {}
  BY <1>2
<1>4. PICK t \in T : \A u \in T : ~(<<u, t>> \in R)
  <2> HIDE DEF R, T
  <2> QED BY <1>1, <1>3, WFMin
<1>5. \A u \in T : ~(u < t)
  BY <1>3, <1>4 DEF OpToRel
<1>6. PICK x \in S : t = m - x
  OBVIOUS
<1>7. ASSUME NEW y \in S PROVE y <= x
  <2>1. m - y \in T
    OBVIOUS
  <2>2. ~(m - y < m - x)
    BY <2>1, <1>5, <1>6
  <2> HIDE DEF T
  <2> QED BY <2>2, <1>2
<1> QED BY <1>7

\* The latest expiry of some credentials is that of one of them.
LEMMA LastExpiryIs ==
  ASSUME NEW C \in SUBSET Credentials, C # {}
  PROVE  /\ LastExpiry(C) \in Nat
         /\ \E c \in C : c.expires = LastExpiry(C)
         /\ \A c \in C : c.expires <= LastExpiry(C)
<1> DEFINE S == {c.expires : c \in C}
<1>1. S \in SUBSET (0 .. MaxExpiry) /\ S # {}
  BY CredentialsAssumption
<1>2. PICK t \in S : \A y \in S : y <= t
  <2> HIDE DEF S
  <2> QED BY <1>1, GreatestExists, BoundsAssumption
<1>3. \A c \in C : c.expires <= t
  BY <1>2
<1>4. /\ LastExpiry(C) \in S
      /\ \A c \in C : c.expires <= LastExpiry(C)
  BY <1>2, <1>3 DEF LastExpiry
<1>5. S \subseteq Nat
  BY <1>1
<1> QED BY <1>4, <1>5

\* A window is a number of ticks after the lapse.
LEMMA WindowEndIs ==
  ASSUME TypeOK, NEW k \in Keys, Live(k), NEW at \in Nat
  PROVE  /\ WindowEnd(k, at) \in Nat
         /\ WindowEnd(k, at) >= at
         /\ WindowEnd(k, at) - at = Window[snapshots[k]]
         /\ Window[snapshots[k]] \in 0 .. MaxWindow
<1>1. Window[snapshots[k]] \in 0 .. MaxWindow
  BY TermsAssumption DEF Live
<1> QED BY <1>1, BoundsAssumption DEF WindowEnd

\* A row is derived exactly when something is retained.
LEMMA LapseStatesThere ==
  ASSUME TypeOK, NEW h, NEW at \in Nat, LiveOf(h) # {}
  PROVE  LapseStates(h, at) # {}
<1> DEFINE S == {Window[snapshots[k]] : k \in LiveOf(h)}
<1>1. \A k \in LiveOf(h) : k \in Keys /\ Live(k)
  BY DEF LiveOf
<1>2. S \in SUBSET (0 .. MaxWindow) /\ S # {}
  BY <1>1, WindowEndIs
<1>3. PICK t \in S : \A y \in S : y <= t
  <2> HIDE DEF S
  <2> QED BY <1>2, GreatestExists, BoundsAssumption
<1>4. PICK k \in LiveOf(h) : t = Window[snapshots[k]]
  OBVIOUS
<1>5. \A l \in LiveOf(h) : Window[snapshots[l]] <= Window[snapshots[k]]
  BY <1>3, <1>4
<1>6. \A l \in LiveOf(h) : WindowEnd(l, at) <= WindowEnd(k, at)
  <2>1. \A l \in LiveOf(h) : Window[snapshots[l]] \in Nat
    BY <1>2, BoundsAssumption
  <2>2. \A x, y \in Nat : x <= y => at + x <= at + y
    OBVIOUS
  <2> QED BY <2>1, <2>2, <1>5 DEF WindowEnd
<1> QED BY <1>6 DEF LapseStates

\* What a derived row says.
LEMMA LapseStatesAre ==
  ASSUME TypeOK, NEW h, NEW at \in Nat, NEW row \in LapseStates(h, at)
  PROVE  /\ row \in LapseRows
         /\ row.at = at
         /\ \E k \in LiveOf(h) : row.ends = WindowEnd(k, at)
<1>1. PICK k \in LiveOf(h) :
        row = [at |-> at, ends |-> WindowEnd(k, at), action |-> AfterGrace[snapshots[k]]]
  BY DEF LapseStates
<1>2. k \in Keys /\ Live(k)
  BY DEF LiveOf
<1>3. WindowEnd(k, at) \in Nat
  BY <1>2, WindowEndIs
<1>4. AfterGrace[snapshots[k]] \in {"erase", "keep"}
  BY <1>2, TermsAssumption DEF Live
<1> QED BY <1>1, <1>3, <1>4 DEF LapseRows

\* Where a horizon comes from.
LEMMA HorizonIs ==
  ASSUME TypeOK, NEW h \in Holders
  PROVE  /\ Records(h) \in SUBSET Credentials
         /\ Records(h) # {} => /\ LifecycleHorizon(h) = LastExpiry(Records(h))
                               /\ LifecycleHorizon(h) \in Nat
                               /\ LifecycleHorizon(h) # None
         /\ Records(h) = {} /\ lapse[h] # None =>
              /\ LifecycleHorizon(h) = lapse[h].at
              /\ LifecycleHorizon(h) \in Nat
              /\ LifecycleHorizon(h) # None
              /\ lapse[h] \in LapseRows
         /\ Records(h) = {} /\ lapse[h] = None => LifecycleHorizon(h) = None
<1>1. Records(h) \in SUBSET Credentials
  BY DEF Records, TypeOK
<1>2. Records(h) # {} => LastExpiry(Records(h)) \in Nat
  BY <1>1, LastExpiryIs
<1>3. lapse[h] # None => lapse[h] \in LapseRows /\ lapse[h].at \in Nat
  BY DEF TypeOK, LapseRows
<1> QED BY <1>1, <1>2, <1>3, DistinctAssumption DEF LifecycleHorizon

-----------------------------------------------------------------------------
(* Types *)

LEMMA TypeInit == Init => Typed
  BY BoundsAssumption DEF Init, Typed, TypeOK, ListedOK, IdleSweep, Keys, NotLive, Sweeps

\* The lapse of a holder who is losing their records is a moment.
LEMMA LosingHorizon ==
  ASSUME TypeOK, NEW h \in Holders, Losing(h)
  PROVE  /\ LifecycleHorizon(h) = LastExpiry(Records(h))
         /\ LifecycleHorizon(h) \in Nat
  BY HorizonIs DEF Losing

LEMMA CountersTyped ==
  ASSUME TypeOK, Works \/ Fails
  PROVE  crashes' \in 0 .. MaxCrashes /\ failures' \in 0 .. MaxFailures
  BY BoundsAssumption DEF TypeOK, Works, Fails, env

LEMMA TypeStep == Typed /\ [Next]_vars => Typed'
<1> SUFFICES ASSUME Typed, [Next]_vars PROVE Typed'
  OBVIOUS
<1> USE DEF env
<1>1. ASSUME NEW c \in Credentials, Register(c) PROVE Typed'
  <2>1. c.expires \in Nat /\ c.holder \in Holders
    BY CredentialsAssumption, BoundsAssumption
  <2> QED BY <1>1, <2>1 DEF Register, Typed, TypeOK, ListedOK
<1>2. ASSUME RegisterForget PROVE Typed'
  BY <1>2 DEF RegisterForget, Typed, TypeOK, ListedOK
<1>3. ASSUME NEW k \in Keys, NEW t \in Terms, Preflight(k, t) PROVE Typed'
  <2>1. [terms |-> t, expires |-> clock + GrantLife] \in Grants
    BY BoundsAssumption DEF Typed, TypeOK, Grants
  <2> QED BY <1>3, <2>1 DEF Preflight, Typed, TypeOK, ListedOK
<1>4. ASSUME NEW k \in Keys, GrantEnds(k) PROVE Typed'
  BY <1>4 DEF GrantEnds, Typed, TypeOK, ListedOK
<1>5. ASSUME NEW k \in Keys, Commit(k) PROVE Typed'
  <2>1. grants[k] \in Grants
    BY <1>5 DEF Commit, Granted, Typed, TypeOK
  <2>2. (IF Live(k) THEN snapshots[k] ELSE grants[k].terms) \in Terms \cup NotLive
    BY <2>1 DEF Grants, Live
  <2> QED BY <1>5, <2>2 DEF Commit, Typed, TypeOK, ListedOK
<1>6. ASSUME NEW h \in Holders, NEW scope \in Scopes(h), Erase(h, scope) PROVE Typed'
  <2>1. snapshots' \in [Keys -> Terms \cup NotLive]
    BY <1>6 DEF Erase, Typed, TypeOK, NotLive
  <2> QED BY <1>6, <2>1 DEF Erase, Typed, TypeOK, ListedOK
<1>7. ASSUME NEW ids \in SUBSET Ids, InstallEpoch(ids) PROVE Typed'
  BY <1>7 DEF InstallEpoch, Typed, TypeOK, ListedOK
<1>8. CASE SweepBegin
  <2>1. sweep' \in Sweeps
    BY <1>8 DEF SweepBegin, IdleSweep, Typed, TypeOK, Sweeps
  <2> QED BY <1>8, <2>1 DEF SweepBegin, IdleSweep, Typed, TypeOK, ListedOK
<1>9. CASE SweepDue
  <2>1. \A h \in Holders : {k \in Due(h, sweep.now) : AfterGrace[snapshots[k]] = "erase"}
                             \in SUBSET Keys
    BY DEF Due, LiveOf, Keys
  <2>2. sweep' \in Sweeps /\ sweep'.pc # "retire"
    <3>1. PICK h \in sweep.holders :
            LET due == {k \in Due(h, sweep.now) : AfterGrace[snapshots[k]] = "erase"}
            IN  sweep' = [sweep EXCEPT !.holders = @ \ {h}, !.keys = due,
                                       !.pc = IF due = {} THEN "due" ELSE "expire"]
      BY <1>9 DEF SweepDue
    <3>2. h \in Holders
      BY DEF Typed, TypeOK, Sweeps
    <3> DEFINE due == {k \in Due(h, sweep.now) : AfterGrace[snapshots[k]] = "erase"}
    <3>3. due \in SUBSET Keys
      BY <3>2, <2>1
    <3>4. sweep' = [sweep EXCEPT !.holders = @ \ {h}, !.keys = due,
                                 !.pc = IF due = {} THEN "due" ELSE "expire"]
      BY <3>1
    <3> HIDE DEF due
    <3> QED BY <3>3, <3>4 DEF Typed, TypeOK, Sweeps
  <2> QED BY <1>9, <2>2 DEF SweepDue, Typed, TypeOK, ListedOK
<1>10. CASE SweepExpire
  <2>1. sweep' \in Sweeps /\ sweep'.pc # "retire"
    BY <1>10 DEF SweepExpire, Typed, TypeOK, Sweeps
  <2>2. snapshots' \in [Keys -> Terms \cup NotLive]
    BY <1>10 DEF SweepExpire, Typed, TypeOK, NotLive
  <2>3. Works \/ Fails
    BY <1>10 DEF SweepExpire
  <2>4. UNCHANGED <<clock, records, lapse, revoked, grants, inserted, paid>>
    BY <1>10 DEF SweepExpire
  <2> QED BY <2>1, <2>2, <2>3, <2>4, CountersTyped DEF Typed, TypeOK, ListedOK
<1>11. CASE SweepLosing
  BY <1>11 DEF SweepLosing, Typed, TypeOK, ListedOK, Sweeps
<1>12. CASE SweepDerive
  <2>1. \A h \in Holders : Losing(h) =>
          LapseStates(h, LifecycleHorizon(h)) \subseteq LapseRows
    BY LosingHorizon, LapseStatesAre DEF Typed
  <2>2. sweep' \in Sweeps /\ sweep'.pc # "retire"
    BY <1>12 DEF SweepDerive, Typed, TypeOK, Sweeps
  <2>3. lapse' \in [Holders -> LapseRows \cup {None}]
    <3>1. PICK h \in sweep.holders :
            \/ UNCHANGED lapse
            \/ Losing(h) /\ \E row \in LapseStates(h, LifecycleHorizon(h)) :
                              lapse' = [lapse EXCEPT ![h] = row]
      BY <1>12 DEF SweepDerive
    <3>2. h \in Holders
      BY DEF Typed, TypeOK, Sweeps
    <3> QED BY <3>1, <3>2, <2>1 DEF Typed, TypeOK
  <2>4. Works \/ Fails
    BY <1>12 DEF SweepDerive
  <2>5. UNCHANGED <<clock, records, revoked, snapshots, grants, inserted, paid>>
    BY <1>12 DEF SweepDerive
  <2> QED BY <2>2, <2>3, <2>4, <2>5, CountersTyped DEF Typed, TypeOK, ListedOK
<1>13. CASE SweepDropRecords
  <2>1. sweep' \in Sweeps /\ sweep'.pc # "retire"
    BY <1>13 DEF SweepDropRecords, Typed, TypeOK, Sweeps
  <2>2. records' \subseteq Credentials
    BY <1>13 DEF SweepDropRecords, Typed, TypeOK
  <2>3. Works \/ Fails
    BY <1>13 DEF SweepDropRecords
  <2>4. UNCHANGED <<clock, lapse, revoked, snapshots, grants, inserted, paid>>
    BY <1>13 DEF SweepDropRecords
  <2> QED BY <2>1, <2>2, <2>3, <2>4, CountersTyped DEF Typed, TypeOK, ListedOK
<1>14. CASE SweepSuperseded
  <2>1. sweep' \in Sweeps /\ sweep'.pc # "retire"
    BY <1>14 DEF SweepSuperseded, Typed, TypeOK, Sweeps
  <2>2. records' \subseteq Credentials
    BY <1>14 DEF SweepSuperseded, Typed, TypeOK
  <2>3. Works \/ Fails
    BY <1>14 DEF SweepSuperseded
  <2>4. UNCHANGED <<clock, lapse, revoked, snapshots, grants, inserted, paid>>
    BY <1>14 DEF SweepSuperseded
  <2> QED BY <2>1, <2>2, <2>3, <2>4, CountersTyped DEF Typed, TypeOK, ListedOK
<1>15. CASE SweepUnrecorded
  BY <1>15 DEF SweepUnrecorded, Typed, TypeOK, ListedOK, Sweeps
<1>16. CASE SweepAdopt
  <2>1. \A h : LapseStates(h, sweep.now) \subseteq LapseRows
    BY LapseStatesAre DEF Typed, TypeOK, Sweeps
  <2>2. sweep' \in Sweeps /\ ListedOK'
    BY <1>16 DEF SweepAdopt, Typed, TypeOK, ListedOK, Sweeps
  <2>3. lapse' \in [Holders -> LapseRows \cup {None}]
    <3>1. PICK h \in sweep.holders :
            \/ UNCHANGED lapse
            \/ lapse' = [lapse EXCEPT ![h] = None]
            \/ \E row \in LapseStates(h, sweep.now) : lapse' = [lapse EXCEPT ![h] = row]
      BY <1>16 DEF SweepAdopt
    <3>2. h \in Holders
      BY DEF Typed, TypeOK, Sweeps
    <3> QED BY <3>1, <3>2, <2>1 DEF Typed, TypeOK
  <2>4. Works \/ Fails
    BY <1>16 DEF SweepAdopt
  <2>5. UNCHANGED <<clock, records, revoked, snapshots, grants, inserted, paid>>
    BY <1>16 DEF SweepAdopt
  <2> QED BY <2>2, <2>3, <2>4, <2>5, CountersTyped DEF Typed, TypeOK
<1>17. CASE SweepLapsed
  BY <1>17 DEF SweepLapsed, Typed, TypeOK, ListedOK, Sweeps
<1>18. CASE SweepRetire
  <2>1. \A h \in sweep.holders : LapseStates(h, sweep.rows[h].at) \subseteq LapseRows
    BY <1>18, LapseStatesAre DEF SweepRetire, Typed, TypeOK, ListedOK, LapseRows, Sweeps
  <2>2. sweep' \in Sweeps /\ ListedOK'
    BY <1>18 DEF SweepRetire, Typed, TypeOK, ListedOK, Sweeps
  <2>3. lapse' \in [Holders -> LapseRows \cup {None}]
    <3>1. PICK h \in sweep.holders :
            \/ UNCHANGED lapse
            \/ lapse' = [lapse EXCEPT ![h] = None]
            \/ \E row \in LapseStates(h, sweep.rows[h].at) : lapse' = [lapse EXCEPT ![h] = row]
      BY <1>18 DEF SweepRetire
    <3>2. h \in Holders
      BY DEF Typed, TypeOK, Sweeps
    <3> QED BY <3>1, <3>2, <2>1 DEF Typed, TypeOK
  <2>4. Works \/ Fails
    BY <1>18 DEF SweepRetire
  <2>5. UNCHANGED <<clock, records, revoked, snapshots, grants, inserted, paid>>
    BY <1>18 DEF SweepRetire
  <2> QED BY <2>2, <2>3, <2>4, <2>5, CountersTyped DEF Typed, TypeOK
<1>19. CASE SweepDone
  BY <1>19, BoundsAssumption DEF SweepDone, IdleSweep, Typed, TypeOK, ListedOK, Sweeps
<1>20. CASE Tick
  BY <1>20, BoundsAssumption DEF Tick, Typed, TypeOK, ListedOK
<1>21. CASE Crash
  BY <1>21, BoundsAssumption DEF Crash, IdleSweep, Typed, TypeOK, ListedOK, Sweeps
<1>22. CASE UNCHANGED vars
  BY <1>22 DEF vars, Typed, TypeOK, ListedOK
<1> QED BY <1>1, <1>2, <1>3, <1>4, <1>5, <1>6, <1>7, <1>8, <1>9, <1>10, <1>11, <1>12,
          <1>13, <1>14, <1>15, <1>16, <1>17, <1>18, <1>19, <1>20, <1>21, <1>22
       DEF Next, Request, SweepStep

\* Every variable holds a value of its kind, for any parameters.
THEOREM TypeCorrect == Spec => []TypeOK
<1>1. Typed => TypeOK
  BY DEF Typed
<1> QED BY <1>1, TypeInit, TypeStep, PTL DEF Spec

-----------------------------------------------------------------------------
(* What is carried over *)

LEMMA CarriedInit == Init => Carried
<1> SUFFICES ASSUME Init PROVE Carried
  OBVIOUS
<1>1. Typed
  BY TypeInit
<1>2. PastOK /\ RegistrationOK /\ DropOK /\ AdoptOK /\ RetireOK
  BY DEF Init, IdleSweep, PastOK, RegistrationOK, DropOK, AdoptOK, RetireOK
<1> QED BY <1>1, <1>2 DEF Carried

\* A registration leaves every other record where it is.
LEMMA RegisterAdds ==
  ASSUME UniqueIds, TypeOK, NEW c \in Credentials, Register(c)
  PROVE  /\ records' = records \cup {c}
         /\ \A h \in Holders : Records(h) \subseteq Records(h)'
<1>1. \A r \in records : r.id = c.id => r = c
  BY DEF UniqueIds, TypeOK
<1>2. records' = records \cup {c}
  BY <1>1 DEF Register
<1> QED BY <1>2 DEF Records

LEMMA RequestCarries ==
  ASSUME UniqueIds, Carried, Typed', Request \/ RegisterForget
  PROVE  Carried'
<1>1. ASSUME NEW c \in Credentials, Register(c) PROVE Carried'
  <2>1. \A h \in Holders : Records(h) \subseteq Records(h)'
    BY <1>1, RegisterAdds DEF Carried, Typed
  <2>2. c \in records'
    BY <1>1, RegisterAdds DEF Carried, Typed
  <2>3. sweep.pc # "drop" /\ UNCHANGED <<clock, lapse, sweep>> /\ inserted' = c
    BY <1>1 DEF Register, StoreFree
  <2>4. sweep.holders \subseteq Holders
    BY DEF Carried, Typed, TypeOK, Sweeps
  <2>5. PastOK' /\ RegistrationOK' /\ DropOK'
    BY <2>2, <2>3 DEF Carried, PastOK, RegistrationOK, DropOK
  <2>6. AdoptOK' /\ RetireOK'
    BY <2>1, <2>3, <2>4 DEF Carried, AdoptOK, RetireOK
  <2> QED BY <2>5, <2>6 DEF Carried
<1>2. CASE RegisterForget
  <2>1. /\ inserted \in records /\ sweep.pc # "drop" /\ inserted' = None
        /\ UNCHANGED <<clock, records, sweep>>
    BY <1>2 DEF RegisterForget, Carried, RegistrationOK
  <2>2. inserted \in Records(inserted.holder)
    BY <2>1 DEF Records
  <2>3. \A h \in Holders : Records(h)' = Records(h)
    BY <2>1 DEF Records
  <2>4. \A h \in Holders : lapse'[h] = None \/ lapse'[h] = lapse[h]
    BY <1>2 DEF RegisterForget, Carried, Typed, TypeOK
  <2>5. \A h \in Holders : Records(h) = {} => lapse'[h] = lapse[h]
    BY <1>2, <2>2 DEF RegisterForget, Carried, Typed, TypeOK
  <2>6. sweep.holders \subseteq Holders
    BY DEF Carried, Typed, TypeOK, Sweeps
  <2>7. PastOK' /\ RegistrationOK' /\ DropOK'
    BY <2>1, <2>4 DEF Carried, PastOK, RegistrationOK, DropOK
  <2>8. AdoptOK' /\ RetireOK'
    BY <2>1, <2>3, <2>5, <2>6 DEF Carried, AdoptOK, RetireOK
  <2> QED BY <2>7, <2>8 DEF Carried
<1>3. ASSUME StoreFree, UNCHANGED <<clock, records, lapse, inserted, sweep>>
      PROVE  Carried'
  <2>1. PastOK' /\ RegistrationOK' /\ DropOK'
    BY <1>3 DEF StoreFree, Carried, PastOK, RegistrationOK, DropOK
  <2>2. AdoptOK' /\ RetireOK'
    BY <1>3 DEF Carried, AdoptOK, RetireOK, Records
  <2> QED BY <2>1, <2>2 DEF Carried
<1>4. ASSUME NEW k \in Keys, NEW t \in Terms, Preflight(k, t) PROVE Carried'
  BY <1>4, <1>3 DEF Preflight
<1>5. ASSUME NEW k \in Keys, Commit(k) \/ GrantEnds(k) PROVE Carried'
  BY <1>5, <1>3 DEF Commit, GrantEnds
<1>6. ASSUME NEW h \in Holders, NEW scope \in Scopes(h), Erase(h, scope) PROVE Carried'
  BY <1>6, <1>3 DEF Erase
<1> QED BY <1>1, <1>2, <1>4, <1>5, <1>6 DEF Request

\* A sweep that goes on to none of the steps that act on records or rows.
LEMMA ListCarries ==
  ASSUME Carried, Typed', StoreFree, UNCHANGED <<clock, lapse, inserted>>,
         inserted = None,
         sweep'.pc \notin {"drop", "adopt", "retire"},
         sweep'.now \in {sweep.now, clock, 0},
         sweep'.rows \in {sweep.rows, [h \in Holders |-> None]}
  PROVE  Carried'
<1>1. PastOK'
  BY DEF Carried, PastOK, Typed, TypeOK
<1>2. RegistrationOK' /\ DropOK' /\ AdoptOK' /\ RetireOK'
  BY DEF RegistrationOK, DropOK, AdoptOK, RetireOK
<1> QED BY <1>1, <1>2 DEF Carried

\* A row derived from records that all aged lies in the past.
LEMMA LosingIsPast ==
  ASSUME TypeOK, PastOK, NEW h \in Holders, Losing(h)
  PROVE  /\ LifecycleHorizon(h) = LastExpiry(Records(h))
         /\ LifecycleHorizon(h) \in Nat
         /\ LifecycleHorizon(h) <= clock
<1>1. Records(h) \in SUBSET Credentials /\ Records(h) # {}
  BY HorizonIs DEF Losing
<1>2. PICK c \in Records(h) : c.expires = LastExpiry(Records(h))
  BY <1>1, LastExpiryIs
<1>3. c.expires + PollInterval < sweep.now /\ c.expires \in Nat
  BY <1>1, <1>2, CredentialsAssumption, BoundsAssumption DEF Losing, Aged
<1>4. c.expires <= clock
  BY <1>3, BoundsAssumption DEF PastOK, TypeOK, Sweeps
<1> QED BY <1>2, <1>3, <1>4, LosingHorizon

LEMMA DeriveCarries ==
  ASSUME Carried, Typed', SweepDerive
  PROVE  Carried'
<1> DEFINE Go(h, there) == sweep' = [sweep EXCEPT !.holders = @ \ {h}, !.holder = h, !.pc = there]
<1>1. PICK h \in sweep.holders :
        \/ UNCHANGED lapse /\ Go(h, "losing")
        \/ Losing(h) /\ LapseStates(h, LifecycleHorizon(h)) = {} /\ UNCHANGED lapse /\ Go(h, "drop")
        \/ /\ Losing(h) /\ Go(h, "drop")
           /\ \E row \in LapseStates(h, LifecycleHorizon(h)) : lapse' = [lapse EXCEPT ![h] = row]
  BY DEF SweepDerive
<1>2. StoreFree /\ inserted = None /\ UNCHANGED <<clock, records, snapshots, inserted>>
  BY DEF SweepDerive, StoreFree
<1>3. h \in Holders
  BY DEF Carried, Typed, TypeOK, Sweeps
<1>4. \A there : Go(h, there) => /\ sweep'.now = sweep.now /\ sweep'.rows = sweep.rows
                                 /\ sweep'.holder = h /\ sweep'.pc = there
  BY DEF Carried, Typed, TypeOK, Sweeps
<1>5. CASE UNCHANGED lapse /\ Go(h, "losing")
  BY <1>2, <1>4, <1>5, ListCarries
<1>6. ASSUME Losing(h), Go(h, "drop") PROVE Losing(h)' /\ Records(h)' = Records(h)
                                            /\ LiveOf(h)' = LiveOf(h)
  <2>1. Records(h)' = Records(h) /\ LiveOf(h)' = LiveOf(h)
    BY <1>2 DEF Records, LiveOf, Live
  <2>2. \A c : Aged(c)' <=> Aged(c)
    BY <1>4, <1>6 DEF Aged
  <2> QED BY <1>6, <2>1, <2>2 DEF Losing
<1>7. CASE Losing(h) /\ LapseStates(h, LifecycleHorizon(h)) = {} /\ UNCHANGED lapse /\ Go(h, "drop")
  <2>1. LiveOf(h) = {}
    BY <1>3, <1>7, LosingIsPast, LapseStatesThere DEF Carried, Typed
  <2>2. DropOK'
    BY <1>3, <1>4, <1>6, <1>7, <2>1 DEF DropOK
  <2>3. PastOK' /\ RegistrationOK' /\ AdoptOK' /\ RetireOK'
    BY <1>2, <1>4, <1>7 DEF Carried, PastOK, RegistrationOK, AdoptOK, RetireOK
  <2> QED BY <2>2, <2>3 DEF Carried
<1>8. ASSUME Losing(h), Go(h, "drop"), NEW row \in LapseStates(h, LifecycleHorizon(h)),
             lapse' = [lapse EXCEPT ![h] = row]
      PROVE  Carried'
  <2>1. /\ row \in LapseRows /\ row.at = LastExpiry(Records(h)) /\ row.at <= clock
    BY <1>3, <1>8, LosingIsPast, LapseStatesAre DEF Carried, Typed
  <2>2. lapse'[h] = row /\ row # None
        /\ \A g \in Holders : g # h => lapse'[g] = lapse[g]
    BY <1>3, <1>8, <2>1, DistinctAssumption DEF Carried, Typed, TypeOK
  <2>3. DropOK'
    <3>1. lapse'[h].at = LastExpiry(Records(h)')
      BY <1>6, <1>8, <2>1, <2>2
    <3>2. LastExpiry(Records(h))' = LastExpiry(Records(h)')
      BY DEF LastExpiry
    <3> QED BY <1>3, <1>4, <1>6, <1>8, <2>2, <3>1, <3>2 DEF DropOK
  <2>4. PastOK' /\ RegistrationOK' /\ AdoptOK' /\ RetireOK'
    BY <1>2, <1>4, <1>8, <2>1, <2>2 DEF Carried, PastOK, RegistrationOK, AdoptOK, RetireOK
  <2> QED BY <2>3, <2>4 DEF Carried
<1> QED BY <1>1, <1>5, <1>7, <1>8

\* Adoption writes the moment the pass began.
LEMMA AdoptCarries ==
  ASSUME Carried, Typed', SweepAdopt
  PROVE  Carried'
<1>1. PICK h \in sweep.holders :
        /\ sweep' = [sweep EXCEPT !.holders = @ \ {h}]
        /\ \/ UNCHANGED lapse
           \/ \E row \in LapseStates(h, sweep.now) : lapse' = [lapse EXCEPT ![h] = row]
  BY DEF SweepAdopt
<1>2. /\ sweep.pc = "adopt" /\ inserted = None
      /\ UNCHANGED <<clock, records, inserted>>
  BY DEF SweepAdopt, StoreFree
<1>3. h \in Holders /\ sweep.now \in Nat /\ sweep.holders \subseteq Holders
  BY DEF Carried, Typed, TypeOK, Sweeps
<1>4. /\ sweep'.now = sweep.now /\ sweep'.rows = sweep.rows /\ sweep'.pc = "adopt"
      /\ sweep'.holders = sweep.holders \ {h}
  BY <1>1, <1>2 DEF Carried, Typed, TypeOK, Sweeps
<1>5. \A g \in Holders : g # h => lapse'[g] = lapse[g]
  BY <1>1 DEF Carried, Typed, TypeOK
<1>6. lapse'[h] = lapse[h] \/ lapse'[h].at = sweep.now
  BY <1>1, <1>3, LapseStatesAre DEF Carried, Typed, TypeOK
<1>7. PastOK'
  BY <1>2, <1>4, <1>5, <1>6 DEF Carried, PastOK
<1>8. RegistrationOK' /\ DropOK' /\ RetireOK'
  BY <1>2, <1>4 DEF RegistrationOK, DropOK, RetireOK
<1>9. AdoptOK'
  BY <1>2, <1>3, <1>4, <1>5 DEF Carried, AdoptOK, Records
<1> QED BY <1>7, <1>8, <1>9 DEF Carried

\* A refresh keeps the moment that the row was listed with.
LEMMA RetireCarries ==
  ASSUME Carried, Typed', SweepRetire
  PROVE  Carried'
<1>1. PICK h \in sweep.holders :
        /\ sweep' = [sweep EXCEPT !.holders = @ \ {h}]
        /\ \/ UNCHANGED lapse
           \/ lapse' = [lapse EXCEPT ![h] = None]
           \/ \E row \in LapseStates(h, sweep.rows[h].at) : lapse' = [lapse EXCEPT ![h] = row]
  BY DEF SweepRetire
<1>2. /\ sweep.pc = "retire" /\ inserted = None
      /\ UNCHANGED <<clock, records, inserted>>
  BY DEF SweepRetire, StoreFree
<1>3. h \in Holders /\ sweep.holders \subseteq Holders /\ sweep.rows[h] \in LapseRows
  BY <1>2 DEF Carried, Typed, TypeOK, ListedOK, Sweeps
<1>4. /\ sweep'.now = sweep.now /\ sweep'.rows = sweep.rows /\ sweep'.pc = "retire"
      /\ sweep'.holders = sweep.holders \ {h}
  BY <1>1, <1>2 DEF Carried, Typed, TypeOK, Sweeps
<1>5. \A g \in Holders : g # h => lapse'[g] = lapse[g]
  BY <1>1 DEF Carried, Typed, TypeOK
<1>6. lapse'[h] \in {lapse[h], None} \/ lapse'[h].at = sweep.rows[h].at
  BY <1>1, <1>3, LapseStatesAre DEF Carried, Typed, TypeOK, LapseRows
<1>7. sweep.rows[h].at <= clock
  BY <1>2, <1>3, DistinctAssumption DEF Carried, PastOK
<1>8. PastOK'
  BY <1>2, <1>3, <1>4, <1>5, <1>6, <1>7 DEF Carried, PastOK
<1>9. RegistrationOK' /\ DropOK' /\ AdoptOK'
  BY <1>2, <1>4 DEF RegistrationOK, DropOK, AdoptOK
<1>10. RetireOK'
  BY <1>2, <1>3, <1>4, <1>5 DEF Carried, RetireOK, Records
<1> QED BY <1>8, <1>9, <1>10 DEF Carried

LEMMA CarriedStep == UniqueIds /\ Carried /\ [Next]_vars => Carried'
<1> SUFFICES ASSUME UniqueIds, Carried, [Next]_vars PROVE Carried'
  OBVIOUS
<1>0. Typed'
  BY TypeStep DEF Carried
<1>1. CASE Request \/ RegisterForget
  BY <1>0, <1>1, RequestCarries
<1>2. ASSUME NEW ids \in SUBSET Ids, InstallEpoch(ids) PROVE Carried'
  BY <1>0, <1>2 DEF InstallEpoch, Carried, PastOK, RegistrationOK, DropOK, AdoptOK, RetireOK,
                    Losing, Aged, Records, LiveOf, Live, LastExpiry
<1>3. CASE SweepBegin
  <2>1. sweep'.pc = "due" /\ sweep'.now = clock /\ sweep'.rows = [h \in Holders |-> None]
    BY <1>3 DEF SweepBegin, IdleSweep
  <2> QED BY <1>0, <1>3, <2>1, ListCarries DEF SweepBegin, StoreFree
<1>4. CASE SweepDue
  <2>1. sweep'.pc \in {"due", "expire"} /\ sweep'.now = sweep.now /\ sweep'.rows = sweep.rows
    BY <1>4 DEF SweepDue, Carried, Typed, TypeOK, Sweeps
  <2> QED BY <1>0, <1>4, <2>1, ListCarries DEF SweepDue, StoreFree
<1>5. CASE SweepExpire
  <2>1. sweep'.pc \in {"due", "expire"} /\ sweep'.now = sweep.now /\ sweep'.rows = sweep.rows
    BY <1>5 DEF SweepExpire, Carried, Typed, TypeOK, Sweeps
  <2> QED BY <1>0, <1>5, <2>1, ListCarries DEF SweepExpire, StoreFree
<1>6. CASE SweepLosing
  <2>1. sweep'.pc = "losing" /\ sweep'.now = sweep.now /\ sweep'.rows = sweep.rows
    BY <1>6 DEF SweepLosing, Carried, Typed, TypeOK, Sweeps
  <2> QED BY <1>0, <1>6, <2>1, ListCarries DEF SweepLosing, StoreFree
<1>7. CASE SweepDerive
  BY <1>0, <1>7, DeriveCarries
<1>8. CASE SweepDropRecords
  <2>1. /\ sweep'.pc = "losing" /\ sweep'.now = sweep.now /\ sweep'.rows = sweep.rows
        /\ inserted = None /\ UNCHANGED <<clock, lapse, inserted>>
    BY <1>8 DEF SweepDropRecords, Carried, RegistrationOK, Typed, TypeOK, Sweeps
  <2>2. PastOK' /\ RegistrationOK' /\ DropOK' /\ AdoptOK' /\ RetireOK'
    BY <2>1 DEF Carried, PastOK, RegistrationOK, DropOK, AdoptOK, RetireOK
  <2> QED BY <1>0, <2>2 DEF Carried
<1>9. CASE SweepSuperseded
  <2>1. sweep'.pc = "observe" /\ sweep'.now = sweep.now /\ sweep'.rows = sweep.rows
    BY <1>9 DEF SweepSuperseded, Carried, Typed, TypeOK, Sweeps
  <2> QED BY <1>0, <1>9, <2>1, ListCarries DEF SweepSuperseded, StoreFree
<1>10. CASE SweepUnrecorded
  <2>1. /\ sweep'.pc = "adopt" /\ sweep'.now = sweep.now /\ sweep'.rows = sweep.rows
        /\ sweep'.holders = {h \in Holders : LiveOf(h) # {} /\ LifecycleHorizon(h) = None}
        /\ inserted = None /\ UNCHANGED <<clock, records, lapse, inserted>>
    BY <1>10 DEF SweepUnrecorded, StoreFree, Carried, Typed, TypeOK, Sweeps
  <2>2. \A h \in sweep'.holders : lapse[h] = None
    BY <2>1, HorizonIs DEF Carried, Typed
  <2>3. PastOK' /\ RegistrationOK' /\ DropOK' /\ AdoptOK' /\ RetireOK'
    BY <2>1, <2>2 DEF Carried, PastOK, RegistrationOK, DropOK, AdoptOK, RetireOK
  <2> QED BY <1>0, <2>3 DEF Carried
<1>11. CASE SweepAdopt
  BY <1>0, <1>11, AdoptCarries
<1>12. CASE SweepLapsed
  <2>1. /\ sweep'.pc = "retire" /\ sweep'.now = sweep.now /\ sweep'.rows = lapse
        /\ inserted = None /\ UNCHANGED <<clock, records, lapse, inserted>>
    BY <1>12 DEF SweepLapsed, StoreFree, Carried, Typed, TypeOK, Sweeps
  <2>2. PastOK' /\ RegistrationOK' /\ DropOK' /\ AdoptOK' /\ RetireOK'
    BY <2>1 DEF Carried, PastOK, RegistrationOK, DropOK, AdoptOK, RetireOK
  <2> QED BY <1>0, <2>2 DEF Carried
<1>13. CASE SweepRetire
  BY <1>0, <1>13, RetireCarries
<1>14. CASE SweepDone \/ Crash
  <2>1. /\ sweep' = IdleSweep /\ UNCHANGED <<clock, lapse>>
        /\ inserted' = None \/ (UNCHANGED <<inserted, records>> /\ sweep.pc = "retire")
    BY <1>14 DEF SweepDone, Crash
  <2>2. PastOK'
    BY <2>1 DEF IdleSweep, Carried, PastOK, Typed, TypeOK
  <2>3. RegistrationOK' /\ DropOK' /\ AdoptOK' /\ RetireOK'
    BY <2>1 DEF IdleSweep, Carried, RegistrationOK, DropOK, AdoptOK, RetireOK
  <2> QED BY <1>0, <2>2, <2>3 DEF Carried
<1>15. CASE Tick
  <2>1. /\ clock' = clock + 1 /\ UNCHANGED <<records, lapse, snapshots, inserted, sweep>>
    BY <1>15 DEF Tick
  <2>2. PastOK'
    BY <2>1 DEF Carried, PastOK, Typed, TypeOK, Sweeps, LapseRows
  <2>3. RegistrationOK' /\ DropOK' /\ AdoptOK' /\ RetireOK'
    BY <2>1 DEF Carried, RegistrationOK, DropOK, AdoptOK, RetireOK, Losing, Aged, Records,
                LiveOf, Live, LastExpiry
  <2> QED BY <1>0, <2>2, <2>3 DEF Carried
<1>16. CASE UNCHANGED vars
  BY <1>0, <1>16 DEF vars, Carried, PastOK, RegistrationOK, DropOK, AdoptOK, RetireOK, Losing,
                     Aged, Records, LiveOf, Live, LastExpiry
<1> QED BY <1>1, <1>2, <1>3, <1>4, <1>5, <1>6, <1>7, <1>8, <1>9, <1>10, <1>11, <1>12,
          <1>13, <1>14, <1>15, <1>16
       DEF Next, SweepStep

-----------------------------------------------------------------------------
(* Horizons *)

\* The horizon of h is still there and no earlier.
Kept(h) == LifecycleHorizon(h)' # None /\ LifecycleHorizon(h)' >= LifecycleHorizon(h)

LEMMA SameKept ==
  ASSUME TypeOK, NEW h \in Holders, LifecycleHorizon(h) # None,
         Records(h)' = Records(h),
         Records(h) # {} \/ lapse'[h] = lapse[h]
  PROVE  Kept(h)
<1>1. LifecycleHorizon(h) \in Nat
  BY HorizonIs
<1>2. LifecycleHorizon(h)' = LifecycleHorizon(h)
  BY DEF LifecycleHorizon
<1> QED BY <1>1, <1>2 DEF Kept

\* Records that are added, or that were not the last to expire and go, leave
\* a horizon at least as late.
LEMMA RecordsKept ==
  ASSUME TypeOK, TypeOK', NEW h \in Holders, Records(h) # {},
         NEW c \in Records(h)', \A r \in Records(h) : r.expires <= c.expires
  PROVE  Kept(h)
<1>1. LifecycleHorizon(h) = LastExpiry(Records(h)) /\ Records(h) \in SUBSET Credentials
  BY HorizonIs
<1>2. PICK r \in Records(h) : r.expires = LastExpiry(Records(h))
  BY <1>1, LastExpiryIs
<1>3. Records(h)' \in SUBSET Credentials /\ Records(h)' # {}
  BY DEF Records, TypeOK
<1>4. /\ LastExpiry(Records(h)') \in Nat
      /\ c.expires <= LastExpiry(Records(h)')
  BY <1>3, LastExpiryIs
<1>5. LifecycleHorizon(h)' = LastExpiry(Records(h)')
  BY <1>3 DEF LifecycleHorizon
<1>6. r.expires \in Nat /\ c.expires \in Nat
  BY <1>1, <1>3, CredentialsAssumption, BoundsAssumption
<1>7. LastExpiry(Records(h)') # None
  BY <1>4, DistinctAssumption
<1> QED BY <1>1, <1>2, <1>4, <1>5, <1>6, <1>7 DEF Kept

LEMMA RegisterKeeps ==
  ASSUME UniqueIds, Carried, Typed', NEW c \in Credentials, Register(c),
         NEW h \in Holders, LifecycleHorizon(h) # None
  PROVE  Kept(h)
<1>1. records' = records \cup {c} /\ Records(h) \subseteq Records(h)'
  BY RegisterAdds DEF Carried, Typed
<1>2. Valid(c) /\ UNCHANGED <<clock, lapse>>
  BY DEF Register
<1>3. CASE Records(h) # {}
  <2>1. Records(h) \in SUBSET Credentials
    BY HorizonIs DEF Carried, Typed
  <2>2. PICK r \in Records(h) : r.expires = LastExpiry(Records(h))
    BY <1>3, <2>1, LastExpiryIs
  <2>3. \A q \in Records(h) : q.expires <= r.expires
    BY <1>3, <2>1, <2>2, LastExpiryIs
  <2> QED BY <1>1, <1>3, <2>3, RecordsKept DEF Carried, Typed
<1>4. CASE Records(h) = {} /\ Records(h)' = {}
  BY <1>2, <1>4, SameKept DEF Carried, Typed
<1>5. CASE Records(h) = {} /\ Records(h)' # {}
  <2>1. /\ lapse[h] # None /\ lapse[h].at <= clock
        /\ LifecycleHorizon(h) = lapse[h].at /\ LifecycleHorizon(h) \in Nat
    BY <1>5, HorizonIs DEF Carried, Typed, PastOK
  <2>2. c \in Records(h)'
    BY <1>1, <1>5 DEF Records
  <2>3. Records(h)' \in SUBSET Credentials
    BY DEF Records, Typed, TypeOK
  <2>4. LastExpiry(Records(h)') \in Nat /\ c.expires <= LastExpiry(Records(h)')
    BY <2>2, <2>3, LastExpiryIs
  <2>5. LifecycleHorizon(h)' = LastExpiry(Records(h)')
    BY <1>5 DEF LifecycleHorizon
  <2>6. clock <= c.expires /\ clock \in Nat /\ c.expires \in Nat
    BY <1>2, CredentialsAssumption, BoundsAssumption DEF Valid, Carried, Typed, TypeOK
  <2>7. LastExpiry(Records(h)') # None
    BY <2>4, DistinctAssumption
  <2> QED BY <2>1, <2>4, <2>5, <2>6, <2>7 DEF Kept
<1> QED BY <1>3, <1>4, <1>5

LEMMA DropKeeps ==
  ASSUME Carried, SweepDropRecords, NEW h \in Holders, LiveOf(h) # {},
         LifecycleHorizon(h) # None
  PROVE  Kept(h)
<1>1. sweep.pc = "drop" /\ UNCHANGED lapse
  BY DEF SweepDropRecords
<1>2. CASE UNCHANGED records \/ h # sweep.holder
  <2>1. Records(h)' = Records(h)
    BY <1>2 DEF SweepDropRecords, Records
  <2> QED BY <1>1, <2>1, SameKept DEF Carried, Typed
<1>3. CASE h = sweep.holder /\ records' = {c \in records : ~(c.holder = sweep.holder /\ Aged(c))}
  <2>1. /\ Losing(h) /\ lapse[h] # None
        /\ lapse[h].at = LastExpiry(Records(h))
    BY <1>1, <1>3 DEF Carried, DropOK
  <2>2. Records(h)' = {}
    BY <1>3, <2>1 DEF Losing, Records
  <2>3. LifecycleHorizon(h) = LastExpiry(Records(h)) /\ LifecycleHorizon(h) \in Nat
    BY <2>1, LosingHorizon DEF Carried, Typed
  <2>4. LifecycleHorizon(h)' = lapse[h].at
    BY <1>1, <2>1, <2>2 DEF LifecycleHorizon
  <2> QED BY <2>1, <2>3, <2>4 DEF Kept
<1> QED BY <1>2, <1>3 DEF SweepDropRecords

LEMMA SupersededKeeps ==
  ASSUME Carried, Typed', SweepSuperseded, NEW h \in Holders, LifecycleHorizon(h) # None
  PROVE  Kept(h)
<1>1. UNCHANGED lapse /\ \/ UNCHANGED records
                         \/ records' = {c \in records : ~Aged(c) \/ Losing(c.holder)}
  BY DEF SweepSuperseded
<1>2. CASE UNCHANGED records \/ Losing(h) \/ Records(h) = {}
  <2>1. Records(h)' = Records(h)
    BY <1>1, <1>2 DEF Records
  <2> QED BY <1>1, <2>1, SameKept DEF Carried, Typed
<1>3. CASE /\ records' = {c \in records : ~Aged(c) \/ Losing(c.holder)}
           /\ Records(h) # {} /\ ~Losing(h)
  <2>1. Records(h) \in SUBSET Credentials
    BY HorizonIs DEF Carried, Typed
  <2>2. PICK c \in Records(h) : ~Aged(c)
    BY <1>3 DEF Losing
  <2>3. PICK r \in Records(h) : r.expires = LastExpiry(Records(h))
    BY <1>3, <2>1, LastExpiryIs
  <2>4. \A q \in Records(h) : q.expires <= r.expires
    BY <1>3, <2>1, <2>3, LastExpiryIs
  <2>5. c.expires \in Nat /\ r.expires \in Nat /\ sweep.now \in Nat
    BY <2>1, CredentialsAssumption, BoundsAssumption DEF Carried, Typed, TypeOK, Sweeps
  <2>6. ~Aged(r)
    BY <2>2, <2>4, <2>5, BoundsAssumption DEF Aged
  <2>7. r \in Records(h)'
    BY <1>3, <2>6 DEF Records
  <2> QED BY <1>3, <2>4, <2>7, RecordsKept DEF Carried, Typed
<1> QED BY <1>1, <1>2, <1>3

\* A row that is refreshed keeps its moment, and one that is dropped while
\* something is retained was not what the horizon came from.
LEMMA RetireKeeps ==
  ASSUME Carried, SweepRetire, NEW h \in Holders, LiveOf(h) # {}, LifecycleHorizon(h) # None
  PROVE  Kept(h)
<1>1. PICK g \in sweep.holders :
        LET rows == LapseStates(g, sweep.rows[g].at)
        IN  \/ rows = {} /\ lapse' = [lapse EXCEPT ![g] = None]
            \/ \E fresh \in rows : /\ Retires(g, fresh)
                                   /\ lapse' = [lapse EXCEPT ![g] = None]
            \/ \E fresh \in rows : lapse' = [lapse EXCEPT ![g] = fresh]
            \/ UNCHANGED lapse
  BY DEF SweepRetire
<1>2. sweep.pc = "retire" /\ UNCHANGED records
  BY DEF SweepRetire
<1>3. Records(h)' = Records(h)
  BY <1>2 DEF Records
<1>4. CASE g # h \/ Records(h) # {} \/ UNCHANGED lapse
  BY <1>1, <1>3, <1>4, SameKept DEF Carried, Typed, TypeOK
<1>5. CASE g = h /\ Records(h) = {}
  <2> DEFINE at == sweep.rows[h].at
  <2>1. /\ lapse[h] = sweep.rows[h] /\ lapse[h] # None
        /\ LifecycleHorizon(h) = at /\ at \in Nat
    BY <1>1, <1>2, <1>5, HorizonIs DEF Carried, Typed, RetireOK
  <2>2. LapseStates(h, at) # {}
    BY <2>1, LapseStatesThere DEF Carried, Typed
  <2>3. ASSUME NEW fresh \in LapseStates(h, at) PROVE ~Retires(h, fresh)
    <3>1. PICK k \in LiveOf(h) : fresh.ends = WindowEnd(k, at)
      BY <2>1, LapseStatesAre DEF Carried, Typed
    <3>2. WindowEnd(k, at) \in Nat /\ WindowEnd(k, at) >= at /\ sweep.now \in Nat
      BY <2>1, WindowEndIs DEF LiveOf, Carried, Typed, TypeOK, Sweeps
    <3>3. sweep.now >= fresh.ends => k \in Due(h, sweep.now)
      BY <2>1, <3>1, <3>2 DEF Due
    <3> QED BY <3>3 DEF Retires
  <2>4. ASSUME NEW fresh \in LapseStates(h, at), lapse' = [lapse EXCEPT ![h] = fresh]
        PROVE  Kept(h)
    <3>1. fresh \in LapseRows /\ fresh.at = at
      BY <2>1, LapseStatesAre DEF Carried, Typed
    <3>2. lapse'[h] = fresh /\ fresh # None
      BY <2>4, <3>1, DistinctAssumption DEF Carried, Typed, TypeOK
    <3>3. LifecycleHorizon(h)' = at
      BY <1>3, <1>5, <3>1, <3>2 DEF LifecycleHorizon
    <3> QED BY <2>1, <3>3 DEF Kept
  <2>5. CASE UNCHANGED lapse
    BY <1>3, <2>5, SameKept DEF Carried, Typed
  <2> QED BY <1>1, <1>5, <2>2, <2>3, <2>4, <2>5
<1> QED BY <1>4, <1>5

LEMMA HorizonStep ==
  ASSUME UniqueIds, Carried, [Next]_vars,
         NEW h \in Holders, LiveOf(h) # {}, LifecycleHorizon(h) # None
  PROVE  Kept(h)
<1>0. Typed' /\ TypeOK
  BY TypeStep DEF Carried, Typed
<1>1. CASE UNCHANGED <<records, lapse>>
  <2>1. Records(h)' = Records(h)
    BY <1>1 DEF Records
  <2> QED BY <1>0, <1>1, <2>1, SameKept
<1>2. ASSUME NEW c \in Credentials, Register(c) PROVE Kept(h)
  BY <1>0, <1>2, RegisterKeeps
<1>3. CASE RegisterForget
  <2>1. inserted \in Records(inserted.holder) /\ UNCHANGED records
    BY <1>3 DEF RegisterForget, Carried, RegistrationOK, Records
  <2>2. Records(h) # {} \/ lapse'[h] = lapse[h]
    BY <1>0, <1>3, <2>1 DEF RegisterForget, TypeOK
  <2>3. Records(h)' = Records(h)
    BY <2>1 DEF Records
  <2> QED BY <1>0, <2>2, <2>3, SameKept
<1>4. CASE SweepDerive
  <2>1. Records(h)' = Records(h)
    BY <1>4 DEF SweepDerive, Records
  <2>2. Records(h) # {} \/ lapse'[h] = lapse[h]
    BY <1>0, <1>4 DEF SweepDerive, TypeOK, Losing
  <2> QED BY <1>0, <2>1, <2>2, SameKept
<1>5. CASE SweepDropRecords
  BY <1>5, DropKeeps
<1>6. CASE SweepSuperseded
  BY <1>0, <1>6, SupersededKeeps
<1>7. CASE SweepAdopt
  <2>1. Records(h)' = Records(h)
    BY <1>7 DEF SweepAdopt, Records
  <2>2. Records(h) = {} => h \notin sweep.holders
    BY <1>0, <1>7, HorizonIs DEF SweepAdopt, Carried, AdoptOK
  <2>3. h \notin sweep.holders => lapse'[h] = lapse[h]
    BY <1>0, <1>7 DEF SweepAdopt, TypeOK
  <2> QED BY <1>0, <2>1, <2>2, <2>3, SameKept
<1>8. CASE SweepRetire
  BY <1>8, RetireKeeps
<1> QED
  BY <1>1, <1>2, <1>3, <1>4, <1>5, <1>6, <1>7, <1>8
  DEF Next, Request, Preflight, Commit, GrantEnds, Erase, InstallEpoch, SweepStep, SweepBegin,
      SweepDue, SweepExpire, SweepLosing, SweepUnrecorded, SweepLapsed, SweepDone, Tick, Crash,
      vars

\* The moment a holder lapsed is neither lost nor moved back while they have
\* something retained: through renewals, revocations, records that age out,
\* the row that takes over, adoption, failures and crashes anywhere.
THEOREM HorizonIsKept ==
  ASSUME UniqueIds
  PROVE  Spec => HorizonKept
<1>1. Carried /\ [Next]_vars => Carried'
  BY CarriedStep
<1>2. Carried /\ [Next]_vars =>
        [\A h \in Holders :
           (LiveOf(h) # {} /\ LiveOf(h)' # {} /\ LifecycleHorizon(h) # None) =>
             /\ LifecycleHorizon(h)' # None
             /\ LifecycleHorizon(h)' >= LifecycleHorizon(h)]_vars
  BY HorizonStep DEF Kept
<1> QED BY <1>1, <1>2, CarriedInit, PTL DEF Spec, HorizonKept

-----------------------------------------------------------------------------
(* Who pays is not lapsed *)

\* Registrations keep away from what the sweep has listed, and are not torn.
Undisturbed == ~RenewalRaces /\ ~TornRegistrations

\* Whoever the sweep is about to write a row for, from a list, does not pay.
PastListed ==
  sweep.pc \in {"adopt", "retire"} =>
    \A h \in sweep.holders : \A c \in Records(h) : c.expires < clock

Payers == sweep.now <= clock /\ NobodyPayingIsLapsed /\ PastListed

\* A step that registers nothing, and writes rows only for those who do not
\* pay.
LEMMA PayersFrame ==
  ASSUME TypeOK, Payers,
         clock' \in Nat, clock' >= clock, sweep'.now <= clock', records' \subseteq records,
         \A h \in Holders : \/ lapse'[h] \in {lapse[h], None}
                            \/ \A c \in Records(h) : c.expires < clock,
         \/ inserted' = inserted
         \/ inserted' = None /\ (inserted # None => lapse'[inserted.holder] = None),
         sweep'.pc \in {"adopt", "retire"} =>
           \A h \in sweep'.holders : \A c \in Records(h) : c.expires < clock
  PROVE  Payers'
<1>1. \A h : \A c \in Records(h)' : c \in Records(h)
  BY DEF Records
<1>2. \A c \in records : c.expires \in Nat /\ c.holder \in Holders
  BY CredentialsAssumption, BoundsAssumption DEF TypeOK
<1>3. clock \in Nat
  BY BoundsAssumption DEF TypeOK
<1>4. \A h : \A c \in Records(h) : c.expires < clock => c.expires < clock'
  BY <1>2, <1>3 DEF Records
<1>5. PastListed'
  BY <1>1, <1>4 DEF PastListed
<1>6. NobodyPayingIsLapsed'
  <2> SUFFICES ASSUME NEW h \in Holders, lapse'[h] # None,
                      inserted' # None => inserted'.holder # h,
                      NEW c \in Records(h)'
               PROVE  c.expires < clock'
    BY DEF NobodyPayingIsLapsed
  <2>1. CASE \A d \in Records(h) : d.expires < clock
    BY <2>1, <1>1, <1>4
  <2>2. CASE lapse'[h] = lapse[h]
    <3>1. inserted # None => inserted.holder # h
      OBVIOUS
    <3> QED BY <2>2, <3>1, <1>1, <1>4 DEF Payers, NobodyPayingIsLapsed
  <2> QED BY <2>1, <2>2
<1> QED BY <1>5, <1>6 DEF Payers

LEMMA PayersStep ==
  ASSUME Undisturbed, Typed, Typed', Payers, [Next]_vars
  PROVE  Payers'
<1>t. /\ TypeOK /\ clock \in Nat /\ sweep.now \in Nat /\ sweep.now <= clock
      /\ sweep \in Sweeps /\ lapse \in [Holders -> LapseRows \cup {None}]
      /\ \A c \in records : c.expires \in Nat
  BY CredentialsAssumption, BoundsAssumption DEF Typed, TypeOK, Sweeps, Payers
<1> DEFINE Still == clock' = clock /\ sweep'.now <= clock /\ records' \subseteq records
           Listing == sweep'.pc \in {"adopt", "retire"} =>
                        \A h \in sweep'.holders : \A c \in Records(h) : c.expires < clock
<1>f. ASSUME Still, Listing, inserted' = inserted,
             \A h \in Holders : \/ lapse'[h] \in {lapse[h], None}
                                \/ \A c \in Records(h) : c.expires < clock
      PROVE  Payers'
  BY <1>f, <1>t, PayersFrame
<1>l. \A h \in Holders : Losing(h) => \A c \in Records(h) : c.expires < clock
  BY <1>t, BoundsAssumption DEF Losing, Aged, Records
<1>r. ASSUME NEW c \in Credentials, Register(c) PROVE Payers'
  <2>1. /\ clock' = clock /\ lapse' = lapse /\ sweep' = sweep /\ inserted' = c
        /\ inserted = None /\ c.holder \notin Listed
        /\ records' = {d \in records : d.id # c.id} \cup {c}
    BY <1>r DEF Register, StoreFree, Undisturbed
  <2>2. \A h : h # c.holder => Records(h)' \subseteq Records(h)
    BY <2>1 DEF Records
  <2>3. PastListed'
    BY <2>1, <2>2 DEF Payers, PastListed, Listed
  <2>4. c # None
    BY DistinctAssumption
  <2>5. NobodyPayingIsLapsed'
    BY <2>1, <2>2, <2>4 DEF Payers, NobodyPayingIsLapsed
  <2> QED BY <1>t, <2>1, <2>3, <2>5 DEF Payers
<1>q. ASSUME UNCHANGED <<clock, records, lapse, inserted, sweep>> PROVE Payers'
  BY <1>q, <1>t, <1>f DEF Payers, PastListed
<1>1. CASE Request
  <2>1. ASSUME NEW k \in Keys, (\E t \in Terms : Preflight(k, t)) \/ Commit(k) \/ GrantEnds(k)
        PROVE  Payers'
    BY <2>1, <1>q DEF Preflight, Commit, GrantEnds
  <2>2. ASSUME NEW h \in Holders, NEW scope, Erase(h, scope) PROVE Payers'
    BY <2>2, <1>q DEF Erase
  <2> QED BY <1>1, <1>r, <2>1, <2>2 DEF Request
<1>2. CASE RegisterForget
  <2>1. /\ UNCHANGED <<clock, records, sweep>> /\ inserted' = None
        /\ inserted.holder \in Holders
        /\ lapse' = [lapse EXCEPT ![inserted.holder] = None]
    BY <1>2, CredentialsAssumption DEF RegisterForget, Typed, TypeOK
  <2>2. lapse'[inserted.holder] = None /\ \A h \in Holders : lapse'[h] \in {lapse[h], None}
    BY <1>t, <2>1
  <2> QED BY <1>t, <2>1, <2>2, PayersFrame DEF Payers, PastListed
<1>3. ASSUME NEW ids, InstallEpoch(ids) PROVE Payers'
  BY <1>3, <1>q DEF InstallEpoch
<1>4. CASE SweepBegin
  <2>1. sweep'.pc = "due" /\ sweep'.now = clock
    BY <1>4 DEF SweepBegin, IdleSweep
  <2> QED BY <1>4, <1>t, <2>1, <1>f DEF SweepBegin
<1>5. CASE SweepDue \/ SweepExpire
  <2>1. sweep'.pc \in {"due", "expire"} /\ sweep'.now = sweep.now
          /\ UNCHANGED <<clock, records, lapse, inserted>>
    BY <1>5, <1>t DEF SweepDue, SweepExpire, Sweeps
  <2> QED BY <1>t, <2>1, <1>f
<1>6. CASE SweepLosing
  <2>1. sweep'.pc = "losing" /\ sweep'.now = sweep.now
          /\ UNCHANGED <<clock, records, lapse, inserted>>
    BY <1>6, <1>t DEF SweepLosing, Sweeps
  <2> QED BY <1>t, <2>1, <1>f
<1>7. CASE SweepDerive
  <2>1. sweep'.pc \in {"losing", "drop"} /\ sweep'.now = sweep.now
          /\ UNCHANGED <<clock, records, inserted>>
    BY <1>7, <1>t DEF SweepDerive, Sweeps
  <2>2. \A h \in Holders : lapse'[h] = lapse[h] \/ Losing(h)
    BY <1>7, <1>t DEF SweepDerive
  <2> QED BY <1>t, <1>l, <2>1, <2>2, <1>f
<1>8. CASE SweepDropRecords
  <2>1. sweep'.pc = "losing" /\ sweep'.now = sweep.now /\ records' \subseteq records
          /\ UNCHANGED <<clock, lapse, inserted>>
    BY <1>8, <1>t DEF SweepDropRecords, Sweeps
  <2> QED BY <1>t, <2>1, <1>f
<1>9. CASE SweepSuperseded
  <2>1. sweep'.pc = "observe" /\ sweep'.now = sweep.now /\ records' \subseteq records
          /\ UNCHANGED <<clock, lapse, inserted>>
    BY <1>9, <1>t DEF SweepSuperseded, Sweeps
  <2> QED BY <1>t, <2>1, <1>f
<1>10. CASE SweepUnrecorded
  <2>1. /\ sweep'.holders = {h \in Holders : LiveOf(h) # {} /\ LifecycleHorizon(h) = None}
        /\ sweep'.now = sweep.now /\ UNCHANGED <<clock, records, lapse, inserted>>
    BY <1>10, <1>t DEF SweepUnrecorded, Sweeps
  <2>2. \A h \in sweep'.holders : Records(h) = {}
    BY <1>t, <2>1, HorizonIs
  <2> QED BY <1>t, <2>1, <2>2, <1>f
<1>11. CASE SweepAdopt
  <2>1. /\ sweep'.pc = "adopt" /\ sweep.pc = "adopt" /\ sweep'.holders \subseteq sweep.holders
        /\ sweep'.now = sweep.now /\ UNCHANGED <<clock, records, inserted>>
    BY <1>11, <1>t DEF SweepAdopt, Sweeps
  <2>2. \A h \in Holders : lapse'[h] = lapse[h] \/ h \in sweep.holders
    BY <1>11, <1>t DEF SweepAdopt
  <2> QED BY <1>t, <2>1, <2>2, <1>f DEF Payers, PastListed
<1>12. CASE SweepLapsed
  <2>1. /\ sweep'.holders = {h \in Holders : lapse[h] # None} /\ inserted = None
        /\ sweep'.now = sweep.now /\ UNCHANGED <<clock, records, lapse, inserted>>
    BY <1>12, <1>t DEF SweepLapsed, Sweeps, StoreFree
  <2> QED BY <1>t, <2>1, <1>f DEF Payers, NobodyPayingIsLapsed
<1>13. CASE SweepRetire
  <2>1. /\ sweep'.pc = "retire" /\ sweep.pc = "retire" /\ sweep'.holders \subseteq sweep.holders
        /\ sweep'.now = sweep.now /\ UNCHANGED <<clock, records, inserted>>
    BY <1>13, <1>t DEF SweepRetire, Sweeps
  <2>2. \A h \in Holders : lapse'[h] = lapse[h] \/ h \in sweep.holders
    BY <1>13, <1>t DEF SweepRetire
  <2> QED BY <1>t, <2>1, <2>2, <1>f DEF Payers, PastListed
<1>14. CASE SweepDone \/ Crash
  <2>1. /\ sweep'.pc = "sleep" /\ sweep'.now = 0
        /\ UNCHANGED <<clock, records, lapse, inserted>>
    BY <1>14 DEF SweepDone, Crash, IdleSweep, Undisturbed
  <2> QED BY <1>t, <2>1, <1>f
<1>15. CASE Tick
  <2>1. clock' = clock + 1 /\ UNCHANGED <<records, lapse, inserted, sweep>>
    BY <1>15 DEF Tick
  <2> QED BY <1>t, <2>1, PayersFrame DEF Payers, PastListed
<1>16. CASE UNCHANGED vars
  BY <1>16, <1>q DEF vars
<1> QED BY <1>1, <1>2, <1>3, <1>4, <1>5, <1>6, <1>7, <1>8, <1>9, <1>10, <1>11, <1>12,
           <1>13, <1>14, <1>15, <1>16 DEF Next, SweepStep

\* No holder with a good credential has a lapse row, if registrations keep
\* away from what the sweep has listed and none is torn.
THEOREM NobodyPayingLapses == Undisturbed => (Spec => []NobodyPayingIsLapsed)
<1> SUFFICES ASSUME Undisturbed PROVE Spec => []NobodyPayingIsLapsed
  OBVIOUS
<1>1. Init => Payers
  BY DEF Init, IdleSweep, Payers, PastListed, NobodyPayingIsLapsed
<1>2. Typed /\ Typed' /\ Payers /\ [Next]_vars => Payers'
  BY PayersStep
<1>3. Payers => NobodyPayingIsLapsed
  BY DEF Payers
<1> QED BY <1>1, <1>2, <1>3, TypeInit, TypeStep, PTL DEF Spec

-----------------------------------------------------------------------------
(* Windows *)

\* The last expiry that a holder with records ever showed is in one of them.
RecordsReach ==
  \A h \in Holders : Records(h) # {} => \E c \in Records(h) : paid[h] <= c.expires

\* That of a holder without any had passed when the sweep's pass began.
UnrecordedPast ==
  \A h \in Holders : Records(h) = {} =>
    paid[h] <= clock /\ (sweep.pc # "sleep" => paid[h] <= sweep.now)

\* A lapse row says no earlier moment, unless its holder is registering.
RowsReach ==
  \A h \in Holders : lapse[h] # None /\ (inserted # None => inserted.holder # h) =>
    paid[h] <= lapse[h].at

\* Whoever is still to be adopted has no record; a row still to be refreshed
\* was listed with a moment no earlier.
ListedReach ==
  /\ sweep.pc = "adopt" => \A h \in sweep.holders : Records(h) = {}
  /\ sweep.pc = "retire" => \A h \in sweep.holders : paid[h] <= sweep.rows[h].at

\* Nothing is granted for what is retained.
LiveUngranted == \A k \in Keys : Live(k) => grants[k] = None

\* What the sweep is about to expire is over by its own terms, and is not
\* replaced meanwhile: its holder pays for nothing and has no grant for it.
Over(k) == AfterGrace[snapshots[k]] = "erase" /\ paid[k[1]] + Window[snapshots[k]] <= clock

DueReach ==
  \A k \in sweep.keys :
    /\ grants[k] = None
    /\ \A c \in Records(k[1]) : c.expires <= clock
    /\ Live(k) => Over(k)

Reaching == /\ RecordsReach /\ UnrecordedPast /\ RowsReach /\ ListedReach
            /\ LiveUngranted /\ DueReach

\* Only a registration shows an expiry, and what becomes of the clocks.
LEMMA OnlyRegistering ==
  ASSUME Typed, [Next]_vars
  PROVE  /\ \/ \E c \in Credentials : Register(c)
            \/ paid' = paid /\ (records' = records \/ SweepDropRecords \/ SweepSuperseded)
         /\ clock \in Nat /\ clock' \in {clock, clock + 1}
         /\ \/ sweep'.pc = "sleep"
            \/ sweep'.now = clock
            \/ sweep.pc # "sleep" /\ sweep'.now = sweep.now
            \/ sweep' = sweep
<1>1. clock \in Nat /\ sweep \in Sweeps
  BY BoundsAssumption DEF Typed, TypeOK
<1> DEFINE Step == /\ paid' = paid /\ clock' = clock
                   /\ records' = records \/ SweepDropRecords \/ SweepSuperseded
                   /\ \/ sweep'.pc = "sleep"
                      \/ sweep'.now = clock
                      \/ sweep.pc # "sleep" /\ sweep'.now = sweep.now
                      \/ sweep' = sweep
<1>2. ASSUME NEW c \in Credentials, Register(c) PROVE clock' = clock /\ sweep' = sweep
  BY <1>2 DEF Register
<1>3. ASSUME NEW k \in Keys, (\E t \in Terms : Preflight(k, t)) \/ Commit(k) \/ GrantEnds(k)
      PROVE  Step
  BY <1>3 DEF Preflight, Commit, GrantEnds
<1>4. ASSUME NEW h, NEW scope, Erase(h, scope) PROVE Step
  BY <1>4 DEF Erase
<1>5. ASSUME NEW ids, InstallEpoch(ids) PROVE Step
  BY <1>5 DEF InstallEpoch
<1>6. CASE RegisterForget \/ UNCHANGED vars
  BY <1>1, <1>6 DEF RegisterForget, vars
<1>15. CASE SweepDone \/ Crash
  BY <1>1, <1>15 DEF SweepDone, Crash, IdleSweep
<1>7. CASE SweepBegin \/ SweepLosing \/ SweepUnrecorded \/ SweepLapsed
  BY <1>1, <1>7 DEF SweepBegin, IdleSweep, SweepLosing, SweepUnrecorded, SweepLapsed, Sweeps
<1>8. CASE SweepDue
  BY <1>1, <1>8 DEF SweepDue, Sweeps
<1>9. CASE SweepExpire
  BY <1>1, <1>9 DEF SweepExpire, Sweeps
<1>10. CASE SweepDerive
  BY <1>1, <1>10 DEF SweepDerive, Sweeps
<1>11. CASE SweepDropRecords \/ SweepSuperseded
  BY <1>1, <1>11 DEF SweepDropRecords, SweepSuperseded, Sweeps
<1>12. CASE SweepAdopt
  BY <1>1, <1>12 DEF SweepAdopt, Sweeps
<1>13. CASE SweepRetire
  BY <1>1, <1>13 DEF SweepRetire, Sweeps
<1>14. ASSUME Tick
       PROVE  UNCHANGED <<records, paid, sweep>> /\ clock' = clock + 1
  BY <1>14 DEF Tick
<1> QED BY <1>1, <1>2, <1>3, <1>4, <1>5, <1>6, <1>7, <1>8, <1>9, <1>10, <1>11, <1>12, <1>13,
           <1>14, <1>15 DEF Next, Request, SweepStep

\* What a registration changes for one holder.
LEMMA RegisterReaches ==
  ASSUME UniqueIds, TypeOK, NEW c \in Credentials, Register(c), NEW h \in Holders
  PROVE  /\ c.holder # h => Records(h)' = Records(h) /\ paid'[h] = paid[h]
         /\ c.holder = h => /\ Records(h)' = Records(h) \cup {c}
                            /\ paid'[h] \in {paid[h], c.expires}
                            /\ c.expires <= paid'[h] /\ paid[h] <= paid'[h]
                            /\ paid'[h] = c.expires \/ c.expires <= paid[h]
         /\ c.expires \in Nat /\ clock <= c.expires
<1>1. records' = records \cup {c}
  BY RegisterAdds
<1>2. c.expires \in Nat /\ c.holder \in Holders /\ clock <= c.expires
  BY CredentialsAssumption, BoundsAssumption DEF Register, Valid
<1>3. /\ paid \in [Holders -> Nat]
      /\ paid' = [paid EXCEPT ![c.holder] = IF c.expires > @ THEN c.expires ELSE @]
  BY DEF Register, TypeOK
<1> QED BY <1>1, <1>2, <1>3 DEF Records

LEMMA RecordsReachStep ==
  ASSUME UniqueIds, Carried, Typed', Reaching, [Next]_vars
  PROVE  RecordsReach'
<1>t. /\ TypeOK /\ paid \in [Holders -> Nat] /\ clock \in Nat /\ sweep.now \in Nat
      /\ \A c \in records : c.expires \in Nat
  BY CredentialsAssumption, BoundsAssumption DEF Carried, Typed, TypeOK, Sweeps
<1>1. ASSUME NEW c \in Credentials, Register(c) PROVE RecordsReach'
  <2> SUFFICES ASSUME NEW h \in Holders, Records(h)' # {}
               PROVE  \E d \in Records(h)' : paid'[h] <= d.expires
    BY DEF RecordsReach
  <2>1. CASE c.holder # h
    BY <1>1, <1>t, <2>1, RegisterReaches DEF Reaching, RecordsReach
  <2>2. CASE c.holder = h /\ paid'[h] = c.expires
    BY <1>1, <1>t, <2>2, RegisterReaches
  <2>3. CASE c.holder = h /\ paid'[h] = paid[h] /\ Records(h) = {}
    <3>1. paid[h] <= clock
      BY <2>3 DEF Reaching, UnrecordedPast
    <3> QED BY <1>1, <1>t, <2>3, <3>1, RegisterReaches
  <2>4. CASE c.holder = h /\ paid'[h] = paid[h] /\ Records(h) # {}
    BY <1>1, <1>t, <2>4, RegisterReaches DEF Reaching, RecordsReach
  <2> QED BY <1>1, <1>t, <2>1, <2>2, <2>3, <2>4, RegisterReaches
<1>2. CASE paid' = paid /\ records' = records
  BY <1>2 DEF Reaching, RecordsReach, Records
<1>3. CASE paid' = paid /\ SweepDropRecords
  <2> SUFFICES ASSUME NEW h \in Holders, Records(h)' # {}
               PROVE  \E d \in Records(h)' : paid'[h] <= d.expires
    BY DEF RecordsReach
  <2>1. Records(h)' = Records(h)
    BY <1>3 DEF SweepDropRecords, Carried, DropOK, Losing, Records
  <2> QED BY <1>3, <2>1 DEF Reaching, RecordsReach
<1>4. CASE paid' = paid /\ SweepSuperseded
  <2> SUFFICES ASSUME NEW h \in Holders, Records(h)' # {}
               PROVE  \E d \in Records(h)' : paid'[h] <= d.expires
    BY DEF RecordsReach
  <2>1. CASE Records(h)' = Records(h)
    BY <1>4, <2>1 DEF Reaching, RecordsReach
  <2>2. CASE Records(h)' # Records(h)
    <3>1. /\ ~Losing(h) /\ Records(h) # {}
          /\ \A c \in Records(h) : ~Aged(c) => c \in Records(h)'
      BY <1>4, <2>2 DEF SweepSuperseded, Records
    <3>2. PICK c \in Records(h) : ~Aged(c)
      BY <3>1 DEF Losing
    <3>3. PICK d \in Records(h) : paid[h] <= d.expires
      BY <3>1 DEF Reaching, RecordsReach
    <3>4. CASE Aged(d)
      <4>1. d.expires <= c.expires
        BY <1>t, <3>2, <3>4, BoundsAssumption DEF Aged, Records
      <4>2. paid[h] <= c.expires
        BY <1>t, <3>3, <4>1 DEF Records
      <4> QED BY <1>4, <3>1, <3>2, <4>2
    <3> QED BY <1>4, <3>1, <3>3, <3>4
  <2> QED BY <2>1, <2>2
<1> QED BY <1>1, <1>2, <1>3, <1>4, OnlyRegistering DEF Carried

LEMMA UnrecordedPastStep ==
  ASSUME UniqueIds, Carried, Typed', Reaching, [Next]_vars
  PROVE  UnrecordedPast'
<1>t. /\ TypeOK /\ paid \in [Holders -> Nat] /\ sweep.now \in Nat /\ sweep.now <= clock
      /\ sweep \in Sweeps /\ \A c \in records : c.expires \in Nat
  BY CredentialsAssumption, BoundsAssumption DEF Carried, Typed, TypeOK, Sweeps, PastOK
<1> SUFFICES ASSUME NEW h \in Holders, Records(h)' = {}
             PROVE  paid'[h] <= clock' /\ (sweep'.pc # "sleep" => paid'[h] <= sweep'.now)
  BY DEF UnrecordedPast
<1>1. paid'[h] = paid[h]
  BY <1>t, RegisterReaches, OnlyRegistering DEF Carried
<1>2. CASE Records(h) = {}
  BY <1>t, <1>1, <1>2, OnlyRegistering DEF Reaching, UnrecordedPast, Carried
<1>3. CASE Records(h) # {}
  <2>1. SweepDropRecords
    <3>1. ASSUME NEW c \in Credentials, Register(c) PROVE FALSE
      BY <1>t, <1>3, <3>1, RegisterAdds
    <3>2. ASSUME SweepSuperseded PROVE FALSE
      BY <1>3, <3>2 DEF SweepSuperseded, Records, Losing
    <3>3. records' # records
      BY <1>3 DEF Records
    <3> QED BY <3>1, <3>2, <3>3, OnlyRegistering DEF Carried
  <2>2. PICK c \in Records(h) : paid[h] <= c.expires
    BY <1>3 DEF Reaching, RecordsReach
  <2>3. Aged(c) /\ c \in records
    BY <2>1, <2>2 DEF SweepDropRecords, Records
  <2>4. paid[h] <= sweep.now
    BY <1>t, <2>2, <2>3, BoundsAssumption DEF Aged
  <2>5. sweep'.now = sweep.now /\ clock' = clock
    BY <1>t, <2>1 DEF SweepDropRecords, Sweeps
  <2>6. clock \in Nat
    BY OnlyRegistering DEF Carried
  <2> QED BY <1>t, <1>1, <2>4, <2>5, <2>6
<1> QED BY <1>2, <1>3

\* The moment that a holder's horizon says is no earlier than any they showed.
LEMMA HorizonReaches ==
  ASSUME TypeOK, RegistrationOK, Reaching, NEW h \in Holders, LifecycleHorizon(h) # None
  PROVE  /\ LifecycleHorizon(h) \in Nat
         /\ paid[h] <= LifecycleHorizon(h)
         /\ \A c \in Records(h) : c.expires <= LifecycleHorizon(h)
<1>1. CASE Records(h) # {}
  <2>1. Records(h) \in SUBSET Credentials /\ LifecycleHorizon(h) = LastExpiry(Records(h))
    BY <1>1, HorizonIs
  <2>2. PICK c \in Records(h) : paid[h] <= c.expires
    BY <1>1 DEF Reaching, RecordsReach
  <2>3. /\ LastExpiry(Records(h)) \in Nat
        /\ \A d \in Records(h) : d.expires <= LastExpiry(Records(h))
    BY <1>1, <2>1, LastExpiryIs
  <2>4. c.expires \in Nat /\ paid[h] \in Nat
    BY <2>1, CredentialsAssumption, BoundsAssumption DEF TypeOK
  <2> QED BY <2>1, <2>2, <2>3, <2>4
<1>2. CASE Records(h) = {}
  <2>1. inserted # None => inserted.holder # h
    BY <1>2 DEF RegistrationOK, Records
  <2> QED BY <1>2, <2>1, HorizonIs DEF Reaching, RowsReach
<1> QED BY <1>1, <1>2

LEMMA RowsReachStep ==
  ASSUME UniqueIds, Undisturbed, Carried, Typed', Reaching, [Next]_vars
  PROVE  RowsReach'
<1>t. /\ TypeOK /\ paid \in [Holders -> Nat] /\ sweep.now \in Nat /\ sweep \in Sweeps
      /\ lapse \in [Holders -> LapseRows \cup {None}] /\ sweep.holders \subseteq Holders
  BY BoundsAssumption DEF Carried, Typed, TypeOK, Sweeps
\* A step that writes a row, if any, that says no earlier moment.
<1>f. ASSUME paid' = paid, inserted' = inserted, NEW h,
             \A g \in Holders : g # h => lapse'[g] = lapse[g],
             h \in Holders =>
               lapse'[h] = lapse[h] \/ lapse'[h] = None \/ paid[h] <= lapse'[h].at
      PROVE  RowsReach'
  BY <1>f DEF Reaching, RowsReach
<1>1. ASSUME NEW c \in Credentials, Register(c) PROVE RowsReach'
  <2>1. inserted = None /\ inserted' = c /\ lapse' = lapse /\ c # None
    BY <1>1, DistinctAssumption DEF Register, StoreFree
  <2>2. \A h \in Holders : c.holder # h => paid'[h] = paid[h]
    BY <1>1, <1>t, RegisterReaches
  <2> QED BY <2>1, <2>2 DEF Reaching, RowsReach
<1>2. CASE RegisterForget
  <2>1. /\ inserted' = None /\ paid' = paid /\ inserted.holder \in Holders
        /\ lapse' = [lapse EXCEPT ![inserted.holder] = None]
    BY <1>2, CredentialsAssumption DEF RegisterForget, Carried, Typed, TypeOK
  <2> QED BY <1>t, <2>1 DEF Reaching, RowsReach
<1>3. CASE SweepDerive
  <2>1. PICK h \in sweep.holders :
          \/ UNCHANGED lapse
          \/ Losing(h) /\ \E row \in LapseStates(h, LifecycleHorizon(h)) :
                            lapse' = [lapse EXCEPT ![h] = row]
    BY <1>3 DEF SweepDerive
  <2>2. inserted = None /\ inserted' = None /\ paid' = paid
    BY <1>3 DEF SweepDerive, StoreFree
  <2>3. ASSUME Losing(h), NEW row \in LapseStates(h, LifecycleHorizon(h)) PROVE paid[h] <= row.at
    <3>1. LifecycleHorizon(h) \in Nat /\ LifecycleHorizon(h) # None
      BY <1>t, <2>3, HorizonIs DEF Losing
    <3>2. paid[h] <= LifecycleHorizon(h)
      BY <1>t, <2>2, <3>1, HorizonReaches DEF Carried
    <3> QED BY <1>t, <2>3, <3>1, <3>2, LapseStatesAre
  <2> QED BY <1>t, <1>f, <2>1, <2>2, <2>3
<1>4. CASE SweepAdopt
  <2>1. PICK h \in sweep.holders :
          \/ UNCHANGED lapse
          \/ \E row \in LapseStates(h, sweep.now) : lapse' = [lapse EXCEPT ![h] = row]
    BY <1>4 DEF SweepAdopt
  <2>2. inserted' = inserted /\ paid' = paid /\ sweep.pc = "adopt"
    BY <1>4 DEF SweepAdopt
  <2>3. paid[h] <= sweep.now
    BY <1>t, <2>2 DEF Reaching, ListedReach, UnrecordedPast
  <2>4. ASSUME NEW row \in LapseStates(h, sweep.now) PROVE paid[h] <= row.at
    BY <1>t, <2>3, LapseStatesAre
  <2> QED BY <1>t, <1>f, <2>1, <2>2, <2>4
<1>5. CASE SweepRetire
  <2>1. PICK h \in sweep.holders :
          \/ UNCHANGED lapse
          \/ lapse' = [lapse EXCEPT ![h] = None]
          \/ \E row \in LapseStates(h, sweep.rows[h].at) : lapse' = [lapse EXCEPT ![h] = row]
    BY <1>5 DEF SweepRetire
  <2>2. inserted' = inserted /\ paid' = paid /\ sweep.pc = "retire"
    BY <1>5 DEF SweepRetire
  <2>3. paid[h] <= sweep.rows[h].at /\ sweep.rows[h].at \in Nat
    BY <1>t, <2>2 DEF Reaching, ListedReach, Carried, Typed, ListedOK, Sweeps, LapseRows
  <2>4. ASSUME NEW row \in LapseStates(h, sweep.rows[h].at) PROVE paid[h] <= row.at
    BY <1>t, <2>3, LapseStatesAre
  <2> QED BY <1>t, <1>f, <2>1, <2>2, <2>4
<1>6. CASE UNCHANGED <<lapse, inserted, paid>>
  BY <1>6 DEF Reaching, RowsReach
<1>7. CASE Crash
  BY <1>7 DEF Crash, Undisturbed, Reaching, RowsReach
<1>8. CASE Request
  BY <1>1, <1>6, <1>8 DEF Request, Preflight, Commit, GrantEnds, Erase
<1>9. CASE SweepStep
  <2>1. CASE SweepBegin \/ SweepLosing
    BY <1>6, <2>1 DEF SweepBegin, SweepLosing
  <2>3. CASE SweepDue
    BY <1>6, <2>3 DEF SweepDue
  <2>4. CASE SweepExpire
    BY <1>6, <2>4 DEF SweepExpire
  <2>2. CASE SweepDropRecords \/ SweepSuperseded \/ SweepUnrecorded \/ SweepLapsed \/ SweepDone
    BY <1>6, <2>2 DEF SweepDropRecords, SweepSuperseded, SweepUnrecorded, SweepLapsed, SweepDone
  <2> QED BY <1>3, <1>4, <1>5, <1>9, <2>1, <2>2, <2>3, <2>4 DEF SweepStep
<1> QED BY <1>2, <1>6, <1>7, <1>8, <1>9 DEF Next, InstallEpoch, Tick, vars

LEMMA ListedReachStep ==
  ASSUME UniqueIds, Undisturbed, Carried, Typed', Reaching, [Next]_vars
  PROVE  ListedReach'
<1>t. /\ TypeOK /\ sweep \in Sweeps /\ sweep.holders \subseteq Holders
  BY DEF Carried, Typed, TypeOK, Sweeps
\* A step that lists nobody and registers nothing.
<1>f. ASSUME paid' = paid, records' = records, sweep'.rows = sweep.rows,
             sweep'.pc \in {"adopt", "retire"} =>
               sweep'.pc = sweep.pc /\ sweep'.holders \subseteq sweep.holders
      PROVE  ListedReach'
  BY <1>f DEF Reaching, ListedReach, Records
<1>g. ASSUME sweep'.pc \notin {"adopt", "retire"} PROVE ListedReach'
  BY <1>g DEF ListedReach
<1>1. ASSUME NEW c \in Credentials, Register(c) PROVE ListedReach'
  <2>1. sweep' = sweep /\ (sweep.pc \in {"adopt", "retire"} => c.holder \notin sweep.holders)
    BY <1>1 DEF Register, Undisturbed, Listed
  <2>2. \A h \in Holders : c.holder # h => Records(h)' = Records(h) /\ paid'[h] = paid[h]
    BY <1>1, <1>t, RegisterReaches
  <2> QED BY <1>t, <2>1, <2>2 DEF Reaching, ListedReach
<1>2. ASSUME NEW k \in Keys, (\E t \in Terms : Preflight(k, t)) \/ Commit(k) \/ GrantEnds(k)
      PROVE  ListedReach'
  BY <1>2, <1>f DEF Preflight, Commit, GrantEnds
<1>3. ASSUME NEW h, NEW scope, Erase(h, scope) PROVE ListedReach'
  BY <1>3, <1>f DEF Erase
<1>4. ASSUME NEW ids, InstallEpoch(ids) PROVE ListedReach'
  BY <1>4, <1>f DEF InstallEpoch
<1>5. CASE RegisterForget \/ Tick
  BY <1>5, <1>f DEF RegisterForget, Tick
<1>16. CASE UNCHANGED vars
  BY <1>16, <1>f DEF vars
<1>6. CASE SweepDone \/ Crash \/ SweepBegin
  <2>1. sweep'.pc \in {"sleep", "due"}
    <3>1. CASE SweepBegin
      BY <3>1 DEF SweepBegin, IdleSweep
    <3> QED BY <1>6, <3>1 DEF SweepDone, Crash, IdleSweep
  <2> QED BY <2>1, <1>g
<1>7. CASE SweepLosing
  BY <1>7, <1>t, <1>g DEF SweepLosing, Sweeps
<1>8. CASE SweepDue
  BY <1>8, <1>t, <1>g DEF SweepDue, Sweeps
<1>9. CASE SweepExpire
  BY <1>9, <1>t, <1>g DEF SweepExpire, Sweeps
<1>10. CASE SweepDerive
  BY <1>10, <1>t, <1>g DEF SweepDerive, Sweeps
<1>11. CASE SweepDropRecords \/ SweepSuperseded
  BY <1>11, <1>t, <1>g DEF SweepDropRecords, SweepSuperseded, Sweeps
<1>12. CASE SweepUnrecorded
  <2>1. /\ sweep'.pc = "adopt" /\ records' = records
        /\ sweep'.holders = {h \in Holders : LiveOf(h) # {} /\ LifecycleHorizon(h) = None}
    BY <1>12, <1>t DEF SweepUnrecorded, Sweeps
  <2>2. \A h \in sweep'.holders : Records(h) = {}
    BY <1>t, <2>1, HorizonIs
  <2> QED BY <2>1, <2>2 DEF ListedReach, Records
<1>13. CASE SweepAdopt
  <2>1. /\ sweep'.pc = "adopt" /\ sweep'.holders \subseteq sweep.holders
        /\ sweep.pc = "adopt" /\ sweep'.rows = sweep.rows
    BY <1>13, <1>t DEF SweepAdopt, Sweeps
  <2> QED BY <1>13, <1>f, <2>1 DEF SweepAdopt
<1>14. CASE SweepLapsed
  <2>1. /\ sweep'.pc = "retire" /\ sweep'.rows = lapse /\ inserted = None /\ paid' = paid
        /\ sweep'.holders = {h \in Holders : lapse[h] # None}
    BY <1>14, <1>t DEF SweepLapsed, StoreFree, Sweeps
  <2> QED BY <2>1 DEF Reaching, RowsReach, ListedReach
<1>15. CASE SweepRetire
  <2>1. /\ sweep'.pc = "retire" /\ sweep'.holders \subseteq sweep.holders
        /\ sweep.pc = "retire" /\ sweep'.rows = sweep.rows
    BY <1>15, <1>t DEF SweepRetire, Sweeps
  <2> QED BY <1>15, <1>f, <2>1 DEF SweepRetire
<1> QED BY <1>1, <1>2, <1>3, <1>4, <1>5, <1>6, <1>7, <1>8, <1>9, <1>10, <1>11, <1>12, <1>13,
           <1>14, <1>15, <1>16 DEF Next, Request, SweepStep

\* What becomes of snapshots and grants: only a preflight of a holder who pays
\* grants anything, and only for what is not retained.
LEMMA SnapshotSteps ==
  ASSUME Typed, [Next]_vars
  PROVE  \/ UNCHANGED <<snapshots, grants>>
         \/ /\ UNCHANGED <<snapshots, sweep, records, paid, clock>>
            /\ \E k \in Keys : /\ ~Live(k) /\ Permits(k[1], "preflight")
                               /\ grants'[k].expires = clock + GrantLife
                               /\ \A l \in Keys : l # k => grants'[l] = grants[l]
         \/ /\ UNCHANGED <<snapshots, sweep, records, paid, clock>>
            /\ \A k \in Keys : grants'[k] \in {grants[k], None}
         \/ /\ UNCHANGED <<sweep, records, paid, clock>>
            /\ \E k \in Keys : /\ Granted(k) /\ Commit(k) /\ grants'[k] = None
                               /\ Live(k) => snapshots'[k] = snapshots[k]
                               /\ snapshots'[k] # "expired" \/ ~Live(k)
                               /\ \A l \in Keys : l # k => /\ grants'[l] = grants[l]
                                                           /\ snapshots'[l] = snapshots[l]
         \/ /\ UNCHANGED <<grants, sweep, records, paid, clock>>
            /\ \A k \in Keys : snapshots'[k] \in {snapshots[k], "absent"}
            /\ \E h \in Holders : \E scope \in Scopes(h) : Erase(h, scope)
         \/ SweepExpire
<1>t. snapshots \in [Keys -> Terms \cup NotLive] /\ grants \in [Keys -> Grants \cup {None}]
  BY DEF Typed, TypeOK
<1>1. ASSUME NEW c \in Credentials, Register(c) PROVE UNCHANGED <<snapshots, grants>>
  BY <1>1 DEF Register
<1>2. ASSUME NEW k \in Keys, NEW t \in Terms, Preflight(k, t)
      PROVE  /\ UNCHANGED <<snapshots, sweep, records, paid, clock>>
             /\ ~Live(k) /\ Permits(k[1], "preflight")
             /\ grants'[k].expires = clock + GrantLife
             /\ \A l \in Keys : l # k => grants'[l] = grants[l]
  BY <1>2, <1>t DEF Preflight
<1>3. ASSUME NEW k \in Keys, GrantEnds(k)
      PROVE  /\ UNCHANGED <<snapshots, sweep, records, paid, clock>>
             /\ \A l \in Keys : grants'[l] \in {grants[l], None}
  BY <1>3, <1>t DEF GrantEnds
<1>4. ASSUME NEW k \in Keys, Commit(k)
      PROVE  /\ UNCHANGED <<sweep, records, paid, clock>>
             /\ Granted(k) /\ Commit(k) /\ grants'[k] = None
             /\ Live(k) => snapshots'[k] = snapshots[k]
             /\ snapshots'[k] # "expired" \/ ~Live(k)
             /\ \A l \in Keys : l # k => /\ grants'[l] = grants[l]
                                         /\ snapshots'[l] = snapshots[l]
  <2>1. /\ snapshots' = [snapshots EXCEPT ![k] = IF Live(k) THEN @ ELSE grants[k].terms]
        /\ grants' = [grants EXCEPT ![k] = None]
        /\ UNCHANGED <<sweep, records, paid, clock>> /\ Granted(k)
    BY <1>4 DEF Commit
  <2>2. Live(k) => snapshots[k] # "expired"
    BY DistinctAssumption DEF Live, NotLive
  <2> QED BY <1>4, <1>t, <2>1, <2>2
<1>5. ASSUME NEW h \in Holders, NEW scope \in Scopes(h), Erase(h, scope)
      PROVE  /\ UNCHANGED <<grants, sweep, records, paid, clock>>
             /\ \A k \in Keys : snapshots'[k] \in {snapshots[k], "absent"}
  BY <1>5, <1>t DEF Erase
<1>6. CASE SweepBegin \/ SweepLosing \/ SweepUnrecorded \/ SweepLapsed
  BY <1>6 DEF SweepBegin, SweepLosing, SweepUnrecorded, SweepLapsed
<1>7. CASE SweepDue
  BY <1>7 DEF SweepDue
<1>8. CASE SweepDerive
  BY <1>8 DEF SweepDerive
<1>9. CASE SweepDropRecords \/ SweepSuperseded
  BY <1>9 DEF SweepDropRecords, SweepSuperseded
<1>10. CASE SweepAdopt
  BY <1>10 DEF SweepAdopt
<1>11. CASE SweepRetire
  BY <1>11 DEF SweepRetire
<1>12. CASE SweepDone \/ Crash \/ Tick \/ RegisterForget \/ UNCHANGED vars
  BY <1>12 DEF SweepDone, Crash, Tick, RegisterForget, vars
<1>13. ASSUME NEW ids, InstallEpoch(ids) PROVE UNCHANGED <<snapshots, grants>>
  BY <1>13 DEF InstallEpoch
<1> QED BY <1>1, <1>2, <1>3, <1>4, <1>5, <1>6, <1>7, <1>8, <1>9, <1>10, <1>11, <1>12, <1>13
        DEF Next, Request, SweepStep

LEMMA LiveUngrantedStep ==
  ASSUME Typed, Reaching, [Next]_vars
  PROVE  LiveUngranted'
<1>t. snapshots \in [Keys -> Terms \cup NotLive] /\ "absent" \notin Terms
      /\ "expired" \notin Terms
  BY DistinctAssumption DEF Typed, TypeOK, NotLive
<1>1. CASE SweepExpire
  <2>1. grants' = grants /\ \A k \in Keys : snapshots'[k] \in {snapshots[k], "expired"}
    BY <1>1, <1>t DEF SweepExpire
  <2> QED BY <1>t, <2>1 DEF Reaching, LiveUngranted, Live
<1>2. CASE ~SweepExpire
  BY <1>t, <1>2, SnapshotSteps DEF Reaching, LiveUngranted, Live
<1> QED BY <1>1, <1>2

\* Nobody whose every record ran out is entitled.
LEMMA NotEntitled ==
  ASSUME TypeOK, NEW h \in Holders, \A c \in Records(h) : c.expires <= clock
  PROVE  ~Permits(h, "preflight")
<1>1. \A c \in Records(h) : c.expires \in Nat
  BY CredentialsAssumption, BoundsAssumption DEF TypeOK, Records
<1>2. clock \in Nat
  BY BoundsAssumption DEF TypeOK
<1>3. ~Entitled(h)
  BY <1>1, <1>2 DEF Entitled
<1> QED BY <1>3 DEF Permits, AlwaysAvailable, RefusedHolderWide

LEMMA DueReachStep ==
  ASSUME UniqueIds, Undisturbed, Carried, Typed', Reaching, [Next]_vars
  PROVE  DueReach'
<1>t. /\ TypeOK /\ clock \in Nat /\ sweep.now \in Nat /\ sweep.now <= clock
      /\ sweep \in Sweeps /\ sweep.holders \subseteq Holders /\ sweep.keys \subseteq Keys
      /\ snapshots \in [Keys -> Terms \cup NotLive] /\ grants \in [Keys -> Grants \cup {None}]
      /\ paid \in [Holders -> Nat]
      /\ \A c \in records : c.expires \in Nat
      /\ \A k \in Keys : k[1] \in Holders /\ (Live(k) => Window[snapshots[k]] \in Nat)
  BY CredentialsAssumption, BoundsAssumption, TermsAssumption
  DEF Carried, Typed, TypeOK, Sweeps, PastOK, Keys, Live
\* A step after which less is listed, and that neither registers nor grants.
<1>f. ASSUME sweep'.keys \subseteq sweep.keys, records' \subseteq records, paid' = paid,
             clock' \in {clock, clock + 1},
             \A k \in sweep.keys : /\ grants'[k] \in {grants[k], None}
                                   /\ snapshots'[k] = snapshots[k] \/ snapshots'[k] \notin Terms
      PROVE  DueReach'
  <2> SUFFICES ASSUME NEW k \in sweep'.keys
               PROVE  /\ grants'[k] = None
                      /\ \A c \in Records(k[1])' : c.expires <= clock'
                      /\ Live(k)' => Over(k)'
    BY DEF DueReach
  <2>1. /\ k \in sweep.keys /\ k \in Keys /\ grants[k] = None
        /\ \A c \in Records(k[1]) : c.expires <= clock
        /\ Live(k) => Over(k)
    BY <1>t, <1>f DEF Reaching, DueReach
  <2>2. grants'[k] = None
    BY <1>f, <2>1
  <2>3. \A c \in Records(k[1])' : c \in Records(k[1]) /\ c.expires \in Nat
    BY <1>t, <1>f DEF Records
  <2>4. \A c \in Records(k[1])' : c.expires <= clock'
    BY <1>t, <1>f, <2>1, <2>3
  <2>5. ASSUME Live(k)' PROVE Over(k)'
    <3>1. snapshots'[k] = snapshots[k] /\ Live(k)
      BY <1>f, <2>1, <2>5 DEF Live
    <3> QED BY <1>t, <1>f, <2>1, <3>1 DEF Over
  <2> QED BY <2>2, <2>4, <2>5
<1>g. ASSUME sweep'.keys = {} PROVE DueReach'
  BY <1>g DEF DueReach
<1>1. ASSUME NEW c \in Credentials, Register(c) PROVE DueReach'
  <2>1. /\ UNCHANGED <<sweep, clock, snapshots, grants>>
        /\ \A k \in sweep.keys : c.holder # k[1]
    BY <1>1 DEF Register, Undisturbed, Listed
  <2>2. \A k \in sweep.keys : Records(k[1])' = Records(k[1]) /\ paid'[k[1]] = paid[k[1]]
    BY <1>1, <1>t, <2>1, RegisterReaches
  <2> QED BY <2>1, <2>2 DEF Reaching, DueReach, Live, Over
<1>2. ASSUME UNCHANGED <<snapshots, sweep, records, paid, clock>>,
             NEW k \in Keys, Permits(k[1], "preflight"),
             \A l \in Keys : l # k => grants'[l] = grants[l]
      PROVE  DueReach'
  <2>1. k \notin sweep.keys
    BY <1>2, <1>t, NotEntitled DEF Reaching, DueReach
  <2> QED BY <1>f, <1>t, <1>2, <2>1
<1>3. ASSUME UNCHANGED <<sweep, records, paid, clock>>, NEW k \in Keys, Granted(k),
             \A l \in Keys : l # k => grants'[l] = grants[l] /\ snapshots'[l] = snapshots[l]
      PROVE  DueReach'
  <2>1. k \notin sweep.keys
    BY <1>3 DEF Reaching, DueReach, Granted
  <2> QED BY <1>f, <1>t, <1>3, <2>1
<1>4. ASSUME UNCHANGED <<grants, sweep, records, paid, clock>>,
             \A k \in Keys : snapshots'[k] \in {snapshots[k], "absent"}
      PROVE  DueReach'
  <2>1. "absent" \notin Terms
    BY DistinctAssumption DEF NotLive
  <2> QED BY <1>f, <1>t, <1>4, <2>1
<1>5. CASE SweepExpire
  <2>1. /\ sweep'.keys \subseteq sweep.keys
        /\ UNCHANGED <<clock, records, grants, paid>>
        /\ \A k \in Keys : snapshots'[k] \in {snapshots[k], "expired"}
    BY <1>5, <1>t DEF SweepExpire, Sweeps
  <2>2. "expired" \notin Terms
    BY DistinctAssumption DEF NotLive
  <2> QED BY <1>f, <1>t, <2>1, <2>2
<1>6. CASE SweepDue
  <2>1. PICK h \in sweep.holders :
          sweep'.keys = {k \in Due(h, sweep.now) : AfterGrace[snapshots[k]] = "erase"}
    BY <1>6, <1>t DEF SweepDue, Sweeps
  <2>2. UNCHANGED <<clock, records, snapshots, grants, paid>> /\ inserted = None
    BY <1>6 DEF SweepDue, StoreFree
  <2> SUFFICES ASSUME NEW k \in Due(h, sweep.now), AfterGrace[snapshots[k]] = "erase"
               PROVE  /\ grants[k] = None
                      /\ \A c \in Records(k[1]) : c.expires <= clock
                      /\ Live(k) => Over(k)
    BY <2>1, <2>2 DEF DueReach, Live, Records, Over
  <2> DEFINE at == LifecycleHorizon(h)
  <2>3. /\ k \in Keys /\ Live(k) /\ k[1] = h /\ h \in Holders /\ at # None
        /\ sweep.now >= at /\ sweep.now >= at + Window[snapshots[k]]
    BY <1>t DEF Due, LiveOf, WindowEnd
  <2>4. at \in Nat /\ paid[h] <= at /\ \A c \in Records(h) : c.expires <= at
    BY <1>t, <2>2, <2>3, HorizonReaches DEF Carried
  <2>5. grants[k] = None
    BY <2>3 DEF Reaching, LiveUngranted
  <2>6. \A c \in Records(h) : c.expires \in Nat
    BY <1>t DEF Records
  <2> HIDE DEF at
  <2> QED BY <1>t, <2>3, <2>4, <2>5, <2>6 DEF Over
<1>7. ASSUME UNCHANGED <<snapshots, grants>>, sweep'.keys \subseteq sweep.keys,
             ~\E c \in Credentials : Register(c)
      PROVE  DueReach'
  <2>1. records' \subseteq records
    BY <1>7, OnlyRegistering DEF SweepDropRecords, SweepSuperseded, Carried
  <2> QED BY <1>f, <1>7, <2>1, OnlyRegistering DEF Carried
<1>8. sweep'.keys \subseteq sweep.keys \/ SweepDue
  <2>1. CASE SweepBegin
    BY <2>1 DEF SweepBegin, IdleSweep
  <2>8. CASE SweepDone \/ Crash
    BY <2>8 DEF SweepDone, Crash, IdleSweep
  <2>9. CASE SweepExpire
    BY <1>t, <2>9 DEF SweepExpire, Sweeps
  <2>2. CASE SweepLosing \/ SweepDropRecords \/ SweepSuperseded
    BY <1>t, <2>2 DEF SweepLosing, SweepDropRecords, SweepSuperseded, Sweeps
  <2>3. CASE SweepDerive
    BY <1>t, <2>3 DEF SweepDerive, Sweeps
  <2>4. CASE SweepUnrecorded \/ SweepLapsed
    BY <1>t, <2>4 DEF SweepUnrecorded, SweepLapsed, Sweeps
  <2>5. CASE SweepAdopt
    BY <1>t, <2>5 DEF SweepAdopt, Sweeps
  <2>6. CASE SweepRetire
    BY <1>t, <2>6 DEF SweepRetire, Sweeps
  <2>7. CASE sweep' = sweep
    BY <2>7
  <2> QED BY <2>1, <2>2, <2>3, <2>4, <2>5, <2>6, <2>7, <2>8, <2>9
          DEF Next, Request, Register, RegisterForget, Preflight, Commit, GrantEnds, Erase,
              InstallEpoch, Tick, SweepStep, vars
<1>9. CASE UNCHANGED <<snapshots, grants>>
  BY <1>1, <1>6, <1>7, <1>8, <1>9
<1>10. CASE /\ UNCHANGED <<snapshots, sweep, records, paid, clock>>
            /\ \A k \in Keys : grants'[k] \in {grants[k], None}
  BY <1>f, <1>t, <1>10
<1> QED
  <2>1. CASE /\ UNCHANGED <<snapshots, sweep, records, paid, clock>>
             /\ \E k \in Keys : /\ ~Live(k) /\ Permits(k[1], "preflight")
                                /\ \A l \in Keys : l # k => grants'[l] = grants[l]
    BY <1>2, <2>1
  <2>2. CASE /\ UNCHANGED <<sweep, records, paid, clock>>
             /\ \E k \in Keys : /\ Granted(k)
                                /\ \A l \in Keys : l # k => /\ grants'[l] = grants[l]
                                                            /\ snapshots'[l] = snapshots[l]
    BY <1>3, <2>2
  <2>3. CASE /\ UNCHANGED <<grants, sweep, records, paid, clock>>
             /\ \A k \in Keys : snapshots'[k] \in {snapshots[k], "absent"}
    BY <1>4, <2>3
  <2> QED BY <1>5, <1>9, <1>10, <2>1, <2>2, <2>3, SnapshotSteps DEF Carried

LEMMA ReachingInit == Init => Reaching
<1> SUFFICES ASSUME Init PROVE Reaching
  OBVIOUS
<1>1. /\ \A h \in Holders : Records(h) = {} /\ lapse[h] = None /\ paid[h] = 0
      /\ sweep.pc = "sleep" /\ sweep.keys = {} /\ clock = 0
      /\ \A k \in Keys : grants[k] = None
  BY DEF Init, IdleSweep, Records
<1> QED BY <1>1 DEF Reaching, RecordsReach, UnrecordedPast, RowsReach, ListedReach,
                    LiveUngranted, DueReach

LEMMA ReachingStep ==
  ASSUME UniqueIds, Undisturbed, Carried, Reaching, [Next]_vars
  PROVE  Reaching'
<1>1. Typed'
  BY TypeStep DEF Carried
<1>2. RecordsReach' /\ UnrecordedPast' /\ RowsReach'
  BY <1>1, RecordsReachStep, UnrecordedPastStep, RowsReachStep
<1>3. ListedReach' /\ LiveUngranted' /\ DueReach'
  BY <1>1, ListedReachStep, LiveUngrantedStep, DueReachStep DEF Carried
<1> QED BY <1>2, <1>3 DEF Reaching

\* Only the sweep expires anything, and what it has found due.
LEMMA ExpiresOnTime ==
  ASSUME Carried, Reaching, [Next]_vars, NEW k \in Keys, Live(k), snapshots'[k] = "expired"
  PROVE  clock >= paid[k[1]] + Window[snapshots[k]]
<1>t. /\ snapshots \in [Keys -> Terms \cup NotLive] /\ snapshots[k] # "expired"
      /\ clock \in Nat /\ paid[k[1]] \in Nat /\ Window[snapshots[k]] \in Nat
  BY DistinctAssumption, BoundsAssumption, TermsAssumption
  DEF Carried, Typed, TypeOK, Live, NotLive, Keys
<1>1. SweepExpire
  BY <1>t, SnapshotSteps DEF Carried
<1>2. k \in sweep.keys
  BY <1>1, <1>t DEF SweepExpire
<1> QED BY <1>2, <1>t DEF Reaching, DueReach, Over

\* A snapshot is given up only after the notice and grace of its own terms,
\* counted from the latest expiry its holder ever showed, if registrations keep
\* away from what the sweep has listed and none is torn.
THEOREM WindowIsHonoured ==
  ASSUME UniqueIds
  PROVE  Undisturbed => (Spec => WindowHonoured)
<1> SUFFICES ASSUME Undisturbed PROVE Spec => WindowHonoured
  OBVIOUS
<1>1. Init => Reaching
  BY ReachingInit
<1>2. Carried /\ [Next]_vars => Carried'
  BY CarriedStep
<1>3. Carried /\ Reaching /\ [Next]_vars => Reaching'
  BY ReachingStep
<1>4. Carried /\ Reaching /\ [Next]_vars =>
        [\A k \in Keys : Live(k) /\ snapshots[k]' = "expired" =>
           clock >= paid[k[1]] + Window[snapshots[k]]]_vars
  BY ExpiresOnTime
<1> QED BY <1>1, <1>2, <1>3, <1>4, CarriedInit, PTL DEF Spec, WindowHonoured

-----------------------------------------------------------------------------
(* Grace *)

\* A snapshot whose own window still runs is in grace whatever else there is.
LEMMA StillInGrace ==
  ASSUME Carried, Reaching, NEW k \in Keys, Live(k), LifecycleHorizon(k[1]) # None,
         clock < paid[k[1]] + Window[snapshots[k]]
  PROVE  k \in InGrace(k[1])
<1> DEFINE h == k[1]
           at == LifecycleHorizon(h)
<1>1. h \in Holders /\ k \in LiveOf(h) /\ TypeOK
  BY DEF Keys, LiveOf, Carried, Typed
<1>2. clock \in Nat /\ paid[h] \in Nat
  BY <1>1, BoundsAssumption DEF TypeOK
<1>3. at \in Nat /\ paid[h] <= at
  BY <1>1, HorizonReaches DEF Carried
<1> HIDE DEF at
<1>4. /\ WindowEnd(k, at) = at + Window[snapshots[k]]
      /\ Window[snapshots[k]] \in Nat
  BY <1>1, <1>3, WindowEndIs, BoundsAssumption DEF WindowEnd
<1>5. clock < WindowEnd(k, at)
  BY <1>2, <1>3, <1>4
<1> QED BY <1>1, <1>5 DEF InGrace, at

\* What a snapshot's terms keep open in grace stays open until its own window,
\* counted from the latest expiry its holder ever showed, is over.
THEOREM GraceIsHonoured ==
  ASSUME UniqueIds
  PROVE  Undisturbed => (Spec => []GraceHonoured)
<1> SUFFICES ASSUME Undisturbed PROVE Spec => []GraceHonoured
  OBVIOUS
<1>1. Carried /\ Reaching => GraceHonoured
  <2> SUFFICES ASSUME Carried, Reaching, NEW k \in Keys,
                      Live(k), LifecycleHorizon(k[1]) # None,
                      clock < paid[k[1]] + Window[snapshots[k]],
                      NEW op \in DuringGrace[snapshots[k]]
               PROVE  Permits(k[1], op)
    BY DEF GraceHonoured
  <2>1. op \in Allowed(k[1])
    BY StillInGrace DEF Allowed
  <2>2. op \in GraceTerms
    BY TermsAssumption DEF Live
  <2> QED BY <2>1, <2>2 DEF Permits, GraceTerms, RefusedHolderWide
<1>2. Carried /\ [Next]_vars => Carried'
  BY CarriedStep
<1>3. Carried /\ Reaching /\ [Next]_vars => Reaching'
  BY ReachingStep
<1> QED BY <1>1, <1>2, <1>3, CarriedInit, ReachingInit, PTL DEF Spec

-----------------------------------------------------------------------------
(* Lapse implements Tenancy *)

\* Nothing that lets a holder in outlasts what they paid for: a record was
\* shown when it was registered, a grant was drawn while one was good.
Paying ==
  /\ \A c \in records : c.expires <= paid[c.holder]
  /\ \A k \in Keys : grants[k] # None => grants[k].expires < paid[k[1]] + GrantLife

LEMMA PayingStep ==
  ASSUME Typed, Paying, [Next]_vars
  PROVE  Paying'
<1>t. /\ paid \in [Holders -> Nat] /\ clock \in Nat /\ GrantLife \in Nat
      /\ records \subseteq Credentials
      /\ \A c \in Credentials : c.expires \in Nat /\ c.holder \in Holders
      /\ \A k \in Keys : k[1] \in Holders
      /\ \A k \in Keys : grants[k] # None => grants[k].expires \in Nat
      /\ TypeOK
  BY CredentialsAssumption, BoundsAssumption DEF Typed, TypeOK, Keys, Grants
<1>1. ASSUME NEW c \in Credentials, Register(c) PROVE Paying'
  <2>1. /\ records' \subseteq records \cup {c} /\ grants' = grants
        /\ paid' = [paid EXCEPT ![c.holder] = IF c.expires > @ THEN c.expires ELSE @]
    BY <1>1 DEF Register
  <2>2. /\ \A h \in Holders : paid'[h] \in Nat /\ paid[h] <= paid'[h]
        /\ c.expires <= paid'[c.holder]
    BY <1>t, <2>1
  <2>3. ASSUME NEW d \in records' PROVE d.expires <= paid'[d.holder]
    BY <1>t, <2>1, <2>2 DEF Paying
  <2>4. ASSUME NEW k \in Keys, grants'[k] # None
        PROVE  grants'[k].expires < paid'[k[1]] + GrantLife
    <3>1. grants[k].expires < paid[k[1]] + GrantLife
      BY <2>1, <2>4 DEF Paying
    <3> QED BY <1>t, <2>1, <2>2, <2>4, <3>1
  <2> QED BY <2>3, <2>4 DEF Paying
<1>2. CASE paid' = paid /\ records' \subseteq records
  <2> SUFFICES ASSUME NEW k \in Keys, grants'[k] # None
               PROVE  grants'[k].expires < paid[k[1]] + GrantLife
    BY <1>2 DEF Paying
  <2>1. CASE grants'[k] = grants[k]
    BY <2>1 DEF Paying
  <2>2. CASE Permits(k[1], "preflight") /\ grants'[k].expires = clock + GrantLife
    <3>1. Entitled(k[1])
      BY <2>2 DEF Permits, AlwaysAvailable, RefusedHolderWide
    <3>2. PICK c \in Records(k[1]) : clock < c.expires
      BY <3>1 DEF Entitled
    <3>3. c.expires <= paid[k[1]] /\ c.expires \in Nat
      BY <1>t, <3>2 DEF Paying, Records
    <3>4. paid[k[1]] \in Nat
      BY <1>t
    <3> QED BY <1>t, <2>2, <3>2, <3>3, <3>4
  <2>3. ASSUME SweepExpire PROVE grants' = grants
    BY <2>3 DEF SweepExpire
  <2> QED BY <2>1, <2>2, <2>3, SnapshotSteps
<1>3. SweepDropRecords \/ SweepSuperseded => records' \subseteq records
  BY DEF SweepDropRecords, SweepSuperseded
<1> QED BY <1>1, <1>2, <1>3, OnlyRegistering

\* A commit that retains anything is in time.
LEMMA CommitSeen ==
  ASSUME Typed, Paying, NEW k \in Keys, Commit(k), UNCHANGED <<paid, clock>>
  PROVE  UNCHANGED snapshots \/ \E t \in Terms : Promised!Retain(k, t)
<1>1. /\ snapshots' = [snapshots EXCEPT ![k] = IF Live(k) THEN @ ELSE grants[k].terms]
      /\ Granted(k) /\ snapshots \in [Keys -> Terms \cup NotLive]
      /\ grants[k] \in Grants
  BY DEF Commit, Granted, Typed, TypeOK
<1>2. CASE Live(k)
  BY <1>1, <1>2
<1>3. CASE ~Live(k)
  <2>1. grants[k].terms \in Terms /\ grants[k].expires \in Nat
    BY <1>1 DEF Grants
  <2>2. clock < grants[k].expires /\ grants[k].expires < paid[k[1]] + GrantLife
    BY <1>1 DEF Granted, Paying
  <2>3. clock \in Nat /\ paid[k[1]] + GrantLife \in Nat
    BY BoundsAssumption DEF Typed, TypeOK, Keys
  <2>4. Promised!Retain(k, grants[k].terms)
    BY <1>1, <1>3, <2>1, <2>2, <2>3 DEF Promised!Retain, Live
  <2> QED BY <2>1, <2>4
<1> QED BY <1>2, <1>3

\* An erasure takes back one snapshot or everything.
LEMMA EraseSeen ==
  ASSUME Typed, NEW h \in Holders, NEW scope \in Scopes(h), Erase(h, scope),
         UNCHANGED <<paid, clock>>
  PROVE  \E back \in {Promised!KeptOf(h)} \cup {{k} : k \in Promised!KeptOf(h)} :
           Promised!TakeBack(back)
<1>1. Promised!KeptOf(h) = LiveOf(h) /\ Promised!References = Keys
  BY DEF Promised!KeptOf, Promised!References, LiveOf, Live, Keys
<1>2. scope \in {LiveOf(h)} \cup {{k} : k \in LiveOf(h)} /\ scope \cap LiveOf(h) = scope
  BY DEF Scopes
<1>3. snapshots' = [k \in Keys |-> IF k \in scope THEN "absent" ELSE snapshots[k]]
  BY <1>2 DEF Erase
<1> QED BY <1>1, <1>2, <1>3 DEF Promised!TakeBack

\* The sweep gives up what is over by its own terms.
LEMMA ExpireSeen ==
  ASSUME Carried, Reaching, SweepExpire
  PROVE  UNCHANGED <<clock, paid, snapshots>> \/ \E k \in Keys : Promised!GiveUp(k)
<1>t. /\ sweep.keys \subseteq Keys /\ snapshots \in [Keys -> Terms \cup NotLive]
      /\ clock \in Nat /\ paid \in [Holders -> Nat]
      /\ \A k \in Keys : k[1] \in Holders
  BY BoundsAssumption DEF Carried, Typed, TypeOK, Sweeps, Keys
<1>1. UNCHANGED <<clock, paid>>
  BY DEF SweepExpire
<1>2. PICK k \in sweep.keys :
        \/ UNCHANGED snapshots
        \/ snapshots' = [snapshots EXCEPT ![k] = IF Live(k) THEN "expired" ELSE @]
  BY DEF SweepExpire
<1>3. CASE UNCHANGED snapshots \/ ~Live(k)
  BY <1>t, <1>1, <1>2, <1>3
<1>4. CASE Live(k) /\ snapshots' = [snapshots EXCEPT ![k] = "expired"]
  <2>1. Over(k) /\ k \in Keys /\ Window[snapshots[k]] \in Nat
    BY <1>t, <1>4, TermsAssumption, BoundsAssumption DEF Reaching, DueReach, Live
  <2>2. Promised!GiveUp(k)
    BY <1>t, <1>1, <1>4, <2>1 DEF Promised!GiveUp, Over, Live
  <2> QED BY <2>1, <2>2
<1> QED BY <1>2, <1>3, <1>4

LEMMA StepIsSeen ==
  ASSUME Carried, Reaching, Paying, [Next]_vars
  PROVE  [Promised!Next]_<<clock, paid, snapshots>>
<1>t. Typed /\ Promised!References = Keys /\ paid \in [Holders -> Nat] /\ clock \in Nat
  BY OnlyRegistering DEF Carried, Typed, TypeOK, Promised!References, Keys
<1> DEFINE Seen == [Promised!Next]_<<clock, paid, snapshots>>
<1>1. ASSUME NEW c \in Credentials, Register(c) PROVE Seen
  <2>1. /\ UNCHANGED <<clock, snapshots>> /\ clock <= c.expires
        /\ paid' = [paid EXCEPT ![c.holder] = IF c.expires > @ THEN c.expires ELSE @]
    BY <1>1 DEF Register, Valid
  <2>2. c.holder \in Holders /\ c.expires \in 0 .. MaxExpiry
    BY CredentialsAssumption
  <2>3. c.expires \in Nat
    BY <2>2, BoundsAssumption
  <2>4. CASE c.expires > paid[c.holder]
    <3>1. Promised!Pay(c.holder, c.expires)
      BY <1>t, <2>1, <2>2, <2>3, <2>4 DEF Promised!Pay
    <3> QED BY <2>2, <3>1 DEF Promised!Next
  <2>5. CASE ~(c.expires > paid[c.holder])
    BY <1>t, <2>1, <2>2, <2>5
  <2> QED BY <2>4, <2>5
<1>2. ASSUME paid' = paid, snapshots' = snapshots PROVE Seen
  BY <1>t, <1>2, OnlyRegistering DEF Promised!Next, Promised!Tick
<1>3. ASSUME NEW k \in Keys, Commit(k), UNCHANGED <<paid, clock>> PROVE Seen
  BY <1>t, <1>3, CommitSeen DEF Promised!Next
<1>4. ASSUME NEW h \in Holders, NEW scope \in Scopes(h), Erase(h, scope),
             UNCHANGED <<paid, clock>>
      PROVE  Seen
  BY <1>t, <1>4, EraseSeen DEF Promised!Next
<1>5. CASE SweepExpire
  BY <1>t, <1>5, ExpireSeen DEF Promised!Next
<1>6. CASE UNCHANGED snapshots
  BY <1>1, <1>2, <1>6, <1>t, OnlyRegistering
<1>7. \/ UNCHANGED snapshots \/ SweepExpire
      \/ (\E k \in Keys : Commit(k)) /\ UNCHANGED <<paid, clock>>
      \/ /\ \E h \in Holders : \E scope \in Scopes(h) : Erase(h, scope)
         /\ UNCHANGED <<paid, clock>>
  BY <1>t, SnapshotSteps
<1> QED BY <1>3, <1>4, <1>5, <1>6, <1>7

\* Lapse implements Tenancy: whatever is registered, renewed, revoked, aged
\* out, carried over or adopted, a snapshot is retained only on what was paid
\* for, under terms that never change, and given up only by those terms or by
\* its holder. For any constants, if registrations keep away from what the
\* sweep has listed and none is torn.
THEOREM LapseKeepsTenancy ==
  ASSUME UniqueIds
  PROVE  Undisturbed => (Spec => TenancyKept)
<1> SUFFICES ASSUME Undisturbed PROVE Spec => TenancyKept
  OBVIOUS
<1>1. Init => Promised!Init
  BY DEF Init, Promised!Init, Promised!References, Keys
<1>2. Init => Paying
  BY DEF Init, Paying
<1>3. Carried /\ [Next]_vars => Carried'
  BY CarriedStep
<1>4. Carried /\ Reaching /\ [Next]_vars => Reaching'
  BY ReachingStep
<1>5. Carried /\ Paying /\ [Next]_vars => Paying'
  BY PayingStep DEF Carried
<1>6. Carried /\ Reaching /\ Paying /\ [Next]_vars
        => [Promised!Next]_<<clock, paid, snapshots>>
  BY StepIsSeen
<1> QED BY <1>1, <1>2, <1>3, <1>4, <1>5, <1>6, CarriedInit, ReachingInit, PTL
        DEF Spec, TenancyKept, Promised!Spec

-----------------------------------------------------------------------------
(* What Tenancy is worth *)

\* Tenancy alone, and so every operator that keeps it, promises the window: the
\* sweep's list, the horizons and the lapse rows are not needed to say so.
THEOREM TenancySuffices == TenancyKept => WindowHonoured
<1> DEFINE A == \A k \in Keys : Live(k) /\ snapshots[k]' = "expired" =>
                  clock >= paid[k[1]] + Window[snapshots[k]]
           Whole == DOMAIN snapshots = Keys
<1>0. Promised!References = Keys
  BY DEF Promised!References, Keys
<1>1. Promised!Init => Whole
  BY <1>0 DEF Promised!Init
<1>2. Whole /\ [Promised!Next]_<<clock, paid, snapshots>> => Whole' /\ [A]_vars
  <2> SUFFICES ASSUME Whole, [Promised!Next]_<<clock, paid, snapshots>>
               PROVE  Whole' /\ A
    OBVIOUS
  <2>n. "expired" \notin Terms
    BY DistinctAssumption DEF NotLive
  <2>1. ASSUME snapshots' = snapshots PROVE Whole' /\ A
    BY <2>n, <2>1 DEF Live
  <2>2. ASSUME NEW k \in Keys, NEW t \in Terms, Promised!Retain(k, t) PROVE Whole' /\ A
    BY <2>n, <2>2 DEF Promised!Retain, Live
  <2>3. ASSUME NEW back, Promised!TakeBack(back) PROVE Whole' /\ A
    <3>1. snapshots' = [k \in Keys |-> IF k \in back THEN "absent" ELSE snapshots[k]]
      BY <1>0, <2>3 DEF Promised!TakeBack
    <3> QED BY <2>n, <3>1 DEF Live
  <2>4. ASSUME NEW k \in Keys, Promised!GiveUp(k) PROVE Whole' /\ A
    BY <2>n, <2>4 DEF Promised!GiveUp, Live
  <2> QED BY <1>0, <2>1, <2>2, <2>3, <2>4 DEF Promised!Next, Promised!Pay, Promised!Tick
<1> QED BY <1>1, <1>2, PTL DEF TenancyKept, Promised!Spec, WindowHonoured

=============================================================================
