------------------------------ MODULE ReplayProofs ------------------------------
(***************************************************************************)
(* Proofs about Replay, for any windows, holders, numbers of copies and    *)
(* restarts. Whatever a deployment does: types, that a refusal as a repeat *)
(* has its own cause, that the windows a boot accepts never stop the       *)
(* sweep, and that they are read back from the terms as they are enforced. *)
(* When readings of the clock are whole seconds, requests are decided      *)
(* before a later sweep deletes nonces, and the configuration stays: no    *)
(* request is honoured twice. A request that was honoured has its row, or  *)
(* is past: no copy of it can still be fresh.                              *)
(***************************************************************************)
EXTENDS Replay, FiniteSetsExt, Folds, TLAPS

\* The request's window is over for every copy that arrived or will arrive.
Past(r) ==
  /\ signed[r] + config.skew < clock
  /\ \A h \in Handlers : handlers[h].request = r => signed[r] + config.skew < handlers[h].now

\* The row of a request was written within its window.
InWindow(r) ==
  /\ seen[r] # None
  /\ signed[r] <= seen[r] + config.skew
  /\ seen[r] <= clock

Honoured(r) == honoured[r] = 1 /\ signed[r] # None /\ (InWindow(r) \/ Past(r))

Untouched(r) == honoured[r] = 0 /\ seen[r] = None

\* A handler has a request that was signed, and read the clock before now.
Arrived(h) ==
  handlers[h] # Free => /\ handlers[h].request \in Requests
                        /\ signed[handlers[h].request] # None
                        /\ Start <= handlers[h].now
                        /\ handlers[h].now <= clock

SweepStarted ==
  sweep.pc = "nonces" => /\ sweep.now <= clock
                         /\ sweep.floor + 2 * config.skew = sweep.now

\* What holds in every deployment.
Typed == TypeOK /\ \A h \in Handlers : Arrived(h)

IInv == /\ Typed
        /\ \A r \in Requests : Untouched(r) \/ Honoured(r)
        /\ SweepStarted

\* What the proofs assume of the deployment.
WholeSeconds == Second = 1
Steady == WholeSeconds /\ Prompt /\ ~MayReconfigure

\* No boot is given a poll interval that reaches back before the first
\* timestamp: nothing in the code checks it (README, section 6).
PollsFit == \A p \in Polls : p <= MaxInt /\ p * Second <= Start

-----------------------------------------------------------------------------
(* Figures *)

LEMMA FreshIsNear ==
  ASSUME WholeSeconds, NEW at \in Nat, NEW now \in Nat, config \in Configs
  PROVE  Fresh(at, now) => now <= at + config.skew /\ at <= now + config.skew
<1>1. Distance(now, at) \in Nat
  BY DEF Distance
<1>2. Distance(now, at) \div Second = Distance(now, at)
  BY <1>1 DEF WholeSeconds
<1>3. config.skew \in Nat
  BY ConfigurationAssumption DEF Configs
<1> QED BY <1>2, <1>3 DEF Fresh, Distance

\* Whatever floor there is, a timestamp can name it.
LEMMA FloorIsStamp ==
  ASSUME NEW at, NonceFloor(at) # None
  PROVE  NonceFloor(at) \in 0 .. LastStamp
BY DEF NonceFloor, CheckedSub

LEMMA FloorIsTwoWindows ==
  ASSUME WholeSeconds, NEW at \in Nat, config \in Configs, NonceFloor(at) # None
  PROVE  NonceFloor(at) \in 0 .. LastStamp /\ NonceFloor(at) + 2 * config.skew = at
<1>1. config.skew \in Nat
  BY ConfigurationAssumption DEF Configs
<1> DEFINE double == CheckedMul(config.skew, 2)
<1>2. double # None
  BY DEF NonceFloor, CheckedSub
<1>3. double = config.skew * 2
  BY <1>2 DEF CheckedMul, Checked
<1>4. NonceFloor(at) = at - double * Second /\ at - double * Second \in 0 .. LastStamp
  BY DEF NonceFloor, CheckedSub
<1> QED BY <1>1, <1>3, <1>4 DEF WholeSeconds

-----------------------------------------------------------------------------
(* Durations *)

\* A unit that leaves nothing over is multiplied back to what it was.
LEMMA DivExact ==
  ASSUME NEW s \in Nat, NEW d \in Nat \ {0}, s % d = 0
  PROVE  (s \div d) * d = s /\ s \div d \in Nat
OBVIOUS

\* Folding over one item is one step of the fold. The library folds with a
\* function over the subsets of the domain, here of {1}.
LEMMA FoldOne ==
  ASSUME NEW item
  PROVE  DurationSeconds(<<item>>) = CheckedAdd(0, CheckedMul(item.magnitude, UnitSeconds(item)))
<1> DEFINE Add(total, i) == CheckedAdd(total, CheckedMul(i.magnitude, UnitSeconds(i)))
           Step(iter) == [s \in SUBSET {1} |->
                            IF s = {} THEN 0 ELSE Add(iter[s \ {Max(s)}], <<item>>[Max(s)])]
           good == [s \in SUBSET {1} |-> IF s = {} THEN 0 ELSE Add(0, item)]
<1>1. DOMAIN <<item>> = {1} /\ <<item>>[1] = item /\ <<item>> # <<>>
  OBVIOUS
<1>2. Max({1}) = 1
  BY DEF Max
<1>3. FoldLeft(Add, 0, <<item>>) = (CHOOSE iter : iter = Step(iter))[{1}]
  BY <1>1, Zenon DEF FoldLeft, MapThenFoldSet
<1>4. DurationSeconds(<<item>>) = FoldLeft(Add, 0, <<item>>)
  BY <1>1, Zenon DEF DurationSeconds
<1>5. good = Step(good)
  <2>1. \A s \in SUBSET {1} : s = {} \/ s = {1}
    OBVIOUS
  <2>2. {1} \ {1} = {} /\ {} \in SUBSET {1}
    OBVIOUS
  <2> HIDE DEF Add
  <2> QED BY <2>1, <2>2, <1>1, <1>2
<1>6. \A iter : iter = Step(iter) => iter[{1}] = Add(0, item)
  <2> SUFFICES ASSUME NEW iter, iter = Step(iter) PROVE iter[{1}] = Add(0, item)
    OBVIOUS
  <2>1. iter[{}] = 0
    OBVIOUS
  <2>2. iter[{1}] = Add(iter[{1} \ {Max({1})}], <<item>>[Max({1})])
    <3> HIDE DEF Add
    <3> QED OBVIOUS
  <2> QED BY <2>1, <2>2, <1>1, <1>2
<1> HIDE DEF good
<1>7. (CHOOSE iter : iter = Step(iter)) = Step(CHOOSE iter : iter = Step(iter))
  <2> HIDE DEF Step
  <2> QED BY <1>5
<1> HIDE DEF Step
<1>8. (CHOOSE iter : iter = Step(iter))[{1}] = Add(0, item)
  BY <1>6, <1>7
<1> QED BY <1>3, <1>4, <1>8

\* A magnitude and a unit whose product is a figure are read back as it.
LEMMA ReadBack ==
  ASSUME NEW seconds \in 1 .. MaxInt, NEW item,
         item.magnitude \in Nat, UnitSeconds(item) \in Nat,
         item.magnitude * UnitSeconds(item) = seconds
  PROVE  DurationSeconds(<<item>>) = seconds
<1>1. seconds \in MinInt .. MaxInt /\ seconds \in Int /\ 0 + seconds = seconds
  BY WidthAssumption DEF MinInt
<1>2. None \notin {item.magnitude, UnitSeconds(item), 0, seconds}
  BY <1>1, NoFigureIsNone
<1>3. CheckedMul(item.magnitude, UnitSeconds(item)) = seconds
  BY <1>1, <1>2 DEF CheckedMul, Checked
<1>4. CheckedAdd(0, seconds) = seconds
  BY <1>1, <1>2 DEF CheckedAdd, Checked
<1> QED BY <1>3, <1>4, FoldOne

\* Whichever unit a window is declared in, it is read back to the second, and
\* a receipt counts the same days or none.
LEMMA DeclaredReadsBack ==
  ASSUME NEW seconds \in 1 .. MaxInt
  PROVE  /\ DurationSeconds(IsoDuration(seconds)) = seconds
         /\ Iso8601Days(IsoDuration(seconds)) \in {seconds, None}
<1>u. /\ Day \in Nat \ {0} /\ Hour \in Nat \ {0} /\ Minute \in Nat \ {0}
      /\ seconds \in Nat
  BY UnitsAssumption, WidthAssumption
<1>1. CASE seconds % Day = 0
  <2> DEFINE n == seconds \div Day
  <2>1. n * Day = seconds /\ n \in Nat
    BY <1>u, <1>1, DivExact
  <2> HIDE DEF n
  <2> DEFINE item == Item(n, "D", FALSE)
  <2>2. IsoDuration(seconds) = <<item>>
    BY <1>1 DEF IsoDuration, n
  <2>3. item.magnitude = n /\ item.unit = "D" /\ UnitSeconds(item) = Day
    BY DEF Item, UnitSeconds
  <2> HIDE DEF item
  <2>4. DurationSeconds(<<item>>) = seconds
    BY <1>u, <2>1, <2>3, ReadBack
  <2>5. seconds \in MinInt .. MaxInt /\ None \notin {n, Day}
    BY <1>u, <2>1, WidthAssumption, NoFigureIsNone DEF MinInt
  <2>6. CheckedMul(n, Day) = seconds
    BY <2>1, <2>5 DEF CheckedMul, Checked
  <2>7. Iso8601Days(<<item>>) \in {seconds, None}
    BY <2>3, <2>6 DEF Iso8601Days
  <2> QED BY <2>2, <2>4, <2>7
<1>2. ASSUME NEW n \in Nat, NEW unit, unit # "D",
             IsoDuration(seconds) = <<Item(n, unit, TRUE)>>,
             n * UnitSeconds(Item(n, unit, TRUE)) = seconds,
             UnitSeconds(Item(n, unit, TRUE)) \in Nat
      PROVE  /\ DurationSeconds(IsoDuration(seconds)) = seconds
             /\ Iso8601Days(IsoDuration(seconds)) \in {seconds, None}
  <2> DEFINE item == Item(n, unit, TRUE)
  <2>1. item.magnitude = n /\ item.unit # "D"
    BY <1>2 DEF Item
  <2>2. IsoDuration(seconds) = <<item>> /\ UnitSeconds(item) \in Nat
          /\ n * UnitSeconds(item) = seconds
    BY <1>2
  <2> HIDE DEF item
  <2>3. DurationSeconds(<<item>>) = seconds
    BY <2>1, <2>2, ReadBack
  <2>4. Iso8601Days(<<item>>) = None
    BY <2>1 DEF Iso8601Days
  <2> QED BY <2>2, <2>3, <2>4
<1>3. CASE seconds % Day # 0 /\ seconds % Hour = 0
  <2>1. (seconds \div Hour) * Hour = seconds /\ seconds \div Hour \in Nat
    BY <1>u, <1>3, DivExact
  <2>2. IsoDuration(seconds) = <<Item(seconds \div Hour, "H", TRUE)>>
    BY <1>3 DEF IsoDuration
  <2>3. UnitSeconds(Item(seconds \div Hour, "H", TRUE)) = Hour
    BY DEF Item, UnitSeconds
  <2> QED BY <1>u, <1>2, <2>1, <2>2, <2>3
<1>4. CASE seconds % Day # 0 /\ seconds % Hour # 0 /\ seconds % Minute = 0
  <2>1. (seconds \div Minute) * Minute = seconds /\ seconds \div Minute \in Nat
    BY <1>u, <1>4, DivExact
  <2>2. IsoDuration(seconds) = <<Item(seconds \div Minute, "M", TRUE)>>
    BY <1>4 DEF IsoDuration
  <2>3. UnitSeconds(Item(seconds \div Minute, "M", TRUE)) = Minute
    BY DEF Item, UnitSeconds
  <2> QED BY <1>u, <1>2, <2>1, <2>2, <2>3
<1>5. CASE seconds % Day # 0 /\ seconds % Hour # 0 /\ seconds % Minute # 0
  <2>1. IsoDuration(seconds) = <<Item(seconds, "S", TRUE)>>
    BY <1>5 DEF IsoDuration
  <2>2. /\ UnitSeconds(Item(seconds, "S", TRUE)) \in Nat
        /\ seconds * UnitSeconds(Item(seconds, "S", TRUE)) = seconds
    BY <1>u DEF Item, UnitSeconds
  <2> QED BY <1>u, <1>2, <2>1, <2>2
<1> QED BY <1>1, <1>3, <1>4, <1>5

-----------------------------------------------------------------------------
(* The invariant *)

LEMMA InitIInv == Init => IInv
<1> SUFFICES ASSUME Init PROVE IInv
  OBVIOUS
<1>1. Start \in 0 .. MaxTime /\ 0 \in 0 .. LastStamp /\ 0 \in 0 .. MaxBoots
  BY EnvironmentAssumption, WidthAssumption
<1>2. TypeOK
  BY <1>1, EnvironmentAssumption DEF Init, TypeOK, Free, Asleep
<1> QED BY <1>2 DEF Init, IInv, Typed, Untouched, Arrived, SweepStarted, Asleep

\* What the proofs need of the types.
LEMMA Kinds ==
  ASSUME TypeOK
  PROVE  /\ clock \in Nat /\ Start <= clock /\ None \notin Nat
         /\ config \in Configs /\ config.skew \in Nat
         /\ \A q \in Requests : signed[q] \in Nat \cup {None}
                                /\ seen[q] \in Nat \cup {None} /\ honoured[q] \in Nat
         /\ \A h \in Handlers : handlers[h].now \in Nat
         /\ sweep.now \in Nat /\ sweep.floor \in Nat
<1> USE ConfigurationAssumption, EnvironmentAssumption, WidthAssumption DEF TypeOK
<1>1. clock \in Nat /\ Start <= clock /\ config \in Configs
  OBVIOUS
<1>2. None \notin Nat
  BY NoFigureIsNone
<1>3. config.skew \in Nat
  BY DEF Configs
<1>4. ASSUME NEW q \in Requests
      PROVE  signed[q] \in Nat \cup {None} /\ seen[q] \in Nat \cup {None}
               /\ honoured[q] \in Nat
  <2>1. signed[q] \in Stamps \cup {None} /\ honoured[q] \in Nat
    OBVIOUS
  <2>2. seen[q] \in (Start .. MaxTime) \cup {None}
    OBVIOUS
  <2>3. Start .. MaxTime \subseteq Nat /\ Stamps \subseteq Nat
    OBVIOUS
  <2> HIDE DEF TypeOK
  <2> QED BY <2>1, <2>2, <2>3
<1>5. ASSUME NEW h \in Handlers PROVE handlers[h].now \in Nat
  OBVIOUS
<1>6. sweep.now \in Nat /\ sweep.floor \in Nat
  OBVIOUS
<1> QED BY <1>1, <1>2, <1>3, <1>4, <1>5, <1>6

LEMMA NextTypeOK ==
  ASSUME Typed, [Next]_vars
  PROVE  TypeOK'
<1> USE EnvironmentAssumption, WidthAssumption DEF Typed, TypeOK
<1>1. ASSUME NEW r \in Requests, NEW at \in Stamps, Sign(r, at) PROVE TypeOK'
  BY <1>1 DEF Sign
<1>2. ASSUME NEW h \in Handlers, NEW r \in Requests, Arrive(h, r) PROVE TypeOK'
  BY <1>2 DEF Arrive
<1>3. ASSUME NEW h \in Handlers, Honour(h) PROVE TypeOK'
  <2> DEFINE r == handlers[h].request
  <2>1. r \in Requests /\ handlers[h].now <= clock
    BY <1>3 DEF Honour, Arrived
  <2>2. handlers[h].now \in Start .. MaxTime
    BY <1>3, <2>1 DEF Honour, Arrived
  <2> QED BY <1>3, <2>1, <2>2 DEF Honour, Answer, Free
<1>4. ASSUME NEW h \in Handlers, Refuse(h) PROVE TypeOK'
  BY <1>4 DEF Refuse, Answer, Free
<1>5. CASE SweepBegin
  <2>1. NonceFloor(clock) \in 0 .. LastStamp
    BY <1>5, FloorIsStamp DEF SweepBegin, Floors
  <2> QED BY <1>5, <2>1 DEF SweepBegin
<1>6. CASE SweepNonces
  BY <1>6 DEF SweepNonces, Asleep
<1>7. CASE Tick
  BY <1>7 DEF Tick
<1>8. ASSUME NEW c \in Configs, Restart(c) PROVE TypeOK'
  BY <1>8 DEF Restart, Free, Asleep
<1>9. CASE UNCHANGED vars
  BY <1>9 DEF vars
<1> QED BY <1>1, <1>2, <1>3, <1>4, <1>5, <1>6, <1>7, <1>8, <1>9 DEF Next

LEMMA NextRequests ==
  ASSUME Steady, IInv, [Next]_vars, NEW q \in Requests
  PROVE  (Untouched(q) \/ Honoured(q))'
<1>0. /\ clock \in Nat /\ config.skew \in Nat /\ signed[q] \in Nat \cup {None}
      /\ seen[q] \in Nat \cup {None} /\ None \notin Nat
      /\ Untouched(q) \/ Honoured(q)
      /\ \A h \in Handlers : handlers[h].now \in Nat
      /\ \A h \in Handlers : Arrived(h)
      /\ WholeSeconds /\ config \in Configs
      /\ honoured[q] \in Nat
  BY Kinds DEF IInv, Typed, Steady
<1> DEFINE Kept == Untouched(q) \/ Honoured(q)
<1>1. ASSUME NEW r \in Requests, NEW at \in Stamps, Sign(r, at) PROVE Kept'
  <2>1. CASE r = q
    BY <1>0, <1>1, <2>1 DEF Sign, Untouched, Honoured
  <2>2. CASE r # q
    <3>1. signed'[q] = signed[q]
      BY <1>1, <2>2 DEF Sign, IInv, Typed, TypeOK
    <3> QED BY <1>0, <1>1, <3>1 DEF Sign, Untouched, Honoured, InWindow, Past
  <2> QED BY <2>1, <2>2
<1>2. ASSUME NEW h \in Handlers, NEW r \in Requests, Arrive(h, r) PROVE Kept'
  <2>1. \A g \in Handlers : handlers'[g] = handlers[g] \/ handlers'[g].now = clock
    BY <1>2 DEF Arrive, IInv, Typed, TypeOK
  <2> QED BY <1>0, <1>2, <2>1 DEF Arrive, Untouched, Honoured, InWindow, Past
<1>3. ASSUME NEW h \in Handlers, Honour(h) PROVE Kept'
  <2> DEFINE r == handlers[h].request
  <2>1. /\ r \in Requests /\ signed[r] # None /\ handlers[h].now <= clock
        /\ seen[r] = None /\ Fresh(signed[r], handlers[h].now)
        /\ handlers[h].now \in Nat
    BY <1>0, <1>3 DEF Honour, Passes, Recorded, Arrived
  <2>2. UNCHANGED <<clock, config, signed>>
    BY <1>3 DEF Honour
  <2>3. CASE r = q
    <3>1. signed[q] \in Nat /\ handlers[h].now <= signed[q] + config.skew
             /\ signed[q] <= handlers[h].now + config.skew
      BY <1>0, <2>1, <2>3, FreshIsNear
    <3>2. ~Past(q)
      BY <1>0, <2>3, <3>1 DEF Past
    <3>3. Untouched(q)
      BY <1>0, <2>1, <2>3, <3>2 DEF Honoured, InWindow
    <3>4. seen'[q] = handlers[h].now /\ honoured'[q] = 1
      BY <1>3, <2>3, <3>3 DEF Honour, Untouched, IInv, Typed, TypeOK
    <3>5. InWindow(q)'
      BY <1>0, <2>1, <2>2, <3>1, <3>4 DEF InWindow
    <3> QED BY <2>1, <2>2, <2>3, <3>4, <3>5 DEF Honoured
  <2>4. CASE r # q
    <3>1. seen'[q] = seen[q] /\ honoured'[q] = honoured[q]
      BY <1>3, <2>4 DEF Honour, IInv, Typed, TypeOK
    <3>2. \A g \in Handlers : handlers'[g] = handlers[g] \/ handlers'[g].request = None
      BY <1>3 DEF Honour, Answer, Free, IInv, Typed, TypeOK
    <3> QED BY <1>0, <2>2, <3>1, <3>2, NoneAssumption
            DEF Untouched, Honoured, InWindow, Past
  <2> QED BY <2>3, <2>4
<1>4. ASSUME NEW h \in Handlers, Refuse(h) PROVE Kept'
  <2>1. \A g \in Handlers : handlers'[g] = handlers[g] \/ handlers'[g].request = None
    BY <1>4 DEF Refuse, Answer, Free, IInv, Typed, TypeOK
  <2> QED BY <1>0, <1>4, <2>1, NoneAssumption
          DEF Refuse, Untouched, Honoured, InWindow, Past
<1>5. CASE SweepBegin
  BY <1>0, <1>5 DEF SweepBegin, Untouched, Honoured, InWindow, Past
<1>6. CASE SweepNonces
  <2>1. UNCHANGED <<clock, config, signed, handlers, honoured>>
    BY <1>6 DEF SweepNonces
  <2>2. seen'[q] = IF seen[q] # None /\ seen[q] < sweep.floor THEN None ELSE seen[q]
    BY <1>6 DEF SweepNonces
  <2>3. CASE seen'[q] = seen[q]
    BY <1>0, <2>1, <2>3 DEF Untouched, Honoured, InWindow, Past
  <2>4. CASE seen[q] # None /\ seen[q] < sweep.floor
    <3>1. /\ sweep.now <= clock /\ sweep.floor + 2 * config.skew = sweep.now
          /\ sweep.now \in Nat /\ sweep.floor \in Nat
      BY <1>6, WidthAssumption, EnvironmentAssumption DEF SweepNonces, SweepStarted, IInv, Typed, TypeOK
    <3>2. Honoured(q)
      BY <1>0, <2>4 DEF Untouched
    <3>3. CASE Past(q)
      BY <1>0, <2>1, <3>2, <3>3 DEF Honoured, Past
    <3>4. CASE InWindow(q)
      <4>1. signed[q] \in Nat /\ seen[q] \in Nat
        BY <1>0, <2>4, <3>2 DEF Honoured
      <4>2. signed[q] + config.skew < sweep.now
        BY <1>0, <2>4, <3>1, <3>4, <4>1 DEF InWindow
      <4>3. \A h \in Handlers : handlers[h].request = q => sweep.now <= handlers[h].now
        <5> SUFFICES ASSUME NEW h \in Handlers, handlers[h].request = q
                     PROVE  sweep.now <= handlers[h].now
          OBVIOUS
        <5>1. handlers[h] # Free
          BY NoneAssumption DEF Free
        <5>2. ~(handlers[h].now < sweep.now)
          BY <1>6, <5>1 DEF SweepNonces, Ahead, Steady
        <5> QED BY <1>0, <3>1, <5>2
      <4>4. Past(q)
        BY <1>0, <3>1, <4>1, <4>2, <4>3 DEF Past
      <4> QED BY <1>0, <2>1, <3>2, <4>4 DEF Honoured, Past
    <3> QED BY <3>2, <3>3, <3>4 DEF Honoured
  <2> QED BY <2>2, <2>3, <2>4
<1>7. CASE Tick
  BY <1>0, <1>7 DEF Tick, Untouched, Honoured, InWindow, Past
<1>8. ASSUME NEW c \in Configs, Restart(c) PROVE Kept'
  <2>1. config' = config /\ UNCHANGED <<clock, signed, seen, honoured>>
    BY <1>8 DEF Restart, Steady
  <2>2. \A g \in Handlers : handlers'[g].request = None
    BY <1>8 DEF Restart, Free
  <2> QED BY <1>0, <2>1, <2>2, NoneAssumption DEF Untouched, Honoured, InWindow, Past
<1>9. CASE UNCHANGED vars
  BY <1>0, <1>9 DEF vars, Untouched, Honoured, InWindow, Past
<1> QED BY <1>1, <1>2, <1>3, <1>4, <1>5, <1>6, <1>7, <1>8, <1>9 DEF Next

LEMMA NextArrived ==
  ASSUME Typed, [Next]_vars
  PROVE  (\A h \in Handlers : Arrived(h))'
<1>0. /\ clock \in Nat /\ Start <= clock
      /\ \A h \in Handlers : Arrived(h) /\ handlers[h].now \in Nat
  BY Kinds DEF Typed
<1> DEFINE Rest == \A h \in Handlers : Arrived(h)
<1>1. ASSUME NEW r \in Requests, NEW at \in Stamps, Sign(r, at) PROVE Rest'
  <2>1. \A q \in Requests : signed[q] # None => signed'[q] = signed[q]
    BY <1>1 DEF Sign, Typed, TypeOK
  <2> QED BY <1>0, <1>1, <2>1 DEF Sign, Arrived
<1>2. ASSUME NEW h \in Handlers, NEW r \in Requests, Arrive(h, r) PROVE Rest'
  <2>1. \A g \in Handlers : \/ handlers'[g] = handlers[g]
                             \/ handlers'[g] = [request |-> r, now |-> clock]
    BY <1>2 DEF Arrive, Typed, TypeOK
  <2> QED BY <1>0, <1>2, <2>1 DEF Arrive, Arrived
<1>3. ASSUME NEW h \in Handlers, Honour(h) \/ Refuse(h) PROVE Rest'
  <2>1. \A g \in Handlers : handlers'[g] = handlers[g] \/ handlers'[g] = Free
    BY <1>3 DEF Honour, Refuse, Answer, Typed, TypeOK
  <2>2. UNCHANGED <<clock, signed>>
    BY <1>3 DEF Honour, Refuse
  <2> QED BY <1>0, <2>1, <2>2 DEF Arrived
<1>4. CASE SweepBegin \/ SweepNonces \/ Tick
  BY <1>0, <1>4 DEF SweepBegin, SweepNonces, Tick, Arrived
<1>5. ASSUME NEW c \in Configs, Restart(c) PROVE Rest'
  BY <1>5 DEF Restart, Arrived
<1>6. CASE UNCHANGED vars
  BY <1>0, <1>6 DEF vars, Arrived
<1> QED BY <1>1, <1>2, <1>3, <1>4, <1>5, <1>6 DEF Next

LEMMA TypedStep == Typed /\ [Next]_vars => Typed'
BY NextTypeOK, NextArrived DEF Typed

LEMMA NextSweepStarted ==
  ASSUME Steady, IInv, [Next]_vars
  PROVE  SweepStarted'
<1>0. /\ clock \in Nat /\ config.skew \in Nat /\ config \in Configs /\ WholeSeconds
      /\ SweepStarted /\ sweep.now \in Nat
  BY Kinds DEF IInv, Typed, Steady
<1>1. ASSUME NEW r \in Requests, NEW at \in Stamps, Sign(r, at) PROVE SweepStarted'
  BY <1>0, <1>1 DEF Sign, SweepStarted
<1>2. ASSUME NEW h \in Handlers, (\E r \in Requests : Arrive(h, r)) \/ Honour(h) \/ Refuse(h)
      PROVE  SweepStarted'
  BY <1>0, <1>2 DEF Arrive, Honour, Refuse, SweepStarted
<1>3. CASE SweepBegin
  <2>1. NonceFloor(clock) + 2 * config.skew = clock
    BY <1>0, <1>3, FloorIsTwoWindows DEF SweepBegin, Floors
  <2> QED BY <1>0, <1>3, <2>1 DEF SweepBegin, SweepStarted
<1>4. CASE SweepNonces
  BY <1>4 DEF SweepNonces, Asleep, SweepStarted
<1>5. CASE Tick
  BY <1>0, <1>5 DEF Tick, SweepStarted
<1>6. ASSUME NEW c \in Configs, Restart(c) PROVE SweepStarted'
  BY <1>6 DEF Restart, Asleep, SweepStarted
<1>7. CASE UNCHANGED vars
  BY <1>0, <1>7 DEF vars, SweepStarted
<1> QED BY <1>1, <1>2, <1>3, <1>4, <1>5, <1>6, <1>7 DEF Next

LEMMA Invariant == Steady => (Spec => []IInv)
<1> SUFFICES ASSUME Steady PROVE Spec => []IInv
  OBVIOUS
<1>1. IInv /\ [Next]_vars => IInv'
  <2> SUFFICES ASSUME IInv, [Next]_vars PROVE IInv'
    OBVIOUS
  <2>1. \A q \in Requests : (Untouched(q) \/ Honoured(q))'
    BY NextRequests
  <2> QED BY <2>1, TypedStep, NextSweepStarted DEF IInv
<1> QED BY <1>1, InitIInv, PTL DEF Spec

-----------------------------------------------------------------------------
(* Theorems *)

\* Every variable keeps to its type, in every deployment.
THEOREM TypeCorrect == Spec => []TypeOK
<1>1. Init => Typed
  BY InitIInv DEF IInv
<1>2. Typed => TypeOK
  BY DEF Typed
<1> QED BY <1>1, <1>2, TypedStep, PTL DEF Spec

\* A signed request is honoured at most once, whatever is delivered again
\* and whenever nonces are swept.
THEOREM RequestsAreHonouredOnce == Steady => (Spec => []AtMostOnce)
<1>1. IInv => AtMostOnce
  BY DEF IInv, AtMostOnce, Untouched, Honoured
<1> QED BY <1>1, Invariant, PTL

\* What is recorded for a request was recorded by honouring that request:
\* nobody else's nonce makes it a repeat.
THEOREM RepeatsAreTheHoldersOwn == Spec => []OnlyItselfRepeats
<1> DEFINE Inv == Typed /\ OnlyItselfRepeats
<1>1. Init => Inv
  BY InitIInv DEF IInv, Init, OnlyItselfRepeats, Recorded
<1>2. Inv /\ [Next]_vars => Inv'
  <2> SUFFICES ASSUME Inv, [Next]_vars, NEW q \in Requests, seen'[q] # None
               PROVE  honoured'[q] >= 1
    BY TypedStep DEF OnlyItselfRepeats, Recorded
  <2>0. /\ honoured[q] \in Nat
        /\ seen[q] # None => honoured[q] >= 1
        /\ \A h \in Handlers : Arrived(h)
    BY Kinds DEF Typed, OnlyItselfRepeats, Recorded
  <2>1. ASSUME NEW r \in Requests, NEW at \in Stamps, Sign(r, at) PROVE honoured'[q] >= 1
    BY <2>0, <2>1 DEF Sign
  <2>2. ASSUME NEW h \in Handlers, (\E r \in Requests : Arrive(h, r)) \/ Refuse(h)
        PROVE  honoured'[q] >= 1
    BY <2>0, <2>2 DEF Arrive, Refuse
  <2>3. ASSUME NEW h \in Handlers, Honour(h) PROVE honoured'[q] >= 1
    <3>1. CASE handlers[h].request = q
      <4>1. honoured'[q] = honoured[q] + 1
        BY <2>3, <3>1 DEF Honour, Typed, TypeOK
      <4> QED BY <2>0, <4>1
    <3>2. CASE handlers[h].request # q
      <4>1. seen'[q] = seen[q] /\ honoured'[q] = honoured[q]
        BY <2>3, <3>2 DEF Honour, Typed, TypeOK
      <4> QED BY <2>0, <4>1
    <3> QED BY <3>1, <3>2
  <2>4. CASE SweepBegin \/ Tick
    BY <2>0, <2>4 DEF SweepBegin, Tick
  <2>5. CASE SweepNonces
    <3>1. seen'[q] = IF seen[q] # None /\ seen[q] < sweep.floor THEN None ELSE seen[q]
      BY <2>5 DEF SweepNonces
    <3>2. honoured' = honoured
      BY <2>5 DEF SweepNonces
    <3> QED BY <2>0, <3>1, <3>2
  <2>6. ASSUME NEW c \in Configs, Restart(c) PROVE honoured'[q] >= 1
    BY <2>0, <2>6 DEF Restart
  <2>7. CASE UNCHANGED vars
    BY <2>0, <2>7 DEF vars
  <2> QED BY <2>1, <2>2, <2>3, <2>4, <2>5, <2>6, <2>7 DEF Next
<1>3. Inv => OnlyItselfRepeats
  OBVIOUS
<1> QED BY <1>1, <1>2, <1>3, PTL DEF Spec

\* As time passes, windows that a boot accepted stay acceptable.
LEMMA AcceptedStaysSo ==
  ASSUME NEW c \in Configs, NEW at \in 0 .. LastStamp, at + 1 <= LastStamp, Accepted(c, at)
  PROVE  Accepted(c, at + 1)
<1>0. c.skew \in Skews
  BY DEF Configs
<1>1. c.skew \in Nat
  BY <1>0, ConfigurationAssumption
<1> DEFINE double == CheckedMul(c.skew, 2)
<1>2. double # None
  BY DEF Accepted, ParsePastWindow, CheckedSub
<1>3. double = c.skew * 2
  BY <1>2 DEF CheckedMul, Checked
<1>4. double \in Nat
  BY <1>1, <1>3
<1> HIDE DEF double
<1> DEFINE back == double * Second
<1>5. back \in Nat
  BY <1>4, WidthAssumption
<1>6. at - back \in 0 .. LastStamp
  BY <1>2 DEF Accepted, ParsePastWindow, CheckedSub, double
<1> HIDE DEF back
<1>7. (at + 1) - back \in 0 .. LastStamp /\ (at + 1) - back # None
  BY <1>5, <1>6, WidthAssumption, NoFigureIsNone
<1> QED BY <1>2, <1>7 DEF Accepted, ParsePastWindow, CheckedSub, double, back

\* With a poll interval that fits, the windows a boot accepts never run out of
\* timestamps under the sweep: it can always begin.
THEOREM SweepNeverRunsOut == PollsFit => (Spec => []SweepIsPossible)
<1> SUFFICES ASSUME PollsFit PROVE Spec => []SweepIsPossible
  OBVIOUS
<1> DEFINE Inv == Typed /\ Accepted(config, clock)
<1>1. Init => Inv
  BY InitIInv DEF IInv, Init
<1>2. Inv /\ [Next]_vars => Inv'
  <2> SUFFICES ASSUME Inv, [Next]_vars PROVE Accepted(config, clock)'
    BY TypedStep
  <2>1. CASE UNCHANGED <<clock, config>>
    BY <2>1
  <2>2. CASE Tick
    <3>1. clock \in 0 .. LastStamp /\ clock + 1 <= LastStamp /\ config \in Configs
      BY <2>2, EnvironmentAssumption, WidthAssumption DEF Tick, Typed, TypeOK
    <3>2. Accepted(config, clock + 1)
      BY <3>1, AcceptedStaysSo
    <3> QED BY <2>2, <3>2 DEF Tick
  <2>3. ASSUME NEW c \in Configs, Restart(c) PROVE Accepted(config, clock)'
    BY <2>3 DEF Restart
  <2>4. \/ Tick \/ UNCHANGED <<clock, config>>
        \/ \E c \in Configs : Restart(c)
    BY DEF Next, Sign, Arrive, Honour, Refuse, SweepBegin, SweepNonces, vars
  <2> QED BY <2>1, <2>2, <2>3, <2>4
<1>3. Inv => SweepIsPossible
  <2> SUFFICES ASSUME Inv PROVE Floors(clock)
    BY DEF SweepIsPossible
  <2>1. NonceFloor(clock) # None
    BY DEF Accepted, ParsePastWindow, NonceFloor
  <2>a. config \in Configs /\ clock \in Start .. MaxTime
    BY DEF Typed, TypeOK
  <2> DEFINE poll == config.poll
  <2>b. poll \in Polls
    BY <2>a DEF Configs
  <2> HIDE DEF poll
  <2>c. poll \in Nat
    BY <2>b, ConfigurationAssumption
  <2>2. clock \in Nat /\ Start <= clock /\ clock <= LastStamp
    BY <2>a, EnvironmentAssumption, WidthAssumption
  <2>3. poll <= MaxInt /\ poll * Second <= Start
    BY <2>b DEF PollsFit
  <2>4. AsSigned(poll) = poll
    BY <2>c, <2>3, WidthAssumption DEF AsSigned
  <2> DEFINE back == poll * Second
  <2>5. back \in Nat /\ back <= Start
    BY <2>c, <2>3, WidthAssumption
  <2> HIDE DEF back
  <2>6. clock - back \in 0 .. LastStamp /\ clock - back # None
    BY <2>2, <2>5, EnvironmentAssumption, WidthAssumption, NoFigureIsNone
  <2>7. RecordFloor(clock) # None
    BY <2>c, <2>4, <2>6, NoFigureIsNone DEF RecordFloor, CheckedSub, back, poll
  <2> QED BY <2>1, <2>7 DEF Floors
<1> QED BY <1>1, <1>2, <1>3, PTL DEF Spec

\* Whatever window a boot accepts, the terms declare it so that the lapse
\* rules, and a receipt, read back the window the sweep enforces.
THEOREM TermsDeclareWhatIsEnforced == Spec => []DeclaredIsEnforced
<1>1. TypeOK => DeclaredIsEnforced
  <2> SUFFICES ASSUME TypeOK, NEW seconds \in 1 .. clock, ParsePastWindow(seconds, 1, clock)
               PROVE  /\ DurationSeconds(IsoDuration(seconds)) = seconds
                      /\ Iso8601Days(IsoDuration(seconds)) \in {seconds, None}
    BY DEF DeclaredIsEnforced
  <2>1. seconds \in Nat \ {0}
    BY Kinds
  <2>2. CheckedMul(seconds, 1) # None
    BY DEF ParsePastWindow, CheckedSub
  <2>3. seconds \in 1 .. MaxInt
    BY <2>1, <2>2, WidthAssumption DEF CheckedMul, Checked, MinInt
  <2> QED BY <2>3, DeclaredReadsBack
<1> QED BY <1>1, TypeCorrect, PTL
=================================================================================
