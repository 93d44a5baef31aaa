--------------------------------- MODULE Replay ---------------------------------
(***************************************************************************)
(* Authentication: a signed request is honoured once, however often the    *)
(* network delivers it. A request is fresh for max_skew seconds to either  *)
(* side of its timestamp; its nonce is a row until the sweep's floor       *)
(* passes it. The windows come from the configuration a boot accepts, and  *)
(* the same sweep enforces the others, so what a boot accepts decides      *)
(* whether there is a sweep at all.                                        *)
(***************************************************************************)
EXTENDS Figures, FiniteSets

CONSTANTS
  Holders, Nonces,
  Handlers,        \* slots for requests in flight at the same time
  Skews, Polls,    \* what an operator may set max_skew and the poll to
  Stamps,          \* what the clocks of clients may say
  Start            \* the clock at the first boot

\* What the environment does in a run.
CONSTANTS
  Prompt,          \* is a request decided before a later sweep gets to nonces
  MayReconfigure,  \* can a restart come with another configuration
  MaxTime, MaxBoots

ASSUME ConfigurationAssumption ==
         Skews \subseteq Nat /\ Polls \subseteq Nat \ {0} /\ Stamps \subseteq Nat
ASSUME EnvironmentAssumption ==
         /\ Prompt \in BOOLEAN /\ MayReconfigure \in BOOLEAN
         /\ Start \in Nat /\ MaxTime \in Nat /\ Start <= MaxTime /\ MaxTime <= LastStamp
         /\ MaxBoots \in Nat

VARIABLES
  clock,
  config,     \* max_skew_secs and revocation_poll_secs of this boot
  signed,     \* the timestamp a holder signed a request with, or None
  seen,       \* table seen_nonces: when each was recorded, or None
  handlers,   \* the request in each slot, and its reading of the clock
  honoured,   \* how often each request was honoured
  sweep,
  boots

vars == <<clock, config, signed, seen, handlers, honoured, sweep, boots>>

-----------------------------------------------------------------------------
(* Values *)

\* A holder draws a nonce for one request.
Requests == Holders \X Nonces

Configs == [skew : Skews, poll : Polls]

ASSUME NoneAssumption == None \notin Requests

Free == [request |-> None, now |-> 0]

Asleep == [pc |-> "sleep", now |-> 0, floor |-> 0]

Distance(a, b) == IF a >= b THEN a - b ELSE b - a

\* payload.rs verify: two-sided, in whole seconds.
Fresh(at, now) == Distance(now, at) \div Second <= config.skew

\* Config::from_env, of the windows this module is about.
Accepted(c, now) == ParsePastWindow(c.skew, 2, now)

-----------------------------------------------------------------------------
(* Requests *)

\* A client signs with its own clock, which may be anywhere.
Sign(r, at) ==
  /\ signed[r] = None
  /\ signed' = [signed EXCEPT ![r] = at]
  /\ UNCHANGED <<clock, config, seen, handlers, honoured, sweep, boots>>

\* A copy of it arrives, and the handler reads the clock before it waits.
Arrive(h, r) ==
  /\ handlers[h] = Free
  /\ signed[r] # None
  /\ handlers' = [handlers EXCEPT ![h] = [request |-> r, now |-> clock]]
  /\ UNCHANGED <<clock, config, signed, seen, honoured, sweep, boots>>

\* Mutant: a nonce is recorded for all holders.
RecordedForAll(r) == \E q \in Requests : q[2] = r[2] /\ seen[q] # None

Recorded(r) == seen[r] # None

Passes(h) == LET r == handlers[h].request
             IN  Fresh(signed[r], handlers[h].now) /\ ~Recorded(r)

Answer(h) == handlers' = [handlers EXCEPT ![h] = Free]

\* Mutant: a nonce is recorded under the timestamp the client signed.
HonourAsSigned(h) ==
  LET r == handlers[h].request
  IN  /\ handlers[h] # Free
      /\ Passes(h)
      /\ seen' = [seen EXCEPT ![r] = signed[r]]
      /\ honoured' = [honoured EXCEPT ![r] = @ + 1]
      /\ Answer(h)
      /\ UNCHANGED <<clock, config, signed, sweep, boots>>

\* authenticate, under the store lock: the nonce is recorded with the
\* handler's reading, and the request is honoured.
Honour(h) ==
  LET r == handlers[h].request
  IN  /\ handlers[h] # Free
      /\ Passes(h)
      /\ seen' = [seen EXCEPT ![r] = handlers[h].now]
      /\ honoured' = [honoured EXCEPT ![r] = @ + 1]
      /\ Answer(h)
      /\ UNCHANGED <<clock, config, signed, sweep, boots>>

Refuse(h) ==
  /\ handlers[h] # Free
  /\ ~Passes(h)
  /\ Answer(h)
  /\ UNCHANGED <<clock, config, signed, seen, honoured, sweep, boots>>

-----------------------------------------------------------------------------
(* The sweep *)

\* Mutant: a nonce is kept for one window.
NonceFloorOneWindow(at) == CheckedSub(at, config.skew)

NonceFloor(at) == CheckedSub(at, CheckedMul(config.skew, 2))

\* lapse.rs record_floor, of the poll interval as a signed figure.
RecordFloor(at) == CheckedSub(at, AsSigned(config.poll))

\* A floor that cannot be computed leaves the whole sweep out.
Floors(at) == RecordFloor(at) # None /\ NonceFloor(at) # None

\* Mutant: the clock is read when the task starts, and never again.
SweepBeginStale ==
  /\ sweep.pc = "sleep"
  /\ Floors(Start)
  /\ sweep' = [pc |-> "nonces", now |-> Start, floor |-> NonceFloor(Start)]
  /\ UNCHANGED <<clock, config, signed, seen, handlers, honoured, boots>>

SweepBegin ==
  /\ sweep.pc = "sleep"
  /\ Floors(clock)
  /\ sweep' = [pc |-> "nonces", now |-> clock, floor |-> NonceFloor(clock)]
  /\ UNCHANGED <<clock, config, signed, seen, handlers, honoured, boots>>

\* Requests that read the clock before the sweep are ahead of it, unless they
\* wait long for another lock.
Ahead == {h \in Handlers : handlers[h] # Free /\ handlers[h].now < sweep.now}

\* (5) sweep_nonces.
SweepNonces ==
  /\ sweep.pc = "nonces"
  /\ Prompt => Ahead = {}
  /\ seen' = [r \in Requests |-> IF seen[r] # None /\ seen[r] < sweep.floor
                                 THEN None ELSE seen[r]]
  /\ sweep' = Asleep
  /\ UNCHANGED <<clock, config, signed, handlers, honoured, boots>>

-----------------------------------------------------------------------------
(* Time and the process *)

Tick ==
  /\ clock < MaxTime
  /\ clock' = clock + 1
  /\ UNCHANGED <<config, signed, seen, handlers, honoured, sweep, boots>>

\* Requests in flight are lost, rows are not. A boot that refuses its
\* configuration exits.
Restart(c) ==
  /\ boots < MaxBoots
  /\ boots' = boots + 1
  /\ c = config \/ MayReconfigure
  /\ Accepted(c, clock)
  /\ config' = c
  /\ handlers' = [h \in Handlers |-> Free]
  /\ sweep' = Asleep
  /\ UNCHANGED <<clock, signed, seen, honoured>>

-----------------------------------------------------------------------------
(* Specification *)

Init ==
  /\ clock = Start
  /\ config \in {c \in Configs : Accepted(c, Start)}
  /\ signed = [r \in Requests |-> None]
  /\ seen = [r \in Requests |-> None]
  /\ handlers = [h \in Handlers |-> Free]
  /\ honoured = [r \in Requests |-> 0]
  /\ sweep = Asleep
  /\ boots = 0

Next ==
  \/ \E r \in Requests, at \in Stamps : Sign(r, at)
  \/ \E h \in Handlers : (\E r \in Requests : Arrive(h, r)) \/ Honour(h) \/ Refuse(h)
  \/ SweepBegin \/ SweepNonces
  \/ Tick
  \/ \E c \in Configs : Restart(c)

Spec == Init /\ [][Next]_vars

\* The hourly timer always fires again, a step of the sweep gets the lock,
\* and so does every handler.
FairSpec == /\ Spec
            /\ WF_vars(SweepBegin) /\ SF_vars(SweepNonces)
            /\ \A h \in Handlers : SF_vars(Honour(h) \/ Refuse(h))

-----------------------------------------------------------------------------
(* Properties *)

\* Every variable holds a value of its kind.
TypeOK ==
  /\ clock \in Start .. MaxTime
  /\ config \in Configs
  /\ signed \in [Requests -> Stamps \cup {None}]
  /\ seen \in [Requests -> (Start .. MaxTime) \cup {None}]
  /\ handlers \in [Handlers -> [request : Requests \cup {None}, now : 0 .. MaxTime]]
  /\ honoured \in [Requests -> Nat]
  /\ sweep \in [pc : {"sleep", "nonces"}, now : 0 .. MaxTime, floor : 0 .. LastStamp]
  /\ boots \in 0 .. MaxBoots

\* However often it is delivered, in whatever order, before, during and after
\* sweeps and restarts, a signed request is honoured at most once (auth.rs:
\* "the nonce has not been seen before").
AtMostOnce == \A r \in Requests : honoured[r] <= 1

\* A request is refused as a repeat because of itself, and not because of
\* what another holder drew (record_nonce: "Scoped to the holder").
OnlyItselfRepeats ==
  \A r \in Requests : Recorded(r) => honoured[r] >= 1

\* The windows a boot accepts never run out of timestamps under the sweep,
\* which would silently stop enforcing all of them (parse_past_window_secs).
SweepIsPossible == Floors(clock)

\* What the terms declare of any window a boot accepts is read back, by the
\* lapse rules and on a receipt, as the window the sweep enforces.
DeclaredIsEnforced ==
  \A seconds \in 1 .. clock :
    ParsePastWindow(seconds, 1, clock) =>
      /\ DurationSeconds(IsoDuration(seconds)) = seconds
      /\ Iso8601Days(IsoDuration(seconds)) \in {seconds, None}

Spent(r) == seen[r] # None /\ seen[r] + 2 * config.skew * Second < clock

\* The replay defence does not become a record of what a holder did when:
\* no nonce stays once its windows are over.
NoncesAgeOut == \A r \in Requests : Spent(r) ~> ~Spent(r)
=================================================================================
