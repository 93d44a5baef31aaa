-------------------------------- MODULE Figures --------------------------------
(***************************************************************************)
(* The operator's arithmetic on time: signed integers of a fixed width,    *)
(* timestamps with a first and a last one, and durations as they are       *)
(* declared in the terms and read back. A duration's text is the sequence  *)
(* of its items, each with the unit and whether a T came before it.        *)
(***************************************************************************)
EXTENDS Integers, Sequences, SequencesExt

CONSTANTS
  MaxInt,                  \* the largest signed integer, i64::MAX
  LastStamp,               \* timestamps are 0 .. LastStamp, in ticks
  Second,                  \* ticks in a second
  Minute, Hour, Day,       \* in seconds
  None

ASSUME WidthAssumption == MaxInt \in Nat \ {0} /\ LastStamp \in Nat /\ Second \in Nat \ {0}
ASSUME UnitsAssumption ==
         /\ Minute \in Nat \ {0, 1} /\ Hour \in Nat /\ Day \in Nat
         /\ Hour > Minute /\ Hour % Minute = 0
         /\ Day > Hour /\ Day % Hour = 0
ASSUME NoFigureIsNone == None \notin Int

-----------------------------------------------------------------------------
(* Integers and timestamps *)

MinInt == -MaxInt - 1

Checked(n) == IF n \in MinInt .. MaxInt THEN n ELSE None

CheckedMul(a, b) == IF None \in {a, b} THEN None ELSE Checked(a * b)

CheckedAdd(a, b) == IF None \in {a, b} THEN None ELSE Checked(a + b)

\* `as i64` of an unsigned figure of the same width.
AsSigned(n) == IF n > MaxInt THEN n - 2 * (MaxInt + 1) ELSE n

\* OffsetDateTime::checked_sub: None outside what a timestamp can name.
CheckedSub(at, seconds) ==
  IF seconds # None /\ at - seconds * Second \in 0 .. LastStamp
  THEN at - seconds * Second
  ELSE None

\* Mutant: the window is tried out once, and subtracted several times over.
ParsePastWindowOnce(value, multiplier, now) ==
  value > 0 /\ CheckedSub(now, Checked(value)) # None /\ multiplier > 0

\* config.rs parse_past_window_secs, of a number that was given.
ParsePastWindow(value, multiplier, now) ==
  value > 0 /\ CheckedSub(now, CheckedMul(value, multiplier)) # None

-----------------------------------------------------------------------------
(* Durations *)

Item(n, unit, time) == [magnitude |-> n, unit |-> unit, time |-> time]

\* Mutant: whole hours are declared whatever is left over.
IsoDurationHours(seconds) ==
  IF seconds % Day = 0 THEN <<Item(seconds \div Day, "D", FALSE)>>
  ELSE IF seconds >= Hour THEN <<Item(seconds \div Hour, "H", TRUE)>>
  ELSE IF seconds % Minute = 0 THEN <<Item(seconds \div Minute, "M", TRUE)>>
  ELSE <<Item(seconds, "S", TRUE)>>

\* documents.rs iso_duration: the largest unit that loses nothing.
IsoDuration(seconds) ==
  IF seconds % Day = 0 THEN <<Item(seconds \div Day, "D", FALSE)>>
  ELSE IF seconds % Hour = 0 THEN <<Item(seconds \div Hour, "H", TRUE)>>
  ELSE IF seconds % Minute = 0 THEN <<Item(seconds \div Minute, "M", TRUE)>>
  ELSE <<Item(seconds, "S", TRUE)>>

\* What a unit stands for in its place; an M is a month or a minute.
UnitSeconds(item) ==
  CASE item.unit = "Y" /\ ~item.time -> 365 * Day
    [] item.unit = "M" /\ ~item.time -> 30 * Day
    [] item.unit = "W" /\ ~item.time -> 7 * Day
    [] item.unit = "D" /\ ~item.time -> Day
    [] item.unit = "H" /\ item.time  -> Hour
    [] item.unit = "M" /\ item.time  -> Minute
    [] item.unit = "S" /\ item.time  -> 1
    [] OTHER                         -> None

\* documents.rs duration_seconds.
DurationSeconds(text) ==
  IF text = <<>> THEN None
  ELSE FoldLeft(LAMBDA total, item :
                  CheckedAdd(total, CheckedMul(item.magnitude, UnitSeconds(item))),
                0, text)

\* erasures.rs iso8601_days, for the completion deadline on a receipt.
Iso8601Days(text) ==
  IF Len(text) = 1 /\ text[1].unit = "D" /\ text[1].magnitude > 0
  THEN CheckedMul(text[1].magnitude, Day)
  ELSE None
================================================================================
