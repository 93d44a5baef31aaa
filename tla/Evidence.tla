-------------------------------- MODULE Evidence --------------------------------
(***************************************************************************)
(* What an operator promises to be able to show of what it erased, with no *)
(* handler, lock, sweep or restart in it: an erasure is of one snapshot or *)
(* of all of them at one moment later than that of every erasure before,   *)
(* and leaves a receipt for each terms document it was owed under, of what *)
(* was retained and of nothing else. Receipts go by age alone, the oldest  *)
(* first and none within its window, and what was erased is not forgotten  *)
(* while a receipt tells of it.                                            *)
(***************************************************************************)
EXTENDS Naturals

CONSTANTS Digests, Terms, All, None, ReceiptWindow, ReferenceWindow

VARIABLES
  clock,
  rows,       \* what became of each digest, under which terms, and when
  receipts    \* what was signed of which digests, and when

Unknown == [state |-> "none", terms |-> None, at |-> 0]

Retained(scope) == {d \in IF scope = All THEN Digests ELSE {scope} : rows[d].state = "live"}

Init == /\ clock = 0
        /\ rows = [d \in Digests |-> Unknown]
        /\ receipts = {}

\* Whatever was erased or lost may be retained again.
Retain(d, t) == /\ rows[d].state # "live"
                /\ rows' = [rows EXCEPT ![d] = [state |-> "live", terms |-> t, at |-> 0]]
                /\ UNCHANGED <<clock, receipts>>

Lose(d) == /\ rows[d].state = "live"
           /\ rows' = [rows EXCEPT ![d].state = "lost"]
           /\ UNCHANGED <<clock, receipts>>

Erase(scope, at) ==
  LET doomed == Retained(scope)
      Signed(t) == [scope |-> scope, terms |-> t, at |-> at,
                    covers |-> {d \in doomed : rows[d].terms = t}]
  IN  /\ doomed # {}
      /\ at <= clock
      /\ \A x \in receipts : x.at < at
      /\ \A d \in Digests : rows[d].state = "erased" => rows[d].at < at
      /\ rows' = [d \in Digests |-> IF d \in doomed
                                    THEN [state |-> "erased", terms |-> rows[d].terms, at |-> at]
                                    ELSE rows[d]]
      /\ receipts' = receipts \cup {Signed(rows[d].terms) : d \in doomed}
      /\ UNCHANGED clock

\* As of some moment that has passed, all that are past their window.
ForgetReceipts(floor) == /\ floor <= clock
                         /\ receipts' = {x \in receipts : floor <= x.at + ReceiptWindow}
                         /\ UNCHANGED <<clock, rows>>

ForgetErased(old) == /\ \A d \in old : /\ rows[d].state = "erased"
                                       /\ rows[d].at + ReferenceWindow < clock
                                       /\ \A x \in receipts : d \notin x.covers
                     /\ rows' = [d \in Digests |-> IF d \in old THEN Unknown ELSE rows[d]]
                     /\ UNCHANGED <<clock, receipts>>

Tick == clock' = clock + 1 /\ UNCHANGED <<rows, receipts>>

Next == \/ \E d \in Digests : (\E t \in Terms : Retain(d, t)) \/ Lose(d)
        \/ \E scope \in Digests \cup {All}, at \in 0 .. clock : Erase(scope, at)
        \/ \E floor \in 0 .. clock : ForgetReceipts(floor)
        \/ \E old \in SUBSET Digests : ForgetErased(old)
        \/ Tick

Spec == Init /\ [][Next]_<<clock, rows, receipts>>
================================================================================
