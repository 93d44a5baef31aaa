-------------------------------- MODULE Tenancy --------------------------------
(***************************************************************************)
(* What an operator that charges promises, with no credential, table,      *)
(* revocation or sweep in it: paying is the only thing that moves the      *)
(* moment a holder is paid up to, something new is retained only while     *)
(* they are paid up or a grant they drew then still lasts, the terms it    *)
(* is retained under never change, and what they do not take back          *)
(* themselves is given up only by those terms: when they say that it goes, *)
(* after their notice and grace.                                           *)
(***************************************************************************)
EXTENDS Naturals

CONSTANTS Holders, Digests, Terms, Window, AfterGrace, GrantLife, MaxExpiry

VARIABLES
  clock,
  paid,    \* the moment each holder is paid up to
  kept     \* the terms a snapshot is retained under, or what became of it

References == Holders \X Digests

KeptOf(h) == {k \in References : k[1] = h /\ kept[k] \in Terms}

Init == /\ clock = 0
        /\ paid = [h \in Holders |-> 0]
        /\ kept = [k \in References |-> "absent"]

\* Nobody pays for the past.
Pay(h, until) == /\ paid[h] < until
                 /\ clock <= until
                 /\ paid' = [paid EXCEPT ![h] = until]
                 /\ UNCHANGED <<clock, kept>>

Retain(k, t) == /\ kept[k] \notin Terms
                /\ clock < paid[k[1]] + GrantLife
                /\ kept' = [kept EXCEPT ![k] = t]
                /\ UNCHANGED <<clock, paid>>

\* One snapshot, or everything the holder has.
TakeBack(back) == /\ kept' = [k \in References |-> IF k \in back THEN "absent" ELSE kept[k]]
                  /\ UNCHANGED <<clock, paid>>

GiveUp(k) == /\ kept[k] \in Terms
             /\ AfterGrace[kept[k]] = "erase"
             /\ clock >= paid[k[1]] + Window[kept[k]]
             /\ kept' = [kept EXCEPT ![k] = "expired"]
             /\ UNCHANGED <<clock, paid>>

Tick == clock' = clock + 1 /\ UNCHANGED <<paid, kept>>

Next == \/ \E h \in Holders, until \in 0 .. MaxExpiry : Pay(h, until)
        \/ \E k \in References, t \in Terms : Retain(k, t)
        \/ \E h \in Holders : \E back \in {KeptOf(h)} \cup {{k} : k \in KeptOf(h)} :
             TakeBack(back)
        \/ \E k \in References : GiveUp(k)
        \/ Tick

Spec == Init /\ [][Next]_<<clock, paid, kept>>
================================================================================
