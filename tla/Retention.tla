------------------------------ MODULE Retention ------------------------------
(***************************************************************************)
(* What the vault promises its holders, with no handler, lock or file in   *)
(* it: bytes come before the word "retained", the word stands until the    *)
(* holder takes it back, an erasure is of one snapshot or of all of them   *)
(* at once, and bytes go only when nobody is told that they are retained.  *)
(* It keeps no more than the quota and loses nothing.                      *)
(***************************************************************************)
EXTENDS Naturals, FiniteSets

CONSTANTS Holders, Digests, MaxRetained

VARIABLES
  status,   \* what the holder is told of each reference
  bytes     \* the references whose verified bytes are held

References == Holders \X Digests

RetainedOf(h) == {k \in References : k[1] = h /\ status[k] = "retained"}

Init == /\ status = [k \in References |-> "never"]
        /\ bytes = {}

\* Bytes that are nobody's yet are taken in.
Receive(k) == /\ status[k] # "retained"
              /\ k \notin bytes
              /\ bytes' = bytes \cup {k}
              /\ UNCHANGED status

\* The holder is told, of bytes that are there, within the quota.
Retain(k) == /\ status[k] # "retained"
             /\ k \in bytes
             /\ Cardinality(RetainedOf(k[1])) < MaxRetained
             /\ status' = [status EXCEPT ![k] = "retained"]
             /\ UNCHANGED bytes

\* One snapshot, or everything of the holder's in one step.
Erase(h) ==
  \E doomed \in {RetainedOf(h)} \cup {{k} : k \in RetainedOf(h)} :
    /\ status' = [k \in References |-> IF k \in doomed THEN "erased" ELSE status[k]]
    /\ UNCHANGED bytes

\* Bytes go when nobody is told they are retained.
Dispose(k) == /\ status[k] # "retained"
              /\ k \in bytes
              /\ bytes' = bytes \ {k}
              /\ UNCHANGED status

Next == \/ \E k \in References : Receive(k) \/ Retain(k) \/ Dispose(k)
        \/ \E h \in Holders : Erase(h)

Spec == Init /\ [][Next]_<<status, bytes>>
==============================================================================
