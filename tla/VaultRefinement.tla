--------------------------- MODULE VaultRefinement ---------------------------
(***************************************************************************)
(* The vault seen from outside: what a row says, and whether the bytes at  *)
(* its destination are the ones it names. Directories under incoming/,     *)
(* grants, locks and work lists are inside and are not seen.               *)
(***************************************************************************)
EXTENDS Vault

Told == [k \in Keys |-> IF Live(k) THEN "retained" ELSE snapshots[k]]

Possessed == {k \in Keys : Verified(dest[k])}

Promised == INSTANCE Retention WITH status <- Told, bytes <- Possessed

\* The vault keeps the promise: each of its steps is one of Retention's or is
\* not seen at all. A row is never live over bytes that are not there, an
\* erasure is seen whole or not at all, and every removal of bytes, by an
\* erasure, the sweep or a commit, is of bytes nobody is told are retained.
\* (The order of writes in commit and erase, and the locks in steps 3 and 4
\* of the sweep.)
PromiseKept == Promised!Spec
==============================================================================
