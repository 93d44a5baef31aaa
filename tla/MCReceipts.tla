------------------------------ MODULE MCReceipts ------------------------------
(***************************************************************************)
(* Receipts for TLC: two references, two terms documents, and windows the  *)
(* clock passes.                                                           *)
(***************************************************************************)
EXTENDS ReceiptsRefinement, TLC

CONSTANTS d1, d2, t1, t2, o1, o2, r1, r2

OneDigest == {d1}
TwoDigests == {d1, d2}
OneTerms == {t1}
TwoTerms == {t1, t2}
OneOp == {o1}
TwoOps == {o1, o2}
OneRequest == {r1}
TwoRequests == {r1, r2}
Nothing == {}

Symmetric == Permutations({d1, d2}) \cup Permutations({t1, t2})
               \cup Permutations({r1, r2})
===============================================================================
