------------------------------- MODULE MCLapse -------------------------------
(***************************************************************************)
(* Lapse for TLC: credentials and terms small enough for the clock to pass *)
(* all of them.                                                            *)
(***************************************************************************)
EXTENDS LapseRefinement, TLC

CONSTANTS h1, d1, d2, i1, i2, weak, strong, cold

OneHolder == {h1}
OneDigest == {d1}
TwoDigests == {d1, d2}

Credential(i, from, expires) ==
  [id |-> i, holder |-> h1, from |-> from, expires |-> expires]

\* A renewal before the end, so that a revocation leaves the earlier one.
Overlapping == {Credential(i1, 0, 1), Credential(i2, 0, 3)}
\* A renewal issued under the id it renews.
Reissued == {Credential(i1, 0, 1), Credential(i1, 0, 3)}

TwoTerms == {weak, strong}
WeakAndCold == {weak, cold}
Windows == [t \in Terms |-> CASE t = weak -> 1 [] t = strong -> 2 [] t = cold -> 1]
Graces == [t \in Terms |-> IF t = weak THEN {"download"} ELSE {"download", "erase"}]
Afters == [t \in Terms |-> IF t = cold THEN "keep" ELSE "erase"]

\* Digests are interchangeable, terms and credentials are not.
Symmetric == Permutations({d1, d2})
=============================================================================
