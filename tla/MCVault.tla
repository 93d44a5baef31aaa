------------------------------ MODULE MCVault -------------------------------
(***************************************************************************)
(* Vault for TLC: what the values of the constants of a run are built from.*)
(***************************************************************************)
EXTENDS VaultRefinement, TLC

CONSTANTS h1, d1, d2, u1, u2, c1, c2, r1, r2

OneHolder == {h1}
OneDigest == {d1}
TwoDigests == {d1, d2}
OneUpload == {u1}
TwoUploads == {u1, u2}
OneChunk == {c1}
TwoChunks == {c1, c2}
OneRequest == {r1}
TwoRequests == {r1, r2}

EveryOp == AllOps
WritingOps == {"put", "commit", "erase"}
AnyPayload == {"good", "bad"}
GoodPayload == {"good"}

\* Digests, upload ids, chunks and request slots are interchangeable.
Symmetric == Permutations({d1, d2}) \cup Permutations({u1, u2})
               \cup Permutations({c1, c2}) \cup Permutations({r1, r2})
=============================================================================
