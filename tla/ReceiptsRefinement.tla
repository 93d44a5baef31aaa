--------------------------- MODULE ReceiptsRefinement ---------------------------
(***************************************************************************)
(* Receipts seen from outside: the clock, what became of each digest, and  *)
(* the receipts. Grants, outcomes, what was published, handlers, locks and *)
(* the sweep's place are inside and are not seen.                          *)
(***************************************************************************)
EXTENDS Receipts

Promised == INSTANCE Evidence

\* The operator can show what it erased: each of its steps is one of Evidence's
\* or is not seen at all. No upload, retry, restart or order of the sweep's
\* statements signs for what was not retained, signs twice for one moment, drops
\* a receipt within its window or ahead of an older one, or forgets an erasure
\* that a receipt still tells of. (erasures.rs, sweep.rs steps 6 to 8.)
EvidenceKept == Promised!Spec
=================================================================================
