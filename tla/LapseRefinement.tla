---------------------------- MODULE LapseRefinement ----------------------------
(***************************************************************************)
(* Lapse seen from outside: the clock, what each holder paid for, and what *)
(* is retained under which terms. Credentials, their revocation, the lapse *)
(* rows, grants and the sweep's lists are inside and are not seen.         *)
(***************************************************************************)
EXTENDS Lapse

Promised == INSTANCE Tenancy WITH kept <- snapshots

\* The operator keeps the terms it published: each of its steps is one of
\* Tenancy's or is not seen at all. Revoking, ageing out, carrying over and
\* adopting never bring a snapshot's end forward, a grant lets nothing in once
\* it ran out, a commit never puts a snapshot under other terms, and what its
\* terms keep for good is never given up. (Preflight's gate, the check a commit
\* starts with, the list of step (0) of the sweep.)
TenancyKept == Promised!Spec
================================================================================
