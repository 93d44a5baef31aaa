----------------------------- MODULE MCRevocation -----------------------------
(* Revocation for TLC: two brokers, one of them pinned. *)
EXTENDS Revocation, TLC

CONSTANTS i1, i2, e1, e2

TwoIssuers == {i1, i2}
OneIssuer == {i1}
OneId == {e1}
TwoIds == {e1, e2}
===============================================================================
