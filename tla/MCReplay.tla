------------------------------- MODULE MCReplay -------------------------------
(* Replay for TLC: copies of one request in two handlers, and units of time *)
(* small enough for every one of them to be used.                           *)
EXTENDS Replay, TLC

CONSTANTS a, b, n, h1, h2

TwoHolders == {a, b}
OneHolder == {a}
OneNonce == {n}
TwoHandlers == {h1, h2}
AllSkews == {1, 6}
EitherSide == {9, 11}
OnePoll == {2}
================================================================================
