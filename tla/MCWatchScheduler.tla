-------------------------- MODULE MCWatchScheduler --------------------------
(* Instances of WatchScheduler for TLC.                                     *)
EXTENDS WatchScheduler, TLC

CONSTANTS a, b, c1, c2

TwoNames == {a, b}
TwoCalls == {c1, c2}

\* The scopes are narrowed, and everything is watched again.
Narrowed == 0 :> {a, b} @@ 1 :> {b}
=============================================================================
