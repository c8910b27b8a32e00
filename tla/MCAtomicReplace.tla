--------------------------- MODULE MCAtomicReplace ---------------------------
(* Instances of AtomicReplace for TLC.                                      *)
EXTENDS AtomicReplace, TLC

CONSTANTS c1, c2, p1, p2, i1, i2, i3, i4, i5

TwoCalls     == {c1, c2}
TwoProcesses == {p1, p2}
FiveInodes   == {i1, i2, i3, i4, i5}

Plain   == [fallback |-> "none", sync |-> FALSE, dir |-> "none", locked |-> FALSE, active |-> FALSE]
Durable == [fallback |-> "none", sync |-> TRUE, dir |-> "strict", locked |-> FALSE, active |-> TRUE]
Locked  == [fallback |-> "none", sync |-> TRUE, dir |-> "best", locked |-> TRUE, active |-> FALSE]
Copies  == [fallback |-> "remove", sync |-> FALSE, dir |-> "best", locked |-> FALSE, active |-> TRUE]
Restores == [fallback |-> "restore", sync |-> TRUE, dir |-> "strict", locked |-> FALSE, active |-> TRUE]
Silently == [Copies EXCEPT !.active = FALSE]

Together == c1 :> p1 @@ c2 :> p1
Apart    == c1 :> p1 @@ c2 :> p2

SetupOf(home, x, y, exists) == [home |-> home, opt |-> c1 :> x @@ c2 :> y, exists |-> exists,
                               refuses |-> FALSE]
Stuck(s) == [s EXCEPT !.refuses = TRUE]

MCSetups ==
  {SetupOf(Together, x, y, TRUE) : x \in {Durable, Restores}, y \in {Plain, Copies}}
  \cup {SetupOf(Apart, Restores, Copies, TRUE)}
  \cup {SetupOf(Apart, x, x, TRUE) : x \in {Locked, Durable}}
  \cup {SetupOf(Apart, Restores, Silently, FALSE), SetupOf(Together, Copies, Plain, FALSE),
        Stuck(SetupOf(Apart, Restores, Plain, TRUE)), Stuck(SetupOf(Together, Restores, Copies, TRUE))}

AllFaults == {"error", "revoke", "intruder", "crash", "exit", "power"}
=============================================================================
