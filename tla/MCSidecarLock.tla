---------------------------- MODULE MCSidecarLock ----------------------------
(* Instances of SidecarLock for TLC.                                        *)
EXTENDS SidecarLockImpl, TLC

CONSTANTS p1, p2, p3, t1, t2, t3, r1, r2, r3

TwoProcesses   == {p1, p2}
ThreeProcesses == {p1, p2, p3}
ThreeTasks     == {t1, t2, t3}
TwoRecords     == {r1, r2}
ThreeRecords   == {r1, r2, r3}

\* A task in each process; or two tasks and a rival process.
Apart    == t1 :> p1 @@ t2 :> p2 @@ t3 :> p3
Shared   == t1 :> p1 @@ t2 :> p1 @@ t3 :> p2

Strangers == [t \in Tasks |-> NoOwner]
TwoOfUs   == [t \in Tasks |-> IF t = t3 THEN NoOwner ELSE "owner"]

Failures     == {"error", "crash"}
Drains       == {"crash", "drain"}
Interrupts   == {"error", "crash", "reset", "exit"}

Symmetry == Permutations(Records)
=============================================================================
