----------------------------- MODULE LockService -----------------------------
(***************************************************************************)
(* What a file lock promises its users: one of them owns it, only the      *)
(* owner is inside, and the lock of an owner that died without releasing   *)
(* it stays until it is recovered.                                         *)
(***************************************************************************)
CONSTANTS Users, Unowned, Stale

VARIABLES
  lock,   \* its owner, or Unowned, or Stale
  inside  \* the users that believe to hold it

Init == lock = Unowned /\ inside = {}

Take(u)    == lock = Unowned /\ lock' = u /\ inside' \in {{}, {u}}
Enter(u)   == lock = u /\ inside' = {u} /\ UNCHANGED lock
Leave(u)   == lock = u /\ inside' = {} /\ UNCHANGED lock
Release(u) == lock = u /\ lock' = Unowned /\ inside' = {}
Die(u)     == lock = u /\ lock' = Stale /\ inside' = {}
Recover    == lock = Stale /\ lock' = Unowned /\ UNCHANGED inside

Next == \/ \E u \in Users : Take(u) \/ Enter(u) \/ Leave(u) \/ Release(u) \/ Die(u)
        \/ Recover

Spec == Init /\ [][Next]_<<lock, inside>>
==============================================================================
