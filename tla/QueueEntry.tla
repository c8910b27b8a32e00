----------------------------- MODULE QueueEntry -----------------------------
(***************************************************************************)
(* What one id of the durable queue promises, without files: at most one   *)
(* pending generation, replaced by a later enqueue; at most one claim,     *)
(* which an enqueue never touches; and create-only failed evidence.        *)
(***************************************************************************)
EXTENDS Naturals

VARIABLES
  pending,  \* the pending generation, or 0
  claimed,  \* the claimed generation, or 0
  evidence, \* the quarantined generation, or 0
  latest    \* the last generation enqueued

entry == <<pending, claimed, evidence, latest>>

Init == pending = 0 /\ claimed = 0 /\ evidence = 0 /\ latest = 0

Enqueue ==
  /\ latest' = latest + 1
  /\ pending' = latest'
  /\ UNCHANGED <<claimed, evidence>>

Claim ==
  /\ pending # 0 /\ claimed = 0
  /\ claimed' = pending
  /\ pending' = 0
  /\ UNCHANGED <<evidence, latest>>

Acknowledge ==
  /\ claimed # 0
  /\ claimed' = 0
  /\ UNCHANGED <<pending, evidence, latest>>

Quarantine ==
  /\ claimed # 0 /\ evidence = 0
  /\ evidence' = claimed
  /\ claimed' = 0
  /\ UNCHANGED <<pending, latest>>

Next == Enqueue \/ Claim \/ Acknowledge \/ Quarantine

Spec == Init /\ [][Next]_entry
=============================================================================
