--------------------------- MODULE SidecarLockImpl ---------------------------
(***************************************************************************)
(* The lock file protocol of SidecarLock implements LockService: the file  *)
(* at the lock path is the lock, owned by the process whose task made it;  *)
(* a process is inside while an entry is registered and not being          *)
(* released.                                                               *)
(***************************************************************************)
EXTENDS SidecarLock

CONSTANTS Unowned, Stale

ASSUME OwnerAssumption ==
  Unowned \notin Procs /\ Stale \notin Procs /\ Unowned # Stale

Owner ==
  IF file = NoRecord THEN Unowned
  ELSE IF MakerUp(file) THEN Home[maker[file]] ELSE Stale

Inside == {p \in up : mgr[p].held # NoRecord /\ ~Releasing(p)}

Service == INSTANCE LockService WITH Users <- Procs, lock <- Owner, inside <- Inside

\* One process at a time owns the lock and is inside, and the lock of a crashed
\* process is free again only by an approved removal: through stale recovery,
\* failed releases and crashes (sidecar-lock.md:594-606).
KeepsService == Service!Spec

(* The scheduling that recovery needs, for liveness.                        *)

\* Started work goes on; in the long run the caller's policies judge a record
\* stale and approve its removal, and a task that keeps coming to a free guard
\* takes it.
Fairness ==
  \A t \in Tasks :
    /\ WF_vars(AcquireStep(t) \/ ReclaimStep(t) \/ ReleaseStep(t))
    /\ SF_vars(Inspect(t) /\ task'[t].pc = "recheck")
    /\ SF_vars(TakeGuard(t) /\ guardDir')
    /\ SF_vars(Approve(t) /\ task'[t].pc = "confirm")

FairSpec == Spec /\ Fairness

\* The record of a process that crashed is removed, as long as somebody keeps
\* running into it (sidecar-lock.md:594-598).
StaleRecovered ==
  \A r \in Records :
    []<>(\E t \in Tasks : At(t, "inspect"))
      => ((file = r /\ r \in whole /\ ~MakerUp(r)) ~> file # r)
==============================================================================
