-------------------------- MODULE DurableQueueImpl --------------------------
(***************************************************************************)
(* The file protocol of DurableQueue implements QueueEntry.  The claim is  *)
(* taken by link(<id>.json, <id>.processing), given up by the rename to    *)
(* .delivered or the link into the failed directory, and the pending       *)
(* generation is in the retirement record while it is put back.            *)
(***************************************************************************)
EXTENDS DurableQueue

Pending ==
  IF fs["json"] \notin {None, fs["processing"]} THEN Gen("json")
  ELSE IF fs["json"] = None /\ fs["entry"] # fs["processing"] THEN Gen("entry")
  ELSE 0

Claimant == IF fs["processing"] = fs["failed"] THEN 0 ELSE Gen("processing")

Promise ==
  INSTANCE QueueEntry
    WITH pending <- Pending, claimed <- Claimant,
         evidence <- Gen("failed"), latest <- nextGen - 1

\* The files behave as one entry of the queue should, through sync failures,
\* refused links and crashes of the consumer: an interrupted retirement never
\* brings a claimed generation back or drops the one pending behind it.  A power
\* loss may take back names that were not synced; what it leaves is again an entry.
KeepsPromise == Promise!Init /\ [][Promise!Next \/ PowerLoss]_Promise!entry

\* The transfer lock is used as the lock service allows: a consumer is in a
\* transition only as the owner, leaves before or with the release, and the lock
\* of a dead owner is freed by recovery alone (json-durable-queue-ownership.ts:436-451).
Inside == {c \in Consumers : pc[c] \notin Unlocked}

Service == INSTANCE LockService WITH Users <- Consumers, Unowned <- None, inside <- Inside

UsesLock == Service!Spec

(* The scheduling a worker needs, for liveness.                             *)

\* A worker acts on what it loaded, and loads only when it has nothing.
WorkerCall(c) ==
  \/ got[c] = 0 /\ (Load(c) \/ LoadPending(c))
  \/ got[c] # 0 /\ (Ack(c) \/ MoveToFailed(c))

WorkerNext ==
  \/ \E p \in Producers : Publish(p) \/ ProducerStep(p) \/ ProducerCrash(p)
  \/ \E c \in Consumers : WorkerCall(c) \/ ConsumerStep(c) \/ Crash(c)
  \/ RemoveStaleLock

Fairness ==
  /\ \A p \in Producers : WF_vars(ProducerStep(p))
  /\ \A c \in Consumers :
       /\ WF_vars(ConsumerStep(c))
       /\ WF_vars(WorkerCall(c))
       /\ SF_vars(Load(c))
       /\ SF_vars(AcquireLock(c))
       /\ SF_vars(CallbackReturns(c))
  /\ WF_vars(RemoveStaleLock)

WorkerSpec == Init /\ [][WorkerNext]_vars /\ Fairness

\* Every enqueued entry is settled in the end: acknowledged, kept as failed
\* evidence, or replaced while pending by a later enqueue.
EventuallySettled ==
  \A g \in Gens :
    g \in published ~> (g \in acked \/ Gen("failed") = g \/ ~Present(g))
=============================================================================
