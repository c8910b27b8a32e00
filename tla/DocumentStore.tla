---------------------------- MODULE DocumentStore ----------------------------
(***************************************************************************)
(* The JSON document store (json-document-store.ts) with the in-process    *)
(* queue of each path (write-queue.ts) and a file lock for the processes.  *)
(* Calls are the invocations of write, update and updateOr; a call may be  *)
(* made by the updater of another one, which may or may not await it.      *)
(*                                                                         *)
(* A document is the set of updates its value includes; the replacement of *)
(* the file is one step.  The lock is LockService, which SidecarLock keeps.*)
(***************************************************************************)
EXTENDS Naturals, Sequences, FiniteSets

CONSTANTS
  Procs,
  Calls,
  Paths,     \* canonical paths of documents
  Shapes,    \* who calls what: the programs to consider
  NoCall,
  Free,      \* a lock nobody owns
  Stale,     \* a lock whose owner died
  Recovery,  \* the staleRecovery option
  MaxFaults  \* bound: failed operations and crashes in a behaviour

Shape == [home: [Calls -> Procs], path: [Calls -> Paths],
          kind: [Calls -> {"write", "update"}], parent: [Calls -> Calls \cup {NoCall}],
          awaited: SUBSET Calls, locked: BOOLEAN]

ASSUME StoreAssumption ==
  /\ IsFiniteSet(Calls) /\ Shapes \subseteq Shape
  /\ NoCall \notin Calls /\ Free \notin Calls /\ Stale \notin Calls /\ Free # Stale
  /\ Recovery \in {"fail-closed", "remove-if-unchanged"}
  /\ MaxFaults \in Nat
  /\ \A s \in Shapes, c \in Calls :
       s.parent[c] # NoCall => /\ s.kind[s.parent[c]] = "update"
                               /\ s.home[s.parent[c]] = s.home[c]

VARIABLES
  shape,  \* the program of this behaviour; never changes
  pc,     \* where each call is
  ok,     \* whether the body of a call succeeded
  ctx,    \* the mutation tokens in the asynchronous context of a call's body
  seen,   \* the document its updater was given
  queue,  \* writeQueues of each process: the calls of a path in order
  lock,   \* the owner of the lock of each path
  doc,    \* the documents
  up,     \* the processes that run
  faults  \* faults so far

vars == <<shape, pc, ok, ctx, seen, queue, lock, doc, up, faults>>

Home(c)   == shape.home[c]
Path(c)   == shape.path[c]
Parent(c) == shape.parent[c]

Body    == {"read", "run", "write"}
\* The token of a call is active: its queue turn has begun and not ended.
Running == {"lock", "release"} \cup Body
Settled == {"done", "failed", "rejected", "dead"}

-----------------------------------------------------------------------------
(* Parts of the steps.                                                     *)

\* activeStoreMutations.getStore() where the call is made.
Inherited(c) == IF Parent(c) = NoCall THEN {} ELSE ctx[Parent(c)]

Active(a) == pc[a] \in Running

\* Fault seeded in Reentrant: the token's active flag is not looked at.
ReentrantForever(c) == \E a \in Inherited(c) : Path(a) = Path(c)

\* The call was made inside an update of its own path.
Reentrant(c) == \E a \in Inherited(c) : Active(a) /\ Path(a) = Path(c)

\* Fault seeded in Context: the tokens of outer updates are not carried on.
ContextOfOne(c) == {c}

\* mutationPaths of the body.
Context(c) == {a \in Inherited(c) : Active(a)} \cup {c}

Enqueue(c) == queue' = [queue EXCEPT ![Home(c)][Path(c)] = Append(@, c)]

\* Fault seeded in Leave: a failed call does not let the next one go on.
LeaveIfOk(c) ==
  IF ok[c] THEN queue' = [queue EXCEPT ![Home(c)][Path(c)] = Tail(@)] ELSE UNCHANGED queue

\* The promise of the call settles, and the next in its queue may begin.
Leave(c) == queue' = [queue EXCEPT ![Home(c)][Path(c)] = Tail(@)]

\* Fault seeded in MyTurn: calls do not wait for the one before them.
MyTurnAlways(c) == TRUE

MyTurn(c) == Head(queue[Home(c)][Path(c)]) = c

Go(c, to) == pc' = [pc EXCEPT ![c] = to]
Fault     == faults < MaxFaults /\ faults' = faults + 1

-----------------------------------------------------------------------------
(* A call.                                                                 *)

\* A child is called by the updater of its parent; one that is not awaited may
\* be called later, for timers and promises keep the context of the updater.
Called(c) ==
  /\ pc[c] = "idle" /\ Home(c) \in up
  /\ Parent(c) # NoCall =>
       \/ pc[Parent(c)] = "run"
       \/ c \notin shape.awaited /\ pc[Parent(c)] \in {"write", "release", "done", "failed"}
  /\ Go(c, "resolve")
  /\ UNCHANGED <<shape, ok, ctx, seen, queue, lock, doc, up, faults>>

\* After canonicalPathFromExistingAncestor.
Admit(c) ==
  /\ pc[c] = "resolve"
  /\ IF Reentrant(c) THEN Go(c, "rejected") /\ UNCHANGED queue
                     ELSE Go(c, "queued") /\ Enqueue(c)
  /\ UNCHANGED <<shape, ok, ctx, seen, lock, doc, up, faults>>

BodyStart(c) == IF shape.kind[c] = "update" THEN "read" ELSE "write"

Begin(c) ==
  /\ pc[c] = "queued" /\ MyTurn(c)
  /\ ctx' = [ctx EXCEPT ![c] = Context(c)]
  /\ Go(c, IF shape.locked THEN "lock" ELSE BodyStart(c))
  /\ UNCHANGED <<shape, ok, seen, queue, lock, doc, up, faults>>

Acquire(c) ==
  /\ pc[c] = "lock"
  /\ \/ lock[Path(c)] = Free
     \/ lock[Path(c)] = Stale /\ Recovery = "remove-if-unchanged"
  /\ lock' = [lock EXCEPT ![Path(c)] = IF @ = Free THEN c ELSE Free]
  /\ Go(c, IF lock[Path(c)] = Free THEN BodyStart(c) ELSE "lock")
  /\ UNCHANGED <<shape, ok, ctx, seen, queue, doc, up, faults>>

\* file_lock_timeout, file_lock_stale.
LockTimeout(c) ==
  /\ pc[c] = "lock" /\ lock[Path(c)] # Free
  /\ Go(c, "failed") /\ Leave(c)
  /\ UNCHANGED <<shape, ok, ctx, seen, lock, doc, up, faults>>

\* prepareLock or the lock's own operations fail.
LockFails(c) ==
  /\ pc[c] = "lock" /\ Fault
  /\ Go(c, "failed") /\ Leave(c)
  /\ UNCHANGED <<shape, ok, ctx, seen, lock, doc, up>>

Read(c) ==
  /\ pc[c] = "read"
  /\ seen' = [seen EXCEPT ![c] = doc[Path(c)]]
  /\ Go(c, "run")
  /\ UNCHANGED <<shape, ok, ctx, queue, lock, doc, up, faults>>

\* The updater returns once the calls it awaits have settled.
Updater(c) ==
  /\ pc[c] = "run"
  /\ \A d \in shape.awaited : Parent(d) = c => pc[d] \in Settled
  /\ Go(c, "write")
  /\ UNCHANGED <<shape, ok, ctx, seen, queue, lock, doc, up, faults>>

Throw(c) ==
  /\ pc[c] = "run"
  /\ Go(c, "release")
  /\ UNCHANGED <<shape, ok, ctx, seen, queue, lock, doc, up, faults>>

Value(c) == IF shape.kind[c] = "update" THEN seen[c] \cup {c} ELSE {c}

Write(c) ==
  /\ pc[c] = "write"
  /\ doc' = [doc EXCEPT ![Path(c)] = Value(c)]
  /\ ok' = [ok EXCEPT ![c] = TRUE]
  /\ Go(c, "release")
  /\ UNCHANGED <<shape, ctx, seen, queue, lock, up, faults>>

\* A read fails, or a write before or after the file was replaced.
BodyFails(c) ==
  /\ pc[c] \in {"read", "write"} /\ Fault
  /\ \/ UNCHANGED doc
     \/ pc[c] = "write" /\ doc' = [doc EXCEPT ![Path(c)] = Value(c)]
  /\ Go(c, "release")
  /\ UNCHANGED <<shape, ok, ctx, seen, queue, lock, up>>

\* withLock releases, the token becomes inactive and the call settles.
Release(c) ==
  /\ pc[c] = "release"
  /\ lock' = IF shape.locked THEN [lock EXCEPT ![Path(c)] = Free] ELSE lock
  /\ Go(c, IF ok[c] THEN "done" ELSE "failed") /\ Leave(c)
  /\ UNCHANGED <<shape, ok, ctx, seen, doc, up, faults>>

\* The lock file stays, and the call rejects although its value is written.
ReleaseFails(c) ==
  /\ pc[c] = "release" /\ shape.locked /\ Fault
  /\ Go(c, "failed") /\ Leave(c)
  /\ UNCHANGED <<shape, ok, ctx, seen, lock, doc, up>>

Crash(h) ==
  /\ h \in up /\ Fault
  /\ up' = up \ {h}
  /\ pc' = [c \in Calls |-> IF Home(c) = h /\ pc[c] \notin Settled THEN "dead" ELSE pc[c]]
  /\ queue' = [queue EXCEPT ![h] = [p \in Paths |-> <<>>]]
  /\ lock' = [p \in Paths |-> IF lock[p] \in Calls /\ Home(lock[p]) = h
                              THEN Stale ELSE lock[p]]
  /\ UNCHANGED <<shape, ok, ctx, seen, doc>>

-----------------------------------------------------------------------------

Init ==
  /\ shape \in Shapes
  /\ pc = [c \in Calls |-> "idle"]
  /\ ok = [c \in Calls |-> FALSE]
  /\ ctx = [c \in Calls |-> {}]
  /\ seen = [c \in Calls |-> {}]
  /\ queue = [h \in Procs |-> [p \in Paths |-> <<>>]]
  /\ lock = [p \in Paths |-> Free]
  /\ doc = [p \in Paths |-> {}]
  /\ up = Procs
  /\ faults = 0

\* What goes on by itself once a call is made.
Proceed(c) ==
  \/ Admit(c) \/ Begin(c) \/ Acquire(c) \/ LockTimeout(c) \/ Read(c)
  \/ Updater(c) \/ Write(c) \/ Release(c)

Upset(c) == Throw(c) \/ LockFails(c) \/ BodyFails(c) \/ ReleaseFails(c)

Next == \/ \E c \in Calls : Called(c) \/ Proceed(c) \/ Upset(c)
        \/ \E h \in Procs : Crash(h)

Spec == Init /\ [][Next]_vars

\* Promises settle, the file system answers, a lock attempt ends at its timeout,
\* and an updater makes the calls it awaits.
FairSpec ==
  /\ Spec
  /\ \A c \in Calls : WF_vars(Proceed(c)) /\ WF_vars(c \in shape.awaited /\ Called(c))

-----------------------------------------------------------------------------
(* Properties.                                                             *)

\* The calls around c, outwards through those of S: whose updater made it, the
\* updater of that one, and so on.
Around(c, S) ==
  LET reached[n \in 0..Cardinality(Calls)] ==
        IF n = 0 THEN {c}
        ELSE reached[n-1] \cup ({Parent(d) : d \in reached[n-1] \cap S} \ {NoCall})
  IN  reached[Cardinality(Calls)] \ {c}

Above(c)    == Around(c, Calls)
\* Those of them that cannot end before c does.
Awaiting(c) == Around(c, shape.awaited)

\* The processes that change a document use its lock, or there is only one.
Coordinated(p) ==
  \/ shape.locked
  \/ \E h \in Procs : \A c \in Calls : Path(c) = p => Home(c) = h

\* "The whole read -> run -> write sequence is serialized": an update that
\* resolved is part of the document, whatever other calls read, ran and wrote
\* meanwhile, until a plain write replaces the document.
NoLostUpdate ==
  \A c \in Calls :
    pc[c] = "done" /\ shape.kind[c] = "update" /\ Coordinated(Path(c))
      => \/ c \in doc[Path(c)]
         \/ \E w \in doc[Path(c)] : shape.kind[w] = "write"

NoSelfWait ==
  \A c \in Calls : pc[c] = "queued"
    => \A a \in Awaiting(c) : ~(Active(a) /\ Path(a) = Path(c))

RejectedOnlyInside ==
  \A c \in Calls : pc'[c] = "rejected" /\ pc[c] # "rejected"
       => \E a \in Above(c) : Active(a) /\ Path(a) = Path(c)

\* store-reentrant-update is thrown for the calls that would wait for themselves
\* and for no others: no call is queued behind an update that waits for it, and a
\* context that outlives its update rejects nothing.
ReentrantRejected == [][NoSelfWait' /\ RejectedOnlyInside]_vars

\* Two programs of one process that nest the same two paths in opposite order.
Nests(p, q, h) ==
  \E c \in Calls : /\ Home(c) = h /\ Path(c) = q
                   /\ \E a \in Awaiting(c) : Path(a) = p
                   /\ \A a \in Above(c) : Path(a) # q
Crossed == \E h \in Procs, p, q \in Paths : p # q /\ Nests(p, q, h) /\ Nests(q, p, h)

\* Every call settles, failures, timeouts and crashes included, unless one process
\* nests updates of two paths in opposite orders: its queues have no timeout.
EverySettles ==
  \A c \in Calls : (pc[c] = "resolve" /\ ~Crossed) ~> (pc[c] \in Settled)
=============================================================================
