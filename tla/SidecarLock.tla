----------------------------- MODULE SidecarLock -----------------------------
(***************************************************************************)
(* One lock path of the asynchronous sidecar lock (sidecar-lock*.ts), on   *)
(* raw paths: the lock file and the reclaim guard directory that processes *)
(* share, the manager state of each process, and tasks that acquire and    *)
(* release.  A step is what happens between two awaits, or one file system *)
(* operation; so other tasks of the process come between awaits, and other *)
(* processes between operations.                                           *)
(*                                                                         *)
(* A record stands for the bytes of a lock file with the fresh ownership   *)
(* token in them; a record is whole once its last byte is written.         *)
(***************************************************************************)
EXTENDS Naturals, FiniteSets

CONSTANTS
  Procs,          \* operating system processes; one that ended never returns
  Tasks,          \* callers of acquire, release and drain
  Home,           \* the process of a task
  ReentrantOwner, \* the reentrantOwner option of a task, or NoOwner
  NoOwner,
  Nobody,         \* no task
  Records,        \* bound: lock files created in a behaviour
  NoRecord,       \* no lock file
  MaxFaults,      \* bound: failed operations and crashes in a behaviour
  Hardlinks,      \* whether the staged file can be linked or renamed in place
  Recovery,       \* the staleRecovery option
  Ops             \* what may happen besides acquire and release

ASSUME LockAssumption ==
  /\ Home \in [Tasks -> Procs]
  /\ ReentrantOwner \in [Tasks -> STRING \cup {NoOwner}]
  /\ Nobody \notin Tasks
  /\ NoRecord \notin Records
  /\ MaxFaults \in Nat
  /\ Hardlinks \in BOOLEAN
  /\ Recovery \in {"fail-closed", "remove-if-unchanged"}
  /\ Ops \subseteq {"error", "crash", "exit", "reset", "drain"}

VARIABLES
  file,     \* the record at lockPath
  whole,    \* the records that are written to the end
  maker,    \* the task that created a record
  guardDir, \* whether the directory <lockPath>.reclaim exists
  up,       \* the processes that run
  mgr,      \* the manager state of each process, for this path
  task,     \* the state of each task
  faults    \* faults so far

disk == <<file, whole, maker, guardDir>>
vars == <<disk, up, mgr, task, faults>>

-----------------------------------------------------------------------------
(* States of managers and tasks.                                           *)

\* held: the registered record; refs: its refCount; admitted: the owner of
\* the admission; guards: whether reclaimGuards has the guard's path.
Manager == [held: Records \cup {NoRecord}, refs: Nat,
            admitted: Tasks \cup {Nobody}, guards: BOOLEAN]

NewManager == [held |-> NoRecord, refs |-> 0, admitted |-> Nobody, guards |-> FALSE]

\* Between reserve() and the admission's release.
AdmittedSteps == {"create", "write", "created", "register", "inspect", "recheck",
                  "takeGuard", "guardMade", "approve", "confirm", "remove"}
\* With or without it, as the attempt failed or goes on.
CleanupSteps  == {"undo", "undoRm", "guardRm", "guardGone"}
\* releaseHeldLock's releasePromise is pending.
ReleaseSteps  == {"relCompare", "relRm", "relDone"}
Steps == {"idle", "loop", "holding"} \cup AdmittedSteps \cup CleanupSteps \cup ReleaseSteps

\* rec: the record created, or the one of the handle; seen: the snapshot under
\* stale admission; guard: the local variable reclaimGuard; then: where a
\* shared tail (guard release, cleanup, lock release) returns to; started:
\* the handle's releaseStarted.
Task == [pc: Steps, rec: Records \cup {NoRecord}, seen: Records \cup {NoRecord},
         guard: BOOLEAN, started: BOOLEAN,
         then: {"end", "wait", "register", "hold", "forced"}]

NewTask == [pc |-> "idle", rec |-> NoRecord, seen |-> NoRecord,
            guard |-> FALSE, started |-> FALSE, then |-> "end"]

Init ==
  /\ file = NoRecord
  /\ whole = {}
  /\ maker = [r \in Records |-> Nobody]
  /\ guardDir = FALSE
  /\ up = Procs
  /\ mgr = [p \in Procs |-> NewManager]
  /\ task = [t \in Tasks |-> NewTask]
  /\ faults = 0

At(t, s)    == Home[t] \in up /\ task[t].pc = s
Held(t)     == mgr[Home[t]].held
HasToken(t) == mgr[Home[t]].admitted = t
Freed(t)    == [mgr EXCEPT ![Home[t]].admitted = IF @ = t THEN Nobody ELSE @]
Goto(t, s)  == task' = [task EXCEPT ![t].pc = s]
Fault       == faults < MaxFaults /\ faults' = faults + 1
MakerUp(r)  == Home[maker[r]] \in up

\* The releasePromise of the held entry of p.
Releasing(p) ==
  \E t \in Tasks : /\ Home[t] = p /\ p \in up
                   /\ task[t].pc \in ReleaseSteps
                   /\ task[t].rec = mgr[p].held

-----------------------------------------------------------------------------
(* The ends of an attempt.                                                 *)

\* The guard is removed by rmdir, and what follows comes after its await.
DropGuard(t, next) == task' = [task EXCEPT ![t].pc = "guardRm", ![t].then = next]

\* An exception leaves the loop: finally releases guard and admission.
Throw(t) ==
  \/ task[t].guard /\ DropGuard(t, "end") /\ UNCHANGED mgr
  \/ ~task[t].guard /\ task' = [task EXCEPT ![t] = NewTask] /\ mgr' = Freed(t)

\* Fault seeded in Wait: the admission is kept for the next attempt.
WaitAdmitted(t) ==
  /\ UNCHANGED mgr
  /\ \/ task' = [task EXCEPT ![t] = [NewTask EXCEPT !.pc = "loop", !.guard = task[t].guard]]
     \/ task[t].guard /\ DropGuard(t, "end")
     \/ ~task[t].guard /\ task' = [task EXCEPT ![t] = NewTask]

\* waitForRetry: the admission is released, a guard is not; then another
\* attempt, or file_lock_timeout when the retries or the time are used up.
Wait(t) ==
  /\ mgr' = Freed(t)
  /\ \/ task' = [task EXCEPT ![t] = [NewTask EXCEPT !.pc = "loop", !.guard = task[t].guard]]
     \/ task[t].guard /\ DropGuard(t, "end")
     \/ ~task[t].guard /\ task' = [task EXCEPT ![t] = NewTask]

-----------------------------------------------------------------------------
(* Acquire: admission and creation of the lock file.                       *)

Call(t) ==
  /\ At(t, "idle")
  /\ Goto(t, "loop")
  /\ UNCHANGED <<disk, up, mgr, faults>>

Reentrant(t) ==
  /\ Held(t) # NoRecord
  /\ ReentrantOwner[t] # NoOwner
  /\ ReentrantOwner[maker[Held(t)]] = ReentrantOwner[t]

\* Fault seeded in Reuse: the reference is not counted.
ReuseUncounted(t) ==
  /\ At(t, "loop") /\ Reentrant(t) /\ ~Releasing(Home[t])
  /\ task' = [task EXCEPT ![t].rec = Held(t), ![t].then = "hold",
                          ![t].pc = IF task[t].guard THEN "guardRm" ELSE "holding"]
  /\ UNCHANGED <<disk, up, mgr, faults>>

\* reuseHeldLock, once a pending release of the entry has settled.
Reuse(t) ==
  /\ At(t, "loop") /\ Reentrant(t) /\ ~Releasing(Home[t])
  /\ mgr' = [mgr EXCEPT ![Home[t]].refs = @ + 1]
  /\ task' = [task EXCEPT ![t].rec = Held(t), ![t].then = "hold",
                          ![t].pc = IF task[t].guard THEN "guardRm" ELSE "holding"]
  /\ UNCHANGED <<disk, up, faults>>

\* One task of the process is admitted, and none while a guard of another
\* attempt exists.
Admit(t) ==
  /\ At(t, "loop") /\ ~Reentrant(t)
  /\ IF mgr[Home[t]].admitted # Nobody \/ (guardDir /\ ~task[t].guard)
     THEN Wait(t)
     ELSE /\ mgr' = [mgr EXCEPT ![Home[t]].admitted = t]
          /\ Goto(t, "create")
  /\ UNCHANGED <<disk, up, faults>>

\* After the payload callback: the token must be current and no other entry
\* held; a pending release of the entry is awaited.
CreateRefused(t) ==
  /\ At(t, "create")
  /\ \/ ~HasToken(t) /\ Throw(t)
     \/ HasToken(t) /\ Held(t) # NoRecord /\ ~Releasing(Home[t]) /\ Wait(t)
  /\ UNCHANGED <<disk, up, faults>>

MayCreate(t) == At(t, "create") /\ HasToken(t) /\ Held(t) = NoRecord

\* Fault seeded in CreateFile: the staged file is renamed over an existing one.
CreateFileOver(t) ==
  /\ MayCreate(t)
  /\ \E r \in Records :
       /\ maker[r] = Nobody
       /\ file' = r
       /\ maker' = [maker EXCEPT ![r] = t]
       /\ whole' = IF Hardlinks THEN whole \cup {r} ELSE whole
       /\ task' = [task EXCEPT ![t].rec = r,
                               ![t].pc = IF Hardlinks THEN "created" ELSE "write"]
  /\ UNCHANGED <<guardDir, up, mgr, faults>>

\* The staged file is published whole; without hardlinks the lock path is
\* opened O_EXCL and filled afterwards.
CreateFile(t) ==
  /\ MayCreate(t) /\ file = NoRecord
  /\ \E r \in Records :
       /\ maker[r] = Nobody
       /\ file' = r
       /\ maker' = [maker EXCEPT ![r] = t]
       /\ whole' = IF Hardlinks THEN whole \cup {r} ELSE whole
       /\ task' = [task EXCEPT ![t].rec = r,
                               ![t].pc = IF Hardlinks THEN "created" ELSE "write"]
  /\ UNCHANGED <<guardDir, up, mgr, faults>>

WriteFile(t) ==
  /\ At(t, "write")
  /\ whole' = whole \cup {task[t].rec}
  /\ Goto(t, "created")
  /\ UNCHANGED <<file, maker, guardDir, up, mgr, faults>>

\* A failed write or sync: createSidecarFile removes what it published.
WriteFails(t) ==
  /\ At(t, "write") /\ "error" \in Ops /\ Fault
  /\ task' = [task EXCEPT ![t].pc = "undo", ![t].then = "end"]
  /\ UNCHANGED <<disk, up, mgr>>

\* EEXIST: with an own guard another acquirer won the handoff, otherwise the
\* record may be stale.
CreateConflict(t) ==
  /\ MayCreate(t) /\ file # NoRecord
  /\ IF task[t].guard THEN DropGuard(t, "wait") ELSE Goto(t, "inspect")
  /\ UNCHANGED <<disk, up, mgr, faults>>

\* After creation: an unlinked file is no lock, and a guard is released before
\* the lock is registered.
Created(t) ==
  /\ At(t, "created")
  /\ \/ file # task[t].rec /\ Wait(t)
     \/ /\ file = task[t].rec /\ UNCHANGED mgr
        /\ \/ Held(t) # NoRecord
              /\ task' = [task EXCEPT ![t].pc = "undo", ![t].then = "wait"]
           \/ Held(t) = NoRecord /\ task[t].guard /\ DropGuard(t, "register")
           \/ Held(t) = NoRecord /\ ~task[t].guard /\ Goto(t, "register")
  /\ UNCHANGED <<disk, up, faults>>

Register(t) ==
  /\ At(t, "register")
  /\ IF HasToken(t) /\ Held(t) = NoRecord
     THEN /\ mgr' = [mgr EXCEPT ![Home[t]].held = task[t].rec, ![Home[t]].refs = 1,
                                ![Home[t]].admitted = Nobody]
          /\ Goto(t, "holding")
     ELSE /\ task' = [task EXCEPT ![t].pc = "undo", ![t].then = "wait"]
          /\ UNCHANGED mgr
  /\ UNCHANGED <<disk, up, faults>>

\* The catch block of a failed attempt removes the created file: it compares
\* the file with the record, and a later operation removes what is there.
AfterUndo(t) == IF task[t].then = "wait" THEN Wait(t) ELSE Throw(t)

UndoCompare(t) ==
  /\ At(t, "undo")
  /\ IF file = task[t].rec THEN Goto(t, "undoRm") /\ UNCHANGED mgr ELSE AfterUndo(t)
  /\ UNCHANGED <<disk, up, faults>>

UndoRemove(t) ==
  /\ At(t, "undoRm")
  /\ file' = NoRecord
  /\ AfterUndo(t)
  /\ UNCHANGED <<whole, maker, guardDir, up, faults>>

-----------------------------------------------------------------------------
(* Stale admission: an existing lock file is judged and maybe removed.     *)

\* What every await of the stale admission is followed by.
Boundary(t, step, next) ==
  /\ At(t, step)
  /\ \/ ~HasToken(t) /\ Throw(t)
     \/ HasToken(t) /\ Held(t) # NoRecord
        /\ IF task[t].guard THEN DropGuard(t, "wait") /\ UNCHANGED mgr ELSE Wait(t)
     \/ HasToken(t) /\ Held(t) = NoRecord /\ next

\* An absent or incomplete record is waited for; shouldReclaim judges a whole
\* one by its age or as the caller likes, a running owner or not.
Inspect(t) ==
  /\ Boundary(t, "inspect",
       \/ Wait(t)
       \/ /\ file \in whole /\ UNCHANGED mgr
          /\ task' = [task EXCEPT ![t].pc = "recheck", ![t].seen = file])
  /\ UNCHANGED <<disk, up, faults>>

\* Fault seeded in Recheck: recovery goes on without a guard.
RecheckUnguarded(t) ==
  /\ Boundary(t, "recheck",
       \/ file # task[t].seen /\ Wait(t)
       \/ file = task[t].seen /\ Recovery = "fail-closed" /\ Throw(t)
       \/ /\ file = task[t].seen /\ Recovery = "remove-if-unchanged"
          /\ Goto(t, "approve") /\ UNCHANGED mgr)
  /\ UNCHANGED <<disk, up, faults>>

\* The record is stale and still there: file_lock_stale, or recovery.
Recheck(t) ==
  /\ Boundary(t, "recheck",
       \/ file # task[t].seen /\ Wait(t)
       \/ file = task[t].seen /\ Recovery = "fail-closed" /\ Throw(t)
       \/ /\ file = task[t].seen /\ Recovery = "remove-if-unchanged"
          /\ Goto(t, "takeGuard") /\ UNCHANGED mgr)
  /\ UNCHANGED <<disk, up, faults>>

\* tryAcquireSidecarReclaimGuard: mkdir, and the set after its await.
TakeGuard(t) ==
  /\ At(t, "takeGuard")
  /\ \/ guardDir /\ Wait(t) /\ UNCHANGED guardDir
     \/ ~guardDir /\ guardDir' = TRUE /\ Goto(t, "guardMade") /\ UNCHANGED mgr
  /\ UNCHANGED <<file, whole, maker, up, faults>>

GuardMade(t) ==
  /\ At(t, "guardMade")
  /\ mgr' = [mgr EXCEPT ![Home[t]].guards = TRUE]
  /\ task' = [task EXCEPT ![t].guard = TRUE, ![t].then = IF HasToken(t) THEN "wait" ELSE "end",
       ![t].pc = IF HasToken(t) /\ Held(t) = NoRecord THEN "approve" ELSE "guardRm"]
  /\ UNCHANGED <<disk, up, faults>>

\* Fault seeded in Approve: the snapshot is refreshed, and the old one was approved.
ApproveRefreshed(t) ==
  /\ Boundary(t, "approve",
       \/ DropGuard(t, "end") /\ UNCHANGED mgr
       \/ /\ file # NoRecord /\ ~MakerUp(task[t].seen) /\ UNCHANGED mgr
          /\ task' = [task EXCEPT ![t].pc = "confirm", ![t].seen = file])
  /\ UNCHANGED <<disk, up, faults>>

\* shouldRemoveStaleLock may approve only an owner that ended, and may be
\* missing.  A changed record is waited for with the guard kept.
Approve(t) ==
  /\ Boundary(t, "approve",
       \/ file # task[t].seen /\ Wait(t)
       \/ DropGuard(t, "end") /\ UNCHANGED mgr
       \/ file = task[t].seen /\ ~MakerUp(file) /\ Goto(t, "confirm") /\ UNCHANGED mgr)
  /\ UNCHANGED <<disk, up, faults>>

\* Fault seeded in Confirm: the second snapshot never equals the first one.
ConfirmNever(t) ==
  /\ Boundary(t, "confirm", Wait(t))
  /\ UNCHANGED <<disk, up, faults>>

Confirm(t) ==
  /\ Boundary(t, "confirm",
       \/ file # task[t].seen /\ Wait(t)
       \/ file = task[t].seen /\ Goto(t, "remove") /\ UNCHANGED mgr)
  /\ UNCHANGED <<disk, up, faults>>

\* rm takes whatever file is at the path by now.
Remove(t) ==
  /\ Boundary(t, "remove",
       \/ file = NoRecord /\ Wait(t)
       \/ /\ file # NoRecord /\ UNCHANGED mgr
          /\ task' = [task EXCEPT ![t].pc = "create", ![t].seen = NoRecord])
  /\ file' = NoRecord
  /\ UNCHANGED <<whole, maker, guardDir, up, faults>>

\* releaseReclaimGuard: rmdir, which fails when the directory is gone.  Then the
\* set keeps the path, and the exception leads to cleanup, to a second try in
\* finally, or, in finally, to the end.
GuardRemove(t) ==
  /\ At(t, "guardRm")
  /\ guardDir' = FALSE
  /\ \/ guardDir /\ Goto(t, "guardGone") /\ UNCHANGED mgr
     \/ /\ ~guardDir /\ task[t].then = "register" /\ UNCHANGED mgr
        /\ task' = [task EXCEPT ![t].pc = "undo", ![t].then = "end"]
     \/ ~guardDir /\ task[t].then = "wait" /\ DropGuard(t, "end") /\ UNCHANGED mgr
     \/ /\ ~guardDir /\ task[t].then = "hold" /\ UNCHANGED mgr
        /\ task' = [task EXCEPT ![t].pc = "holding", ![t].guard = FALSE]
     \/ /\ ~guardDir /\ task[t].then = "end" /\ mgr' = Freed(t)
        /\ task' = [task EXCEPT ![t] = NewTask]
  /\ UNCHANGED <<file, whole, maker, up, faults>>

\* After its await.
GuardRemoved(t) ==
  LET unguarded == [task EXCEPT ![t].guard = FALSE]
      freed     == [Freed(t) EXCEPT ![Home[t]].guards = FALSE]
      kept      == [mgr EXCEPT ![Home[t]].guards = FALSE]
  IN
  /\ At(t, "guardGone")
  /\ \/ /\ task[t].then = "register" /\ mgr' = kept
        /\ task' = [unguarded EXCEPT ![t].pc = "register"]
     \/ /\ task[t].then = "hold" /\ mgr' = kept
        /\ task' = [unguarded EXCEPT ![t].pc = "holding"]
     \/ /\ task[t].then = "wait" /\ mgr' = freed
        /\ \E s \in {"idle", "loop"} : task' = [task EXCEPT ![t] = [NewTask EXCEPT !.pc = s]]
     \/ /\ task[t].then = "end" /\ mgr' = freed
        /\ task' = [task EXCEPT ![t] = NewTask]
  /\ UNCHANGED <<disk, up, faults>>

-----------------------------------------------------------------------------
(* Release.                                                                *)

\* Fault seeded in ReleaseHandle: a repeated call counts down again.
ReleaseHandleAgain(t) ==
  LET p    == Home[t]
      left == mgr[p].refs - 1
  IN
  /\ At(t, "holding")
  /\ \/ /\ Held(t) # task[t].rec
        /\ task' = [task EXCEPT ![t] = NewTask] /\ UNCHANGED mgr
     \/ /\ Held(t) = task[t].rec /\ Releasing(p)
        /\ task' = [task EXCEPT ![t].started = TRUE] /\ UNCHANGED mgr
     \/ /\ Held(t) = task[t].rec /\ ~Releasing(p)
        /\ mgr' = [mgr EXCEPT ![p].refs = left]
        /\ task' = IF left > 0 THEN [task EXCEPT ![t] = NewTask]
                   ELSE [task EXCEPT ![t].started = TRUE, ![t].pc = "relCompare"]
  /\ UNCHANGED <<disk, up, faults>>

\* release() of a handle: a lost entry counts as released, a pending release
\* is joined, a repeated call does not count down again, and the last
\* reference removes the file.
ReleaseHandle(t) ==
  LET p    == Home[t]
      left == IF task[t].started \/ mgr[p].refs = 0 THEN mgr[p].refs ELSE mgr[p].refs - 1
  IN
  /\ At(t, "holding")
  /\ \/ /\ Held(t) # task[t].rec
        /\ task' = [task EXCEPT ![t] = NewTask] /\ UNCHANGED mgr
     \/ /\ Held(t) = task[t].rec /\ Releasing(p)
        /\ task' = [task EXCEPT ![t].started = TRUE] /\ UNCHANGED mgr
     \/ /\ Held(t) = task[t].rec /\ ~Releasing(p)
        /\ mgr' = [mgr EXCEPT ![p].refs = left]
        /\ task' = IF left > 0 THEN [task EXCEPT ![t] = NewTask]
                   ELSE [task EXCEPT ![t].started = TRUE, ![t].pc = "relCompare"]
  /\ UNCHANGED <<disk, up, faults>>

\* drain() and forceRelease() drop every reference.
Drain(t) ==
  /\ "drain" \in Ops
  /\ At(t, "idle") /\ Held(t) # NoRecord /\ ~Releasing(Home[t])
  /\ mgr' = [mgr EXCEPT ![Home[t]].refs = 0]
  /\ task' = [task EXCEPT ![t].pc = "relCompare", ![t].rec = Held(t), ![t].then = "forced"]
  /\ UNCHANGED <<disk, up, faults>>

\* removeSidecarLockIfUnchanged: a changed file is left alone; a later
\* operation removes what is at the path.
ReleaseCompare(t) ==
  /\ At(t, "relCompare")
  /\ Goto(t, IF file = task[t].rec THEN "relRm" ELSE "relDone")
  /\ UNCHANGED <<disk, up, mgr, faults>>

ReleaseRemove(t) ==
  /\ At(t, "relRm")
  /\ file' = NoRecord
  /\ Goto(t, "relDone")
  /\ UNCHANGED <<whole, maker, guardDir, up, mgr, faults>>

\* A failed removal keeps the entry, and the handle may try again.
ReleaseFails(t) ==
  /\ At(t, "relRm") /\ "error" \in Ops /\ Fault
  /\ task' = IF task[t].then = "forced" THEN [task EXCEPT ![t] = NewTask]
             ELSE [task EXCEPT ![t].pc = "holding"]
  /\ UNCHANGED <<disk, up, mgr>>

ReleaseDone(t) ==
  /\ At(t, "relDone")
  /\ mgr' = [mgr EXCEPT ![Home[t]].held = IF @ = task[t].rec THEN NoRecord ELSE @]
  /\ task' = [task EXCEPT ![t] = NewTask]
  /\ UNCHANGED <<disk, up, faults>>

-----------------------------------------------------------------------------
(* The process as a whole.                                                 *)

\* releaseAllLocksSync: the held file if it is unchanged, the admissions, and
\* every guard the set names, whoever made the directory.
CleanUp(p) ==
  /\ file' = IF mgr[p].held # NoRecord /\ file = mgr[p].held THEN NoRecord ELSE file
  /\ guardDir' = IF mgr[p].guards THEN FALSE ELSE guardDir
  /\ UNCHANGED <<whole, maker>>

\* manager.reset(): a guard that is gone stays in the set.
Reset(p) ==
  /\ "reset" \in Ops /\ p \in up
  /\ CleanUp(p)
  /\ mgr' = [mgr EXCEPT ![p] = [NewManager EXCEPT !.guards = mgr[p].guards /\ ~guardDir]]
  /\ UNCHANGED <<up, task, faults>>

\* The memory of a process ends with it.
Ended(p) ==
  /\ up' = up \ {p}
  /\ mgr' = [mgr EXCEPT ![p] = NewManager]
  /\ task' = [t \in Tasks |-> IF Home[t] = p THEN NewTask ELSE task[t]]

\* The exit handler runs; an operation still under way does not take effect.
Exit(p) ==
  /\ "exit" \in Ops /\ p \in up
  /\ CleanUp(p)
  /\ Ended(p)
  /\ UNCHANGED faults

\* A kill, or a power failure of a guest: nothing is cleaned up.
Crash(p) ==
  /\ "crash" \in Ops /\ p \in up /\ Fault
  /\ Ended(p)
  /\ UNCHANGED disk

AcquireStep(t) ==
  \/ Reuse(t) \/ Admit(t) \/ CreateRefused(t) \/ CreateFile(t) \/ WriteFile(t)
  \/ WriteFails(t) \/ CreateConflict(t) \/ Created(t) \/ Register(t)
  \/ UndoCompare(t) \/ UndoRemove(t)

ReclaimStep(t) ==
  \/ Inspect(t) \/ Recheck(t) \/ TakeGuard(t) \/ GuardMade(t) \/ Approve(t)
  \/ Confirm(t) \/ Remove(t) \/ GuardRemove(t) \/ GuardRemoved(t)

ReleaseStep(t) ==
  ReleaseCompare(t) \/ ReleaseRemove(t) \/ ReleaseFails(t) \/ ReleaseDone(t)

Next ==
  \/ \E t \in Tasks : \/ Call(t) \/ ReleaseHandle(t) \/ Drain(t)
                      \/ AcquireStep(t) \/ ReclaimStep(t) \/ ReleaseStep(t)
  \/ \E p \in Procs : Reset(p) \/ Exit(p) \/ Crash(p)

Spec == Init /\ [][Next]_vars

-----------------------------------------------------------------------------
(* Properties.                                                             *)

\* Every variable has its type; only a record that was created is on disk,
\* held or whole.
TypeOK ==
  /\ file \in Records \cup {NoRecord}
  /\ whole \subseteq Records
  /\ maker \in [Records -> Tasks \cup {Nobody}]
  /\ guardDir \in BOOLEAN
  /\ up \subseteq Procs
  /\ mgr \in [Procs -> Manager]
  /\ task \in [Tasks -> Task]
  /\ faults \in 0..MaxFaults

\* A registered lock whose release has not begun is the file at the lock path:
\* no reclaim, cleanup or late release of another owner took it away, so two
\* processes never hold the lock together (sidecar-lock.md:604-606).
HeldOnDisk ==
  \A p \in up : mgr[p].held # NoRecord /\ ~Releasing(p) => file = mgr[p].held

\* One attempt at a time is inside the guarded section, and its directory
\* stands (sidecar-lock.md:596).
GuardExclusive ==
  \A t \in Tasks : task[t].guard /\ task[t].pc # "guardGone" =>
    guardDir /\ \A u \in Tasks \ {t} : task[u].guard => task[u].pc = "guardGone"

\* The file of a running owner goes away only by a step of its own process
\* (sidecar-lock.md:594, 605).
OwnStep(p) == \/ \E t \in Tasks : Home[t] = p /\ task'[t] # task[t]
              \/ mgr'[p] # mgr[p]

LiveRecordKept ==
  [][file # NoRecord /\ file' # file /\ MakerUp(file) => OwnStep(Home[maker[file]])]_vars

\* A record that is not written to the end is removed by the task that writes
\* it and nobody else, however old it is (sidecar-lock-stale-admission.ts:115).
IncompleteKept ==
  [][file # NoRecord /\ file' # file /\ file \notin whole =>
       task[maker[file]].rec = file /\ task'[maker[file]] # task[maker[file]]]_vars

\* An admission belongs to a task that is going to give it up; a leaked one
\* would lock out the process (sidecar-lock-acquire.ts:484-487).
AdmissionOwned ==
  \A p \in up : mgr[p].admitted # Nobody =>
    LET t == mgr[p].admitted
    IN Home[t] = p /\ task[t].pc \in AdmittedSteps \cup CleanupSteps

\* The sidecar remains until the last reference is released: removal by a
\* handle starts only when no other handle of the record is open
\* (sidecar-lock.md:243-244).
Open(t) == task[t].pc = "holding" /\ ~task[t].started

LastReferenceReleases ==
  \A t, u \in Tasks :
    task[t].pc \in ReleaseSteps /\ task[t].then # "forced" /\ Open(u)
      => task[u].rec # task[t].rec

\* An entry is never replaced by another one: an attempt that lost its admission
\* to reset() does not register over a lock taken since
\* (sidecar-lock-acquire.ts:387-393).
EntryNotReplaced ==
  [][\A p \in Procs : mgr[p].held # NoRecord => mgr'[p].held \in {mgr[p].held, NoRecord}]_vars
=============================================================================
