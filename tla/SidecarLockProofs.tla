-------------------------- MODULE SidecarLockProofs --------------------------
(* Theorems about SidecarLock, for every value of its constants.            *)
EXTENDS SidecarLockImpl, TLAPS

-----------------------------------------------------------------------------
(* The inductive invariant.  Local says of each task and each manager what *)
(* its own steps establish; it survives reset and exit.  LockOK relates    *)
(* them with each other and with the disk, as long as nobody resets or     *)
(* exits.                                                                  *)

\* The task has created a file that is not registered yet.
Making(t) ==
  \/ task[t].pc \in {"write", "created", "register", "undo", "undoRm"}
  \/ task[t].pc \in {"guardRm", "guardGone"} /\ task[t].then = "register"

\* The task has, or is about to have, a handle.
Handling(t) ==
  \/ task[t].pc \in ReleaseSteps \cup {"holding"}
  \/ task[t].pc \in {"guardRm", "guardGone"} /\ task[t].then = "hold"

Judging == {"recheck", "takeGuard", "guardMade", "approve", "confirm", "remove"}
Guarded == {"approve", "confirm", "remove", "guardRm", "guardGone"}

TaskOK(t) ==
  /\ Making(t) => task[t].rec \in Records /\ maker[task[t].rec] = t
  /\ Handling(t) => task[t].rec \in Records
  /\ task[t].pc \in Judging => task[t].seen \in Records /\ maker[task[t].seen] \in Tasks
  /\ task[t].pc \in Guarded => task[t].guard
  /\ Home[t] \notin up => task[t] = NewTask

ManagerOK(p) ==
  mgr[p].held # NoRecord =>
    p \in up /\ maker[mgr[p].held] \in Tasks /\ Home[maker[mgr[p].held]] = p

Local ==
  /\ file # NoRecord => maker[file] \in Tasks
  /\ \A t \in Tasks : TaskOK(t)
  /\ \A p \in Procs : ManagerOK(p)

\* One attempt owns the guard directory.
InGuard(t) == task[t].pc = "guardMade" \/ (task[t].guard /\ task[t].pc # "guardGone")

GuardOwned ==
  /\ \A t \in Tasks : InGuard(t) => guardDir
  /\ \A t, u \in Tasks : InGuard(t) /\ InGuard(u) => t = u

\* One task releases an entry, and what it is about to remove is its file.
ReleaserOK(t) ==
  task[t].pc \in ReleaseSteps =>
    /\ task[t].rec = Held(t)
    /\ \A u \in Tasks : Home[u] = Home[t] /\ task[u].pc \in ReleaseSteps => u = t
    /\ task[t].pc = "relRm" => file = task[t].rec

MakerOK(t) ==
  Making(t) => file = task[t].rec /\ \A p \in Procs : mgr[p].held # task[t].rec

\* What passed approval belongs to nobody, and stays until it is removed.
JudgeOK(t) ==
  /\ task[t].pc \in {"confirm", "remove"} => ~MakerUp(task[t].seen)
  /\ task[t].pc = "remove" => file = task[t].seen

LockOK ==
  /\ \A t \in Tasks : ReleaserOK(t) /\ MakerOK(t) /\ JudgeOK(t)
  /\ HeldOnDisk

Undisturbed == Ops \cap {"reset", "exit"} = {}

-----------------------------------------------------------------------------
(* Type correctness.                                                       *)

\* How task and mgr change, whatever the step is called.
LEMMA TaskFieldType ==
  ASSUME NEW r \in Task, NEW s \in Steps, NEW n \in {"end", "wait", "register", "hold", "forced"},
         NEW x \in Records \cup {NoRecord}, NEW b \in BOOLEAN
  PROVE  /\ [r EXCEPT !.pc = s] \in Task
         /\ [r EXCEPT !.then = n] \in Task
         /\ [r EXCEPT !.rec = x] \in Task
         /\ [r EXCEPT !.seen = x] \in Task
         /\ [r EXCEPT !.guard = b] \in Task
         /\ [r EXCEPT !.started = b] \in Task
BY DEF Task

LEMMA NewTaskType == NewTask \in Task /\ NewManager \in Manager
BY DEF Task, NewTask, Steps, Manager, NewManager

LEMMA TypeInit == Init => TypeOK
<1> SUFFICES ASSUME Init PROVE TypeOK OBVIOUS
<1>1. mgr \in [Procs -> Manager] /\ task \in [Tasks -> Task]
  BY NewTaskType DEF Init
<1>2. faults \in 0..MaxFaults
  BY LockAssumption DEF Init
<1> QED BY <1>1, <1>2 DEF Init, TypeOK

LEMMA FreedType ==
  ASSUME TypeOK, NEW t \in Tasks
  PROVE  Freed(t) \in [Procs -> Manager]
BY LockAssumption DEF TypeOK, Freed, Manager

\* A step sets the program counter of one task and another of its fields.
LEMMA StepThenType ==
  ASSUME TypeOK, NEW t \in Tasks, NEW s \in Steps,
         NEW n \in {"end", "wait", "register", "hold", "forced"},
         task' = [task EXCEPT ![t].pc = s, ![t].then = n]
  PROVE  task' \in [Tasks -> Task]
<1>1. [[task[t] EXCEPT !.pc = s] EXCEPT !.then = n] \in Task
  BY TaskFieldType DEF TypeOK
<1>2. task' = [task EXCEPT ![t] = [[task[t] EXCEPT !.pc = s] EXCEPT !.then = n]]
  BY DEF TypeOK
<1> QED BY <1>1, <1>2 DEF TypeOK

LEMMA RecordStepType ==
  ASSUME TypeOK, NEW t \in Tasks, NEW s \in Steps, NEW x \in Records \cup {NoRecord},
         task' = [task EXCEPT ![t].rec = x, ![t].pc = s]
  PROVE  task' \in [Tasks -> Task]
<1>1. [[task[t] EXCEPT !.rec = x] EXCEPT !.pc = s] \in Task
  BY TaskFieldType DEF TypeOK
<1>2. task' = [task EXCEPT ![t] = [[task[t] EXCEPT !.rec = x] EXCEPT !.pc = s]]
  BY DEF TypeOK
<1> QED BY <1>1, <1>2 DEF TypeOK

LEMMA DropGuardType ==
  ASSUME TypeOK, NEW t \in Tasks, NEW n \in {"end", "wait", "register"}, DropGuard(t, n)
  PROVE  task' \in [Tasks -> Task]
BY StepThenType DEF DropGuard, Steps, CleanupSteps

LEMMA GotoType ==
  ASSUME TypeOK, NEW t \in Tasks, NEW s \in Steps, Goto(t, s)
  PROVE  task' \in [Tasks -> Task]
<1>1. [task[t] EXCEPT !.pc = s] \in Task
  BY TaskFieldType DEF TypeOK
<1> QED BY <1>1 DEF TypeOK, Goto

LEMMA ThrowType ==
  ASSUME TypeOK, NEW t \in Tasks, Throw(t)
  PROVE  task' \in [Tasks -> Task] /\ mgr' \in [Procs -> Manager]
<1>1. CASE DropGuard(t, "end") /\ UNCHANGED mgr
  BY <1>1, DropGuardType DEF TypeOK
<1>2. CASE task' = [task EXCEPT ![t] = NewTask] /\ mgr' = Freed(t)
  BY <1>2, FreedType, NewTaskType DEF TypeOK
<1> QED BY <1>1, <1>2 DEF Throw

LEMMA WaitType ==
  ASSUME TypeOK, NEW t \in Tasks, Wait(t)
  PROVE  task' \in [Tasks -> Task] /\ mgr' \in [Procs -> Manager]
<1> DEFINE again == [NewTask EXCEPT !.pc = "loop", !.guard = task[t].guard]
<1>1. again \in Task
  BY DEF TypeOK, NewTask, Task, Steps
<1>2. mgr' \in [Procs -> Manager]
  BY FreedType DEF Wait
<1>3. CASE task' = [task EXCEPT ![t] = again]
  BY <1>1, <1>2, <1>3 DEF TypeOK
<1>4. CASE DropGuard(t, "end")
  BY <1>2, <1>4, DropGuardType
<1>5. CASE task' = [task EXCEPT ![t] = NewTask]
  BY <1>2, <1>5, NewTaskType DEF TypeOK
<1> QED BY <1>3, <1>4, <1>5 DEF Wait

\* A step of one task: what is left is that it keeps the types of the disk.
LEMMA LocalType ==
  ASSUME TypeOK, UNCHANGED <<up, faults>>,
         task' \in [Tasks -> Task], mgr' \in [Procs -> Manager],
         file' \in Records \cup {NoRecord}, whole' \subseteq Records,
         maker' \in [Records -> Tasks \cup {Nobody}], guardDir' \in BOOLEAN
  PROVE  TypeOK'
BY DEF TypeOK

LEMMA AcquireType ==
  ASSUME TypeOK, NEW t \in Tasks,
         \/ Call(t) \/ Admit(t) \/ CreateRefused(t) \/ CreateConflict(t)
         \/ Created(t) \/ UndoCompare(t) \/ UndoRemove(t)
  PROVE  TypeOK'
<1> USE DropGuardType, GotoType, ThrowType, WaitType, LocalType
    DEF Steps, AdmittedSteps, CleanupSteps
<1>1. TypeOK /\ UNCHANGED <<up, faults>>
  BY DEF disk, Call, Admit, CreateRefused, CreateConflict, Created, UndoCompare, UndoRemove
<1>2. /\ file' \in Records \cup {NoRecord} /\ whole' \subseteq Records
      /\ maker' \in [Records -> Tasks \cup {Nobody}] /\ guardDir' \in BOOLEAN
  BY DEF TypeOK, disk, Call, Admit, CreateRefused, CreateConflict, Created, UndoCompare, UndoRemove
<1>3. CASE Call(t)
  BY <1>1, <1>2, <1>3 DEF Call, TypeOK
<1>4. CASE Admit(t)
  <2>1. Home[t] \in Procs
    BY LockAssumption
  <2>2. ASSUME mgr' = [mgr EXCEPT ![Home[t]].admitted = t] PROVE mgr' \in [Procs -> Manager]
    BY <2>1, <2>2 DEF TypeOK, Manager
  <2> QED BY <1>1, <1>2, <1>4, <2>2 DEF Admit
<1>5. CASE CreateRefused(t)
  BY <1>1, <1>2, <1>5 DEF CreateRefused
<1>6. CASE CreateConflict(t)
  BY <1>1, <1>2, <1>6 DEF CreateConflict, TypeOK
<1>7. CASE Created(t)
  <2>1. ASSUME task' = [task EXCEPT ![t].pc = "undo", ![t].then = "wait"]
        PROVE  task' \in [Tasks -> Task]
    BY <2>1, StepThenType
  <2> QED BY <1>1, <1>2, <1>7, <2>1 DEF Created, TypeOK
<1>8. CASE UndoCompare(t)
  BY <1>1, <1>2, <1>8 DEF UndoCompare, AfterUndo, TypeOK
<1>9. CASE UndoRemove(t)
  BY <1>1, <1>2, <1>9 DEF UndoRemove, AfterUndo
<1> QED BY <1>3, <1>4, <1>5, <1>6, <1>7, <1>8, <1>9

LEMMA CreationType ==
  ASSUME TypeOK, Local, NEW t \in Tasks,
         Reuse(t) \/ CreateFile(t) \/ WriteFile(t) \/ WriteFails(t) \/ Register(t)
  PROVE  TypeOK'
<1> USE LocalType DEF Steps, AdmittedSteps, CleanupSteps
<1>0. Home[t] \in Procs /\ mgr[Home[t]] \in Manager /\ task[t] \in Task
  BY LockAssumption DEF TypeOK
<1>1. CASE Reuse(t)
  <2>1. Held(t) \in Records \cup {NoRecord} /\ mgr[Home[t]].refs + 1 \in Nat
    BY <1>0 DEF Held, Manager
  <2>2. mgr' \in [Procs -> Manager]
    BY <1>0, <1>1, <2>1 DEF Reuse, TypeOK, Manager
  <2>3. task' \in [Tasks -> Task]
    BY <1>0, <1>1, <2>1 DEF Reuse, TypeOK, Task
  <2> QED BY <1>1, <2>2, <2>3 DEF Reuse, TypeOK, disk
<1>2. CASE CreateFile(t)
  <2>1. PICK r \in Records :
          /\ file' = r
          /\ maker' = [maker EXCEPT ![r] = t]
          /\ whole' = IF Hardlinks THEN whole \cup {r} ELSE whole
          /\ task' = [task EXCEPT ![t].rec = r,
                                  ![t].pc = IF Hardlinks THEN "created" ELSE "write"]
    BY <1>2 DEF CreateFile
  <2>2. task' \in [Tasks -> Task]
    BY <2>1, RecordStepType
  <2> QED BY <1>2, <2>1, <2>2 DEF CreateFile, TypeOK
<1>3. CASE WriteFile(t)
  <2>1. task' \in [Tasks -> Task]
    BY <1>3, GotoType DEF WriteFile
  <2>2. whole' \subseteq Records
    BY <1>3 DEF WriteFile, At, TypeOK, Local, TaskOK, Making
  <2> QED BY <1>3, <2>1, <2>2 DEF WriteFile, TypeOK
<1>4. CASE WriteFails(t)
  <2>1. task' \in [Tasks -> Task]
    BY <1>4, StepThenType DEF WriteFails
  <2>2. faults' \in 0..MaxFaults
    BY <1>4, LockAssumption DEF WriteFails, Fault, TypeOK
  <2> QED BY <1>4, <2>1, <2>2 DEF WriteFails, TypeOK, disk
<1>5. CASE Register(t)
  <2>1. task' \in [Tasks -> Task]
    BY <1>5 DEF Register, TypeOK, Task, Goto
  <2>2. task[t].rec \in Records \cup {NoRecord}
    BY <1>0 DEF Task
  <2>3. mgr' \in [Procs -> Manager]
    BY <1>0, <1>5, <2>2 DEF Register, TypeOK, Manager
  <2> QED BY <1>5, <2>1, <2>3 DEF Register, TypeOK, disk
<1> QED BY <1>1, <1>2, <1>3, <1>4, <1>5

LEMMA BoundaryType ==
  ASSUME TypeOK, NEW t \in Tasks, NEW step, NEW ACTION next, Boundary(t, step, next),
         next => task' \in [Tasks -> Task] /\ mgr' \in [Procs -> Manager]
  PROVE  task' \in [Tasks -> Task] /\ mgr' \in [Procs -> Manager]
<1>1. CASE Throw(t) \/ Wait(t)
  BY <1>1, ThrowType, WaitType
<1>2. CASE DropGuard(t, "wait") /\ UNCHANGED mgr
  BY <1>2, DropGuardType DEF TypeOK
<1> QED BY <1>1, <1>2 DEF Boundary

LEMMA JudgeType ==
  ASSUME TypeOK, NEW t \in Tasks,
         Inspect(t) \/ Recheck(t) \/ Approve(t) \/ Confirm(t) \/ Remove(t)
  PROVE  TypeOK'
<1> DEFINE Typed == task' \in [Tasks -> Task] /\ mgr' \in [Procs -> Manager]
<1> USE DropGuardType, GotoType, ThrowType, WaitType DEF Steps, AdmittedSteps
<1>1. /\ UNCHANGED <<up, faults>>
      /\ file' \in Records \cup {NoRecord} /\ whole' \subseteq Records
      /\ maker' \in [Records -> Tasks \cup {Nobody}] /\ guardDir' \in BOOLEAN
  BY DEF TypeOK, disk, Inspect, Recheck, Approve, Confirm, Remove
<1>2. CASE Inspect(t)
  <2>1. ASSUME task' = [task EXCEPT ![t].pc = "recheck", ![t].seen = file]
        PROVE  task' \in [Tasks -> Task]
    <3>1. [[task[t] EXCEPT !.pc = "recheck"] EXCEPT !.seen = file] \in Task
      BY TaskFieldType DEF TypeOK
    <3>2. task' = [task EXCEPT ![t] = [[task[t] EXCEPT !.pc = "recheck"] EXCEPT !.seen = file]]
      BY <2>1 DEF TypeOK
    <3> QED BY <3>1, <3>2 DEF TypeOK
  <2>2. Typed
    BY <1>2, <2>1, BoundaryType DEF Inspect, TypeOK
  <2> QED BY <1>1, <2>2, LocalType
<1>3. CASE Recheck(t)
  <2>1. Typed
    BY <1>3, BoundaryType DEF Recheck, TypeOK
  <2> QED BY <1>1, <2>1, LocalType
<1>4. CASE Approve(t)
  <2>1. Typed
    BY <1>4, BoundaryType DEF Approve, TypeOK
  <2> QED BY <1>1, <2>1, LocalType
<1>5. CASE Confirm(t)
  <2>1. Typed
    BY <1>5, BoundaryType DEF Confirm, TypeOK
  <2> QED BY <1>1, <2>1, LocalType
<1>6. CASE Remove(t)
  <2>1. ASSUME task' = [task EXCEPT ![t].pc = "create", ![t].seen = NoRecord]
        PROVE  task' \in [Tasks -> Task]
    <3>1. [[task[t] EXCEPT !.pc = "create"] EXCEPT !.seen = NoRecord] \in Task
      BY TaskFieldType DEF TypeOK
    <3>2. task' = [task EXCEPT ![t] = [[task[t] EXCEPT !.pc = "create"] EXCEPT !.seen = NoRecord]]
      BY <2>1 DEF TypeOK
    <3> QED BY <3>1, <3>2 DEF TypeOK
  <2>2. Typed
    BY <1>6, <2>1, BoundaryType DEF Remove, TypeOK
  <2> QED BY <1>1, <2>2, LocalType
<1> QED BY <1>2, <1>3, <1>4, <1>5, <1>6

LEMMA GuardType ==
  ASSUME TypeOK, NEW t \in Tasks,
         TakeGuard(t) \/ GuardMade(t) \/ GuardRemove(t) \/ GuardRemoved(t)
  PROVE  TypeOK'
<1> USE DropGuardType, GotoType, ThrowType, WaitType, StepThenType, NewTaskType
    DEF Steps, AdmittedSteps, CleanupSteps
<1>1. /\ UNCHANGED <<up, faults>>
      /\ file' \in Records \cup {NoRecord} /\ whole' \subseteq Records
      /\ maker' \in [Records -> Tasks \cup {Nobody}] /\ guardDir' \in BOOLEAN
  BY DEF TypeOK, disk, TakeGuard, GuardMade, GuardRemove, GuardRemoved
<1>2. Freed(t) \in [Procs -> Manager]
  BY FreedType
<1>3. ASSUME NEW x \in Task, task' = [task EXCEPT ![t] = x]
      PROVE  task' \in [Tasks -> Task]
  BY <1>3 DEF TypeOK
<1>4. CASE TakeGuard(t)
  <2>1. task' \in [Tasks -> Task] /\ mgr' \in [Procs -> Manager]
    BY <1>4 DEF TakeGuard, TypeOK
  <2> QED BY <1>1, <2>1, LocalType
<1>5. CASE GuardMade(t)
  <2>1. mgr' \in [Procs -> Manager]
    BY <1>5 DEF GuardMade, TypeOK, Manager
  <2>2. task' \in [Tasks -> Task]
    <3> DEFINE s == IF HasToken(t) /\ Held(t) = NoRecord THEN "approve" ELSE "guardRm"
               n == IF HasToken(t) THEN "wait" ELSE "end"
               x == [[[task[t] EXCEPT !.guard = TRUE] EXCEPT !.then = n] EXCEPT !.pc = s]
    <3>1. s \in Steps /\ n \in {"end", "wait", "register", "hold", "forced"}
      OBVIOUS
    <3> HIDE DEF s, n
    <3>2. x \in Task
      BY <3>1, TaskFieldType DEF TypeOK
    <3>3. task' = [task EXCEPT ![t] = x]
      BY <1>5 DEF GuardMade, TypeOK, s, n
    <3> QED BY <1>3, <3>2, <3>3
  <2> QED BY <1>1, <2>1, <2>2, LocalType
<1>6. CASE GuardRemove(t)
  <2> DEFINE x == [[task[t] EXCEPT !.pc = "holding"] EXCEPT !.guard = FALSE]
  <2>1. x \in Task
    BY TaskFieldType DEF TypeOK
  <2>2. ASSUME task' = [task EXCEPT ![t].pc = "holding", ![t].guard = FALSE]
        PROVE  task' = [task EXCEPT ![t] = x]
    BY <2>2 DEF TypeOK
  <2>3. task' \in [Tasks -> Task] /\ mgr' \in [Procs -> Manager]
    BY <1>2, <1>3, <1>6, <2>1, <2>2 DEF GuardRemove, TypeOK
  <2> QED BY <1>1, <2>3, LocalType
<1>7. CASE GuardRemoved(t)
  <2> DEFINE unguarded == [task EXCEPT ![t].guard = FALSE]
             freed == [Freed(t) EXCEPT ![Home[t]].guards = FALSE]
             kept == [mgr EXCEPT ![Home[t]].guards = FALSE]
  <2>1. freed \in [Procs -> Manager] /\ kept \in [Procs -> Manager]
    BY <1>2 DEF TypeOK, Manager
  <2>2. ASSUME NEW s \in Steps, task' = [unguarded EXCEPT ![t].pc = s]
        PROVE  task' \in [Tasks -> Task]
    <3>1. [[task[t] EXCEPT !.guard = FALSE] EXCEPT !.pc = s] \in Task
      BY TaskFieldType DEF TypeOK
    <3>2. task' = [task EXCEPT ![t] = [[task[t] EXCEPT !.guard = FALSE] EXCEPT !.pc = s]]
      BY <2>2 DEF TypeOK
    <3> QED BY <1>3, <3>1, <3>2
  <2>3. ASSUME NEW s \in {"idle", "loop"}, task' = [task EXCEPT ![t] = [NewTask EXCEPT !.pc = s]]
        PROVE  task' \in [Tasks -> Task]
    <3>1. [NewTask EXCEPT !.pc = s] \in Task
      BY TaskFieldType
    <3> QED BY <1>3, <2>3, <3>1
  <2> HIDE DEF unguarded, freed, kept
  <2>4. task' \in [Tasks -> Task] /\ mgr' \in [Procs -> Manager]
    <3>1. \/ mgr' = kept /\ \E s \in Steps : task' = [unguarded EXCEPT ![t].pc = s]
          \/ mgr' = freed /\ \E s \in {"idle", "loop"} : task' = [task EXCEPT ![t] = [NewTask EXCEPT !.pc = s]]
          \/ mgr' = freed /\ task' = [task EXCEPT ![t] = NewTask]
      BY <1>7 DEF GuardRemoved, unguarded, freed, kept
    <3> QED BY <1>3, <2>1, <2>2, <2>3, <3>1
  <2> QED BY <1>1, <2>4, LocalType
<1> QED BY <1>4, <1>5, <1>6, <1>7

LEMMA ReleaseType ==
  ASSUME TypeOK, NEW t \in Tasks, ReleaseHandle(t) \/ Drain(t) \/ ReleaseStep(t)
  PROVE  TypeOK'
<1> USE GotoType, NewTaskType DEF Steps, ReleaseSteps
<1>1. UNCHANGED up /\ whole' = whole /\ maker' = maker /\ guardDir' = guardDir
      /\ file' \in {file, NoRecord}
  BY DEF disk, ReleaseHandle, Drain, ReleaseStep, ReleaseCompare, ReleaseRemove,
         ReleaseFails, ReleaseDone
<1>2. faults' \in 0..MaxFaults
  BY LockAssumption DEF TypeOK, ReleaseHandle, Drain, ReleaseStep, ReleaseCompare,
     ReleaseRemove, ReleaseFails, ReleaseDone, Fault
<1>3. ASSUME task' \in [Tasks -> Task], mgr' \in [Procs -> Manager] PROVE TypeOK'
  BY <1>1, <1>2, <1>3 DEF TypeOK
<1>4. ASSUME NEW x \in Task, task' = [task EXCEPT ![t] = x]
      PROVE  task' \in [Tasks -> Task]
  BY <1>4 DEF TypeOK
<1>5. Home[t] \in Procs /\ mgr[Home[t]] \in Manager /\ task[t] \in Task
  BY LockAssumption DEF TypeOK
<1>6. CASE ReleaseHandle(t)
  <2> DEFINE left == IF task[t].started \/ mgr[Home[t]].refs = 0 THEN mgr[Home[t]].refs
                     ELSE mgr[Home[t]].refs - 1
             open == [task[t] EXCEPT !.started = TRUE]
  <2>1. left \in Nat
    BY <1>5 DEF Manager
  <2> HIDE DEF left
  <2>2. mgr' = mgr \/ mgr' = [mgr EXCEPT ![Home[t]].refs = left]
    BY <1>6 DEF ReleaseHandle, left
  <2>3. mgr' \in [Procs -> Manager]
    BY <2>1, <2>2 DEF TypeOK, Manager
  <2>4. open \in Task /\ [open EXCEPT !.pc = "relCompare"] \in Task
    BY <1>5, TaskFieldType
  <2>5. \/ task' = [task EXCEPT ![t] = NewTask]
        \/ task' = [task EXCEPT ![t] = open]
        \/ task' = [task EXCEPT ![t] = [open EXCEPT !.pc = "relCompare"]]
    BY <1>6 DEF ReleaseHandle, TypeOK
  <2> QED BY <1>3, <1>4, <2>3, <2>4, <2>5
<1>7. CASE Drain(t)
  <2> DEFINE x == [[[task[t] EXCEPT !.pc = "relCompare"] EXCEPT !.rec = Held(t)] EXCEPT !.then = "forced"]
  <2>1. Held(t) \in Records \cup {NoRecord}
    BY <1>5 DEF Held, Manager
  <2>2. x \in Task
    BY <1>5, <2>1, TaskFieldType
  <2>3. task' = [task EXCEPT ![t] = x]
    BY <1>7 DEF Drain, TypeOK
  <2>4. mgr' \in [Procs -> Manager]
    BY <1>7 DEF Drain, TypeOK, Manager
  <2> QED BY <1>3, <1>4, <2>2, <2>3, <2>4
<1>8. CASE ReleaseDone(t)
  <2>1. mgr' \in [Procs -> Manager]
    BY <1>5, <1>8 DEF ReleaseDone, TypeOK, Manager
  <2> QED BY <1>3, <1>4, <1>8, <2>1 DEF ReleaseDone
<1>9. CASE ReleaseCompare(t) \/ ReleaseRemove(t) \/ ReleaseFails(t)
  <2>1. mgr' \in [Procs -> Manager]
    BY <1>9 DEF ReleaseCompare, ReleaseRemove, ReleaseFails, TypeOK
  <2>2. [task[t] EXCEPT !.pc = "holding"] \in Task
    BY <1>5, TaskFieldType
  <2>3. task' \in [Tasks -> Task]
    BY <1>4, <1>9, <2>2 DEF ReleaseCompare, ReleaseRemove, ReleaseFails, TypeOK
  <2> QED BY <1>3, <2>1, <2>3
<1> QED BY <1>6, <1>7, <1>8, <1>9 DEF ReleaseStep

LEMMA ProcessType ==
  ASSUME TypeOK, NEW p \in Procs, Reset(p) \/ Exit(p) \/ Crash(p)
  PROVE  TypeOK'
<1>1. /\ file' \in Records \cup {NoRecord} /\ whole' \subseteq Records
      /\ maker' \in [Records -> Tasks \cup {Nobody}] /\ guardDir' \in BOOLEAN
      /\ up' \subseteq Procs
  BY DEF TypeOK, disk, Reset, Exit, Crash, CleanUp, Ended
<1>2. faults' \in 0..MaxFaults
  BY LockAssumption DEF TypeOK, Reset, Exit, Crash, Fault
<1>3. mgr' \in [Procs -> Manager]
  <2>1. [NewManager EXCEPT !.guards = mgr[p].guards /\ ~guardDir] \in Manager
    BY DEF TypeOK, Manager, NewManager
  <2> QED BY <2>1, NewTaskType DEF TypeOK, Reset, Exit, Crash, Ended
<1>4. task' \in [Tasks -> Task]
  BY NewTaskType DEF TypeOK, Reset, Exit, Crash, Ended
<1> QED BY <1>1, <1>2, <1>3, <1>4 DEF TypeOK

LEMMA TypeNext == TypeOK /\ Local /\ [Next]_vars => TypeOK'
<1> SUFFICES ASSUME TypeOK, Local, [Next]_vars PROVE TypeOK'
  OBVIOUS
<1>1. ASSUME NEW t \in Tasks,
             Call(t) \/ ReleaseHandle(t) \/ Drain(t) \/ AcquireStep(t) \/ ReclaimStep(t) \/ ReleaseStep(t)
      PROVE  TypeOK'
  BY <1>1, AcquireType, CreationType, JudgeType, GuardType, ReleaseType
     DEF AcquireStep, ReclaimStep
<1>2. CASE UNCHANGED vars
  BY <1>2 DEF TypeOK, vars, disk
<1> QED BY <1>1, <1>2, ProcessType DEF Next

-----------------------------------------------------------------------------
(* What each task and each manager establishes.                            *)

Others(t) == \A u \in Tasks \ {t} : task'[u] = task[u]
SameHeld  == \A p \in Procs : mgr'[p].held = mgr[p].held

\* The step is one of the ends of an attempt: back to the loop or the caller,
\* or on the way there with the guard to be removed.
Back(t) ==
  /\ Others(t) /\ SameHeld
  /\ \/ task'[t].pc \in {"idle", "loop"}
     \/ task'[t].pc = "guardRm" /\ task'[t].then \in {"end", "wait"} /\ task'[t].guard
  /\ task'[t].guard => task[t].guard

LEMMA FreedHeld ==
  ASSUME TypeOK, NEW t \in Tasks, NEW p \in Procs
  PROVE  Freed(t)[p].held = mgr[p].held
BY LockAssumption DEF TypeOK, Freed, Manager

LEMMA DropsBack ==
  ASSUME TypeOK, NEW t \in Tasks, NEW n \in {"end", "wait"}, DropGuard(t, n), SameHeld,
         task[t].guard
  PROVE  Back(t)
BY DEF TypeOK, Back, Others, DropGuard, Task

LEMMA EndsBack ==
  ASSUME TypeOK, NEW t \in Tasks, Throw(t) \/ Wait(t)
  PROVE  Back(t)
<1>1. SameHeld
  BY FreedHeld DEF Throw, Wait, SameHeld
<1>2. CASE task[t].guard /\ DropGuard(t, "end")
  BY <1>1, <1>2, DropsBack
<1>3. CASE task' = [task EXCEPT ![t] = NewTask]
  BY <1>1, <1>3 DEF Back, Others, NewTask, TypeOK
<1>4. CASE task' = [task EXCEPT ![t] = [NewTask EXCEPT !.pc = "loop", !.guard = task[t].guard]]
  BY <1>1, <1>4 DEF Back, Others, NewTask, TypeOK
<1> QED BY <1>2, <1>3, <1>4 DEF Throw, Wait

LEMMA BoundaryBack ==
  ASSUME TypeOK, NEW t \in Tasks, NEW step, NEW ACTION next, Boundary(t, step, next)
  PROVE  At(t, step) /\ (Back(t) \/ next)
<1>1. CASE task[t].guard /\ DropGuard(t, "wait") /\ UNCHANGED mgr
  BY <1>1, DropsBack DEF SameHeld, Boundary
<1> QED BY <1>1, EndsBack DEF Boundary

\* A task that acts does not touch what Local says of the others.
LEMMA LocalFrame ==
  ASSUME TypeOK, TypeOK', Local, NEW t \in Tasks, Others(t), up' = up, TaskOK(t)',
         \A r \in Records : maker[r] \in Tasks => maker'[r] = maker[r],
         file' # NoRecord => maker'[file'] \in Tasks,
         \A p \in Procs : mgr'[p].held \in {mgr[p].held, NoRecord}
  PROVE  Local'
<1>1. ASSUME NEW u \in Tasks \ {t} PROVE TaskOK(u)'
  BY LockAssumption DEF Local, TaskOK, Making, Handling, Others
<1>2. ASSUME NEW p \in Procs PROVE ManagerOK(p)'
  BY DEF Local, ManagerOK, TypeOK, Manager
<1> QED BY <1>1, <1>2 DEF Local

LEMMA BackLocal ==
  ASSUME TypeOK, TypeOK', Local, NEW t \in Tasks, Home[t] \in up, Back(t),
         up' = up, maker' = maker, file' \in {file, NoRecord}
  PROVE  Local'
<1>1. TaskOK(t)'
  BY DEF Back, TaskOK, Making, Handling, Judging, Guarded, ReleaseSteps
<1>2. \A p \in Procs : mgr'[p].held \in {mgr[p].held, NoRecord}
  BY DEF Back, SameHeld
<1>3. \A r \in Records : maker[r] \in Tasks => maker'[r] = maker[r]
  OBVIOUS
<1>4. file' # NoRecord => maker'[file'] \in Tasks
  BY DEF Local
<1> QED BY <1>1, <1>2, <1>3, <1>4, LocalFrame DEF Back

LEMMA StepLocal ==
  ASSUME TypeOK, TypeOK', Local, NEW t \in Tasks, Others(t), TaskOK(t)', SameHeld,
         up' = up, maker' = maker, file' \in {file, NoRecord}
  PROVE  Local'
<1>2. \A p \in Procs : mgr'[p].held \in {mgr[p].held, NoRecord}
  BY DEF SameHeld
<1>3. \A r \in Records : maker[r] \in Tasks => maker'[r] = maker[r]
  OBVIOUS
<1>4. file' # NoRecord => maker'[file'] \in Tasks
  BY DEF Local
<1> QED BY <1>2, <1>3, <1>4, LocalFrame

LEMMA AcquireLocal ==
  ASSUME TypeOK, TypeOK', Local, NEW t \in Tasks,
         \/ Call(t) \/ Admit(t) \/ CreateRefused(t) \/ CreateConflict(t)
         \/ Created(t) \/ UndoCompare(t) \/ UndoRemove(t)
         \/ WriteFile(t) \/ WriteFails(t)
  PROVE  Local'
<1> USE DEF At, TypeOK, Task, Others, TaskOK, Making, Handling, Judging, Guarded, ReleaseSteps
<1>1. /\ Home[t] \in up /\ up' = up /\ maker' = maker /\ file' \in {file, NoRecord}
  BY DEF disk, Call, Admit, CreateRefused, MayCreate, CreateConflict, Created, UndoCompare,
         UndoRemove, WriteFile, WriteFails
<1>2. TaskOK(t)
  BY DEF Local
<1>3. ASSUME UNCHANGED mgr PROVE SameHeld
  BY <1>3 DEF SameHeld
<1>4. CASE Call(t)
  <2>1. Others(t) /\ TaskOK(t)'
    BY <1>1, <1>4 DEF Call, Goto
  <2> QED BY <1>1, <1>3, <1>4, <2>1, StepLocal DEF Call
<1>5. CASE Admit(t)
  <2>1. CASE Wait(t)
    BY <1>1, <2>1, EndsBack, BackLocal
  <2>2. CASE mgr' = [mgr EXCEPT ![Home[t]].admitted = t] /\ Goto(t, "create")
    <3>1. SameHeld
      BY <2>2, LockAssumption DEF SameHeld, Manager
    <3>2. Others(t) /\ TaskOK(t)'
      BY <1>1, <2>2 DEF Goto
    <3> QED BY <1>1, <3>1, <3>2, StepLocal
  <2> QED BY <1>5, <2>1, <2>2 DEF Admit
<1>6. CASE CreateRefused(t)
  BY <1>1, <1>6, EndsBack, BackLocal DEF CreateRefused
<1>7. CASE CreateConflict(t)
  <2>1. CASE task[t].guard /\ DropGuard(t, "wait")
    BY <1>1, <1>3, <1>7, <2>1, DropsBack, BackLocal DEF CreateConflict
  <2>2. CASE Goto(t, "inspect")
    <3>1. Others(t) /\ TaskOK(t)'
      BY <1>1, <2>2 DEF Goto
    <3> QED BY <1>1, <1>3, <1>7, <3>1, StepLocal DEF CreateConflict
  <2> QED BY <1>7, <2>1, <2>2 DEF CreateConflict
<1>8. CASE Created(t)
  <2>1. CASE Wait(t)
    BY <1>1, <2>1, EndsBack, BackLocal
  <2>2. CASE UNCHANGED mgr /\ task' = [task EXCEPT ![t].pc = "undo", ![t].then = "wait"]
    <3>1. Others(t) /\ TaskOK(t)'
      BY <1>1, <1>2, <1>8, <2>2 DEF Created
    <3> QED BY <1>1, <1>3, <2>2, <3>1, StepLocal
  <2>3. CASE UNCHANGED mgr /\ task[t].guard /\ DropGuard(t, "register")
    <3>1. Others(t) /\ TaskOK(t)'
      BY <1>1, <1>2, <1>8, <2>3 DEF Created, DropGuard
    <3> QED BY <1>1, <1>3, <2>3, <3>1, StepLocal
  <2>4. CASE UNCHANGED mgr /\ Goto(t, "register")
    <3>1. Others(t) /\ TaskOK(t)'
      BY <1>1, <1>2, <1>8, <2>4 DEF Created, Goto
    <3> QED BY <1>1, <1>3, <2>4, <3>1, StepLocal
  <2> QED BY <1>8, <2>1, <2>2, <2>3, <2>4 DEF Created
<1>9. CASE UndoCompare(t)
  <2>1. CASE Goto(t, "undoRm") /\ UNCHANGED mgr
    <3>1. Others(t) /\ TaskOK(t)'
      BY <1>1, <1>2, <1>9, <2>1 DEF UndoCompare, Goto
    <3> QED BY <1>1, <1>3, <2>1, <3>1, StepLocal
  <2> QED BY <1>1, <1>9, <2>1, EndsBack, BackLocal DEF UndoCompare, AfterUndo
<1>10. CASE UndoRemove(t)
  BY <1>1, <1>10, EndsBack, BackLocal DEF UndoRemove, AfterUndo
<1>11. CASE WriteFile(t)
  <2>1. Others(t) /\ TaskOK(t)'
    BY <1>1, <1>2, <1>11 DEF WriteFile, Goto
  <2> QED BY <1>1, <1>3, <1>11, <2>1, StepLocal DEF WriteFile
<1>12. CASE WriteFails(t)
  <2>1. Others(t) /\ TaskOK(t)'
    BY <1>1, <1>2, <1>12 DEF WriteFails
  <2> QED BY <1>1, <1>3, <1>12, <2>1, StepLocal DEF WriteFails
<1> QED BY <1>4, <1>5, <1>6, <1>7, <1>8, <1>9, <1>10, <1>11, <1>12

LEMMA CreationLocal ==
  ASSUME TypeOK, TypeOK', Local, NEW t \in Tasks, Reuse(t) \/ CreateFile(t) \/ Register(t)
  PROVE  Local'
<1> USE DEF At, Task, Others, TaskOK, Making, Handling, Judging, Guarded, ReleaseSteps
<1>0. Home[t] \in Procs /\ mgr[Home[t]] \in Manager /\ task[t] \in Task /\ TaskOK(t)
  BY LockAssumption DEF TypeOK, Local
<1>1. CASE Reuse(t)
  <2>1. SameHeld
    BY <1>0, <1>1 DEF Reuse, SameHeld, TypeOK, Manager
  <2>2. Held(t) \in Records
    BY <1>0, <1>1 DEF Reuse, Reentrant, Held, Manager
  <2>3. Others(t) /\ TaskOK(t)'
    BY <1>0, <1>1, <2>2 DEF Reuse, TypeOK
  <2> QED BY <1>1, <2>1, <2>3, StepLocal DEF Reuse, disk
<1>2. CASE CreateFile(t)
  <2>1. PICK r \in Records :
          /\ maker[r] = Nobody /\ file' = r
          /\ maker' = [maker EXCEPT ![r] = t]
          /\ task' = [task EXCEPT ![t].rec = r,
                                  ![t].pc = IF Hardlinks THEN "created" ELSE "write"]
    BY <1>2 DEF CreateFile
  <2>2. Others(t) /\ TaskOK(t)'
    <3>1. /\ task[t].pc = "create" /\ Home[t] \in up /\ up' = up
      BY <1>2 DEF CreateFile, MayCreate
    <3>2. Others(t) /\ task'[t].rec = r /\ task'[t].pc \in {"created", "write"}
      BY <1>0, <2>1 DEF TypeOK
    <3>3. maker'[r] = t
      BY <2>1 DEF TypeOK
    <3> QED BY <3>1, <3>2, <3>3
  <2>3. \A q \in Records : maker[q] \in Tasks => maker'[q] = maker[q]
    BY <2>1, LockAssumption DEF TypeOK
  <2>4. file' # NoRecord => maker'[file'] \in Tasks
    BY <2>1 DEF TypeOK
  <2>5. up' = up /\ \A p \in Procs : mgr'[p].held \in {mgr[p].held, NoRecord}
    BY <1>2 DEF CreateFile
  <2> QED BY <2>2, <2>3, <2>4, <2>5, LocalFrame
<1>3. CASE Register(t)
  <2>1. CASE HasToken(t) /\ Held(t) = NoRecord
    <3>1. /\ mgr' = [mgr EXCEPT ![Home[t]].held = task[t].rec, ![Home[t]].refs = 1,
                                ![Home[t]].admitted = Nobody]
          /\ Goto(t, "holding") /\ UNCHANGED <<disk, up>>
      BY <1>3, <2>1 DEF Register
    <3>2. Others(t) /\ TaskOK(t)'
      BY <1>0, <1>3, <3>1 DEF Register, Goto, TypeOK
    <3>3. ASSUME NEW u \in Tasks \ {t} PROVE TaskOK(u)'
      BY <3>1, <3>2 DEF disk, Local, TypeOK
    <3>4. task[t].rec \in Records /\ maker[task[t].rec] = t
      BY <1>0, <1>3 DEF Register
    <3>5. ASSUME NEW p \in Procs PROVE ManagerOK(p)'
      <4>1. CASE p = Home[t]
        <5>1. mgr'[p].held = task[t].rec
          BY <1>0, <3>1, <4>1 DEF TypeOK, Manager
        <5> QED BY <1>3, <3>1, <3>4, <4>1, <5>1 DEF Register, ManagerOK, disk
      <4>2. CASE p # Home[t]
        BY <3>1, <4>2 DEF Local, ManagerOK, TypeOK, disk
      <4> QED BY <4>1, <4>2
    <3> QED BY <3>1, <3>2, <3>3, <3>5 DEF Local, disk
  <2>2. CASE ~(HasToken(t) /\ Held(t) = NoRecord)
    <3>1. SameHeld
      BY <1>3, <2>2 DEF Register, SameHeld
    <3>2. Others(t) /\ TaskOK(t)'
      BY <1>0, <1>3, <2>2 DEF Register, TypeOK, disk
    <3> QED BY <1>3, <3>1, <3>2, StepLocal DEF Register, disk
  <2> QED BY <2>1, <2>2
<1> QED BY <1>1, <1>2, <1>3

LEMMA JudgeLocal ==
  ASSUME TypeOK, TypeOK', Local, NEW t \in Tasks,
         Inspect(t) \/ Recheck(t) \/ Approve(t) \/ Confirm(t) \/ Remove(t)
  PROVE  Local'
<1> USE DEF Task, Others, TaskOK, Making, Handling, Judging, Guarded, ReleaseSteps
<1>0. task[t] \in Task /\ TaskOK(t)
  BY DEF TypeOK, Local
<1>1. /\ Home[t] \in up /\ up' = up /\ maker' = maker /\ file' \in {file, NoRecord}
  BY DEF At, Boundary, disk, Inspect, Recheck, Approve, Confirm, Remove
<1>2. ASSUME UNCHANGED mgr PROVE SameHeld
  BY <1>2 DEF SameHeld
<1>3. ASSUME Throw(t) \/ Wait(t) PROVE Local'
  BY <1>1, <1>3, EndsBack, BackLocal
<1>4. ASSUME Back(t) PROVE Local'
  BY <1>1, <1>4, BackLocal
<1>5. CASE Inspect(t)
  <2>1. ASSUME task[t].pc = "inspect", file \in whole, UNCHANGED mgr,
               task' = [task EXCEPT ![t].pc = "recheck", ![t].seen = file]
        PROVE  Local'
    <3>1. file \in Records /\ maker[file] \in Tasks
      BY <2>1, LockAssumption DEF TypeOK, Local
    <3>2. Others(t) /\ TaskOK(t)'
      BY <1>0, <1>1, <2>1, <3>1 DEF TypeOK
    <3> QED BY <1>1, <1>2, <2>1, <3>2, StepLocal
  <2> QED BY <1>3, <1>4, <1>5, <2>1, BoundaryBack DEF Inspect, At
<1>6. CASE Recheck(t)
  <2>1. ASSUME task[t].pc = "recheck", UNCHANGED mgr, Goto(t, "takeGuard") PROVE Local'
    <3>1. Others(t) /\ TaskOK(t)'
      BY <1>0, <1>1, <2>1 DEF TypeOK, Goto
    <3> QED BY <1>1, <1>2, <2>1, <3>1, StepLocal
  <2> QED BY <1>3, <1>4, <1>6, <2>1, BoundaryBack DEF Recheck, At
<1>7. CASE Approve(t)
  <2>1. ASSUME task[t].pc = "approve", UNCHANGED mgr, Goto(t, "confirm") PROVE Local'
    <3>1. Others(t) /\ TaskOK(t)'
      BY <1>0, <1>1, <2>1 DEF TypeOK, Goto
    <3> QED BY <1>1, <1>2, <2>1, <3>1, StepLocal
  <2>2. ASSUME task[t].pc = "approve", UNCHANGED mgr, DropGuard(t, "end") PROVE Local'
    BY <1>0, <1>2, <1>4, <2>2, DropsBack
  <2> QED BY <1>3, <1>4, <1>7, <2>1, <2>2, BoundaryBack DEF Approve, At
<1>8. CASE Confirm(t)
  <2>1. ASSUME task[t].pc = "confirm", UNCHANGED mgr, Goto(t, "remove") PROVE Local'
    <3>1. Others(t) /\ TaskOK(t)'
      BY <1>0, <1>1, <2>1 DEF TypeOK, Goto
    <3> QED BY <1>1, <1>2, <2>1, <3>1, StepLocal
  <2> QED BY <1>3, <1>4, <1>8, <2>1, BoundaryBack DEF Confirm, At
<1>9. CASE Remove(t)
  <2>1. ASSUME task[t].pc = "remove", UNCHANGED mgr,
               task' = [task EXCEPT ![t].pc = "create", ![t].seen = NoRecord]
        PROVE  Local'
    <3>1. Others(t) /\ TaskOK(t)'
      BY <1>0, <1>1, <2>1 DEF TypeOK
    <3> QED BY <1>1, <1>2, <2>1, <3>1, StepLocal
  <2> QED BY <1>3, <1>4, <1>9, <2>1, BoundaryBack DEF Remove, At
<1> QED BY <1>5, <1>6, <1>7, <1>8, <1>9

LEMMA GuardLocal ==
  ASSUME TypeOK, TypeOK', Local, NEW t \in Tasks,
         TakeGuard(t) \/ GuardMade(t) \/ GuardRemove(t) \/ GuardRemoved(t)
  PROVE  Local'
<1> USE DEF Task, Others, TaskOK, Making, Handling, Judging, Guarded, ReleaseSteps
<1>0. task[t] \in Task /\ TaskOK(t) /\ Home[t] \in Procs
  BY LockAssumption DEF TypeOK, Local
<1>1. /\ Home[t] \in up /\ up' = up /\ maker' = maker /\ file' \in {file, NoRecord}
  BY DEF At, disk, TakeGuard, GuardMade, GuardRemove, GuardRemoved
<1>2. ASSUME UNCHANGED mgr PROVE SameHeld
  BY <1>2 DEF SameHeld
<1>3. CASE TakeGuard(t)
  <2>1. ASSUME Goto(t, "guardMade"), UNCHANGED mgr PROVE Local'
    <3>1. Others(t) /\ TaskOK(t)'
      BY <1>0, <1>1, <1>3, <2>1 DEF TypeOK, Goto, TakeGuard, At
    <3> QED BY <1>1, <1>2, <2>1, <3>1, StepLocal
  <2> QED BY <1>1, <1>3, <2>1, EndsBack, BackLocal DEF TakeGuard
<1>4. CASE GuardMade(t)
  <2>1. SameHeld
    BY <1>0, <1>4 DEF GuardMade, SameHeld, TypeOK, Manager
  <2>2. Others(t) /\ TaskOK(t)'
    BY <1>0, <1>1, <1>4 DEF TypeOK, GuardMade, At
  <2> QED BY <1>1, <2>1, <2>2, StepLocal
<1>5. CASE GuardRemove(t)
  <2>1. SameHeld
    BY <1>5, FreedHeld DEF GuardRemove, SameHeld
  <2>2. Others(t) /\ TaskOK(t)'
    BY <1>0, <1>1, <1>5 DEF GuardRemove, At, Goto, DropGuard, TypeOK, disk, NewTask
  <2> QED BY <1>1, <2>1, <2>2, StepLocal
<1>6. CASE GuardRemoved(t)
  <2> DEFINE freed == [Freed(t) EXCEPT ![Home[t]].guards = FALSE]
             kept == [mgr EXCEPT ![Home[t]].guards = FALSE]
  <2>1. \A p \in Procs : freed[p].held = mgr[p].held /\ kept[p].held = mgr[p].held
    BY <1>0, FreedHeld, FreedType DEF TypeOK, Manager
  <2>2. mgr' = freed \/ mgr' = kept
    BY <1>6 DEF GuardRemoved
  <2>3. SameHeld
    BY <2>1, <2>2 DEF SameHeld
  <2>4. Others(t) /\ TaskOK(t)'
    BY <1>0, <1>1, <1>6 DEF GuardRemoved, At, TypeOK, disk, NewTask
  <2> QED BY <1>1, <2>3, <2>4, StepLocal
<1> QED BY <1>3, <1>4, <1>5, <1>6

LEMMA ReleaseLocal ==
  ASSUME TypeOK, TypeOK', Local, NEW t \in Tasks, ReleaseHandle(t) \/ Drain(t) \/ ReleaseStep(t)
  PROVE  Local'
<1> USE DEF Task, Others, TaskOK, Making, Handling, Judging, Guarded, ReleaseSteps
<1>0. task[t] \in Task /\ TaskOK(t) /\ Home[t] \in Procs /\ mgr[Home[t]] \in Manager
  BY LockAssumption DEF TypeOK, Local
<1>1. /\ Home[t] \in up /\ up' = up /\ maker' = maker /\ file' \in {file, NoRecord}
  BY DEF At, disk, ReleaseHandle, Drain, ReleaseStep, ReleaseCompare, ReleaseRemove,
         ReleaseFails, ReleaseDone
<1>2. ASSUME UNCHANGED mgr PROVE SameHeld
  BY <1>2 DEF SameHeld
<1>3. CASE ReleaseHandle(t)
  <2>1. SameHeld
    <3> DEFINE left == IF task[t].started \/ mgr[Home[t]].refs = 0 THEN mgr[Home[t]].refs
                       ELSE mgr[Home[t]].refs - 1
    <3>1. mgr' = mgr \/ mgr' = [mgr EXCEPT ![Home[t]].refs = left]
      BY <1>3 DEF ReleaseHandle
    <3> HIDE DEF left
    <3> QED BY <3>1 DEF SameHeld, TypeOK, Manager
  <2>2. Others(t)
    BY <1>3 DEF ReleaseHandle, TypeOK
  <2>3. TaskOK(t)'
    BY <1>0, <1>1, <1>3 DEF ReleaseHandle, At, TypeOK, NewTask
  <2> QED BY <1>1, <2>1, <2>2, <2>3, StepLocal
<1>4. CASE Drain(t)
  <2>1. SameHeld
    BY <1>4 DEF Drain, SameHeld, TypeOK, Manager
  <2>2. Others(t) /\ TaskOK(t)'
    BY <1>0, <1>1, <1>4 DEF Drain, At, TypeOK, Held, Manager
  <2> QED BY <1>1, <2>1, <2>2, StepLocal
<1>5. CASE ReleaseCompare(t) \/ ReleaseRemove(t) \/ ReleaseFails(t)
  <2>1. SameHeld
    BY <1>5 DEF ReleaseCompare, ReleaseRemove, ReleaseFails, SameHeld
  <2>2. Others(t) /\ TaskOK(t)'
    BY <1>0, <1>1, <1>5
       DEF ReleaseCompare, ReleaseRemove, ReleaseFails, At, Goto, TypeOK, disk, NewTask
  <2> QED BY <1>1, <2>1, <2>2, StepLocal
<1>6. CASE ReleaseDone(t)
  <2>1. \A p \in Procs : mgr'[p].held \in {mgr[p].held, NoRecord}
    BY <1>6 DEF ReleaseDone, TypeOK, Manager
  <2>2. Others(t) /\ TaskOK(t)'
    BY <1>0, <1>1, <1>6 DEF ReleaseDone, TypeOK, disk, NewTask
  <2>3. \A r \in Records : maker[r] \in Tasks => maker'[r] = maker[r]
    BY <1>1
  <2>4. file' # NoRecord => maker'[file'] \in Tasks
    BY <1>1 DEF Local
  <2> QED BY <1>1, <2>1, <2>2, <2>3, <2>4, LocalFrame
<1> QED BY <1>3, <1>4, <1>5, <1>6 DEF ReleaseStep

LEMMA ProcessLocal ==
  ASSUME TypeOK, TypeOK', Local, NEW p \in Procs, Reset(p) \/ Exit(p) \/ Crash(p)
  PROVE  Local'
<1>1. /\ maker' = maker /\ file' \in {file, NoRecord}
      /\ \A q \in Procs : mgr'[q] = mgr[q] \/ mgr'[q].held = NoRecord
      /\ up' = up \/ (up' = up \ {p} /\ mgr'[p].held = NoRecord)
  <2>1. maker' = maker /\ file' \in {file, NoRecord}
    BY DEF disk, Reset, Exit, Crash, CleanUp
  <2>2. CASE Reset(p)
    <3>1. [NewManager EXCEPT !.guards = mgr[p].guards /\ ~guardDir].held = NoRecord
      BY DEF NewManager
    <3> QED BY <2>1, <2>2, <3>1 DEF Reset, TypeOK
  <2>3. CASE Exit(p) \/ Crash(p)
    <3>1. NewManager.held = NoRecord
      BY DEF NewManager
    <3> QED BY <2>1, <2>3, <3>1 DEF Exit, Crash, Ended, TypeOK
  <2> QED BY <2>1, <2>2, <2>3
<1>2. ASSUME NEW q \in Procs PROVE ManagerOK(q)'
  BY <1>1 DEF Local, ManagerOK
<1>3. ASSUME NEW u \in Tasks PROVE TaskOK(u)'
  <2>1. CASE task'[u] = NewTask
    BY <2>1 DEF TaskOK, Making, Handling, Judging, Guarded, ReleaseSteps, NewTask
  <2>2. CASE task'[u] = task[u] /\ (Home[u] \in up => Home[u] \in up')
    BY <1>1, <2>2 DEF TaskOK, Making, Handling, Local
  <2> QED BY <2>1, <2>2 DEF Reset, Exit, Crash, Ended, TypeOK
<1>4. file' # NoRecord => maker'[file'] \in Tasks
  BY <1>1 DEF Local
<1> QED BY <1>2, <1>3, <1>4 DEF Local

\* Every step keeps the types and what Local says, reset and exit included.
LEMMA LocalNext == TypeOK /\ Local /\ [Next]_vars => TypeOK' /\ Local'
<1> SUFFICES ASSUME TypeOK, Local, [Next]_vars PROVE Local'
  BY TypeNext
<1>1. TypeOK'
  BY TypeNext
<1>2. ASSUME NEW t \in Tasks,
             Call(t) \/ ReleaseHandle(t) \/ Drain(t) \/ AcquireStep(t) \/ ReclaimStep(t) \/ ReleaseStep(t)
      PROVE  Local'
  BY <1>1, <1>2, AcquireLocal, CreationLocal, JudgeLocal, GuardLocal, ReleaseLocal
     DEF AcquireStep, ReclaimStep
<1>3. CASE UNCHANGED vars
  BY <1>3 DEF Local, TaskOK, Making, Handling, ManagerOK, vars, disk
<1> QED BY <1>1, <1>2, <1>3, ProcessLocal DEF Next

LEMMA LocalInit == Init => Local
BY LockAssumption
   DEF Init, Local, TaskOK, Making, Handling, Judging, Guarded, ReleaseSteps, ManagerOK,
       NewTask, NewManager

\* Every variable keeps its type, for any processes, tasks, records, options,
\* faults and disturbances; a handle always names a record that was created.
THEOREM LockTypeCorrect == Spec => []TypeOK
<1>1. Init => TypeOK /\ Local
  BY TypeInit, LocalInit
<1>2. TypeOK /\ Local /\ [Next]_vars => TypeOK' /\ Local'
  BY LocalNext
<1> QED BY <1>1, <1>2, PTL DEF Spec

-----------------------------------------------------------------------------
(* The reclaim guard, while nobody resets or exits.                        *)

LEMMA GuardFrame ==
  ASSUME TypeOK, GuardOwned, NEW t \in Tasks, Others(t), guardDir' = guardDir,
         InGuard(t)' => InGuard(t)
  PROVE  GuardOwned'
BY DEF GuardOwned, InGuard, Others

LEMMA BackGuard ==
  ASSUME TypeOK, GuardOwned, NEW t \in Tasks, Back(t), guardDir' = guardDir,
         task[t].pc # "guardGone"
  PROVE  GuardOwned'
<1>1. InGuard(t)' => InGuard(t)
  BY DEF Back, InGuard
<1> QED BY <1>1, GuardFrame DEF Back

\* A step that keeps the guard variable is not about the guard.
LEMMA SameGuard ==
  ASSUME TypeOK, GuardOwned, NEW t \in Tasks, Others(t), guardDir' = guardDir,
         task'[t].guard => task[t].guard, task'[t].pc # "guardMade", task[t].pc # "guardGone"
  PROVE  GuardOwned'
<1>1. InGuard(t)' => InGuard(t)
  BY DEF InGuard
<1> QED BY <1>1, GuardFrame

LEMMA AcquireGuard ==
  ASSUME TypeOK, GuardOwned, NEW t \in Tasks, Call(t) \/ AcquireStep(t)
  PROVE  GuardOwned'
<1> USE DEF At
<1>1. guardDir' = guardDir
  BY DEF disk, Call, AcquireStep, Reuse, Admit, CreateRefused, CreateFile, WriteFile, WriteFails,
         CreateConflict, Created, Register, UndoCompare, UndoRemove
<1>2. task[t].pc # "guardGone"
  BY DEF Call, AcquireStep, Reuse, Admit, CreateRefused, MayCreate, CreateFile, WriteFile, WriteFails,
         CreateConflict, Created, Register, UndoCompare, UndoRemove
<1>3. ASSUME Throw(t) \/ Wait(t) PROVE GuardOwned'
  BY <1>1, <1>2, <1>3, EndsBack, BackGuard
<1>4. ASSUME NEW s \in Steps \ {"guardMade"}, Goto(t, s) PROVE GuardOwned'
  BY <1>1, <1>2, <1>4, SameGuard DEF Goto, Others, TypeOK, Task
<1>5. ASSUME NEW s \in Steps \ {"guardMade"}, NEW n,
             task' = [task EXCEPT ![t].pc = s, ![t].then = n]
      PROVE  GuardOwned'
  BY <1>1, <1>2, <1>5, SameGuard DEF Others, TypeOK, Task
<1>6. ASSUME NEW n, DropGuard(t, n) PROVE GuardOwned'
  BY <1>5, <1>6 DEF DropGuard, Steps, CleanupSteps
<1> USE DEF Steps, AdmittedSteps, CleanupSteps
<1>7. CASE Reuse(t)
  BY <1>1, <1>2, <1>7, SameGuard DEF Reuse, Others, TypeOK, Task
<1>8. CASE CreateFile(t)
  BY <1>1, <1>2, <1>8, SameGuard DEF CreateFile, Others, TypeOK, Task
<1>9. CASE Call(t)
  BY <1>4, <1>9 DEF Call
<1>10. CASE Admit(t)
  BY <1>3, <1>4, <1>10 DEF Admit
<1>11. CASE CreateRefused(t) \/ UndoRemove(t)
  BY <1>3, <1>11 DEF CreateRefused, UndoRemove, AfterUndo
<1>12. CASE WriteFile(t) \/ WriteFails(t)
  BY <1>4, <1>5, <1>12 DEF WriteFile, WriteFails
<1>13. CASE CreateConflict(t)
  BY <1>4, <1>6, <1>13 DEF CreateConflict
<1>14. CASE Created(t)
  BY <1>3, <1>4, <1>5, <1>6, <1>14 DEF Created
<1>15. CASE Register(t)
  BY <1>4, <1>5, <1>15 DEF Register
<1>16. CASE UndoCompare(t)
  BY <1>3, <1>4, <1>16 DEF UndoCompare, AfterUndo
<1> QED BY <1>7, <1>8, <1>9, <1>10, <1>11, <1>12, <1>13, <1>14, <1>15, <1>16 DEF AcquireStep

LEMMA ReclaimGuard ==
  ASSUME TypeOK, Local, GuardOwned, NEW t \in Tasks, ReclaimStep(t)
  PROVE  GuardOwned'
<1> USE DEF At
<1>0. task[t] \in Task /\ TaskOK(t)
  BY DEF TypeOK, Local
<1>1. CASE Inspect(t) \/ Recheck(t) \/ Approve(t) \/ Confirm(t) \/ Remove(t)
  <2>1. guardDir' = guardDir /\ task[t].pc # "guardGone"
    BY <1>1 DEF disk, Boundary, Inspect, Recheck, Approve, Confirm, Remove
  <2>2. ASSUME Back(t) \/ Throw(t) \/ Wait(t) PROVE GuardOwned'
    BY <2>1, <2>2, EndsBack, BackGuard
  <2>3. ASSUME NEW s \in {"takeGuard", "confirm", "remove"}, Goto(t, s) PROVE GuardOwned'
    BY <2>1, <2>3, SameGuard DEF Goto, Others, TypeOK, Task
  <2>4. ASSUME NEW s \in {"recheck", "create"}, NEW x,
               task' = [task EXCEPT ![t].pc = s, ![t].seen = x]
        PROVE  GuardOwned'
    BY <2>1, <2>4, SameGuard DEF Others, TypeOK, Task
  <2>5. CASE Inspect(t)
    BY <2>2, <2>4, <2>5, BoundaryBack DEF Inspect
  <2>6. CASE Recheck(t)
    BY <2>2, <2>3, <2>6, BoundaryBack DEF Recheck
  <2>7. CASE Approve(t)
    <3>1. ASSUME DropGuard(t, "end") PROVE GuardOwned'
      BY <2>1, <3>1, SameGuard DEF DropGuard, Others, TypeOK, Task
    <3> QED BY <2>2, <2>3, <2>7, <3>1, BoundaryBack DEF Approve
  <2>8. CASE Confirm(t)
    BY <2>2, <2>3, <2>8, BoundaryBack DEF Confirm
  <2>9. CASE Remove(t)
    BY <2>2, <2>4, <2>9, BoundaryBack DEF Remove
  <2> QED BY <1>1, <2>5, <2>6, <2>7, <2>8, <2>9
<1>2. CASE TakeGuard(t)
  <2>1. CASE guardDir /\ Wait(t) /\ UNCHANGED guardDir
    BY <1>2, <2>1, EndsBack, BackGuard DEF TakeGuard
  <2>2. CASE ~guardDir /\ guardDir' = TRUE /\ Goto(t, "guardMade")
    <3>1. \A u \in Tasks : ~InGuard(u)
      BY <2>2 DEF GuardOwned
    <3>2. \A u \in Tasks \ {t} : ~InGuard(u)'
      BY <2>2, <3>1 DEF Goto, InGuard, TypeOK
    <3> QED BY <2>2, <3>2 DEF GuardOwned
  <2> QED BY <1>2, <2>1, <2>2 DEF TakeGuard
<1>3. CASE GuardMade(t)
  <2>1. guardDir' = guardDir /\ InGuard(t) /\ Others(t)
    BY <1>3 DEF GuardMade, disk, InGuard, Others, TypeOK
  <2> QED BY <2>1, GuardFrame
<1>4. CASE GuardRemove(t)
  <2>1. InGuard(t) /\ guardDir
    BY <1>0, <1>4 DEF GuardRemove, InGuard, TaskOK, Guarded, GuardOwned
  <2>2. Goto(t, "guardGone") /\ ~guardDir'
    BY <1>4, <2>1 DEF GuardRemove
  <2>3. \A u \in Tasks \ {t} : ~InGuard(u)'
    BY <2>1, <2>2 DEF GuardOwned, Goto, InGuard, TypeOK
  <2>4. ~InGuard(t)'
    BY <1>0, <2>2 DEF Goto, InGuard, TypeOK, Task
  <2> QED BY <2>3, <2>4 DEF GuardOwned
<1>5. CASE GuardRemoved(t)
  <2>1. guardDir' = guardDir /\ Others(t)
    BY <1>5 DEF GuardRemoved, disk, Others, TypeOK
  <2>2. ~InGuard(t)'
    BY <1>0, <1>5 DEF GuardRemoved, InGuard, TypeOK, Task, NewTask
  <2> QED BY <2>1, <2>2, GuardFrame
<1> QED BY <1>1, <1>2, <1>3, <1>4, <1>5 DEF ReclaimStep

LEMMA ReleaseGuard ==
  ASSUME TypeOK, GuardOwned, NEW t \in Tasks, ReleaseHandle(t) \/ Drain(t) \/ ReleaseStep(t)
  PROVE  GuardOwned'
<1>1. guardDir' = guardDir /\ task[t].pc # "guardGone"
  BY DEF disk, At, ReleaseHandle, Drain, ReleaseStep, ReleaseCompare, ReleaseRemove,
         ReleaseFails, ReleaseDone
<1>2. Others(t)
  BY DEF Others, TypeOK, Goto, ReleaseHandle, Drain, ReleaseStep, ReleaseCompare, ReleaseRemove,
         ReleaseFails, ReleaseDone
<1>3. (task'[t].guard => task[t].guard) /\ task'[t].pc # "guardMade"
  BY DEF TypeOK, Task, At, Goto, NewTask, ReleaseHandle, Drain, ReleaseStep, ReleaseCompare,
         ReleaseRemove, ReleaseFails, ReleaseDone
<1> QED BY <1>1, <1>2, <1>3, SameGuard

LEMMA GuardNext ==
  ASSUME Undisturbed
  PROVE  TypeOK /\ Local /\ GuardOwned /\ [Next]_vars => GuardOwned'
<1> SUFFICES ASSUME TypeOK, Local, GuardOwned, [Next]_vars PROVE GuardOwned'
  OBVIOUS
<1>1. CASE \E t \in Tasks : \/ Call(t) \/ ReleaseHandle(t) \/ Drain(t)
                            \/ AcquireStep(t) \/ ReclaimStep(t) \/ ReleaseStep(t)
  BY <1>1, AcquireGuard, ReclaimGuard, ReleaseGuard
<1>2. CASE \E p \in Procs : Reset(p) \/ Exit(p) \/ Crash(p)
  <2>1. PICK p \in Procs : Crash(p)
    BY <1>2 DEF Undisturbed, Reset, Exit
  <2>2. guardDir' = guardDir /\ \A u \in Tasks : task'[u] \in {task[u], NewTask}
    BY <2>1 DEF Crash, Ended, disk
  <2>3. \A u \in Tasks : InGuard(u)' => InGuard(u)
    BY <2>2 DEF InGuard, NewTask
  <2> QED BY <2>2, <2>3 DEF GuardOwned
<1>3. CASE UNCHANGED vars
  BY <1>3 DEF GuardOwned, InGuard, vars, disk
<1> QED BY <1>1, <1>2, <1>3 DEF Next

\* One attempt at a time is in the guarded section and its directory stands, for
\* any number of processes, whatever fails or crashes, as long as no process
\* resets its managers or runs its exit handler (the guard's mkdir and rmdir).
THEOREM OneGuard == ASSUME Undisturbed PROVE Spec => []GuardExclusive
<1>1. Init => TypeOK /\ Local /\ GuardOwned
  BY TypeInit, LocalInit DEF Init, GuardOwned, InGuard, NewTask
<1>2. TypeOK /\ Local /\ GuardOwned /\ [Next]_vars => TypeOK' /\ Local' /\ GuardOwned'
  BY LocalNext, GuardNext
<1>3. GuardOwned => GuardExclusive
  BY DEF GuardOwned, InGuard, GuardExclusive
<1> QED BY <1>1, <1>2, <1>3, PTL DEF Spec

-----------------------------------------------------------------------------
(* The file and who relies on it, while nobody resets or exits.            *)

\* A task goes on with the record it has, or ends a release that left nothing to
\* miss, and the file stays.
LEMMA LockFrame ==
  ASSUME TypeOK, TypeOK', Local, LockOK, NEW t \in Tasks, Others(t), SameHeld,
         file' = file, maker' = maker, up' = up,
         Making(t)' => Making(t) /\ task'[t].rec = task[t].rec,
         task'[t].pc \in ReleaseSteps =>
           /\ task[t].pc \in ReleaseSteps
           /\ task'[t].rec = task[t].rec
           /\ task'[t].pc = "relRm" => file = task[t].rec,
         task[t].pc \in ReleaseSteps /\ task'[t].pc \notin ReleaseSteps =>
           Held(t) = NoRecord \/ file = Held(t),
         JudgeOK(t)'
  PROVE  LockOK'
<1>0. \A u \in Tasks : Home[u] \in Procs /\ Held(u)' = Held(u)
  BY LockAssumption DEF SameHeld, Held
<1>1. ASSUME NEW u \in Tasks PROVE ReleaserOK(u)'
  BY <1>0 DEF LockOK, ReleaserOK, Others
<1>2. ASSUME NEW u \in Tasks PROVE MakerOK(u)'
  BY DEF LockOK, MakerOK, Making, Others, SameHeld
<1>3. ASSUME NEW u \in Tasks PROVE JudgeOK(u)'
  BY DEF LockOK, JudgeOK, Others, MakerUp
<1>4. HeldOnDisk'
  <2> SUFFICES ASSUME NEW p \in Procs, p \in up, mgr[p].held # NoRecord, ~Releasing(p)'
               PROVE  file = mgr[p].held
    BY DEF HeldOnDisk, SameHeld, TypeOK
  <2>1. CASE ~Releasing(p)
    BY <2>1 DEF LockOK, HeldOnDisk
  <2>2. CASE Releasing(p)
    <3>1. PICK u \in Tasks : Home[u] = p /\ task[u].pc \in ReleaseSteps /\ task[u].rec = mgr[p].held
      BY <2>2 DEF Releasing
    <3>2. u = t /\ task'[t].pc \notin ReleaseSteps
      BY <3>1 DEF Releasing, Others, SameHeld
    <3> QED BY <3>1, <3>2 DEF Held
  <2> QED BY <2>1, <2>2
<1> QED BY <1>1, <1>2, <1>3, <1>4 DEF LockOK

LEMMA BackLock ==
  ASSUME TypeOK, TypeOK', Local, LockOK, NEW t \in Tasks, Back(t),
         file' = file, maker' = maker, up' = up, task[t].pc \notin ReleaseSteps
  PROVE  LockOK'
<1>1. ~Making(t)' /\ task'[t].pc \notin ReleaseSteps /\ JudgeOK(t)'
  BY DEF Back, Making, ReleaseSteps, JudgeOK
<1> QED BY <1>1, LockFrame DEF Back

\* A task that is not releasing goes on with the record it has.
LEMMA StepLock ==
  ASSUME TypeOK, TypeOK', Local, LockOK, NEW t \in Tasks, Others(t), UNCHANGED mgr,
         file' = file, maker' = maker, up' = up,
         task[t].pc \notin ReleaseSteps, task'[t].pc \notin ReleaseSteps,
         Making(t)' => Making(t) /\ task'[t].rec = task[t].rec,
         JudgeOK(t)'
  PROVE  LockOK'
BY LockFrame DEF SameHeld

\* The file goes, and nobody but the task that removes it relies on it.
LEMMA RemovalLock ==
  ASSUME TypeOK, TypeOK', Local, LockOK, NEW t \in Tasks, Others(t), SameHeld,
         file' = NoRecord, maker' = maker, up' = up,
         \A u \in Tasks \ {t} : /\ task[u].pc = "relRm" => file # task[u].rec
                                /\ ~Making(u)
                                /\ task[u].pc # "remove",
         \A p \in up : mgr[p].held # NoRecord /\ ~Releasing(p) => file # mgr[p].held,
         ~Making(t)',
         task[t].pc \in ReleaseSteps <=> task'[t].pc \in ReleaseSteps,
         task'[t].pc \in ReleaseSteps => task'[t].rec = task[t].rec,
         task'[t].pc \notin {"relRm", "confirm", "remove"}
  PROVE  LockOK'
<1>0. \A u \in Tasks : Home[u] \in Procs /\ Held(u)' = Held(u)
  BY LockAssumption DEF SameHeld, Held
<1>1. ASSUME NEW u \in Tasks PROVE ReleaserOK(u)'
  BY <1>0 DEF LockOK, ReleaserOK, Others
<1>2. ASSUME NEW u \in Tasks PROVE MakerOK(u)'
  BY DEF MakerOK, Making, Others
<1>3. ASSUME NEW u \in Tasks PROVE JudgeOK(u)'
  BY DEF LockOK, JudgeOK, Others, MakerUp
<1>4. HeldOnDisk'
  <2> SUFFICES ASSUME NEW p \in Procs, p \in up, mgr[p].held # NoRecord, ~Releasing(p)'
               PROVE  FALSE
    BY DEF HeldOnDisk, SameHeld, TypeOK
  <2>1. ~Releasing(p)
    BY DEF Releasing, Others, SameHeld
  <2> QED BY <2>1 DEF LockOK, HeldOnDisk
<1> QED BY <1>1, <1>2, <1>3, <1>4 DEF LockOK

\* The removal of the held entry's file begins; no other one is under way.
LEMMA StartLock ==
  ASSUME TypeOK, TypeOK', Local, LockOK, NEW t \in Tasks, Others(t), SameHeld,
         UNCHANGED <<disk, up>>, Home[t] \in up, ~Releasing(Home[t]),
         task[t].pc \notin ReleaseSteps, task'[t].pc = "relCompare", task'[t].rec = Held(t)
  PROVE  LockOK'
<1>0. \A u \in Tasks : Home[u] \in Procs /\ Held(u)' = Held(u)
  BY LockAssumption DEF SameHeld, Held
<1>1. \A u \in Tasks : Home[u] = Home[t] => task[u].pc \notin ReleaseSteps
  BY DEF LockOK, ReleaserOK, Held, Releasing
<1>2. ASSUME NEW u \in Tasks PROVE ReleaserOK(u)'
  BY <1>0, <1>1 DEF LockOK, ReleaserOK, Others, disk
<1>3. ASSUME NEW u \in Tasks PROVE MakerOK(u)'
  BY DEF LockOK, MakerOK, Making, Others, SameHeld, disk
<1>4. ASSUME NEW u \in Tasks PROVE JudgeOK(u)'
  BY DEF LockOK, JudgeOK, Others, MakerUp, disk
<1>5. HeldOnDisk'
  <2> SUFFICES ASSUME NEW p \in Procs, p \in up, mgr[p].held # NoRecord, ~Releasing(p)'
               PROVE  file = mgr[p].held
    BY DEF HeldOnDisk, SameHeld, TypeOK, disk
  <2>1. ~Releasing(p)
    BY DEF Releasing, Others, SameHeld
  <2> QED BY <2>1 DEF LockOK, HeldOnDisk
<1> QED BY <1>2, <1>3, <1>4, <1>5 DEF LockOK

LEMMA AcquireLock ==
  ASSUME TypeOK, TypeOK', Local, LockOK, NEW t \in Tasks,
         \/ Call(t) \/ Reuse(t) \/ Admit(t) \/ CreateRefused(t) \/ CreateConflict(t)
         \/ Created(t) \/ WriteFile(t) \/ WriteFails(t) \/ UndoCompare(t)
  PROVE  LockOK'
<1>0. task[t] \in Task
  BY DEF TypeOK
<1>1. file' = file /\ maker' = maker /\ up' = up /\ task[t].pc \notin ReleaseSteps
  BY DEF disk, At, ReleaseSteps, Call, Reuse, Admit, CreateRefused, CreateConflict, MayCreate,
         Created, WriteFile, WriteFails, UndoCompare
<1>2. ASSUME Throw(t) \/ Wait(t) PROVE LockOK'
  BY <1>1, <1>2, EndsBack, BackLock
<1>3. ASSUME UNCHANGED mgr, NEW s, Goto(t, s),
             \/ s \in {"loop", "inspect"}
             \/ s \in {"created", "register", "undoRm"} /\ Making(t)
      PROVE  LockOK'
  <2>1. Others(t) /\ task'[t].pc = s /\ task'[t].rec = task[t].rec
    BY <1>0, <1>3 DEF Goto, Others, TypeOK, Task
  <2>2. task'[t].pc \notin ReleaseSteps /\ JudgeOK(t)' /\ (Making(t)' => Making(t))
    BY <1>3, <2>1 DEF ReleaseSteps, JudgeOK, Making
  <2> QED BY <1>1, <1>3, <2>1, <2>2, StepLock
<1>4. ASSUME UNCHANGED mgr, NEW s \in {"undo", "guardRm"}, NEW n,
             task' = [task EXCEPT ![t].pc = s, ![t].then = n],
             Making(t) \/ (s = "guardRm" /\ n # "register")
      PROVE  LockOK'
  <2>1. Others(t) /\ task'[t].pc = s /\ task'[t].then = n /\ task'[t].rec = task[t].rec
    BY <1>0, <1>4 DEF Others, TypeOK, Task
  <2>2. task'[t].pc \notin ReleaseSteps /\ JudgeOK(t)' /\ (Making(t)' => Making(t))
    BY <1>4, <2>1 DEF ReleaseSteps, JudgeOK, Making
  <2> QED BY <1>1, <1>4, <2>1, <2>2, StepLock
<1>5. CASE Call(t)
  BY <1>3, <1>5 DEF Call
<1>6. CASE Reuse(t)
  <2>1. SameHeld
    BY <1>6 DEF Reuse, SameHeld, TypeOK, Manager
  <2>2. Others(t) /\ task'[t].pc \in {"guardRm", "holding"} /\ task'[t].then = "hold"
    BY <1>0, <1>6 DEF Reuse, Others, TypeOK, Task
  <2>3. ~Making(t)' /\ task'[t].pc \notin ReleaseSteps /\ JudgeOK(t)'
    BY <2>2 DEF Making, ReleaseSteps, JudgeOK
  <2> QED BY <1>1, <2>1, <2>2, <2>3, LockFrame
<1>7. CASE Admit(t)
  <2>1. CASE mgr' = [mgr EXCEPT ![Home[t]].admitted = t] /\ Goto(t, "create")
    <3>1. SameHeld
      BY <2>1 DEF SameHeld, TypeOK, Manager
    <3>2. Others(t) /\ task'[t].pc = "create"
      BY <1>0, <2>1 DEF Goto, Others, TypeOK, Task
    <3>3. ~Making(t)' /\ task'[t].pc \notin ReleaseSteps /\ JudgeOK(t)'
      BY <3>2 DEF Making, ReleaseSteps, JudgeOK
    <3> QED BY <1>1, <3>1, <3>2, <3>3, LockFrame
  <2> QED BY <1>2, <1>7, <2>1 DEF Admit
<1>8. CASE CreateRefused(t)
  BY <1>2, <1>8 DEF CreateRefused
<1>9. CASE CreateConflict(t)
  BY <1>3, <1>4, <1>9 DEF CreateConflict, DropGuard
<1>10. CASE Created(t)
  BY <1>2, <1>3, <1>4, <1>10 DEF Created, DropGuard, Making, At
<1>11. CASE WriteFile(t) \/ WriteFails(t)
  BY <1>3, <1>4, <1>11 DEF WriteFile, WriteFails, Making, At
<1>12. CASE UndoCompare(t)
  BY <1>2, <1>3, <1>12 DEF UndoCompare, AfterUndo, Making, At
<1> QED BY <1>5, <1>6, <1>7, <1>8, <1>9, <1>10, <1>11, <1>12

\* O_EXCL: no lock file, so nobody relies on one.
LEMMA CreateLock ==
  ASSUME TypeOK, TypeOK', Local, LockOK, NEW t \in Tasks, CreateFile(t)
  PROVE  LockOK'
<1> USE DEF ReleaseSteps
<1>1. PICK r \in Records :
        /\ maker[r] = Nobody /\ file' = r
        /\ maker' = [maker EXCEPT ![r] = t]
        /\ task' = [task EXCEPT ![t].rec = r,
                                ![t].pc = IF Hardlinks THEN "created" ELSE "write"]
  BY DEF CreateFile
<1>2. /\ task[t].pc = "create" /\ file = NoRecord /\ UNCHANGED <<up, mgr>>
      /\ Others(t) /\ task'[t].rec = r /\ task'[t].pc \in {"created", "write"}
  BY <1>1 DEF CreateFile, MayCreate, At, Others, TypeOK, Task
<1>3. \A q \in Records : maker[q] \in Tasks => q # r /\ maker'[q] = maker[q]
  BY <1>1, LockAssumption DEF TypeOK
<1>4. ASSUME NEW u \in Tasks \ {t} PROVE ReleaserOK(u)' /\ MakerOK(u)' /\ JudgeOK(u)'
  <2>1. TaskOK(u) /\ task'[u] = task[u]
    BY <1>2 DEF Local, Others
  <2>2. task[u].pc # "relRm" /\ ReleaserOK(u)'
    BY <1>2, <2>1, LockAssumption
       DEF LockOK, ReleaserOK, Others, Held, TaskOK, Handling
  <2>3. ~Making(u) /\ MakerOK(u)'
    BY <1>2, <2>1, LockAssumption DEF LockOK, MakerOK, Making, TaskOK
  <2>4. task[u].pc # "remove" /\ JudgeOK(u)'
    BY <1>2, <1>3, <2>1, LockAssumption DEF LockOK, JudgeOK, TaskOK, Judging, MakerUp
  <2> QED BY <2>2, <2>3, <2>4
<1>5. ReleaserOK(t)' /\ JudgeOK(t)'
  BY <1>2 DEF ReleaserOK, JudgeOK
<1>6. MakerOK(t)'
  <2>1. ASSUME NEW p \in Procs PROVE mgr[p].held # r
    BY <1>3, LockAssumption DEF Local, ManagerOK
  <2> QED BY <1>1, <1>2, <2>1 DEF MakerOK
<1>7. HeldOnDisk'
  BY <1>2 DEF LockOK, HeldOnDisk, Releasing, Others
<1> QED BY <1>4, <1>5, <1>6, <1>7 DEF LockOK

LEMMA RegisterLock ==
  ASSUME TypeOK, TypeOK', Local, LockOK, NEW t \in Tasks, Register(t)
  PROVE  LockOK'
<1> USE DEF ReleaseSteps
<1>0. /\ task[t] \in Task /\ task[t].pc = "register" /\ Making(t) /\ Home[t] \in Procs
      /\ UNCHANGED <<disk, up>> /\ Home[t] \in up
  BY LockAssumption DEF Register, At, TypeOK, Making
<1>1. CASE HasToken(t) /\ Held(t) = NoRecord
  <2>1. /\ mgr' = [mgr EXCEPT ![Home[t]].held = task[t].rec, ![Home[t]].refs = 1,
                              ![Home[t]].admitted = Nobody]
        /\ Goto(t, "holding")
    BY <1>1 DEF Register
  <2>2. Others(t) /\ task'[t].pc = "holding"
    BY <1>0, <2>1 DEF Goto, Others, TypeOK, Task
  <2>3. /\ mgr'[Home[t]].held = task[t].rec
        /\ \A p \in Procs \ {Home[t]} : mgr'[p].held = mgr[p].held
    BY <1>0, <2>1 DEF TypeOK, Manager
  <2>4. /\ task[t].rec \in Records /\ maker[task[t].rec] = t /\ file = task[t].rec
    BY <1>0 DEF Local, TaskOK, LockOK, MakerOK
  <2>5. ASSUME NEW u \in Tasks \ {t} PROVE ReleaserOK(u)' /\ MakerOK(u)' /\ JudgeOK(u)'
    <3>1. TaskOK(u) /\ task'[u] = task[u] /\ Home[u] \in Procs
      BY <2>2, LockAssumption DEF Local, Others
    <3>2. ASSUME Home[u] = Home[t] PROVE ReleaserOK(u)'
      <4>1. task[u].pc \notin ReleaseSteps
        <5>1. task[u].pc \in ReleaseSteps => task[u].rec = NoRecord
          BY <1>1, <3>2 DEF LockOK, ReleaserOK, Held
        <5>2. task[u].pc \in ReleaseSteps => task[u].rec \in Records
          BY <3>1 DEF TaskOK, Handling
        <5> QED BY <5>1, <5>2, LockAssumption
      <4> QED BY <3>1, <4>1 DEF ReleaserOK
    <3>3. ASSUME Home[u] # Home[t] PROVE ReleaserOK(u)'
      <4>1. Held(u)' = Held(u)
        BY <2>3, <3>1, <3>3 DEF Held
      <4>2. \A v \in Tasks : task'[v].pc \in ReleaseSteps => task[v].pc \in ReleaseSteps
        BY <2>2 DEF Others
      <4>3. ReleaserOK(u) /\ file' = file
        BY <1>0 DEF LockOK, disk
      <4> QED BY <3>1, <4>1, <4>2, <4>3 DEF ReleaserOK
    <3>4. ~Making(u)
      BY <2>4, <3>1 DEF LockOK, MakerOK, TaskOK
    <3>5. MakerOK(u)'
      BY <3>1, <3>4 DEF MakerOK, Making
    <3>6. JudgeOK(u)'
      BY <1>0, <3>1 DEF LockOK, JudgeOK, MakerUp, disk
    <3> QED BY <3>2, <3>3, <3>5, <3>6
  <2>6. ReleaserOK(t)' /\ MakerOK(t)' /\ JudgeOK(t)'
    BY <2>2 DEF ReleaserOK, MakerOK, Making, JudgeOK
  <2>7. HeldOnDisk'
    <3> SUFFICES ASSUME NEW p \in Procs, p \in up, mgr'[p].held # NoRecord, ~Releasing(p)'
                 PROVE  file = mgr'[p].held
      BY <1>0 DEF HeldOnDisk, TypeOK, disk
    <3>1. CASE p = Home[t]
      BY <2>3, <2>4, <3>1
    <3>2. CASE p # Home[t]
      <4>1. ~Releasing(p)
        BY <1>0, <2>2, <2>3, <3>2 DEF Releasing, Others
      <4> QED BY <2>3, <3>2, <4>1 DEF LockOK, HeldOnDisk
    <3> QED BY <3>1, <3>2
  <2> QED BY <2>5, <2>6, <2>7 DEF LockOK
<1>2. CASE ~(HasToken(t) /\ Held(t) = NoRecord)
  <2>1. UNCHANGED mgr /\ task' = [task EXCEPT ![t].pc = "undo", ![t].then = "wait"]
    BY <1>2 DEF Register
  <2>2. Others(t) /\ task'[t].pc = "undo" /\ task'[t].rec = task[t].rec
    BY <1>0, <2>1 DEF Others, TypeOK, Task
  <2>3. JudgeOK(t)'
    BY <2>2 DEF JudgeOK
  <2> QED BY <1>0, <2>1, <2>2, <2>3, StepLock DEF disk
<1> QED BY <1>1, <1>2

\* The catch block of a failed attempt removes its own file.
LEMMA UndoLock ==
  ASSUME TypeOK, TypeOK', Local, LockOK, NEW t \in Tasks, UndoRemove(t)
  PROVE  LockOK'
<1>1. /\ Making(t) /\ Home[t] \in up /\ task[t].pc \notin ReleaseSteps /\ TaskOK(t)
      /\ file' = NoRecord /\ maker' = maker /\ up' = up
  BY DEF UndoRemove, At, Making, ReleaseSteps, Local
<1>2. /\ file = task[t].rec /\ maker[file] = t /\ file \in Records
      /\ \A p \in Procs : mgr[p].held # file
  BY <1>1 DEF LockOK, MakerOK, TaskOK
<1>3. Back(t)
  BY EndsBack DEF UndoRemove, AfterUndo
<1>4. ~Making(t)' /\ task'[t].pc \notin ReleaseSteps \cup {"confirm", "remove"}
  BY <1>3 DEF Back, Making, ReleaseSteps
<1>5. ASSUME NEW u \in Tasks \ {t}
      PROVE  /\ task[u].pc = "relRm" => file # task[u].rec
             /\ ~Making(u)
             /\ task[u].pc # "remove"
  <2>1. task[u].pc = "relRm" => file # task[u].rec
    BY <1>2, LockAssumption DEF LockOK, ReleaserOK, ReleaseSteps, Held
  <2>2. ~Making(u)
    BY <1>2 DEF LockOK, MakerOK, Local, TaskOK
  <2>3. task[u].pc # "remove"
    BY <1>1, <1>2 DEF LockOK, JudgeOK, MakerUp
  <2> QED BY <2>1, <2>2, <2>3
<1>6. \A p \in up : mgr[p].held # NoRecord /\ ~Releasing(p) => file # mgr[p].held
  BY <1>2 DEF TypeOK
<1> QED BY <1>1, <1>3, <1>4, <1>5, <1>6, RemovalLock DEF Back, ReleaseSteps

LEMMA JudgeLock ==
  ASSUME TypeOK, TypeOK', Local, LockOK, NEW t \in Tasks,
         Inspect(t) \/ Recheck(t) \/ Approve(t) \/ Confirm(t)
  PROVE  LockOK'
<1>0. task[t] \in Task /\ JudgeOK(t)
  BY DEF TypeOK, LockOK
<1>1. file' = file /\ maker' = maker /\ up' = up /\ task[t].pc \notin ReleaseSteps
  BY DEF disk, At, Boundary, ReleaseSteps, Inspect, Recheck, Approve, Confirm
<1>2. ASSUME Back(t) \/ Throw(t) \/ Wait(t) PROVE LockOK'
  BY <1>1, <1>2, EndsBack, BackLock
<1>3. ASSUME UNCHANGED mgr, Others(t), task'[t].pc \in {"recheck", "takeGuard"} PROVE LockOK'
  BY <1>1, <1>3, StepLock DEF ReleaseSteps, Making, JudgeOK
<1>4. ASSUME UNCHANGED mgr, NEW s \in {"confirm", "remove"}, Goto(t, s),
             ~MakerUp(task[t].seen), file = task[t].seen
      PROVE  LockOK'
  <2>1. Others(t) /\ task'[t].pc = s /\ task'[t].seen = task[t].seen
    BY <1>0, <1>4 DEF Goto, Others, TypeOK, Task
  <2>2. JudgeOK(t)' /\ ~Making(t)' /\ task'[t].pc \notin ReleaseSteps
    BY <1>1, <1>4, <2>1 DEF JudgeOK, MakerUp, Making, ReleaseSteps
  <2> QED BY <1>1, <1>4, <2>1, <2>2, StepLock
<1>5. CASE Inspect(t)
  <2>1. ASSUME task' = [task EXCEPT ![t].pc = "recheck", ![t].seen = file]
        PROVE  Others(t) /\ task'[t].pc = "recheck"
    BY <1>0, <2>1 DEF Others, TypeOK, Task
  <2> QED BY <1>2, <1>3, <1>5, <2>1, BoundaryBack DEF Inspect
<1>6. CASE Recheck(t)
  <2>1. ASSUME Goto(t, "takeGuard") PROVE Others(t) /\ task'[t].pc = "takeGuard"
    BY <1>0, <2>1 DEF Goto, Others, TypeOK, Task
  <2> QED BY <1>2, <1>3, <1>6, <2>1, BoundaryBack DEF Recheck
<1>7. CASE Approve(t)
  <2>1. ASSUME At(t, "approve"), DropGuard(t, "end"), UNCHANGED mgr PROVE LockOK'
    <3>1. task[t].guard
      BY <2>1 DEF At, Local, TaskOK, Guarded
    <3> QED BY <1>2, <2>1, <3>1, DropsBack DEF SameHeld
  <2> QED BY <1>2, <1>4, <1>7, <2>1, BoundaryBack DEF Approve
<1>8. CASE Confirm(t)
  BY <1>0, <1>2, <1>4, <1>8, BoundaryBack DEF Confirm, At, JudgeOK
<1> QED BY <1>5, <1>6, <1>7, <1>8

LEMMA GuardLock ==
  ASSUME TypeOK, TypeOK', Local, LockOK, NEW t \in Tasks,
         TakeGuard(t) \/ GuardMade(t) \/ GuardRemove(t) \/ GuardRemoved(t)
  PROVE  LockOK'
<1>0. task[t] \in Task
  BY DEF TypeOK
<1>1. file' = file /\ maker' = maker /\ up' = up /\ task[t].pc \notin ReleaseSteps
  BY DEF disk, At, ReleaseSteps, TakeGuard, GuardMade, GuardRemove, GuardRemoved
<1>2. CASE TakeGuard(t)
  <2>1. CASE Wait(t)
    BY <1>1, <2>1, EndsBack, BackLock
  <2>2. CASE Goto(t, "guardMade") /\ UNCHANGED mgr
    <3>1. Others(t) /\ task'[t].pc = "guardMade"
      BY <1>0, <2>2 DEF Goto, Others, TypeOK, Task
    <3> QED BY <1>1, <2>2, <3>1, StepLock DEF ReleaseSteps, Making, JudgeOK
  <2> QED BY <1>2, <2>1, <2>2 DEF TakeGuard
<1>3. ASSUME Others(t), SameHeld, task'[t].pc \notin ReleaseSteps, JudgeOK(t)',
             Making(t)' => Making(t) /\ task'[t].rec = task[t].rec
      PROVE  LockOK'
  BY <1>1, <1>3, LockFrame
<1>4. CASE GuardMade(t)
  <2>1. SameHeld
    BY <1>4 DEF GuardMade, SameHeld, TypeOK, Manager
  <2>2. Others(t) /\ task'[t].pc \in {"approve", "guardRm"} /\ task'[t].then \in {"wait", "end"}
    BY <1>0, <1>4 DEF GuardMade, Others, TypeOK, Task
  <2> QED BY <1>3, <2>1, <2>2 DEF ReleaseSteps, Making, JudgeOK
<1>5. CASE GuardRemove(t)
  <2>1. SameHeld
    BY <1>5, FreedHeld DEF GuardRemove, SameHeld
  <2>2. /\ Others(t) /\ task[t].pc = "guardRm"
        /\ \/ task'[t].pc = "guardGone" /\ task'[t].then = task[t].then
           \/ task'[t].pc = "undo" /\ task[t].then = "register"
           \/ task'[t].pc = "guardRm" /\ task'[t].then = "end"
           \/ task'[t].pc \in {"holding", "idle"}
        /\ task'[t].rec = task[t].rec \/ task'[t].pc = "idle"
    BY <1>0, <1>5 DEF GuardRemove, At, Goto, DropGuard, Others, TypeOK, Task, NewTask
  <2> QED BY <1>3, <2>1, <2>2 DEF ReleaseSteps, Making, JudgeOK
<1>6. CASE GuardRemoved(t)
  <2> DEFINE freed == [Freed(t) EXCEPT ![Home[t]].guards = FALSE]
             kept == [mgr EXCEPT ![Home[t]].guards = FALSE]
  <2>1. \A p \in Procs : freed[p].held = mgr[p].held /\ kept[p].held = mgr[p].held
    BY FreedHeld, FreedType, LockAssumption DEF TypeOK, Manager
  <2>2. mgr' = freed \/ mgr' = kept
    BY <1>6 DEF GuardRemoved
  <2>3. SameHeld
    BY <2>1, <2>2 DEF SameHeld
  <2>4. /\ Others(t) /\ task[t].pc = "guardGone"
        /\ \/ task'[t].pc = "register" /\ task[t].then = "register" /\ task'[t].rec = task[t].rec
           \/ task'[t].pc \in {"holding", "idle", "loop"}
    BY <1>0, <1>6 DEF GuardRemoved, At, Others, TypeOK, Task, NewTask
  <2> QED BY <1>3, <2>3, <2>4 DEF ReleaseSteps, Making, JudgeOK
<1> QED BY <1>2, <1>4, <1>5, <1>6

\* The guard keeps a second attempt away from the removal of a stale record, and
\* the record's maker has ended, so that nobody relies on it.
LEMMA ReclaimLock ==
  ASSUME TypeOK, TypeOK', Local, LockOK, GuardOwned, NEW t \in Tasks, Remove(t)
  PROVE  LockOK'
<1>0. task[t] \in Task
  BY DEF TypeOK
<1>1. /\ task[t].pc = "remove" /\ file' = NoRecord /\ maker' = maker /\ up' = up
  BY BoundaryBack DEF Remove, At
<1>2. file = task[t].seen /\ ~MakerUp(file) /\ file \in Records
  BY <1>1 DEF LockOK, JudgeOK, Local, TaskOK, Judging
<1>3. ASSUME NEW u \in Tasks \ {t}
      PROVE  /\ task[u].pc = "relRm" => file # task[u].rec
             /\ ~Making(u)
             /\ task[u].pc # "remove"
  <2>1. TaskOK(u) /\ Home[u] \in Procs
    BY LockAssumption DEF Local
  <2>2. ASSUME task[u].pc = "relRm", file = task[u].rec PROVE FALSE
    <3>1. mgr[Home[u]].held = file /\ ManagerOK(Home[u])
      BY <2>1, <2>2 DEF LockOK, ReleaserOK, ReleaseSteps, Held, Local
    <3>2. Home[u] \in up
      BY <2>1, <2>2 DEF TaskOK, NewTask
    <3> QED BY <1>2, <3>1, <3>2, LockAssumption DEF ManagerOK, MakerUp
  <2>3. ~Making(u)
    <3> SUFFICES ASSUME Making(u) PROVE FALSE
      OBVIOUS
    <3>1. file = task[u].rec /\ maker[file] = u
      BY <2>1 DEF LockOK, MakerOK, TaskOK
    <3>2. Home[u] \in up
      BY <2>1 DEF TaskOK, NewTask, Making
    <3> QED BY <1>2, <3>1, <3>2 DEF MakerUp
  <2>4. task[u].pc # "remove"
    <3> SUFFICES ASSUME task[u].pc = "remove" PROVE FALSE
      OBVIOUS
    <3>1. InGuard(u) /\ InGuard(t)
      BY <1>1, <2>1 DEF Local, TaskOK, Guarded, InGuard
    <3> QED BY <3>1 DEF GuardOwned
  <2> QED BY <2>2, <2>3, <2>4
<1>4. ASSUME NEW p \in up, mgr[p].held # NoRecord, ~Releasing(p) PROVE file # mgr[p].held
  <2>1. ManagerOK(p)
    BY DEF Local, TypeOK
  <2> QED BY <1>2, <1>4, <2>1 DEF ManagerOK, MakerUp
<1>5. /\ Others(t) /\ SameHeld /\ ~Making(t)'
      /\ task'[t].pc \notin ReleaseSteps \cup {"confirm", "remove"}
  <2>1. CASE Back(t)
    BY <2>1 DEF Back, Making, ReleaseSteps
  <2>2. CASE Wait(t)
    BY <2>2, EndsBack DEF Back, Making, ReleaseSteps
  <2>3. CASE UNCHANGED mgr /\ task' = [task EXCEPT ![t].pc = "create", ![t].seen = NoRecord]
    <3>1. Others(t) /\ task'[t].pc = "create"
      BY <1>0, <2>3 DEF Others, TypeOK, Task
    <3> QED BY <2>3, <3>1 DEF SameHeld, Making, ReleaseSteps
  <2> QED BY <2>1, <2>2, <2>3, BoundaryBack DEF Remove
<1> QED BY <1>1, <1>3, <1>4, <1>5, RemovalLock DEF ReleaseSteps

LEMMA HandleLock ==
  ASSUME TypeOK, TypeOK', Local, LockOK, NEW t \in Tasks, ReleaseHandle(t) \/ Drain(t)
  PROVE  LockOK'
<1>0. /\ task[t] \in Task /\ Home[t] \in Procs /\ mgr[Home[t]] \in Manager
      /\ UNCHANGED <<disk, up>> /\ Home[t] \in up /\ task[t].pc \notin ReleaseSteps
  BY LockAssumption DEF TypeOK, ReleaseHandle, Drain, At, ReleaseSteps
<1>1. CASE ReleaseHandle(t)
  <2> DEFINE left == IF task[t].started \/ mgr[Home[t]].refs = 0 THEN mgr[Home[t]].refs
                     ELSE mgr[Home[t]].refs - 1
  <2>1. SameHeld
    <3>1. mgr' = mgr \/ mgr' = [mgr EXCEPT ![Home[t]].refs = left]
      BY <1>1 DEF ReleaseHandle
    <3> HIDE DEF left
    <3> QED BY <3>1 DEF SameHeld, TypeOK, Manager
  <2>2. \/ task' = [task EXCEPT ![t] = NewTask]
        \/ task' = [task EXCEPT ![t].started = TRUE]
        \/ /\ Held(t) = task[t].rec /\ ~Releasing(Home[t])
           /\ task' = [task EXCEPT ![t].started = TRUE, ![t].pc = "relCompare"]
    BY <1>1 DEF ReleaseHandle
  <2>3. CASE task' = [task EXCEPT ![t] = NewTask] \/ task' = [task EXCEPT ![t].started = TRUE]
    <3>1. Others(t) /\ task'[t].pc \in {"idle", "holding"}
      BY <1>0, <1>1, <2>3 DEF ReleaseHandle, At, Others, TypeOK, Task, NewTask
    <3>2. ~Making(t)' /\ task'[t].pc \notin ReleaseSteps /\ JudgeOK(t)'
      BY <3>1 DEF Making, ReleaseSteps, JudgeOK
    <3> QED BY <1>0, <2>1, <3>1, <3>2, LockFrame DEF disk
  <2>4. CASE /\ Held(t) = task[t].rec /\ ~Releasing(Home[t])
             /\ task' = [task EXCEPT ![t].started = TRUE, ![t].pc = "relCompare"]
    <3>1. Others(t) /\ task'[t].pc = "relCompare" /\ task'[t].rec = Held(t)
      BY <1>0, <2>4 DEF Others, TypeOK, Task
    <3> QED BY <1>0, <2>1, <2>4, <3>1, StartLock
  <2> QED BY <2>2, <2>3, <2>4
<1>2. CASE Drain(t)
  <2>1. SameHeld /\ ~Releasing(Home[t])
    BY <1>2 DEF Drain, SameHeld, TypeOK, Manager
  <2>2. Others(t) /\ task'[t].pc = "relCompare" /\ task'[t].rec = Held(t)
    BY <1>0, <1>2 DEF Drain, Others, TypeOK, Task
  <2> QED BY <1>0, <2>1, <2>2, StartLock
<1> QED BY <1>1, <1>2

\* What the release of an entry is about to remove.
LEMMA OwnFile ==
  ASSUME TypeOK, Local, LockOK, NEW t \in Tasks, task[t].pc = "relRm"
  PROVE  /\ file = task[t].rec /\ file = Held(t) /\ file \in Records
         /\ Home[maker[file]] = Home[t] /\ Home[t] \in up /\ MakerUp(file)
<1>1. TaskOK(t) /\ ReleaserOK(t) /\ ManagerOK(Home[t])
  BY LockAssumption DEF Local, LockOK
<1>2. file = task[t].rec /\ file = Held(t) /\ file \in Records /\ file # NoRecord
  BY <1>1, LockAssumption DEF TaskOK, Handling, ReleaserOK, ReleaseSteps
<1> QED BY <1>1, <1>2 DEF ManagerOK, Held, MakerUp

LEMMA ReleaseLock ==
  ASSUME TypeOK, TypeOK', Local, LockOK, NEW t \in Tasks, ReleaseStep(t)
  PROVE  LockOK'
<1> USE DEF ReleaseSteps
<1>0. /\ task[t] \in Task /\ Home[t] \in Procs /\ mgr[Home[t]] \in Manager
      /\ maker' = maker /\ up' = up /\ Home[t] \in up /\ task[t].pc \in ReleaseSteps
  BY LockAssumption
     DEF TypeOK, ReleaseStep, ReleaseCompare, ReleaseRemove, ReleaseFails, ReleaseDone, At, disk
<1>1. CASE ReleaseCompare(t)
  <2>1. /\ Others(t) /\ task'[t].rec = task[t].rec /\ file' = file /\ SameHeld
        /\ task'[t].pc = IF file = task[t].rec THEN "relRm" ELSE "relDone"
    BY <1>0, <1>1 DEF ReleaseCompare, Goto, Others, SameHeld, TypeOK, Task, disk
  <2>2. ~Making(t)' /\ JudgeOK(t)'
    BY <2>1 DEF Making, JudgeOK
  <2> QED BY <1>0, <2>1, <2>2, LockFrame
<1>2. CASE ReleaseFails(t)
  <2>1. Others(t) /\ file' = file /\ SameHeld /\ task'[t].pc \in {"idle", "holding"}
    BY <1>0, <1>2 DEF ReleaseFails, Others, SameHeld, TypeOK, Task, NewTask, disk
  <2>2. file = Held(t)
    BY <1>2, OwnFile DEF ReleaseFails, At
  <2>3. ~Making(t)' /\ JudgeOK(t)'
    BY <2>1 DEF Making, JudgeOK
  <2> QED BY <1>0, <2>1, <2>2, <2>3, LockFrame
<1>3. CASE ReleaseRemove(t)
  <2>1. /\ task[t].pc = "relRm" /\ Others(t) /\ task'[t].rec = task[t].rec
        /\ file' = NoRecord /\ SameHeld /\ task'[t].pc = "relDone"
    BY <1>0, <1>3 DEF ReleaseRemove, At, Goto, Others, SameHeld, TypeOK, Task
  <2>2. /\ file = task[t].rec /\ file = Held(t) /\ file \in Records
        /\ Home[maker[file]] = Home[t] /\ MakerUp(file)
    BY <2>1, OwnFile
  <2>3. ASSUME NEW u \in Tasks \ {t}
        PROVE  /\ task[u].pc = "relRm" => file # task[u].rec
               /\ ~Making(u)
               /\ task[u].pc # "remove"
    <3>1. task[u].pc = "relRm" => file # task[u].rec
      <4>1. task[u].pc = "relRm" => Home[u] # Home[t]
        BY <1>0 DEF LockOK, ReleaserOK
      <4> QED BY <2>2, <4>1, OwnFile
    <3>2. ~Making(u)
      BY <1>0, <2>2 DEF LockOK, MakerOK, Held
    <3>3. task[u].pc # "remove"
      BY <2>2 DEF LockOK, JudgeOK
    <3> QED BY <3>1, <3>2, <3>3
  <2>4. ASSUME NEW p \in up, mgr[p].held # NoRecord, ~Releasing(p) PROVE file # mgr[p].held
    <3> SUFFICES ASSUME file = mgr[p].held PROVE FALSE
      OBVIOUS
    <3>1. Home[t] = p
      BY <2>2, <2>4 DEF Local, ManagerOK, TypeOK
    <3> QED BY <1>0, <2>2, <2>4, <3>1 DEF Releasing
  <2>5. ~Making(t)'
    BY <2>1 DEF Making
  <2> QED BY <1>0, <2>1, <2>3, <2>4, <2>5, RemovalLock
<1>4. CASE ReleaseDone(t)
  <2>1. /\ Others(t) /\ file' = file /\ task'[t].pc = "idle" /\ task[t].rec = Held(t)
    BY <1>0, <1>4 DEF ReleaseDone, Others, TypeOK, NewTask, disk, LockOK, ReleaserOK
  <2>2. /\ mgr'[Home[t]].held = NoRecord
        /\ \A p \in Procs \ {Home[t]} : mgr'[p].held = mgr[p].held
    BY <1>0, <1>4, <2>1 DEF ReleaseDone, Held, TypeOK, Manager
  <2>3. ASSUME NEW u \in Tasks \ {t} PROVE ReleaserOK(u)'
    <3>1. task'[u].pc \in ReleaseSteps => Home[u] # Home[t]
      BY <1>0, <2>1 DEF LockOK, ReleaserOK, Others
    <3>2. Home[u] # Home[t] => Held(u)' = Held(u)
      BY <2>2, LockAssumption DEF Held
    <3>3. \A v \in Tasks : task'[v].pc \in ReleaseSteps => task[v].pc \in ReleaseSteps
      BY <1>0, <2>1 DEF Others
    <3>4. ReleaserOK(u) /\ task'[u] = task[u]
      BY <2>1 DEF LockOK, Others
    <3> QED BY <2>1, <3>1, <3>2, <3>3, <3>4 DEF ReleaserOK
  <2>4. ASSUME NEW u \in Tasks \ {t} PROVE MakerOK(u)' /\ JudgeOK(u)'
    <3>1. TaskOK(u) /\ MakerOK(u) /\ JudgeOK(u) /\ task'[u] = task[u]
      BY <2>1 DEF Local, LockOK, Others
    <3>2. MakerOK(u)'
      BY <2>1, <2>2, <3>1, LockAssumption DEF MakerOK, Making, TaskOK
    <3> QED BY <1>0, <2>1, <3>1, <3>2 DEF JudgeOK, MakerUp
  <2>5. ReleaserOK(t)' /\ MakerOK(t)' /\ JudgeOK(t)'
    BY <2>1 DEF ReleaserOK, MakerOK, Making, JudgeOK
  <2>6. HeldOnDisk'
    BY <1>0, <2>1, <2>2 DEF LockOK, HeldOnDisk, Releasing, Others, TypeOK
  <2> QED BY <2>3, <2>4, <2>5, <2>6 DEF LockOK
<1> QED BY <1>1, <1>2, <1>3, <1>4 DEF ReleaseStep

LEMMA CrashLock ==
  ASSUME TypeOK, TypeOK', Local, LockOK, NEW p \in Procs, Crash(p)
  PROVE  LockOK'
<1>1. /\ file' = file /\ maker' = maker /\ up' = up \ {p} /\ mgr'[p].held = NoRecord
      /\ \A q \in Procs \ {p} : mgr'[q] = mgr[q]
      /\ \A u \in Tasks : task'[u] = IF Home[u] = p THEN NewTask ELSE task[u]
  BY DEF Crash, Ended, disk, TypeOK, NewManager
<1>2. ASSUME NEW u \in Tasks PROVE ReleaserOK(u)' /\ MakerOK(u)' /\ JudgeOK(u)'
  <2>1. CASE Home[u] = p
    <3>1. task'[u].pc = "idle"
      BY <1>1, <2>1 DEF NewTask
    <3> QED BY <3>1 DEF ReleaserOK, MakerOK, JudgeOK, Making, ReleaseSteps
  <2>2. CASE Home[u] # p
    <3>1. task'[u] = task[u] /\ TaskOK(u) /\ ReleaserOK(u) /\ MakerOK(u) /\ JudgeOK(u)
      BY <1>1, <2>2 DEF Local, LockOK
    <3>2. ReleaserOK(u)'
      BY <1>1, <2>2, <3>1, LockAssumption DEF ReleaserOK, Held
    <3>3. MakerOK(u)'
      BY <1>1, <3>1, LockAssumption DEF MakerOK, Making, TaskOK
    <3>4. JudgeOK(u)'
      BY <1>1, <3>1 DEF JudgeOK, MakerUp
    <3> QED BY <3>2, <3>3, <3>4
  <2> QED BY <2>1, <2>2
<1>3. HeldOnDisk'
  BY <1>1 DEF LockOK, HeldOnDisk, Releasing, TypeOK
<1> QED BY <1>2, <1>3 DEF LockOK

LEMMA LockNext ==
  ASSUME Undisturbed
  PROVE  TypeOK /\ Local /\ GuardOwned /\ LockOK /\ [Next]_vars => LockOK'
<1> SUFFICES ASSUME TypeOK, Local, GuardOwned, LockOK, [Next]_vars PROVE LockOK'
  OBVIOUS
<1>1. TypeOK'
  BY TypeNext
<1>2. ASSUME NEW t \in Tasks,
             Call(t) \/ ReleaseHandle(t) \/ Drain(t) \/ AcquireStep(t) \/ ReclaimStep(t) \/ ReleaseStep(t)
      PROVE  LockOK'
  BY <1>1, <1>2, AcquireLock, CreateLock, RegisterLock, UndoLock, JudgeLock, GuardLock,
     ReclaimLock, HandleLock, ReleaseLock
     DEF AcquireStep, ReclaimStep
<1>3. ASSUME NEW p \in Procs, Reset(p) \/ Exit(p) \/ Crash(p) PROVE LockOK'
  BY <1>1, <1>3, CrashLock DEF Undisturbed, Reset, Exit
<1>4. CASE UNCHANGED vars
  <2>1. UNCHANGED <<file, maker, up, mgr, task>>
    BY <1>4 DEF vars, disk
  <2> QED BY <2>1 DEF LockOK, ReleaserOK, MakerOK, Making, JudgeOK, MakerUp, Held, HeldOnDisk, Releasing
<1> QED BY <1>2, <1>3, <1>4 DEF Next

LEMMA LockInit == Init => GuardOwned /\ LockOK
BY DEF Init, GuardOwned, InGuard, LockOK, ReleaserOK, MakerOK, Making, JudgeOK, HeldOnDisk,
       ReleaseSteps, NewTask, NewManager

\* A registered lock that nobody releases is the file at the lock path, for any
\* number of processes, tasks and records, with or without hardlinks, through
\* stale recovery, drain, failed operations and crashes, as long as no process
\* resets its managers or runs its exit handler: the removal steps of reclaim,
\* failed attempts and release never take the file of another owner.
THEOREM HeldStaysOnDisk == ASSUME Undisturbed PROVE Spec => []HeldOnDisk
<1> DEFINE IInv == TypeOK /\ Local /\ GuardOwned /\ LockOK
<1>1. Init => IInv
  BY TypeInit, LocalInit, LockInit
<1>2. IInv /\ [Next]_vars => IInv'
  BY LocalNext, GuardNext, LockNext
<1>3. IInv => HeldOnDisk
  BY DEF LockOK
<1> HIDE DEF IInv
<1> QED BY <1>1, <1>2, <1>3, PTL DEF Spec

-----------------------------------------------------------------------------
(* What a step does to the file, and the service that this implements.     *)

Steady == TypeOK /\ Local /\ GuardOwned /\ LockOK

LEMMA SteadyInit == Init => Steady
BY TypeInit, LocalInit, LockInit DEF Steady

LEMMA SteadyNext ==
  ASSUME Undisturbed
  PROVE  Steady /\ [Next]_vars => Steady'
BY LocalNext, GuardNext, LockNext DEF Steady

\* The lock path changes hands in four ways only: an own file is created where
\* none was, the maker's process removes it, a dead maker's file is reclaimed,
\* or the maker's process crashes.
LEMMA FileSteps ==
  ASSUME Undisturbed, Steady, [Next]_vars
  PROVE  \/ UNCHANGED <<file, maker, up>>
         \/ /\ up' = up /\ file = NoRecord /\ file' \in Records
            /\ Home[maker'[file']] \in up
         \/ /\ up' = up /\ maker' = maker /\ file \in Records /\ file' = NoRecord
            /\ \/ MakerUp(file) /\ \E t \in Tasks : /\ Home[t] = Home[maker[file]]
                                                    /\ task'[t] # task[t]
               \/ ~MakerUp(file)
         \/ \E p \in Procs : up' = up \ {p} /\ UNCHANGED <<file, maker>>
<1> USE DEF Steady
<1>1. ASSUME NEW t \in Tasks, CreateFile(t)
      PROVE  /\ up' = up /\ file = NoRecord /\ file' \in Records
             /\ Home[maker'[file']] \in up
  BY <1>1 DEF CreateFile, MayCreate, At, TypeOK
<1>2. ASSUME NEW t \in Tasks, UndoRemove(t) \/ ReleaseRemove(t)
      PROVE  /\ up' = up /\ maker' = maker /\ file \in Records /\ file' = NoRecord
             /\ MakerUp(file) /\ Home[t] = Home[maker[file]] /\ task'[t] # task[t]
  <2>1. CASE UndoRemove(t)
    <3>1. Making(t) /\ task[t].pc = "undoRm" /\ Home[t] \in up
      BY <2>1 DEF UndoRemove, At, Making
    <3>2. file = task[t].rec /\ file \in Records /\ maker[file] = t
      BY <3>1 DEF LockOK, MakerOK, Local, TaskOK
    <3>3. task'[t].pc # "undoRm"
      BY <2>1, EndsBack DEF UndoRemove, AfterUndo, Back
    <3> QED BY <2>1, <3>1, <3>2, <3>3 DEF UndoRemove, MakerUp
  <2>2. CASE ReleaseRemove(t)
    <3>1. task[t].pc = "relRm" /\ task'[t].pc = "relDone"
      BY <2>2 DEF ReleaseRemove, At, Goto, TypeOK, Task
    <3> QED BY <2>2, <3>1, OwnFile DEF ReleaseRemove
  <2> QED BY <1>2, <2>1, <2>2
<1>3. ASSUME NEW t \in Tasks, Remove(t)
      PROVE  /\ up' = up /\ maker' = maker /\ file \in Records /\ file' = NoRecord
             /\ ~MakerUp(file)
  <2>1. task[t].pc = "remove"
    BY <1>3, BoundaryBack DEF Remove, At
  <2>2. file = task[t].seen /\ ~MakerUp(file) /\ file \in Records
    BY <2>1 DEF LockOK, JudgeOK, Local, TaskOK, Judging
  <2> QED BY <1>3, <2>2 DEF Remove
<1>4. ASSUME NEW t \in Tasks,
             \/ Call(t) \/ ReleaseHandle(t) \/ Drain(t)
             \/ AcquireStep(t) \/ ReclaimStep(t) \/ ReleaseStep(t),
             ~CreateFile(t), ~UndoRemove(t), ~ReleaseRemove(t), ~Remove(t)
      PROVE  UNCHANGED <<file, maker, up>>
  BY <1>4 DEF disk, Call, ReleaseHandle, Drain, AcquireStep, ReclaimStep, ReleaseStep,
     Reuse, Admit, CreateRefused, WriteFile, WriteFails, CreateConflict, Created, Register,
     UndoCompare, Inspect, Recheck, TakeGuard, GuardMade, Approve, Confirm, GuardRemove,
     GuardRemoved, ReleaseCompare, ReleaseFails, ReleaseDone
<1>5. ASSUME NEW p \in Procs, Reset(p) \/ Exit(p) \/ Crash(p)
      PROVE  up' = up \ {p} /\ UNCHANGED <<file, maker>>
  BY <1>5 DEF Undisturbed, Reset, Exit, Crash, Ended, disk
<1>6. CASE UNCHANGED vars
  BY <1>6 DEF vars, disk
<1> QED BY <1>1, <1>2, <1>3, <1>4, <1>5, <1>6 DEF Next

\* The file of a running owner goes away only by a step of its own process:
\* neither a reclaim nor a failed attempt or a late release of another process
\* removes it, under the same conditions as HeldStaysOnDisk.
THEOREM LiveRecordStays == ASSUME Undisturbed PROVE Spec => LiveRecordKept
<1>1. Steady /\ [Next]_vars =>
        [file # NoRecord /\ file' # file /\ MakerUp(file) => OwnStep(Home[maker[file]])]_vars
  BY FileSteps DEF OwnStep
<1> QED BY <1>1, SteadyInit, SteadyNext, PTL DEF Spec, LiveRecordKept

\* Who is inside owns the lock.
OwnerInside == Inside = {} \/ (Owner \in Procs /\ Inside = {Owner})

LEMMA InsideOwner == Steady => OwnerInside
<1> SUFFICES ASSUME Steady, NEW p \in Inside PROVE p \in Procs /\ p = Owner
  BY DEF OwnerInside
<1>1. /\ p \in up /\ p \in Procs /\ mgr[p].held # NoRecord /\ ~Releasing(p)
  BY DEF Inside, Steady, TypeOK
<1>2. file = mgr[p].held /\ Home[maker[file]] = p
  BY <1>1 DEF Steady, LockOK, HeldOnDisk, Local, ManagerOK
<1> QED BY <1>1, <1>2 DEF Owner, MakerUp

\* How the owner changes.
LEMMA OwnerSteps ==
  ASSUME Undisturbed, Steady, [Next]_vars
  PROVE  \/ Owner' = Owner
         \/ Owner = Unowned /\ Owner' \in Procs
         \/ Owner \in Procs /\ Owner' \in {Unowned, Stale}
         \/ Owner = Stale /\ Owner' = Unowned
<1>1. up \subseteq Procs
  BY DEF Steady, TypeOK
<1>2. CASE UNCHANGED <<file, maker, up>>
  BY <1>2 DEF Owner, MakerUp
<1>3. CASE /\ up' = up /\ file = NoRecord /\ file' \in Records
           /\ Home[maker'[file']] \in up
  BY <1>1, <1>3, LockAssumption DEF Owner, MakerUp
<1>4. CASE up' = up /\ maker' = maker /\ file \in Records /\ file' = NoRecord
  BY <1>1, <1>4, LockAssumption DEF Owner, MakerUp
<1>5. CASE \E p \in Procs : up' = up \ {p} /\ UNCHANGED <<file, maker>>
  BY <1>1, <1>5 DEF Owner, MakerUp
<1> QED BY <1>2, <1>3, <1>4, <1>5, FileSteps

\* The sidecar lock implements the lock service: one process at a time owns the
\* lock and is inside, and a crashed owner's lock is free again only by its
\* recovery (acquire, reclaim and release on the lock path).
THEOREM LockImplementsService == ASSUME Undisturbed PROVE Spec => KeepsService
<1>1. Init => Service!Init
  BY SteadyInit, InsideOwner, OwnerAssumption DEF Init, Owner, OwnerInside, Service!Init
<1>2. Steady /\ OwnerInside' /\ [Next]_vars => [Service!Next]_<<Owner, Inside>>
  <2> SUFFICES ASSUME Steady, OwnerInside', [Next]_vars
               PROVE  [Service!Next]_<<Owner, Inside>>
    OBVIOUS
  <2>1. Inside = {} \/ (Owner \in Procs /\ Inside = {Owner})
    BY InsideOwner DEF OwnerInside
  <2>2. Inside' = {} \/ (Owner' \in Procs /\ Inside' = {Owner'})
    BY DEF OwnerInside
  <2>3. CASE Owner' = Owner /\ Owner \notin Procs
    BY <2>1, <2>2, <2>3
  <2>4. CASE Owner' = Owner /\ Owner \in Procs
    BY <2>2, <2>4 DEF Service!Next, Service!Enter, Service!Leave
  <2>5. CASE Owner = Unowned /\ Owner' \in Procs
    BY <2>2, <2>5 DEF Service!Next, Service!Take
  <2>6. CASE Owner \in Procs /\ Owner' \in {Unowned, Stale}
    BY <2>2, <2>6, OwnerAssumption DEF Service!Next, Service!Release, Service!Die
  <2>7. CASE Owner = Stale /\ Owner' = Unowned
    BY <2>1, <2>2, <2>7, OwnerAssumption DEF Service!Next, Service!Recover
  <2> QED BY <2>3, <2>4, <2>5, <2>6, <2>7, OwnerSteps
<1> QED
  BY <1>1, <1>2, SteadyInit, SteadyNext, InsideOwner, PTL DEF Spec, KeepsService, Service!Spec

-----------------------------------------------------------------------------
(* The registered entry.                                                   *)

\* A step of a task registers no entry over another one.
EntryStays == \A p \in Procs : mgr[p].held # NoRecord => mgr'[p].held \in {mgr[p].held, NoRecord}

LEMMA EntrySteps ==
  ASSUME TypeOK, NEW t \in Tasks,
         \/ Call(t) \/ ReleaseHandle(t) \/ Drain(t)
         \/ AcquireStep(t) \/ ReclaimStep(t) \/ ReleaseStep(t)
  PROVE  EntryStays
<1>1. ASSUME SameHeld \/ UNCHANGED mgr \/ Back(t) \/ Throw(t) \/ Wait(t) PROVE EntryStays
  BY <1>1, EndsBack DEF EntryStays, SameHeld, Back
<1>2. CASE Register(t)
  BY <1>1, <1>2, LockAssumption DEF Register, Held, EntryStays, TypeOK, Manager
<1>3. CASE ReleaseDone(t)
  BY <1>3 DEF ReleaseDone, EntryStays, TypeOK, Manager
<1>4. CASE Reuse(t) \/ Drain(t) \/ GuardMade(t)
  BY <1>1, <1>4 DEF Reuse, Drain, GuardMade, SameHeld, TypeOK, Manager
<1>5. CASE Admit(t)
  <2>1. ASSUME mgr' = [mgr EXCEPT ![Home[t]].admitted = t] PROVE SameHeld
    BY <2>1 DEF SameHeld, TypeOK, Manager
  <2> QED BY <1>1, <1>5, <2>1 DEF Admit
<1>6. CASE ReleaseHandle(t)
  <2> DEFINE left == IF task[t].started \/ mgr[Home[t]].refs = 0 THEN mgr[Home[t]].refs
                     ELSE mgr[Home[t]].refs - 1
  <2>1. mgr' = mgr \/ mgr' = [mgr EXCEPT ![Home[t]].refs = left]
    BY <1>6 DEF ReleaseHandle
  <2> HIDE DEF left
  <2>2. SameHeld
    BY <2>1 DEF SameHeld, TypeOK, Manager
  <2> QED BY <1>1, <2>2
<1>7. CASE GuardRemove(t)
  <2>1. SameHeld
    BY <1>7, FreedHeld DEF GuardRemove, SameHeld
  <2> QED BY <1>1, <2>1
<1>8. CASE GuardRemoved(t)
  <2> DEFINE freed == [Freed(t) EXCEPT ![Home[t]].guards = FALSE]
             kept == [mgr EXCEPT ![Home[t]].guards = FALSE]
  <2>1. \A p \in Procs : freed[p].held = mgr[p].held /\ kept[p].held = mgr[p].held
    BY FreedHeld, FreedType, LockAssumption DEF TypeOK, Manager
  <2>2. mgr' = freed \/ mgr' = kept
    BY <1>8 DEF GuardRemoved
  <2>3. SameHeld
    BY <2>1, <2>2 DEF SameHeld
  <2> QED BY <1>1, <2>3
<1>9. CASE Inspect(t) \/ Recheck(t) \/ Approve(t) \/ Confirm(t) \/ Remove(t)
  <2>1. CASE Inspect(t)
    BY <1>1, <2>1, BoundaryBack DEF Inspect
  <2>2. CASE Recheck(t)
    BY <1>1, <2>2, BoundaryBack DEF Recheck
  <2>3. CASE Approve(t)
    BY <1>1, <2>3, BoundaryBack DEF Approve
  <2>4. CASE Confirm(t)
    BY <1>1, <2>4, BoundaryBack DEF Confirm
  <2>5. CASE Remove(t)
    BY <1>1, <2>5, BoundaryBack DEF Remove
  <2> QED BY <1>9, <2>1, <2>2, <2>3, <2>4, <2>5
<1>10. CASE \/ Call(t) \/ CreateRefused(t) \/ CreateFile(t) \/ WriteFile(t) \/ WriteFails(t)
            \/ CreateConflict(t) \/ Created(t) \/ UndoCompare(t) \/ UndoRemove(t)
  BY <1>1, <1>10 DEF Call, CreateRefused, CreateFile, WriteFile, WriteFails, CreateConflict,
     Created, UndoCompare, UndoRemove, AfterUndo
<1>11. CASE TakeGuard(t) \/ ReleaseCompare(t) \/ ReleaseRemove(t) \/ ReleaseFails(t)
  BY <1>1, <1>11 DEF TakeGuard, ReleaseCompare, ReleaseRemove, ReleaseFails
<1> QED
  BY <1>2, <1>3, <1>4, <1>5, <1>6, <1>7, <1>8, <1>9, <1>10, <1>11
     DEF AcquireStep, ReclaimStep, ReleaseStep

\* No entry is registered over another one, whatever reset and exit handlers do
\* between the awaits of an acquire: token and entry are looked at again before
\* the registration (sidecar-lock-acquire.ts:387-394).
THEOREM EntryIsNotReplaced == Spec => EntryNotReplaced
<1>1. TypeOK /\ [Next]_vars =>
        [\A p \in Procs : mgr[p].held # NoRecord => mgr'[p].held \in {mgr[p].held, NoRecord}]_vars
  <2> SUFFICES ASSUME TypeOK, Next PROVE EntryStays
    BY DEF EntryStays
  <2>1. ASSUME NEW p \in Procs, Reset(p) \/ Exit(p) \/ Crash(p) PROVE EntryStays
    <3>1. NewManager.held = NoRecord
      BY DEF NewManager
    <3>2. [NewManager EXCEPT !.guards = mgr[p].guards /\ ~guardDir].held = NoRecord
      BY DEF NewManager
    <3> QED BY <2>1, <3>1, <3>2 DEF Reset, Exit, Crash, Ended, EntryStays, TypeOK
  <2> QED BY <2>1, EntrySteps DEF Next
<1> QED BY <1>1, LockTypeCorrect, PTL DEF Spec, EntryNotReplaced

-----------------------------------------------------------------------------
(* Records that are written to the end.                                    *)

\* The task has written its record and not registered it yet.
Made(t) ==
  \/ task[t].pc \in {"created", "register"}
  \/ task[t].pc \in {"guardRm", "guardGone"} /\ task[t].then = "register"

WholeTask(t) ==
  /\ Made(t) => task[t].rec \in whole
  /\ task[t].pc \in Judging => task[t].seen \in whole

WholeOK ==
  /\ \A t \in Tasks : WholeTask(t)
  /\ \A p \in Procs : mgr[p].held # NoRecord => mgr[p].held \in whole

LEMMA WholeFrame ==
  ASSUME WholeOK, NEW t \in Tasks, Others(t), whole \subseteq whole', WholeTask(t)',
         \A p \in Procs : mgr'[p].held \in {mgr[p].held, NoRecord} \cup whole
  PROVE  WholeOK'
<1>1. ASSUME NEW u \in Tasks \ {t} PROVE WholeTask(u)'
  BY DEF WholeOK, WholeTask, Made, Others
<1> QED BY <1>1 DEF WholeOK

LEMMA BackWhole ==
  ASSUME WholeOK, NEW t \in Tasks, Back(t), whole' = whole
  PROVE  WholeOK'
<1>1. WholeTask(t)'
  BY DEF Back, WholeTask, Made, Judging
<1> QED BY <1>1, WholeFrame DEF Back, SameHeld

\* A step that keeps mgr and whole, by what it makes of the program counter.
LEMMA StepWhole ==
  ASSUME WholeOK, NEW t \in Tasks, Others(t), UNCHANGED <<mgr, whole>>,
         Made(t)' => task'[t].rec \in whole,
         task'[t].pc \in Judging => task'[t].seen \in whole
  PROVE  WholeOK'
BY WholeFrame DEF WholeTask

LEMMA AcquireWhole ==
  ASSUME TypeOK, Local, WholeOK, NEW t \in Tasks, Call(t) \/ AcquireStep(t)
  PROVE  WholeOK'
<1> USE DEF At, Task, Others
<1>0. task[t] \in Task /\ WholeTask(t)
  BY DEF TypeOK, WholeOK
<1>1. ASSUME Throw(t) \/ Wait(t), UNCHANGED disk PROVE WholeOK'
  BY <1>1, EndsBack, BackWhole DEF disk
<1>2. CASE Call(t)
  <2>1. Others(t) /\ task'[t].pc = "loop" /\ UNCHANGED <<mgr, whole>>
    BY <1>0, <1>2 DEF Call, Goto, TypeOK, disk
  <2> QED BY <2>1, StepWhole DEF Made, Judging
<1>3. CASE Reuse(t)
  <2>1. Others(t) /\ task'[t].pc \in {"guardRm", "holding"} /\ task'[t].then = "hold" /\ whole' = whole
    BY <1>0, <1>3 DEF Reuse, TypeOK, disk
  <2>2. \A p \in Procs : mgr'[p].held = mgr[p].held
    BY <1>3 DEF Reuse, TypeOK, Manager
  <2> QED BY <2>1, <2>2, WholeFrame DEF WholeTask, Made, Judging
<1>4. CASE Admit(t)
  <2>1. CASE mgr' = [mgr EXCEPT ![Home[t]].admitted = t] /\ Goto(t, "create")
    <3>1. Others(t) /\ task'[t].pc = "create" /\ whole' = whole
      BY <1>0, <1>4, <2>1 DEF Admit, Goto, TypeOK, disk
    <3>2. \A p \in Procs : mgr'[p].held = mgr[p].held
      BY <2>1 DEF TypeOK, Manager
    <3> QED BY <3>1, <3>2, WholeFrame DEF WholeTask, Made, Judging
  <2> QED BY <1>1, <1>4, <2>1 DEF Admit
<1>5. CASE CreateRefused(t)
  BY <1>1, <1>5 DEF CreateRefused
<1>6. CASE CreateFile(t)
  <2>1. PICK r \in Records :
          /\ whole' = IF Hardlinks THEN whole \cup {r} ELSE whole
          /\ task' = [task EXCEPT ![t].rec = r,
                                  ![t].pc = IF Hardlinks THEN "created" ELSE "write"]
    BY <1>6 DEF CreateFile
  <2>2. /\ Others(t) /\ UNCHANGED mgr /\ whole \subseteq whole'
        /\ task'[t].pc = IF Hardlinks THEN "created" ELSE "write"
        /\ task'[t].rec = r
    BY <1>0, <1>6, <2>1 DEF CreateFile, TypeOK
  <2>3. WholeTask(t)'
    BY <2>1, <2>2 DEF WholeTask, Made, Judging
  <2> QED BY <2>2, <2>3, WholeFrame
<1>7. CASE WriteFile(t)
  <2>1. /\ Others(t) /\ UNCHANGED mgr /\ whole' = whole \cup {task[t].rec}
        /\ task'[t].pc = "created" /\ task'[t].rec = task[t].rec
    BY <1>0, <1>7 DEF WriteFile, Goto, TypeOK
  <2>2. WholeTask(t)'
    BY <2>1 DEF WholeTask, Made, Judging
  <2> QED BY <2>1, <2>2, WholeFrame
<1>8. CASE WriteFails(t)
  <2>1. Others(t) /\ task'[t].pc = "undo" /\ UNCHANGED <<mgr, whole>>
    BY <1>0, <1>8 DEF WriteFails, TypeOK, disk
  <2> QED BY <2>1, StepWhole DEF Made, Judging
<1>9. CASE CreateConflict(t)
  <2>1. /\ Others(t) /\ UNCHANGED <<mgr, whole>>
        /\ task'[t].pc = "inspect" \/ (task'[t].pc = "guardRm" /\ task'[t].then = "wait")
    BY <1>0, <1>9 DEF CreateConflict, DropGuard, Goto, TypeOK, disk
  <2> QED BY <2>1, StepWhole DEF Made, Judging
<1>10. CASE Created(t)
  <2>1. ASSUME UNCHANGED mgr, ~Wait(t) PROVE WholeOK'
    <3>1. /\ Others(t) /\ whole' = whole /\ task'[t].rec = task[t].rec /\ task[t].pc = "created"
          /\ task'[t].pc \in {"undo", "guardRm", "register"}
      BY <1>0, <1>10, <2>1 DEF Created, DropGuard, Goto, TypeOK, disk
    <3>2. task[t].rec \in whole
      BY <1>0, <3>1 DEF WholeTask, Made
    <3> QED BY <2>1, <3>1, <3>2, StepWhole DEF Judging
  <2> QED BY <1>1, <1>10, <2>1 DEF Created
<1>11. CASE Register(t)
  <2>1. /\ Others(t) /\ whole' = whole /\ task[t].pc = "register"
        /\ task'[t].pc \in {"holding", "undo"}
    BY <1>0, <1>11 DEF Register, Goto, TypeOK, disk
  <2>2. task[t].rec \in whole
    BY <1>0, <2>1 DEF WholeTask, Made
  <2>3. \A p \in Procs : mgr'[p].held \in {mgr[p].held, task[t].rec}
    BY <1>11 DEF Register, TypeOK, Manager
  <2> QED BY <2>1, <2>2, <2>3, WholeFrame DEF WholeTask, Made, Judging
<1>12. CASE UndoCompare(t)
  <2>1. ASSUME Goto(t, "undoRm"), UNCHANGED mgr PROVE WholeOK'
    <3>1. Others(t) /\ task'[t].pc = "undoRm" /\ whole' = whole
      BY <1>0, <1>12, <2>1 DEF UndoCompare, Goto, TypeOK, disk
    <3> QED BY <2>1, <3>1, StepWhole DEF Made, Judging
  <2> QED BY <1>1, <1>12, <2>1 DEF UndoCompare, AfterUndo
<1>13. CASE UndoRemove(t)
  BY <1>13, EndsBack, BackWhole DEF UndoRemove, AfterUndo
<1> QED
  BY <1>2, <1>3, <1>4, <1>5, <1>6, <1>7, <1>8, <1>9, <1>10, <1>11, <1>12, <1>13 DEF AcquireStep

LEMMA ReclaimWhole ==
  ASSUME TypeOK, Local, WholeOK, NEW t \in Tasks, ReclaimStep(t)
  PROVE  WholeOK'
<1> USE DEF At, Task, Others
<1>0. task[t] \in Task /\ WholeTask(t)
  BY DEF TypeOK, WholeOK
<1>1. whole' = whole
  BY DEF ReclaimStep, Inspect, Recheck, TakeGuard, GuardMade, Approve, Confirm, Remove,
         GuardRemove, GuardRemoved, disk
<1>2. ASSUME Back(t) \/ Throw(t) \/ Wait(t) PROVE WholeOK'
  BY <1>1, <1>2, EndsBack, BackWhole
<1>3. ASSUME NEW s \in {"takeGuard", "guardMade", "confirm", "remove"}, Goto(t, s), UNCHANGED mgr,
             task[t].pc \in Judging
      PROVE  WholeOK'
  <2>1. Others(t) /\ task'[t].pc = s /\ task'[t].seen = task[t].seen /\ task[t].seen \in whole
    BY <1>0, <1>3 DEF Goto, TypeOK, WholeTask
  <2> QED BY <1>1, <1>3, <2>1, StepWhole DEF Made
<1>4. CASE Inspect(t)
  <2>1. ASSUME file \in whole, UNCHANGED mgr,
               task' = [task EXCEPT ![t].pc = "recheck", ![t].seen = file]
        PROVE  WholeOK'
    <3>1. Others(t) /\ task'[t].pc = "recheck" /\ task'[t].seen = file
      BY <1>0, <2>1 DEF TypeOK
    <3> QED BY <1>1, <2>1, <3>1, StepWhole DEF Made
  <2> QED BY <1>2, <1>4, <2>1, BoundaryBack DEF Inspect
<1>5. CASE Recheck(t)
  BY <1>2, <1>3, <1>5, BoundaryBack DEF Recheck, Judging
<1>6. CASE TakeGuard(t)
  BY <1>2, <1>3, <1>6 DEF TakeGuard, Judging
<1>7. CASE Approve(t)
  <2>1. ASSUME task[t].pc = "approve", DropGuard(t, "end"), UNCHANGED mgr PROVE WholeOK'
    <3>1. task[t].guard
      BY <2>1 DEF Local, TaskOK, Guarded
    <3> QED BY <1>2, <2>1, <3>1, DropsBack DEF SameHeld
  <2> QED BY <1>2, <1>3, <1>7, <2>1, BoundaryBack DEF Approve, Judging
<1>8. CASE Confirm(t)
  BY <1>2, <1>3, <1>8, BoundaryBack DEF Confirm, Judging
<1>9. CASE Remove(t)
  <2>1. ASSUME UNCHANGED mgr, task' = [task EXCEPT ![t].pc = "create", ![t].seen = NoRecord]
        PROVE  WholeOK'
    <3>1. Others(t) /\ task'[t].pc = "create"
      BY <1>0, <2>1 DEF TypeOK
    <3> QED BY <1>1, <2>1, <3>1, StepWhole DEF Made, Judging
  <2> QED BY <1>2, <1>9, <2>1, BoundaryBack DEF Remove
<1>10. CASE GuardMade(t)
  <2>1. /\ Others(t) /\ task[t].pc = "guardMade" /\ task'[t].pc \in {"approve", "guardRm"}
        /\ task'[t].then \in {"wait", "end"} /\ task'[t].seen = task[t].seen
    BY <1>0, <1>10 DEF GuardMade, TypeOK
  <2>2. \A p \in Procs : mgr'[p].held = mgr[p].held
    BY <1>10 DEF GuardMade, TypeOK, Manager
  <2>3. WholeTask(t)'
    BY <1>0, <1>1, <2>1 DEF WholeTask, Made, Judging
  <2> QED BY <1>1, <2>1, <2>2, <2>3, WholeFrame
<1>11. CASE GuardRemove(t)
  <2>1. \A p \in Procs : mgr'[p].held = mgr[p].held
    BY <1>11, FreedHeld DEF GuardRemove
  <2>2. /\ Others(t) /\ task[t].pc = "guardRm"
        /\ \/ /\ task'[t].pc = "guardGone" /\ task'[t].then = task[t].then
              /\ task'[t].rec = task[t].rec
           \/ task'[t].pc = "guardRm" /\ task'[t].then = "end"
           \/ task'[t].pc \in {"undo", "holding", "idle"}
    BY <1>0, <1>11 DEF GuardRemove, Goto, DropGuard, TypeOK, NewTask
  <2>3. WholeTask(t)'
    BY <1>0, <1>1, <2>2 DEF WholeTask, Made, Judging
  <2> QED BY <1>1, <2>1, <2>2, <2>3, WholeFrame
<1>12. CASE GuardRemoved(t)
  <2>1. \A p \in Procs : mgr'[p].held \in {mgr[p].held, NoRecord}
    <3> DEFINE freed == [Freed(t) EXCEPT ![Home[t]].guards = FALSE]
               kept == [mgr EXCEPT ![Home[t]].guards = FALSE]
    <3>1. \A p \in Procs : freed[p].held = mgr[p].held /\ kept[p].held = mgr[p].held
      BY FreedHeld, FreedType, LockAssumption DEF TypeOK, Manager
    <3>2. mgr' = freed \/ mgr' = kept
      BY <1>12 DEF GuardRemoved
    <3> QED BY <3>1, <3>2
  <2>2. /\ Others(t) /\ task[t].pc = "guardGone"
        /\ \/ /\ task'[t].pc = "register" /\ task[t].then = "register"
              /\ task'[t].rec = task[t].rec
           \/ task'[t].pc \in {"holding", "idle", "loop"}
    BY <1>0, <1>12 DEF GuardRemoved, TypeOK, NewTask
  <2>3. WholeTask(t)'
    BY <1>0, <1>1, <2>2 DEF WholeTask, Made, Judging
  <2> QED BY <1>1, <2>1, <2>2, <2>3, WholeFrame
<1> QED
  BY <1>4, <1>5, <1>6, <1>7, <1>8, <1>9, <1>10, <1>11, <1>12 DEF ReclaimStep

LEMMA ReleaseWhole ==
  ASSUME TypeOK, WholeOK, NEW t \in Tasks, ReleaseHandle(t) \/ Drain(t) \/ ReleaseStep(t)
  PROVE  WholeOK'
<1>0. task[t] \in Task
  BY DEF TypeOK
<1>1. /\ Others(t) /\ whole' = whole
      /\ task'[t].pc \in ReleaseSteps \cup {"idle", "holding"}
  BY <1>0 DEF Others, TypeOK, Task, At, Goto, NewTask, ReleaseSteps, disk, ReleaseHandle, Drain,
     ReleaseStep, ReleaseCompare, ReleaseRemove, ReleaseFails, ReleaseDone
<1>2. \A p \in Procs : mgr'[p].held \in {mgr[p].held, NoRecord}
  <2> DEFINE left == IF task[t].started \/ mgr[Home[t]].refs = 0 THEN mgr[Home[t]].refs
                     ELSE mgr[Home[t]].refs - 1
  <2>1. ASSUME mgr' = mgr \/ mgr' = [mgr EXCEPT ![Home[t]].refs = left]
        PROVE  \A p \in Procs : mgr'[p].held = mgr[p].held
    <3> HIDE DEF left
    <3> QED BY <2>1 DEF TypeOK, Manager
  <2>2. CASE ReleaseHandle(t)
    BY <2>1, <2>2 DEF ReleaseHandle
  <2>3. CASE Drain(t)
    BY <2>3 DEF Drain, TypeOK, Manager
  <2>4. CASE ReleaseDone(t)
    BY <2>4 DEF ReleaseDone, TypeOK, Manager
  <2> QED
    BY <2>2, <2>3, <2>4 DEF ReleaseStep, ReleaseCompare, ReleaseRemove, ReleaseFails
<1>3. WholeTask(t)'
  BY <1>1 DEF WholeTask, Made, Judging, ReleaseSteps
<1> QED BY <1>1, <1>2, <1>3, WholeFrame

LEMMA WholeNext == TypeOK /\ Local /\ WholeOK /\ [Next]_vars => WholeOK'
<1> SUFFICES ASSUME TypeOK, Local, WholeOK, [Next]_vars PROVE WholeOK'
  OBVIOUS
<1>1. ASSUME NEW p \in Procs, Reset(p) \/ Exit(p) \/ Crash(p) PROVE WholeOK'
  <2>1. whole' = whole /\ \A u \in Tasks : task'[u] \in {task[u], NewTask}
    BY <1>1 DEF Reset, Exit, Crash, CleanUp, Ended, disk, TypeOK
  <2>2. \A q \in Procs : mgr'[q] = mgr[q] \/ mgr'[q].held = NoRecord
    <3>1. NewManager.held = NoRecord
      BY DEF NewManager
    <3>2. [NewManager EXCEPT !.guards = mgr[p].guards /\ ~guardDir].held = NoRecord
      BY DEF NewManager
    <3> QED BY <1>1, <3>1, <3>2 DEF Reset, Exit, Crash, Ended, TypeOK
  <2>3. ASSUME NEW u \in Tasks PROVE WholeTask(u)'
    BY <2>1 DEF WholeOK, WholeTask, Made, Judging, NewTask
  <2> QED BY <2>1, <2>2, <2>3 DEF WholeOK
<1>2. CASE UNCHANGED vars
  BY <1>2 DEF WholeOK, WholeTask, Made, vars, disk
<1> QED BY <1>1, <1>2, AcquireWhole, ReclaimWhole, ReleaseWhole DEF Next

\* A record that is not written to the end is removed by the task that writes it
\* and nobody else, under the same conditions as HeldStaysOnDisk: a reclaim judges
\* whole records only, and only whole ones are registered and released.
THEOREM IncompleteStays == ASSUME Undisturbed PROVE Spec => IncompleteKept
<1>1. Init => WholeOK
  BY DEF Init, WholeOK, WholeTask, Made, Judging, NewTask, NewManager
<1>2. Steady /\ WholeOK /\ [Next]_vars => WholeOK'
  BY WholeNext DEF Steady
<1>3. Steady /\ WholeOK /\ [Next]_vars =>
        [file # NoRecord /\ file' # file /\ file \notin whole =>
           task[maker[file]].rec = file /\ task'[maker[file]] # task[maker[file]]]_vars
  <2> SUFFICES ASSUME Steady, WholeOK, Next, file # NoRecord, file' # file, file \notin whole
               PROVE  task[maker[file]].rec = file /\ task'[maker[file]] # task[maker[file]]
    OBVIOUS
  <2> USE DEF Steady
  <2>1. ASSUME NEW t \in Tasks, UndoRemove(t)
        PROVE  task[t].rec = file /\ maker[file] = t /\ task'[t] # task[t]
    <3>1. Making(t) /\ task[t].pc = "undoRm"
      BY <2>1 DEF UndoRemove, At, Making
    <3>2. task'[t].pc # "undoRm"
      BY <2>1, EndsBack DEF UndoRemove, AfterUndo, Back
    <3> QED BY <3>1, <3>2 DEF LockOK, MakerOK, Local, TaskOK
  <2>2. ASSUME NEW t \in Tasks, ReleaseRemove(t) PROVE FALSE
    <3>1. file = Held(t)
      BY <2>2, OwnFile DEF ReleaseRemove, At
    <3> QED BY <3>1, LockAssumption DEF Held, WholeOK
  <2>3. ASSUME NEW t \in Tasks, Remove(t) PROVE FALSE
    <3>1. task[t].pc = "remove"
      BY <2>3, BoundaryBack DEF Remove, At
    <3> QED BY <3>1 DEF LockOK, JudgeOK, WholeOK, WholeTask, Judging
  <2>4. \A t \in Tasks : ~CreateFile(t)
    BY DEF CreateFile
  <2>5. ASSUME NEW p \in Procs, Reset(p) \/ Exit(p) \/ Crash(p) PROVE FALSE
    BY <2>5 DEF Undisturbed, Reset, Exit, Crash, disk
  <2>6. ASSUME NEW t \in Tasks,
               \/ Call(t) \/ ReleaseHandle(t) \/ Drain(t)
               \/ AcquireStep(t) \/ ReclaimStep(t) \/ ReleaseStep(t)
        PROVE  UndoRemove(t) \/ ReleaseRemove(t) \/ Remove(t) \/ CreateFile(t)
    BY <2>6 DEF disk, Call, ReleaseHandle, Drain, AcquireStep, ReclaimStep, ReleaseStep,
       Reuse, Admit, CreateRefused, WriteFile, WriteFails, CreateConflict, Created, Register,
       UndoCompare, Inspect, Recheck, TakeGuard, GuardMade, Approve, Confirm, GuardRemove,
       GuardRemoved, ReleaseCompare, ReleaseFails, ReleaseDone
  <2> QED BY <2>1, <2>2, <2>3, <2>4, <2>5, <2>6 DEF Next
<1> QED
  BY <1>1, <1>2, <1>3, SteadyInit, SteadyNext, PTL DEF Spec, IncompleteKept
=============================================================================
