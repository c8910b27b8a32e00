------------------------ MODULE SidecarAdmissionProofs ------------------------
(***************************************************************************)
(* What a process keeps of a lock path, for every value of the constants   *)
(* of SidecarLock and whatever fails, resets or exits: its admission is    *)
(* never leaked, and the lock file stays until the last handle is released.*)
(***************************************************************************)
EXTENDS SidecarLockProofs, FiniteSetTheorems

-----------------------------------------------------------------------------
(* The strengthening: an admission is lost on the way to a reused handle.  *)

Admitted(t) ==
  /\ task[t].pc \in AdmittedSteps \cup CleanupSteps
  /\ task[t].pc \in {"guardRm", "guardGone"} => task[t].then # "hold"

TokenOK == \A t \in Tasks : Home[t] \in up /\ HasToken(t) => Admitted(t)
\* An admission is given to tasks of the process only.
HomeOK == \A p \in up : mgr[p].admitted # Nobody => Home[mgr[p].admitted] = p

\* What a step of t does to admissions.
Passes(t) ==
  /\ up' = up /\ Others(t)
  /\ \A p \in Procs : \/ mgr'[p].admitted \in {mgr[p].admitted, Nobody}
                      \/ p = Home[t] /\ mgr'[p].admitted = t
  /\ HasToken(t)' => Admitted(t)'

LEMMA PassesToken ==
  ASSUME TypeOK, TokenOK, HomeOK, NEW t \in Tasks, Passes(t)
  PROVE  TokenOK' /\ HomeOK'
<1>1. ASSUME NEW u \in Tasks, Home[u] \in up', HasToken(u)' PROVE Admitted(u)'
  <2>1. CASE u = t
    BY <1>1, <2>1 DEF Passes
  <2>2. CASE u # t
    <3>1. HasToken(u) /\ task'[u] = task[u]
      BY <1>1, <2>2, LockAssumption DEF Passes, Others, HasToken
    <3> QED BY <1>1, <3>1 DEF Passes, TokenOK, Admitted
  <2> QED BY <2>1, <2>2
<1>2. HomeOK'
  BY LockAssumption DEF HomeOK, Passes, TypeOK
<1> QED BY <1>1, <1>2 DEF TokenOK

\* Steps that leave the admission, and those that give it back.
LEMMA KeepsPasses ==
  ASSUME TypeOK, NEW t \in Tasks, up' = up, Others(t),
         \A p \in Procs : mgr'[p].admitted = mgr[p].admitted,
         HasToken(t) => Admitted(t)'
  PROVE  Passes(t)
  BY LockAssumption DEF Passes, HasToken

LEMMA FreedPasses ==
  ASSUME TypeOK, NEW t \in Tasks, up' = up, Others(t), mgr' = Freed(t)
  PROVE  Passes(t)
<1>1. \A p \in Procs : mgr'[p].admitted \in {mgr[p].admitted, Nobody}
  BY LockAssumption DEF TypeOK, Freed, Manager
<1>2. ~HasToken(t)'
  BY LockAssumption DEF TypeOK, Freed, Manager, HasToken
<1> QED BY <1>1, <1>2 DEF Passes

LEMMA EndsPass ==
  ASSUME TypeOK, NEW t \in Tasks, up' = up,
         Throw(t) \/ Wait(t)
  PROVE  Passes(t)
<1>1. Others(t)
  BY EndsBack DEF Back
<1>2. CASE mgr' = Freed(t)
  BY <1>1, <1>2, FreedPasses
<1>3. CASE task[t].guard /\ DropGuard(t, "end") /\ UNCHANGED mgr
  <2>1. Admitted(t)'
    BY <1>3 DEF DropGuard, Admitted, CleanupSteps, TypeOK, Task
  <2> QED BY <1>1, <1>3, <2>1, KeepsPasses
<1> QED BY <1>2, <1>3 DEF Throw, Wait

LEMMA DropsPass ==
  ASSUME TypeOK, NEW t \in Tasks, up' = up, UNCHANGED mgr,
         NEW n \in {"end", "wait", "register"}, DropGuard(t, n)
  PROVE  Passes(t)
<1>1. Others(t) /\ Admitted(t)'
  BY DEF DropGuard, Admitted, CleanupSteps, TypeOK, Task, Others
<1> QED BY <1>1, KeepsPasses

LEMMA BoundaryPasses ==
  ASSUME TypeOK, NEW t \in Tasks, NEW step, NEW ACTION next, up' = up,
         Boundary(t, step, next)
  PROVE  Passes(t) \/ next
  BY EndsPass, DropsPass DEF Boundary

-----------------------------------------------------------------------------
(* The actions.                                                            *)

LEMMA AcquirePasses ==
  ASSUME TypeOK, TokenOK, NEW t \in Tasks, Call(t) \/ AcquireStep(t)
  PROVE  Passes(t)
<1> USE DEF At, Goto, Others, TypeOK, Task
<1>0. up' = up /\ Home[t] \in up
  BY DEF Call, AcquireStep, Reuse, Admit, CreateRefused, MayCreate, CreateFile, WriteFile,
         WriteFails, CreateConflict, Created, Register, UndoCompare, UndoRemove, disk
<1>1. CASE Call(t) \/ Reuse(t)
  <2>1. ~HasToken(t)
    BY <1>0, <1>1 DEF Call, Reuse, TokenOK, Admitted, AdmittedSteps, CleanupSteps
  <2>2. Others(t) /\ \A p \in Procs : mgr'[p].admitted = mgr[p].admitted
    BY <1>1 DEF Call, Reuse, Manager
  <2> QED BY <1>0, <2>1, <2>2, KeepsPasses
<1>2. CASE Admit(t)
  <2>1. CASE Wait(t)
    BY <1>0, <2>1, EndsPass
  <2>2. CASE mgr' = [mgr EXCEPT ![Home[t]].admitted = t] /\ Goto(t, "create")
    <3>1. Others(t) /\ Admitted(t)'
      BY <2>2 DEF Admitted, AdmittedSteps
    <3>2. \A p \in Procs : \/ mgr'[p].admitted = mgr[p].admitted
                           \/ p = Home[t] /\ mgr'[p].admitted = t
      BY <2>2 DEF Manager
    <3> QED BY <1>0, <3>1, <3>2 DEF Passes
  <2> QED BY <1>2, <2>1, <2>2 DEF Admit
<1>3. CASE CreateRefused(t)
  BY <1>0, <1>3, EndsPass DEF CreateRefused
<1>4. CASE CreateFile(t) \/ WriteFile(t) \/ WriteFails(t)
  <2>1. mgr' = mgr
    BY <1>4 DEF CreateFile, WriteFile, WriteFails
  <2>2. CASE CreateFile(t)
    <3>1. Others(t)
      BY <2>2 DEF CreateFile
    <3>2. task'[t].pc \in {"created", "write"}
      BY <2>2 DEF CreateFile
    <3>3. Admitted(t)'
      BY <3>2 DEF Admitted, AdmittedSteps
    <3> QED BY <1>0, <2>1, <3>1, <3>3, KeepsPasses
  <2>3. CASE WriteFile(t) \/ WriteFails(t)
    <3>1. Others(t) /\ Admitted(t)'
      BY <2>3 DEF WriteFile, WriteFails, Admitted, AdmittedSteps, CleanupSteps
    <3> QED BY <1>0, <2>1, <3>1, KeepsPasses
  <2> QED BY <1>4, <2>2, <2>3
<1>5. CASE CreateConflict(t)
  <2>1. CASE DropGuard(t, "wait")
    BY <1>0, <1>5, <2>1, DropsPass DEF CreateConflict
  <2>2. CASE Goto(t, "inspect")
    <3>1. Others(t) /\ Admitted(t)'
      BY <2>2 DEF Admitted, AdmittedSteps
    <3> QED BY <1>0, <1>5, <3>1, KeepsPasses DEF CreateConflict
  <2> QED BY <1>5, <2>1, <2>2 DEF CreateConflict
<1>6. CASE Created(t)
  <2>1. CASE Wait(t)
    BY <1>0, <2>1, EndsPass
  <2>2. CASE UNCHANGED mgr /\ DropGuard(t, "register")
    BY <1>0, <2>2, DropsPass
  <2>3. CASE /\ UNCHANGED mgr
             /\ \/ task' = [task EXCEPT ![t].pc = "undo", ![t].then = "wait"]
                \/ Goto(t, "register")
    <3>1. Others(t) /\ Admitted(t)'
      BY <2>3 DEF Admitted, AdmittedSteps, CleanupSteps
    <3> QED BY <1>0, <2>3, <3>1, KeepsPasses
  <2> QED BY <1>6, <2>1, <2>2, <2>3 DEF Created
<1>7. CASE Register(t)
  <2>1. CASE /\ mgr' = [mgr EXCEPT ![Home[t]].held = task[t].rec, ![Home[t]].refs = 1,
                                   ![Home[t]].admitted = Nobody]
             /\ Goto(t, "holding")
    <3>0. Home[t] \in Procs /\ t # Nobody
      BY LockAssumption
    <3>1. Others(t)
      BY <2>1 DEF Others
    <3>2. \A p \in Procs : mgr'[p].admitted = IF p = Home[t] THEN Nobody ELSE mgr[p].admitted
      BY <2>1 DEF Manager
    <3>3. ~HasToken(t)'
      BY <3>0, <3>2 DEF HasToken
    <3>4. \A p \in Procs : mgr'[p].admitted \in {mgr[p].admitted, Nobody}
      BY <3>2
    <3> QED BY <1>0, <3>1, <3>3, <3>4 DEF Passes
  <2>2. CASE UNCHANGED mgr /\ task' = [task EXCEPT ![t].pc = "undo", ![t].then = "wait"]
    <3>1. Others(t) /\ Admitted(t)'
      BY <2>2 DEF Admitted, CleanupSteps
    <3> QED BY <1>0, <2>2, <3>1, KeepsPasses
  <2> QED BY <1>7, <2>1, <2>2 DEF Register
<1>8. CASE UndoCompare(t)
  <2>1. CASE Goto(t, "undoRm") /\ UNCHANGED mgr
    <3>1. Others(t) /\ Admitted(t)'
      BY <2>1 DEF Admitted, CleanupSteps
    <3> QED BY <1>0, <2>1, <3>1, KeepsPasses
  <2> QED BY <1>0, <1>8, <2>1, EndsPass DEF UndoCompare, AfterUndo
<1>9. CASE UndoRemove(t)
  BY <1>0, <1>9, EndsPass DEF UndoRemove, AfterUndo
<1> QED BY <1>1, <1>2, <1>3, <1>4, <1>5, <1>6, <1>7, <1>8, <1>9 DEF AcquireStep

LEMMA ReclaimPasses ==
  ASSUME TypeOK, TokenOK, NEW t \in Tasks, ReclaimStep(t)
  PROVE  Passes(t)
<1> USE DEF At, Goto, Others, TypeOK, Task
<1>0. up' = up /\ Home[t] \in up
  BY DEF ReclaimStep, Inspect, Recheck, TakeGuard, GuardMade, Approve, Confirm, Remove,
         GuardRemove, GuardRemoved, Boundary, disk
<1>1. ASSUME UNCHANGED mgr, NEW s \in AdmittedSteps, NEW x,
             \/ Goto(t, s)
             \/ task' = [task EXCEPT ![t].pc = s, ![t].seen = x]
      PROVE  Passes(t)
  <2>1. Others(t) /\ Admitted(t)'
    BY <1>1 DEF Admitted, AdmittedSteps
  <2> QED BY <1>0, <1>1, <2>1, KeepsPasses
<1>2. CASE Inspect(t) \/ Recheck(t) \/ Approve(t) \/ Confirm(t) \/ Remove(t)
  BY <1>0, <1>1, <1>2, EndsPass, DropsPass
     DEF Inspect, Recheck, Approve, Confirm, Remove, Boundary, AdmittedSteps
<1>3. CASE TakeGuard(t)
  BY <1>0, <1>1, <1>3, EndsPass DEF TakeGuard, AdmittedSteps
<1>4. CASE GuardMade(t)
  <2>1. Others(t) /\ Admitted(t)'
    BY <1>4 DEF GuardMade, Admitted, AdmittedSteps, CleanupSteps
  <2>2. \A p \in Procs : mgr'[p].admitted = mgr[p].admitted
    BY <1>4 DEF GuardMade, Manager
  <2> QED BY <1>0, <2>1, <2>2, KeepsPasses
<1>5. CASE GuardRemove(t)
  <2>1. Others(t)
    BY <1>5 DEF GuardRemove, DropGuard
  <2>2. CASE mgr' = Freed(t)
    BY <1>0, <2>1, <2>2, FreedPasses
  <2>3. CASE UNCHANGED mgr
    <3>1. HasToken(t) => task[t].then # "hold"
      BY <1>0, <1>5 DEF GuardRemove, TokenOK, Admitted
    <3>2. HasToken(t) => Admitted(t)'
      BY <1>5, <2>3, <3>1, LockAssumption
         DEF GuardRemove, DropGuard, Admitted, CleanupSteps, HasToken, Freed, Manager
    <3> QED BY <1>0, <2>1, <2>3, <3>2, KeepsPasses
  <2> QED BY <1>5, <2>2, <2>3 DEF GuardRemove
<1>6. CASE GuardRemoved(t)
  <2>1. Others(t)
    BY <1>6 DEF GuardRemoved, NewTask
  <2>2. CASE mgr' = [Freed(t) EXCEPT ![Home[t]].guards = FALSE]
    <3>1. \A p \in Procs : mgr'[p].admitted \in {mgr[p].admitted, Nobody}
      BY <2>2, LockAssumption DEF Freed, Manager
    <3>2. ~HasToken(t)'
      BY <2>2, LockAssumption DEF Freed, Manager, HasToken
    <3> QED BY <1>0, <2>1, <3>1, <3>2 DEF Passes
  <2>3. CASE /\ mgr' = [mgr EXCEPT ![Home[t]].guards = FALSE]
             /\ task[t].then \in {"register", "hold"}
    <3>1. HasToken(t) => task[t].then = "register"
      BY <1>0, <1>6, <2>3 DEF GuardRemoved, TokenOK, Admitted
    <3>2. HasToken(t) => Admitted(t)'
      BY <1>6, <3>1 DEF GuardRemoved, Admitted, AdmittedSteps
    <3>3. \A p \in Procs : mgr'[p].admitted = mgr[p].admitted
      BY <2>3 DEF Manager
    <3> QED BY <1>0, <2>1, <3>2, <3>3, KeepsPasses
  <2> QED BY <1>6, <2>2, <2>3 DEF GuardRemoved
<1> QED BY <1>2, <1>3, <1>4, <1>5, <1>6 DEF ReclaimStep

LEMMA ReleasePasses ==
  ASSUME TypeOK, TokenOK, NEW t \in Tasks, ReleaseHandle(t) \/ Drain(t) \/ ReleaseStep(t)
  PROVE  Passes(t)
<1> USE DEF At, Goto, TypeOK, Task
<1>1. up' = up /\ Others(t)
  BY DEF ReleaseHandle, Drain, ReleaseStep, ReleaseCompare, ReleaseRemove, ReleaseFails,
         ReleaseDone, Others, disk
<1>2. ~HasToken(t)
  <2>1. Home[t] \in up /\ task[t].pc \notin AdmittedSteps \cup {"guardRm", "guardGone"}
    BY DEF ReleaseHandle, Drain, ReleaseStep, ReleaseCompare, ReleaseRemove, ReleaseFails,
           ReleaseDone, AdmittedSteps
  <2>2. task[t].pc \notin CleanupSteps
    BY DEF ReleaseHandle, Drain, ReleaseStep, ReleaseCompare, ReleaseRemove, ReleaseFails,
           ReleaseDone, CleanupSteps
  <2> QED BY <2>1, <2>2 DEF TokenOK, Admitted
<1>3. \A p \in Procs : mgr'[p].admitted = mgr[p].admitted
  <2>1. CASE ReleaseHandle(t) \/ Drain(t)
    BY <2>1 DEF ReleaseHandle, Drain, Manager
  <2>2. CASE ReleaseStep(t)
    BY <2>2 DEF ReleaseStep, ReleaseCompare, ReleaseRemove, ReleaseFails, ReleaseDone, Manager
  <2> QED BY <2>1, <2>2
<1> QED BY <1>1, <1>2, <1>3, KeepsPasses

LEMMA ProcessPasses ==
  ASSUME TypeOK, TokenOK, HomeOK, NEW p \in Procs, Reset(p) \/ Exit(p) \/ Crash(p)
  PROVE  TokenOK' /\ HomeOK'
<1>1. up' \subseteq up /\ mgr'[p].admitted = Nobody
  BY DEF Reset, Exit, Crash, Ended, TypeOK, NewManager
<1>2. \A q \in Procs \ {p} : mgr'[q] = mgr[q]
  BY DEF Reset, Exit, Crash, Ended, TypeOK
<1>3. \A u \in Tasks : Home[u] # p => task'[u] = task[u]
  BY DEF Reset, Exit, Crash, Ended, TypeOK
<1>4. HomeOK'
  BY <1>1, <1>2 DEF HomeOK, TypeOK
<1>5. ASSUME NEW u \in Tasks, Home[u] \in up', HasToken(u)' PROVE Admitted(u)'
  <2>1. Home[u] # p
    BY <1>1, <1>5, LockAssumption DEF HasToken
  <2> QED BY <1>1, <1>2, <1>3, <1>5, <2>1, LockAssumption DEF HasToken, TokenOK, Admitted
<1> QED BY <1>4, <1>5 DEF TokenOK

LEMMA TokenNext ==
  TypeOK /\ TokenOK /\ HomeOK /\ [Next]_vars => TokenOK' /\ HomeOK'
<1> SUFFICES ASSUME TypeOK, TokenOK, HomeOK, [Next]_vars PROVE TokenOK' /\ HomeOK'
  OBVIOUS
<1>1. ASSUME NEW t \in Tasks,
             Call(t) \/ ReleaseHandle(t) \/ Drain(t) \/ AcquireStep(t) \/ ReclaimStep(t) \/ ReleaseStep(t)
      PROVE  TokenOK' /\ HomeOK'
  BY <1>1, AcquirePasses, ReclaimPasses, ReleasePasses, PassesToken
<1>2. CASE UNCHANGED vars
  BY <1>2 DEF vars, disk, TokenOK, HomeOK, HasToken, Admitted
<1> QED BY <1>1, <1>2, ProcessPasses DEF Next

\* An admission belongs to a task of the process that is going to give it back,
\* through failed attempts, retries, timeouts, resets, exits and kills.
THEOREM AdmissionNotLeaked == Spec => []AdmissionOwned
<1>1. Init => TypeOK /\ Local /\ TokenOK /\ HomeOK
  BY TypeInit, LocalInit, LockAssumption DEF Init, TokenOK, HomeOK, HasToken, NewManager
<1>2. (TypeOK /\ Local /\ TokenOK /\ HomeOK) /\ [Next]_vars
        => (TypeOK /\ Local /\ TokenOK /\ HomeOK)'
  BY LocalNext, TokenNext
<1>3. TypeOK /\ TokenOK /\ HomeOK => AdmissionOwned
  BY DEF AdmissionOwned, TokenOK, HomeOK, HasToken, Admitted, TypeOK, Manager
<1> QED BY <1>1, <1>2, <1>3, PTL DEF Spec

-----------------------------------------------------------------------------
(* The references of an entry.                                             *)

\* A failed release keeps its entry; after a forced one the entry would have
\* open handles that nobody counts (sidecar-lock.ts:227).
DrainsSucceed == ~({"error", "drain"} \subseteq Ops)

\* The task has an open handle, or one that it is about to return.
Referring(t) ==
  Open(t) \/ (task[t].pc \in {"guardRm", "guardGone"} /\ task[t].then = "hold")

References(p) == {t \in Tasks : Home[t] = p /\ Referring(t) /\ task[t].rec = mgr[p].held}

Forced(p) ==
  \E t \in Tasks : /\ Home[t] = p /\ task[t].pc \in ReleaseSteps /\ task[t].then = "forced"
                   /\ task[t].rec = mgr[p].held

\* refCount counts every handle, unless the entry is being dropped.
Counted(p) ==
  mgr[p].held # NoRecord /\ ~Forced(p) =>
    IsFiniteSet(References(p)) /\ Cardinality(References(p)) <= mgr[p].refs

\* A handle that removes the file is the last one, and stays released.
LastOne(t) ==
  task[t].pc \in ReleaseSteps /\ task[t].then # "forced" =>
    task[t].started /\ \A u \in Tasks : Referring(u) => task[u].rec # task[t].rec

ForcedOK(t) == task[t].then = "forced" => task[t].pc \in ReleaseSteps /\ "drain" \in Ops

\* A handle is of a record its process registered, and never of a new one.
HandleOK(t) ==
  Handling(t) => maker[task[t].rec] \in Tasks /\ Home[maker[task[t].rec]] = Home[t]

Fresh(t) ==
  Making(t) => /\ \A u \in Tasks : Handling(u) => task[u].rec # task[t].rec
               /\ \A p \in Procs : mgr[p].held # task[t].rec

RefTask(t) == LastOne(t) /\ ForcedOK(t) /\ HandleOK(t) /\ Fresh(t)

RefsOK == (\A p \in Procs : Counted(p)) /\ (\A t \in Tasks : RefTask(t))

LEMMA RefsCounted == RefsOK => LastReferenceReleases
BY DEF RefsOK, RefTask, LastOne, LastReferenceReleases, Referring

SameRefs == \A p \in Procs : mgr'[p].refs = mgr[p].refs

\* A task gets no record, no handle and no release by the step, and the step
\* changes no entry.
Quiet(t) ==
  /\ Others(t) /\ SameHeld /\ SameRefs /\ maker' = maker
  /\ {task[t].pc, task'[t].pc} \cap ReleaseSteps = {}
  /\ task'[t].then # "forced"
  /\ Referring(t)' => Referring(t) /\ task'[t].rec = task[t].rec
  /\ Handling(t)' => Handling(t) /\ task'[t].rec = task[t].rec
  /\ Making(t)' => Making(t) /\ task'[t].rec = task[t].rec

LEMMA FewerReferences ==
  ASSUME NEW p \in Procs, Counted(p), mgr'[p].held \in {mgr[p].held, NoRecord},
         mgr'[p].refs = mgr[p].refs, mgr[p].refs \in Nat, Forced(p) => Forced(p)',
         mgr'[p].held = mgr[p].held =>
           \A t \in Tasks : Referring(t)' => Referring(t) /\ task'[t].rec = task[t].rec
  PROVE  Counted(p)'
<1> SUFFICES ASSUME mgr'[p].held # NoRecord, ~Forced(p)'
             PROVE  IsFiniteSet(References(p)') /\ Cardinality(References(p)') <= mgr[p].refs
  BY DEF Counted
<1>1. References(p)' \in SUBSET References(p)
  BY DEF References
<1>2. IsFiniteSet(References(p)) /\ Cardinality(References(p)) <= mgr[p].refs
  BY DEF Counted
<1>3. IsFiniteSet(References(p)') /\ Cardinality(References(p)') <= Cardinality(References(p))
  BY <1>1, <1>2, FS_Subset
<1>4. Cardinality(References(p)') \in Nat /\ Cardinality(References(p)) \in Nat
  BY <1>2, <1>3, FS_CardinalityType
<1> QED BY <1>2, <1>3, <1>4

LEMMA QuietRefs ==
  ASSUME TypeOK, RefsOK, NEW t \in Tasks, Quiet(t)
  PROVE  RefsOK'
<1>1. ASSUME NEW p \in Procs PROVE Counted(p)'
  <2>1. Forced(p) => Forced(p)'
    BY <1>1 DEF Forced, Quiet, Others, SameHeld
  <2>2. \A u \in Tasks : Referring(u)' => Referring(u) /\ task'[u].rec = task[u].rec
    BY DEF Quiet, Others, Referring, Open
  <2> QED BY <1>1, <2>1, <2>2, FewerReferences DEF Quiet, SameHeld, SameRefs, RefsOK, TypeOK, Manager
<1>2. \A u \in Tasks : /\ Referring(u)' => Referring(u) /\ task'[u].rec = task[u].rec
                       /\ Handling(u)' => Handling(u) /\ task'[u].rec = task[u].rec
                       /\ Making(u)' => Making(u) /\ task'[u].rec = task[u].rec
  BY DEF Quiet, Others, Referring, Handling, Making, Open
<1>3. ASSUME NEW u \in Tasks PROVE RefTask(u)'
  <2>1. LastOne(u)'
    <3>1. CASE u = t
      BY <3>1 DEF Quiet, LastOne
    <3>2. CASE u # t
      BY <1>2, <3>2 DEF Quiet, Others, LastOne, RefsOK, RefTask
    <3> QED BY <3>1, <3>2
  <2>2. ForcedOK(u)'
    BY DEF Quiet, Others, ForcedOK, RefsOK, RefTask
  <2>3. HandleOK(u)'
    BY <1>2 DEF Quiet, HandleOK, RefsOK, RefTask
  <2>4. Fresh(u)'
    BY <1>2 DEF Quiet, SameHeld, Fresh, RefsOK, RefTask
  <2> QED BY <2>1, <2>2, <2>3, <2>4 DEF RefTask
<1> QED BY <1>1, <1>3 DEF RefsOK

LEMMA FreedRefs ==
  ASSUME TypeOK, NEW t \in Tasks, NEW p \in Procs
  PROVE  /\ Freed(t)[p].held = mgr[p].held /\ Freed(t)[p].refs = mgr[p].refs
         /\ [Freed(t) EXCEPT ![Home[t]].guards = FALSE][p].held = mgr[p].held
         /\ [Freed(t) EXCEPT ![Home[t]].guards = FALSE][p].refs = mgr[p].refs
         /\ [mgr EXCEPT ![Home[t]].guards = FALSE][p].held = mgr[p].held
         /\ [mgr EXCEPT ![Home[t]].guards = FALSE][p].refs = mgr[p].refs
BY LockAssumption DEF Freed, TypeOK, Manager

LEMMA EndsQuiet ==
  ASSUME TypeOK, NEW t \in Tasks, Throw(t) \/ Wait(t), maker' = maker,
         task[t].pc \notin ReleaseSteps
  PROVE  Quiet(t)
<1>1. Others(t) /\ SameHeld
  BY EndsBack DEF Back
<1>2. SameRefs
  <2>1. mgr' = mgr \/ mgr' = Freed(t)
    BY DEF Throw, Wait
  <2> QED BY <2>1, FreedRefs DEF SameRefs
<1>3. task'[t].pc \in {"idle", "loop", "guardRm"} /\ task'[t].then = "end"
  <2>1. CASE DropGuard(t, "end")
    BY <2>1 DEF DropGuard, TypeOK, Task
  <2>2. CASE task' = [task EXCEPT ![t] = NewTask]
    BY <2>2 DEF NewTask, TypeOK
  <2>3. CASE task' = [task EXCEPT ![t] = [NewTask EXCEPT !.pc = "loop", !.guard = task[t].guard]]
    BY <2>3 DEF NewTask, TypeOK
  <2> QED BY <2>1, <2>2, <2>3 DEF Throw, Wait
<1> QED BY <1>1, <1>2, <1>3 DEF Quiet, Referring, Open, Handling, Making, ReleaseSteps

LEMMA DropsQuiet ==
  ASSUME TypeOK, NEW t \in Tasks, NEW n \in {"end", "wait", "register"}, DropGuard(t, n),
         UNCHANGED mgr, maker' = maker, task[t].pc \notin ReleaseSteps,
         n = "register" => Making(t)
  PROVE  Quiet(t)
BY DEF DropGuard, Quiet, Others, SameHeld, SameRefs, Referring, Open, Handling, Making,
       ReleaseSteps, TypeOK, Task

\* A step on the way of an attempt that leaves the manager's entry alone.
LEMMA GoesQuiet ==
  ASSUME TypeOK, NEW t \in Tasks, ForcedOK(t), Others(t), SameHeld, SameRefs, maker' = maker,
         task[t].pc \in {"idle", "loop"} \cup AdmittedSteps \cup CleanupSteps,
         task'[t].pc \in ({"loop"} \cup AdmittedSteps \cup CleanupSteps) \ {"guardGone", "guardRm"},
         task'[t].then \in {task[t].then, "end", "wait"},
         Making(t)' => Making(t) /\ task'[t].rec = task[t].rec
  PROVE  Quiet(t)
BY DEF Quiet, Referring, Open, Handling, ReleaseSteps, AdmittedSteps, CleanupSteps, ForcedOK

LEMMA BoundaryQuiet ==
  ASSUME TypeOK, NEW t \in Tasks, NEW step, NEW ACTION next, maker' = maker,
         Boundary(t, step, next), step \notin ReleaseSteps
  PROVE  Quiet(t) \/ next
  BY EndsQuiet, DropsQuiet DEF Boundary, At

LEMMA AcquireQuiet ==
  ASSUME TypeOK, NEW t \in Tasks, ForcedOK(t),
         \/ Call(t) \/ Admit(t) \/ CreateRefused(t) \/ WriteFile(t) \/ WriteFails(t)
         \/ CreateConflict(t) \/ Created(t) \/ UndoCompare(t) \/ UndoRemove(t)
  PROVE  Quiet(t)
<1> USE DEF At, Goto, TypeOK, Task, disk
<1>1. CASE Call(t) \/ WriteFile(t) \/ WriteFails(t)
  <2>1. /\ Others(t) /\ SameHeld /\ SameRefs /\ maker' = maker
        /\ task[t].pc \in {"idle", "write"}
        /\ task'[t].pc \in {"loop", "created", "undo"}
        /\ task'[t].then \in {task[t].then, "end", "wait"}
        /\ task[t].pc = "idle" => task'[t].pc = "loop"
        /\ task'[t].rec = task[t].rec
    BY <1>1 DEF Call, WriteFile, WriteFails, Others, SameHeld, SameRefs
  <2>2. Making(t)' => Making(t)
    BY <2>1 DEF Making
  <2> QED BY <2>1, <2>2, GoesQuiet DEF AdmittedSteps, CleanupSteps
<1>2. CASE Admit(t)
  <2>1. CASE Wait(t)
    BY <1>2, <2>1, EndsQuiet DEF Admit, ReleaseSteps
  <2>2. CASE mgr' = [mgr EXCEPT ![Home[t]].admitted = t] /\ Goto(t, "create")
    <3>1. SameHeld /\ SameRefs
      BY <2>2 DEF SameHeld, SameRefs, Manager
    <3>2. Others(t) /\ task'[t] = [task[t] EXCEPT !.pc = "create"] /\ task[t].pc = "loop"
      BY <1>2, <2>2 DEF Others, Admit
    <3>3. ~Making(t)'
      BY <3>2 DEF Making
    <3> QED BY <1>2, <3>1, <3>2, <3>3, GoesQuiet DEF Admit, AdmittedSteps, CleanupSteps
  <2> QED BY <1>2, <2>1, <2>2 DEF Admit
<1>3. CASE CreateRefused(t)
  BY <1>3, EndsQuiet DEF CreateRefused, ReleaseSteps
<1>4. CASE CreateConflict(t)
  <2>1. CASE DropGuard(t, "wait")
    BY <1>4, <2>1, DropsQuiet DEF CreateConflict, MayCreate, ReleaseSteps
  <2>2. CASE Goto(t, "inspect")
    <3>1. Others(t) /\ SameHeld /\ SameRefs
      BY <1>4, <2>2 DEF Others, SameHeld, SameRefs, CreateConflict
    <3>2. task'[t] = [task[t] EXCEPT !.pc = "inspect"] /\ task[t].pc = "create"
      BY <1>4, <2>2 DEF CreateConflict, MayCreate
    <3>3. ~Making(t)'
      BY <3>2 DEF Making
    <3> QED BY <1>4, <3>1, <3>2, <3>3, GoesQuiet DEF CreateConflict, AdmittedSteps, CleanupSteps
  <2> QED BY <1>4, <2>1, <2>2 DEF CreateConflict
<1>5. CASE Created(t)
  <2>0. Making(t) /\ task[t].pc = "created"
    BY <1>5 DEF Created, Making
  <2>1. CASE Wait(t)
    BY <1>5, <2>0, <2>1, EndsQuiet DEF Created, ReleaseSteps
  <2>2. CASE UNCHANGED mgr /\ DropGuard(t, "register")
    BY <1>5, <2>0, <2>2, DropsQuiet DEF Created, ReleaseSteps
  <2>3. CASE /\ UNCHANGED mgr
             /\ \/ task' = [task EXCEPT ![t].pc = "undo", ![t].then = "wait"]
                \/ Goto(t, "register")
    <3>1. Others(t) /\ SameHeld /\ SameRefs
      BY <2>3 DEF Others, SameHeld, SameRefs
    <3>2. /\ task'[t].pc \in {"undo", "register"} /\ task'[t].then \in {task[t].then, "wait"}
          /\ task'[t].rec = task[t].rec
      BY <2>3
    <3> QED BY <1>5, <2>0, <3>1, <3>2, GoesQuiet DEF Created, AdmittedSteps, CleanupSteps
  <2> QED BY <1>5, <2>1, <2>2, <2>3 DEF Created
<1>6. CASE UndoCompare(t)
  <2>1. CASE Goto(t, "undoRm") /\ UNCHANGED mgr
    <3>1. Others(t) /\ SameHeld /\ SameRefs
      BY <2>1 DEF Others, SameHeld, SameRefs
    <3>2. task'[t] = [task[t] EXCEPT !.pc = "undoRm"] /\ task[t].pc = "undo"
      BY <1>6, <2>1 DEF UndoCompare
    <3>3. Making(t)
      BY <3>2 DEF Making
    <3> QED BY <1>6, <3>1, <3>2, <3>3, GoesQuiet DEF UndoCompare, AdmittedSteps, CleanupSteps
  <2> QED BY <1>6, <2>1, EndsQuiet DEF UndoCompare, AfterUndo, ReleaseSteps
<1>7. CASE UndoRemove(t)
  BY <1>7, EndsQuiet DEF UndoRemove, AfterUndo, ReleaseSteps
<1> QED BY <1>1, <1>2, <1>3, <1>4, <1>5, <1>6, <1>7

LEMMA ReclaimQuiet ==
  ASSUME TypeOK, NEW t \in Tasks, ForcedOK(t), ReclaimStep(t)
  PROVE  Quiet(t)
<1> USE DEF At, Goto, TypeOK, Task
<1>1. maker' = maker
  BY DEF ReclaimStep, Inspect, Recheck, TakeGuard, GuardMade, Approve, Confirm, Remove,
         GuardRemove, GuardRemoved, disk
<1>2. ASSUME UNCHANGED mgr, task[t].pc \in AdmittedSteps, NEW s \in {"create"} \cup Judging, NEW x,
             \/ Goto(t, s)
             \/ task' = [task EXCEPT ![t].pc = s, ![t].seen = x]
      PROVE  Quiet(t)
  <2>1. Others(t) /\ SameHeld /\ SameRefs
    BY <1>2 DEF Others, SameHeld, SameRefs
  <2>2. /\ task'[t].pc = s /\ task'[t].then = task[t].then
        /\ ~Making(t)'
    BY <1>2 DEF Making, Judging
  <2> QED BY <1>1, <1>2, <2>1, <2>2, GoesQuiet DEF AdmittedSteps, CleanupSteps, Judging
<1>3. CASE Inspect(t) \/ Recheck(t) \/ Approve(t) \/ Confirm(t) \/ Remove(t)
  <2>1. task[t].pc \in AdmittedSteps \ ReleaseSteps
    BY <1>3
       DEF Inspect, Recheck, Approve, Confirm, Remove, Boundary, AdmittedSteps, ReleaseSteps
  <2>2. \A n \in {"end", "wait"} : DropGuard(t, n) /\ UNCHANGED mgr => Quiet(t)
    BY <1>1, <2>1, DropsQuiet
  <2>3. Throw(t) \/ Wait(t) => Quiet(t)
    BY <1>1, <2>1, EndsQuiet
  <2> QED
    BY <1>2, <1>3, <2>1, <2>2, <2>3
       DEF Inspect, Recheck, Approve, Confirm, Remove, Boundary, Judging
<1>4. CASE TakeGuard(t)
  BY <1>1, <1>2, <1>4, EndsQuiet DEF TakeGuard, AdmittedSteps, ReleaseSteps, Judging
<1>5. CASE GuardMade(t)
  <2>1. Others(t) /\ task'[t].then \in {"wait", "end"} /\ task'[t].pc \in {"approve", "guardRm"}
    BY <1>5 DEF GuardMade, Others
  <2>2. SameHeld /\ SameRefs /\ task[t].pc = "guardMade"
    BY <1>5 DEF GuardMade, SameHeld, SameRefs, Manager
  <2> QED BY <1>1, <2>1, <2>2 DEF Quiet, Referring, Open, Handling, Making, ReleaseSteps
<1>6. CASE GuardRemove(t)
  <2>1. Others(t) /\ task[t].pc = "guardRm"
    BY <1>6 DEF GuardRemove, DropGuard, Others
  <2>2. SameHeld /\ SameRefs
    <3>1. mgr' = mgr \/ mgr' = Freed(t)
      BY <1>6 DEF GuardRemove
    <3>2. SUFFICES ASSUME NEW p \in Procs
                   PROVE  mgr'[p].held = mgr[p].held /\ mgr'[p].refs = mgr[p].refs
      BY DEF SameHeld, SameRefs
    <3>3. CASE mgr' = mgr
      BY <3>3
    <3>4. CASE mgr' = Freed(t)
      BY <3>4, FreedRefs
    <3> QED BY <3>1, <3>3, <3>4
  <2>3. \/ task'[t].pc = "guardGone" /\ task'[t].then = task[t].then /\ task'[t].rec = task[t].rec
        \/ task'[t].pc = "undo" /\ task[t].then = "register" /\ task'[t].rec = task[t].rec
             /\ task'[t].then = "end"
        \/ task'[t].pc = "guardRm" /\ task'[t].then = "end"
        \/ task'[t].pc = "holding" /\ task[t].then = "hold" /\ task'[t].rec = task[t].rec
             /\ task'[t].then = "hold"
        \/ task'[t].pc = "idle" /\ task'[t].then = "end"
    BY <1>6 DEF GuardRemove, DropGuard, NewTask
  <2> QED
    BY <1>1, <2>1, <2>2, <2>3 DEF Quiet, ForcedOK, Referring, Open, Handling, Making, ReleaseSteps
<1>7. CASE GuardRemoved(t)
  <2>1. Others(t) /\ task[t].pc = "guardGone"
    BY <1>7 DEF GuardRemoved, Others
  <2>2. SameHeld /\ SameRefs
    <3>1. \/ mgr' = [Freed(t) EXCEPT ![Home[t]].guards = FALSE]
          \/ mgr' = [mgr EXCEPT ![Home[t]].guards = FALSE]
      BY <1>7 DEF GuardRemoved
    <3>2. SUFFICES ASSUME NEW p \in Procs
                   PROVE  mgr'[p].held = mgr[p].held /\ mgr'[p].refs = mgr[p].refs
      BY DEF SameHeld, SameRefs
    <3>3. CASE mgr' = [Freed(t) EXCEPT ![Home[t]].guards = FALSE]
      BY <3>3, FreedRefs
    <3>4. CASE mgr' = [mgr EXCEPT ![Home[t]].guards = FALSE]
      BY <3>4, FreedRefs
    <3> QED BY <3>1, <3>3, <3>4
  <2>3. \/ task'[t].pc = "register" /\ task[t].then = "register" /\ task'[t].rec = task[t].rec
             /\ task'[t].then = "register"
        \/ task'[t].pc = "holding" /\ task[t].then = "hold" /\ task'[t].rec = task[t].rec
             /\ task'[t].then = "hold"
        \/ task'[t].pc \in {"idle", "loop"} /\ task'[t].then = "end"
    BY <1>7 DEF GuardRemoved, NewTask
  <2> QED
    BY <1>1, <2>1, <2>2, <2>3 DEF Quiet, ForcedOK, Referring, Open, Handling, Making, ReleaseSteps
<1> QED BY <1>3, <1>4, <1>5, <1>6, <1>7 DEF ReclaimStep

\* The other tasks of a step that ends in a handle of t or in its release.
LEMMA OthersRefs ==
  ASSUME TypeOK, Local, RefsOK, NEW t \in Tasks, Others(t), NEW u \in Tasks \ {t},
         maker' = maker, \A p \in Procs : mgr'[p].held \in {mgr[p].held, NoRecord},
         Handling(t)' => (Handling(t) /\ task'[t].rec = task[t].rec)
                           \/ \E p \in Procs : mgr[p].held = task'[t].rec /\ mgr[p].held # NoRecord,
         Referring(t)' /\ task[u].pc \in ReleaseSteps /\ task[u].then # "forced"
           => task'[t].rec # task[u].rec
  PROVE  RefTask(u)'
<1>1. task'[u] = task[u]
  BY DEF Others
<1>2. \A v \in Tasks \ {t} : task'[v] = task[v]
  BY DEF Others
<1>3. LastOne(u)'
  <2> SUFFICES ASSUME task[u].pc \in ReleaseSteps, task[u].then # "forced",
                      NEW v \in Tasks, Referring(v)'
               PROVE  task[u].started /\ task'[v].rec # task[u].rec
    BY <1>1 DEF LastOne, RefsOK, RefTask
  <2>1. CASE v = t
    BY <2>1 DEF RefsOK, RefTask, LastOne
  <2>2. CASE v # t
    BY <1>2, <2>2 DEF RefsOK, RefTask, LastOne, Referring, Open
  <2> QED BY <2>1, <2>2
<1>4. ForcedOK(u)' /\ HandleOK(u)'
  BY <1>1 DEF RefsOK, RefTask, ForcedOK, HandleOK, Handling
<1>5. Fresh(u)'
  <2> SUFFICES ASSUME Making(u)
               PROVE  /\ \A v \in Tasks : Handling(v)' => task'[v].rec # task[u].rec
                      /\ \A p \in Procs : mgr'[p].held # task[u].rec
    BY <1>1 DEF Fresh, Making
  <2>1. /\ \A v \in Tasks : Handling(v) => task[v].rec # task[u].rec
        /\ \A p \in Procs : mgr[p].held # task[u].rec
    BY DEF RefsOK, RefTask, Fresh
  <2>2. task[u].rec \in Records
    BY DEF Local, TaskOK
  <2>3. \A p \in Procs : mgr'[p].held # task[u].rec
    BY <2>1, <2>2, LockAssumption
  <2>4. ASSUME NEW v \in Tasks, Handling(v)' PROVE task'[v].rec # task[u].rec
    BY <1>2, <2>1, <2>4 DEF Handling
  <2> QED BY <2>3, <2>4
<1> QED BY <1>3, <1>4, <1>5 DEF RefTask

LEMMA ReuseRefs ==
  ASSUME TypeOK, Local, RefsOK, NEW t \in Tasks, Reuse(t)
  PROVE  RefsOK'
<1> DEFINE p == Home[t]
<1>1. /\ p \in Procs /\ p \in up /\ mgr[p].held \in Records /\ task[t].pc = "loop"
      /\ ~Releasing(p) /\ maker' = maker /\ Others(t)
  BY LockAssumption DEF Reuse, Reentrant, Held, At, Others, TypeOK, Manager, disk
<1>2. /\ mgr' = [mgr EXCEPT ![p].refs = @ + 1]
      /\ task'[t] = [task[t] EXCEPT !.rec = mgr[p].held, !.then = "hold",
                                    !.pc = IF task[t].guard THEN "guardRm" ELSE "holding"]
  BY DEF Reuse, Held, TypeOK
<1>3. /\ task'[t].pc \in {"guardRm", "holding"} /\ task'[t].then = "hold"
      /\ task'[t].rec = mgr[p].held
  BY <1>2 DEF TypeOK, Task
<1>4. /\ \A q \in Procs : mgr'[q].held = mgr[q].held
      /\ \A q \in Procs \ {p} : mgr'[q] = mgr[q]
      /\ mgr'[p].refs = mgr[p].refs + 1 /\ mgr[p].refs \in Nat
  BY <1>1, <1>2 DEF TypeOK, Manager
<1> HIDE DEF p
<1>5. \A q \in Procs : Forced(q) => Forced(q)'
  BY <1>1, <1>4 DEF Forced, Others, ReleaseSteps
<1>6. Counted(p)'
  <2> SUFFICES ASSUME ~Forced(p)
               PROVE  /\ IsFiniteSet(References(p)')
                      /\ Cardinality(References(p)') <= mgr[p].refs + 1
    BY <1>1, <1>4, <1>5 DEF Counted
  <2>1. References(p)' \in SUBSET (References(p) \cup {t})
    BY <1>1, <1>4 DEF References, Others, Referring, Open
  <2>2. IsFiniteSet(References(p)) /\ Cardinality(References(p)) <= mgr[p].refs
    BY <1>1, LockAssumption DEF RefsOK, Counted
  <2>3. /\ IsFiniteSet(References(p) \cup {t})
        /\ Cardinality(References(p) \cup {t})
             = IF t \in References(p) THEN Cardinality(References(p))
               ELSE Cardinality(References(p)) + 1
    BY <2>2, FS_AddElement
  <2>4. /\ IsFiniteSet(References(p)')
        /\ Cardinality(References(p)') <= Cardinality(References(p) \cup {t})
    BY <2>1, <2>3, FS_Subset
  <2>5. Cardinality(References(p)) \in Nat /\ Cardinality(References(p)') \in Nat
    BY <2>2, <2>4, FS_CardinalityType
  <2> QED BY <1>4, <2>2, <2>3, <2>4, <2>5
<1>7. ASSUME NEW q \in Procs \ {p} PROVE Counted(q)'
  <2>1. References(q)' = References(q)
    BY <1>1, <1>4 DEF References, Others, Referring, Open, p
  <2> QED BY <1>4, <1>5, <2>1 DEF RefsOK, Counted
<1>8. ASSUME NEW u \in Tasks, task[u].pc \in ReleaseSteps PROVE task[u].rec # mgr[p].held
  <2> SUFFICES ASSUME task[u].rec = mgr[p].held PROVE FALSE
    OBVIOUS
  <2>1. Home[u] = p
    BY <1>1, <1>8, LockAssumption DEF RefsOK, RefTask, HandleOK, Handling, Local, ManagerOK
  <2> QED BY <1>1, <1>8, <2>1 DEF Releasing
<1>9. ASSUME NEW u \in Tasks \ {t} PROVE RefTask(u)'
  BY <1>1, <1>3, <1>4, <1>8, OthersRefs, LockAssumption
<1>10. RefTask(t)'
  <2>1. ~Making(t)' /\ task'[t].pc \notin ReleaseSteps
    BY <1>3 DEF Making, ReleaseSteps
  <2>2. maker[mgr[p].held] \in Tasks /\ Home[maker[mgr[p].held]] = p
    BY <1>1, LockAssumption DEF Local, ManagerOK
  <2> QED BY <1>1, <1>3, <2>1, <2>2 DEF RefTask, LastOne, ForcedOK, HandleOK, Fresh, p
<1> QED BY <1>6, <1>7, <1>9, <1>10 DEF RefsOK

LEMMA CreateRefs ==
  ASSUME TypeOK, Local, RefsOK, NEW t \in Tasks, CreateFile(t)
  PROVE  RefsOK'
<1>1. PICK r \in Records : /\ maker[r] = Nobody
                           /\ maker' = [maker EXCEPT ![r] = t]
                           /\ task' = [task EXCEPT ![t].rec = r,
                                         ![t].pc = IF Hardlinks THEN "created" ELSE "write"]
  BY DEF CreateFile
<1>2. /\ Others(t) /\ task[t].pc = "create" /\ mgr' = mgr
      /\ task'[t].pc \in {"created", "write"} /\ task'[t].rec = r /\ task'[t].then = task[t].then
  BY <1>1 DEF CreateFile, MayCreate, At, Others, TypeOK, Task
<1>3. \A q \in Records : q # r => maker'[q] = maker[q]
  BY <1>1 DEF TypeOK
<1>4. /\ ~Handling(t) /\ ~Handling(t)' /\ ~Referring(t) /\ ~Referring(t)'
      /\ task'[t].pc \notin ReleaseSteps
  BY <1>2 DEF Handling, Referring, Open, ReleaseSteps
<1>5. ASSUME NEW u \in Tasks, Handling(u) PROVE task[u].rec \in Records \ {r}
  BY <1>1, <1>5, LockAssumption DEF RefsOK, RefTask, HandleOK, Local, TaskOK
<1>6. ASSUME NEW p \in Procs PROVE mgr[p].held # r
  BY <1>1, LockAssumption DEF Local, ManagerOK
<1>7. ASSUME NEW p \in Procs PROVE Counted(p)'
  <2>1. References(p)' = References(p)
    BY <1>2, <1>4 DEF References, Others, Referring, Open
  <2>2. Forced(p)' = Forced(p)
    BY <1>2, <1>4 DEF Forced, Others, ReleaseSteps
  <2> QED BY <1>2, <2>1, <2>2 DEF RefsOK, Counted
<1>8. ASSUME NEW u \in Tasks \ {t} PROVE RefTask(u)'
  <2>1. task'[u] = task[u]
    BY <1>2 DEF Others
  <2>2. LastOne(u)'
    BY <1>2, <1>4, <2>1 DEF LastOne, Referring, Open, Others, RefsOK, RefTask
  <2>3. HandleOK(u)'
    BY <1>3, <1>5, <2>1 DEF HandleOK, Handling, RefsOK, RefTask
  <2>4. Fresh(u)'
    BY <1>2, <1>4, <2>1 DEF Fresh, Making, Handling, Others, RefsOK, RefTask
  <2> QED BY <2>1, <2>2, <2>3, <2>4 DEF RefTask, ForcedOK, RefsOK
<1>9. RefTask(t)'
  <2>1. ForcedOK(t)'
    BY <1>2 DEF ForcedOK, RefsOK, RefTask, ReleaseSteps
  <2>2. Fresh(t)'
    BY <1>2, <1>4, <1>5, <1>6 DEF Fresh, Handling, Others
  <2> QED BY <1>4, <2>1, <2>2 DEF RefTask, LastOne, HandleOK
<1> QED BY <1>7, <1>8, <1>9 DEF RefsOK

LEMMA RegisterRefs ==
  ASSUME TypeOK, Local, RefsOK, NEW t \in Tasks, Register(t)
  PROVE  RefsOK'
<1> DEFINE p == Home[t]
<1>1. CASE task' = [task EXCEPT ![t].pc = "undo", ![t].then = "wait"] /\ UNCHANGED mgr
  <2>1. Others(t) /\ SameHeld /\ SameRefs
    BY <1>1 DEF Others, SameHeld, SameRefs, TypeOK
  <2>2. task'[t].pc = "undo" /\ task'[t].then = "wait" /\ task'[t].rec = task[t].rec
    BY <1>1 DEF TypeOK, Task
  <2>3. Making(t) /\ task[t].pc = "register" /\ maker' = maker
    BY DEF Register, At, Making, disk
  <2>4. Quiet(t)
    BY <2>1, <2>2, <2>3, GoesQuiet DEF RefsOK, RefTask, AdmittedSteps, CleanupSteps
  <2> QED BY <2>4, QuietRefs
<1>2. CASE /\ mgr' = [mgr EXCEPT ![p].held = task[t].rec, ![p].refs = 1, ![p].admitted = Nobody]
           /\ Goto(t, "holding")
  <2>1. /\ Others(t) /\ task'[t].pc = "holding" /\ task'[t].rec = task[t].rec
        /\ task'[t].then = task[t].then /\ task[t].pc = "register" /\ maker' = maker /\ p \in Procs
    BY <1>2, LockAssumption DEF Goto, Register, At, Others, TypeOK, Task, disk
  <2>2. /\ mgr'[p].held = task[t].rec /\ mgr'[p].refs = 1
        /\ \A q \in Procs \ {p} : mgr'[q] = mgr[q]
    BY <1>2, <2>1 DEF TypeOK, Manager
  <2>3. /\ \A u \in Tasks : Handling(u) => task[u].rec # task[t].rec
        /\ \A q \in Procs : mgr[q].held # task[t].rec
        /\ maker[task[t].rec] = t
    BY <2>1 DEF RefsOK, RefTask, Fresh, Making, Local, TaskOK
  <2>4. Counted(p)'
    <3>1. References(p)' \in SUBSET {t}
      BY <2>1, <2>2, <2>3 DEF References, Referring, Open, Others, Handling
    <3>2. IsFiniteSet({t}) /\ Cardinality({t}) = 1
      BY FS_Singleton
    <3>3. IsFiniteSet(References(p)') /\ Cardinality(References(p)') <= 1
      BY <3>1, <3>2, FS_Subset
    <3> QED BY <2>2, <3>3 DEF Counted
  <2>5. ASSUME NEW q \in Procs \ {p} PROVE Counted(q)'
    <3>1. References(q)' = References(q)
      BY <2>1, <2>2 DEF References, Others, Referring, Open
    <3>2. Forced(q) => Forced(q)'
      BY <2>1, <2>2 DEF Forced, Others, ReleaseSteps
    <3> QED BY <2>2, <3>1, <3>2 DEF RefsOK, Counted
  <2>6. ASSUME NEW u \in Tasks \ {t} PROVE RefTask(u)'
    <3>1. task'[u] = task[u]
      BY <2>1 DEF Others
    <3>2. LastOne(u)'
      BY <2>1, <2>3, <3>1 DEF LastOne, Referring, Open, Others, RefsOK, RefTask, Handling
    <3>3. ForcedOK(u)' /\ HandleOK(u)'
      BY <2>1, <3>1 DEF ForcedOK, HandleOK, Handling, RefsOK, RefTask
    <3>4. Making(u) => task[u].rec # task[t].rec
      BY <2>3 DEF Local, TaskOK
    <3>5. Fresh(u)'
      BY <2>1, <2>2, <3>1, <3>4 DEF Fresh, Making, Handling, Others, RefsOK, RefTask
    <3> QED BY <3>2, <3>3, <3>5 DEF RefTask
  <2>7. RefTask(t)'
    <3>1. task[t].then # "forced"
      BY <2>1 DEF RefsOK, RefTask, ForcedOK, ReleaseSteps
    <3> QED
      BY <2>1, <2>3, <3>1 DEF RefTask, LastOne, ForcedOK, HandleOK, Fresh, Making, ReleaseSteps
  <2> QED BY <2>4, <2>5, <2>6, <2>7 DEF RefsOK
<1> QED BY <1>1, <1>2 DEF Register

\* A step between the calls of a release.
LEMMA ReleasingRefs ==
  ASSUME TypeOK, Local, RefsOK, NEW t \in Tasks, Others(t), UNCHANGED mgr, maker' = maker,
         task[t].pc \in ReleaseSteps, task'[t].rec = task[t].rec,
         task'[t].then = task[t].then, task'[t].started = task[t].started,
         \/ task'[t].pc \in ReleaseSteps
         \/ task'[t].pc = "holding" /\ task[t].then # "forced"
  PROVE  RefsOK'
<1>1. ~Referring(t)'
  BY DEF RefsOK, RefTask, LastOne, Referring, Open, ReleaseSteps
<1>2. ASSUME NEW p \in Procs PROVE Counted(p)'
  <2>1. Forced(p) => Forced(p)'
    BY DEF Forced, Others
  <2>2. \A u \in Tasks : Referring(u)' => Referring(u) /\ task'[u].rec = task[u].rec
    BY <1>1 DEF Others, Referring, Open
  <2> QED BY <2>1, <2>2, FewerReferences DEF RefsOK, TypeOK, Manager
<1>3. ASSUME NEW u \in Tasks \ {t} PROVE RefTask(u)'
  BY <1>1, OthersRefs DEF Handling
<1>4. RefTask(t)'
  <2>1. ForcedOK(t)' /\ HandleOK(t)'
    BY DEF ForcedOK, HandleOK, Handling, RefsOK, RefTask
  <2>2. LastOne(t)'
    BY <1>1 DEF LastOne, Others, Referring, Open, RefsOK, RefTask
  <2>3. ~Making(t)'
    BY DEF Making, ReleaseSteps
  <2> QED BY <2>1, <2>2, <2>3 DEF RefTask, Fresh
<1> QED BY <1>2, <1>3, <1>4 DEF RefsOK

\* The end of a release, or of a lost handle: the task has no handle any more.
LEMMA EndRefs ==
  ASSUME TypeOK, Local, RefsOK, NEW t \in Tasks, task' = [task EXCEPT ![t] = NewTask],
         maker' = maker, SameRefs, \A p \in Procs : mgr'[p].held \in {mgr[p].held, NoRecord},
         task[t].pc \in ReleaseSteps /\ task[t].then = "forced"
           => \A p \in Procs : Home[t] = p => mgr'[p].held # task[t].rec
  PROVE  RefsOK'
<1>1. Others(t) /\ task'[t] = NewTask
  BY DEF Others, TypeOK
<1>2. ~Referring(t)' /\ ~Handling(t)' /\ ~Making(t)' /\ task'[t].pc \notin ReleaseSteps
  BY <1>1 DEF NewTask, Referring, Open, Handling, Making, ReleaseSteps
<1>3. ASSUME NEW p \in Procs PROVE Counted(p)'
  <2> SUFFICES ASSUME mgr'[p].held # NoRecord PROVE Counted(p)'
    BY DEF Counted
  <2>1. Forced(p) => Forced(p)'
    BY <1>1 DEF Forced, Others
  <2>2. \A u \in Tasks : Referring(u)' => Referring(u) /\ task'[u].rec = task[u].rec
    BY <1>1, <1>2 DEF Others, Referring, Open
  <2> QED BY <2>1, <2>2, FewerReferences DEF RefsOK, TypeOK, Manager, SameRefs
<1>4. ASSUME NEW u \in Tasks \ {t} PROVE RefTask(u)'
  BY <1>1, <1>2, OthersRefs
<1>5. RefTask(t)'
  BY <1>1, <1>2 DEF RefTask, LastOne, ForcedOK, HandleOK, Fresh, NewTask
<1> QED BY <1>3, <1>4, <1>5 DEF RefsOK

LEMMA HandleRefs ==
  ASSUME TypeOK, Local, RefsOK, NEW t \in Tasks, ReleaseHandle(t)
  PROVE  RefsOK'
<1>0. PICK p \in Procs : p = Home[t]
  BY LockAssumption
<1> DEFINE left == IF task[t].started \/ mgr[p].refs = 0 THEN mgr[p].refs ELSE mgr[p].refs - 1
<1>1. /\ p = Home[t] /\ p \in up /\ task[t].pc = "holding" /\ task[t].rec \in Records
      /\ maker' = maker /\ mgr[p].refs \in Nat
  BY <1>0, LockAssumption
     DEF ReleaseHandle, At, Local, TaskOK, Handling, TypeOK, Manager, disk
<1>2. task[t].then # "forced"
  BY <1>1 DEF RefsOK, RefTask, ForcedOK, ReleaseSteps
<1>3. CASE task' = [task EXCEPT ![t] = NewTask] /\ UNCHANGED mgr
  BY <1>1, <1>3, EndRefs DEF SameRefs, ReleaseSteps
<1>4. CASE task' = [task EXCEPT ![t].started = TRUE] /\ UNCHANGED mgr
  <2>1. /\ Others(t) /\ SameHeld /\ SameRefs
        /\ task'[t].pc = "holding" /\ task'[t].started /\ task'[t].rec = task[t].rec
        /\ task'[t].then = task[t].then
    BY <1>1, <1>4 DEF Others, SameHeld, SameRefs, TypeOK, Task
  <2> QED
    BY <1>1, <1>2, <2>1, QuietRefs
       DEF Quiet, Referring, Open, Handling, Making, ReleaseSteps
<1>5. CASE /\ Held(t) = task[t].rec /\ ~Releasing(p)
           /\ mgr' = [mgr EXCEPT ![p].refs = left]
           /\ task' = IF left > 0 THEN [task EXCEPT ![t] = NewTask]
                      ELSE [task EXCEPT ![t].started = TRUE, ![t].pc = "relCompare"]
  <2>1. /\ \A q \in Procs : mgr'[q].held = mgr[q].held
        /\ \A q \in Procs \ {p} : mgr'[q].refs = mgr[q].refs
        /\ mgr'[p].refs = left /\ mgr[p].held = task[t].rec
    BY <1>1, <1>5 DEF TypeOK, Manager, Held
  <2>2. Others(t)
    BY <1>5 DEF Others, TypeOK
  <2>3. ~Forced(p)
    BY <1>1, <1>5 DEF Forced, Releasing
  <2>4. IsFiniteSet(References(p)) /\ Cardinality(References(p)) <= mgr[p].refs
    BY <1>1, <2>1, <2>3, LockAssumption DEF RefsOK, Counted
  <2>5. t \in References(p) <=> ~task[t].started
    BY <1>1, <2>1 DEF References, Referring, Open
  <2>6. ~Referring(t)'
    <3>1. CASE left > 0
      BY <1>5, <3>1 DEF Referring, Open, NewTask, TypeOK
    <3>2. CASE ~(left > 0)
      BY <1>5, <3>2 DEF Referring, Open, TypeOK, Task
    <3> QED BY <3>1, <3>2
  <2>7. References(p)' \in SUBSET (References(p) \ {t})
    BY <2>1, <2>2, <2>6 DEF References, Others, Referring, Open
  <2>8. /\ IsFiniteSet(References(p) \ {t})
        /\ Cardinality(References(p) \ {t}) = IF t \in References(p)
             THEN Cardinality(References(p)) - 1 ELSE Cardinality(References(p))
    BY <2>4, FS_RemoveElement
  <2>9. /\ IsFiniteSet(References(p)') /\ Cardinality(References(p)') \in Nat
        /\ Cardinality(References(p)') <= Cardinality(References(p) \ {t})
        /\ Cardinality(References(p)) \in Nat /\ Cardinality(References(p) \ {t}) \in Nat
    BY <2>4, <2>7, <2>8, FS_Subset, FS_CardinalityType
  <2>10. Cardinality(References(p)') <= left
    BY <1>1, <2>4, <2>5, <2>8, <2>9
  <2>11. ASSUME NEW q \in Procs \ {p} PROVE Counted(q)'
    <3>1. Forced(q) => Forced(q)'
      BY <1>1, <2>1, <2>2 DEF Forced, Others, ReleaseSteps
    <3>2. References(q)' = References(q)
      <4>1. \A u \in Tasks : Home[u] = q => task'[u] = task[u]
        BY <1>1, <2>2 DEF Others
      <4> QED BY <2>1, <4>1 DEF References, Referring, Open
    <3> QED BY <2>1, <3>1, <3>2 DEF RefsOK, Counted
  <2>12. Counted(p)'
    BY <2>1, <2>9, <2>10 DEF Counted
  <2>13. /\ Handling(t)' => task'[t].rec = task[t].rec
         /\ ~Making(t)' /\ task'[t].then # "forced"
         /\ task'[t].pc \in ReleaseSteps => left = 0 /\ task'[t].started /\ task'[t].rec = task[t].rec
    <3>1. CASE left > 0
      BY <1>5, <3>1 DEF Handling, Making, NewTask, ReleaseSteps, TypeOK
    <3>2. CASE ~(left > 0)
      <4>1. left = 0
        BY <1>1, <3>2
      <4>2. /\ task'[t].pc = "relCompare" /\ task'[t].started
            /\ task'[t].rec = task[t].rec /\ task'[t].then = task[t].then
        BY <1>5, <3>2 DEF TypeOK, Task
      <4> QED BY <1>2, <4>1, <4>2 DEF Making, ReleaseSteps
    <3> QED BY <3>1, <3>2
  <2>14. Handling(t)
    BY <1>1 DEF Handling
  <2>15. ASSUME NEW u \in Tasks \ {t} PROVE RefTask(u)'
    BY <1>1, <2>1, <2>2, <2>6, <2>13, <2>14, OthersRefs
  <2>16. LastOne(t)'
    <3> SUFFICES ASSUME task'[t].pc \in ReleaseSteps, NEW u \in Tasks, Referring(u)',
                        task'[u].rec = task[t].rec
                 PROVE  FALSE
      BY <2>13 DEF LastOne
    <3>1. References(p)' = {}
      BY <2>9, <2>10, <2>13, FS_EmptySet
    <3>2. u # t /\ task'[u] = task[u]
      BY <2>2, <2>6 DEF Others
    <3>3. Home[u] = p
      BY <1>1, <2>14, <3>2
         DEF Referring, Open, Handling, HandleOK, RefsOK, RefTask
    <3> QED BY <2>1, <3>1, <3>3 DEF References
  <2>17. RefTask(t)'
    BY <1>1, <2>13, <2>14, <2>16 DEF RefTask, ForcedOK, HandleOK, Fresh, RefsOK
  <2> QED BY <2>11, <2>12, <2>15, <2>17 DEF RefsOK
<1> QED BY <1>0, <1>3, <1>4, <1>5 DEF ReleaseHandle

LEMMA DrainRefs ==
  ASSUME TypeOK, Local, RefsOK, NEW t \in Tasks, Drain(t)
  PROVE  RefsOK'
<1>0. PICK p \in Procs : p = Home[t]
  BY LockAssumption
<1>1. /\ p \in up /\ task[t].pc = "idle" /\ mgr[p].held \in Records /\ "drain" \in Ops
      /\ maker' = maker /\ Others(t)
  BY <1>0 DEF Drain, At, Held, Others, TypeOK, Manager, disk
<1>2. /\ task'[t].pc = "relCompare" /\ task'[t].rec = mgr[p].held /\ task'[t].then = "forced"
      /\ mgr'[p].held = mgr[p].held /\ \A q \in Procs \ {p} : mgr'[q] = mgr[q]
      /\ \A q \in Procs : mgr'[q].held = mgr[q].held
  BY <1>0, <1>1 DEF Drain, Held, TypeOK, Manager, Task
<1>3. ~Referring(t) /\ ~Referring(t)' /\ ~Making(t)'
  BY <1>1, <1>2 DEF Referring, Open, Making
<1>4. Counted(p)'
  BY <1>0, <1>2 DEF Counted, Forced, ReleaseSteps
<1>5. ASSUME NEW q \in Procs \ {p} PROVE Counted(q)'
  <2>1. \A u \in Tasks : Home[u] = q => task'[u] = task[u]
    BY <1>0, <1>1 DEF Others
  <2>2. References(q)' = References(q) /\ Forced(q)' = Forced(q)
    BY <1>2, <2>1 DEF References, Forced, Referring, Open
  <2> QED BY <1>2, <2>2 DEF RefsOK, Counted
<1>6. ASSUME NEW u \in Tasks \ {t} PROVE RefTask(u)'
  BY <1>1, <1>2, <1>3, OthersRefs, LockAssumption
<1>7. RefTask(t)'
  <2>1. maker[mgr[p].held] \in Tasks /\ Home[maker[mgr[p].held]] = p
    BY <1>1, LockAssumption DEF Local, ManagerOK
  <2> QED
    BY <1>0, <1>1, <1>2, <1>3, <2>1
       DEF RefTask, LastOne, ForcedOK, HandleOK, Fresh, ReleaseSteps
<1> QED BY <1>4, <1>5, <1>6, <1>7 DEF RefsOK

LEMMA ReleaseRefs ==
  ASSUME DrainsSucceed, TypeOK, Local, RefsOK, NEW t \in Tasks, ReleaseStep(t)
  PROVE  RefsOK'
<1> USE DEF At, Goto
<1>1. task[t].pc \in ReleaseSteps /\ maker' = maker
  BY DEF ReleaseStep, ReleaseCompare, ReleaseRemove, ReleaseFails, ReleaseDone, ReleaseSteps, disk
<1>2. CASE ReleaseCompare(t) \/ ReleaseRemove(t)
  <2>1. /\ Others(t) /\ task'[t].rec = task[t].rec /\ task'[t].then = task[t].then
        /\ task'[t].started = task[t].started /\ task'[t].pc \in ReleaseSteps
    BY <1>2 DEF ReleaseCompare, ReleaseRemove, Others, ReleaseSteps, TypeOK, Task
  <2>2. UNCHANGED mgr
    BY <1>2 DEF ReleaseCompare, ReleaseRemove
  <2> QED BY <1>1, <2>1, <2>2, ReleasingRefs
<1>3. CASE ReleaseFails(t)
  <2>1. task[t].then # "forced"
    BY <1>3 DEF ReleaseFails, DrainsSucceed, RefsOK, RefTask, ForcedOK
  <2>2. /\ Others(t) /\ task'[t].rec = task[t].rec /\ task'[t].then = task[t].then
        /\ task'[t].started = task[t].started /\ task'[t].pc = "holding"
    BY <1>3, <2>1 DEF ReleaseFails, Others, TypeOK, Task
  <2>3. UNCHANGED mgr
    BY <1>3 DEF ReleaseFails
  <2> QED BY <1>1, <2>1, <2>2, <2>3, ReleasingRefs
<1>4. CASE ReleaseDone(t)
  <2>1. /\ task' = [task EXCEPT ![t] = NewTask]
        /\ mgr' = [mgr EXCEPT ![Home[t]].held = IF @ = task[t].rec THEN NoRecord ELSE @]
    BY <1>4 DEF ReleaseDone
  <2>2. task[t].rec \in Records
    BY <1>1 DEF Local, TaskOK, Handling
  <2>3. /\ SameRefs
        /\ \A p \in Procs : mgr'[p].held \in {mgr[p].held, NoRecord}
        /\ \A p \in Procs : Home[t] = p => mgr'[p].held # task[t].rec
    BY <2>1, <2>2, LockAssumption DEF SameRefs, TypeOK, Manager
  <2> QED BY <1>1, <2>1, <2>3, EndRefs
<1> QED BY <1>2, <1>3, <1>4 DEF ReleaseStep

LEMMA ProcessRefs ==
  ASSUME TypeOK, Local, RefsOK, NEW p \in Procs, Reset(p) \/ Exit(p) \/ Crash(p)
  PROVE  RefsOK'
<1>1. mgr'[p].held = NoRecord /\ \A q \in Procs \ {p} : mgr'[q] = mgr[q]
  BY DEF Reset, Exit, Crash, Ended, TypeOK, NewManager
<1>2. /\ \A t \in Tasks : Home[t] # p => task'[t] = task[t]
      /\ \A t \in Tasks : task'[t] \in {task[t], NewTask}
  BY DEF Reset, Exit, Crash, Ended, TypeOK
<1>3. maker' = maker
  BY DEF Reset, Exit, Crash, CleanUp, disk
<1>4. \A q \in Procs : Counted(q)'
  <2> SUFFICES ASSUME NEW q \in Procs \ {p} PROVE Counted(q)'
    BY <1>1 DEF Counted
  <2>1. \A u \in Tasks : Home[u] = q => task'[u] = task[u]
    BY <1>2
  <2>2. References(q)' = References(q) /\ Forced(q)' = Forced(q)
    BY <1>1, <2>1 DEF References, Forced, Referring, Open
  <2> QED BY <1>1, <2>2 DEF RefsOK, Counted
<1>5. \A u \in Tasks : task'[u] = NewTask =>
        ~Referring(u)' /\ ~Handling(u)' /\ ~Making(u)' /\ task'[u].pc \notin ReleaseSteps
          /\ task'[u].then # "forced"
  BY DEF NewTask, Referring, Open, Handling, Making, ReleaseSteps
<1>6. ASSUME NEW t \in Tasks PROVE RefTask(t)'
  <2>1. CASE task'[t] = NewTask
    BY <1>5, <2>1 DEF RefTask, LastOne, ForcedOK, HandleOK, Fresh
  <2>2. CASE task'[t] = task[t]
    <3>1. \A u \in Tasks : /\ Referring(u)' => Referring(u) /\ task'[u].rec = task[u].rec
                           /\ Handling(u)' => Handling(u) /\ task'[u].rec = task[u].rec
      BY <1>2, <1>5 DEF Referring, Open, Handling
    <3>2. LastOne(t)' /\ ForcedOK(t)' /\ HandleOK(t)'
      BY <1>3, <2>2, <3>1 DEF LastOne, ForcedOK, HandleOK, Handling, RefsOK, RefTask
    <3>3. Making(t) => task[t].rec \in Records
      BY DEF Local, TaskOK
    <3>4. Fresh(t)'
      BY <1>1, <2>2, <3>1, <3>3, LockAssumption DEF Fresh, Making, RefsOK, RefTask
    <3> QED BY <3>2, <3>4 DEF RefTask
  <2> QED BY <1>2, <2>1, <2>2
<1> QED BY <1>4, <1>6 DEF RefsOK

LEMMA RefsNext ==
  ASSUME DrainsSucceed, TypeOK, Local, RefsOK, [Next]_vars
  PROVE  RefsOK'
<1>1. ASSUME NEW t \in Tasks, Call(t) \/ AcquireStep(t) \/ ReclaimStep(t)
      PROVE  RefsOK'
  <2>1. ForcedOK(t)
    BY DEF RefsOK, RefTask
  <2> QED
    BY <1>1, <2>1, AcquireQuiet, ReclaimQuiet, QuietRefs, ReuseRefs, CreateRefs, RegisterRefs
       DEF AcquireStep
<1>2. CASE UNCHANGED vars
  BY <1>2
     DEF vars, disk, RefsOK, RefTask, Counted, References, Forced, LastOne, ForcedOK, HandleOK,
         Fresh, Referring, Open, Handling, Making
<1> QED BY <1>1, <1>2, HandleRefs, DrainRefs, ReleaseRefs, ProcessRefs DEF Next

LEMMA RefsInit == Init => RefsOK
<1> SUFFICES ASSUME Init PROVE RefsOK
  OBVIOUS
<1>1. \A p \in Procs : mgr[p].held = NoRecord
  BY DEF Init, NewManager
<1>2. \A t \in Tasks : task[t].pc = "idle" /\ task[t].then = "end"
  BY DEF Init, NewTask
<1> QED
  BY <1>1, <1>2
     DEF RefsOK, Counted, RefTask, LastOne, ForcedOK, HandleOK, Fresh, Handling, Making, ReleaseSteps

\* The lock file stays until the last handle is released: for any number of
\* processes and tasks, removal by a handle begins only when every other handle
\* of the record was released, through failed releases that are tried again,
\* resets, exits and kills, and through drains as long as these succeed.
THEOREM LastHandleReleases == ASSUME DrainsSucceed PROVE Spec => []LastReferenceReleases
<1>1. (TypeOK /\ Local /\ RefsOK) /\ [Next]_vars => (TypeOK /\ Local /\ RefsOK)'
  BY LocalNext, RefsNext
<1> QED BY <1>1, TypeInit, LocalInit, RefsInit, RefsCounted, PTL DEF Spec
=============================================================================
